--------------------------- MODULE MCEventWorkers ---------------------------
(* The workers of server.ts in the order it starts them.                   *)
EXTENDS EventWorkers

MCStartup == <<"projection", "analytics", "audit">>
MCWorkers == ToSet(MCStartup)
=============================================================================

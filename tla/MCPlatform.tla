----------------------------- MODULE MCPlatform -----------------------------
(***************************************************************************)
(* The components that share no state, in one run: each behaviour is a     *)
(* behaviour of one of them, chosen in the initial state, while the others *)
(* rest.  The reachable states are the sum, not the product, of theirs.    *)
(***************************************************************************)
EXTENDS EventStore, DistributedLock, FeatureFlags, Cache, Migrations,
        WebhookRegistry, Server, Rooms, Catalogue, TLC

CONSTANTS a1, c1, c2, c3, e1, e2, R, S

MCStreamOf == (c1 :> a1) @@ (c2 :> a1) @@ (c3 :> a1)
MCSize == (c1 :> 2) @@ (c2 :> 1) @@ (c3 :> 2)

(* A creation's payload names its restaurant and sector, a cancellation's  *)
(* names neither.                                                          *)
MCBookingRooms == (e1 :> {R, S}) @@ (e2 :> {R, S})
MCPayloadRooms == (e1 :> {R, S}) @@ (e2 :> {})

VARIABLE part

Parts == {"store", "lease", "flags", "cache", "migrations", "registry", "server", "rooms", "catalogue"}

(* A part with a choice of initial states has one of them while it rests,  *)
(* and a resting process is one that has exited.                           *)
StoreRests == StoreInit /\ ~indexed
RegistryRests == RegistryInit /\ Kept = {}
ServerRests ==
  /\ boot = "serving" /\ code = 0
  /\ stopping = [s \in Signals |-> "none"]
  /\ connected = FALSE /\ closing = FALSE /\ redis = "none"
  /\ open = {} /\ answered = {} /\ joined = {}
  /\ upsets = 0

Init ==
  /\ part \in Parts
  /\ IF part = "store" THEN StoreInit ELSE StoreRests
  /\ LeaseInit /\ FlagInit /\ CacheInit /\ MigrationInit
  /\ IF part = "registry" THEN RegistryInit ELSE RegistryRests
  /\ IF part = "server" THEN ServerInit ELSE ServerRests
  /\ RoomsInit /\ CatalogueInit

Next ==
  /\ UNCHANGED part
  /\ \/ part = "store" /\ StoreNext
     \/ part # "store" /\ UNCHANGED storeVars
  /\ \/ part = "lease" /\ LeaseNext
     \/ part # "lease" /\ UNCHANGED dlockVars
  /\ \/ part = "flags" /\ FlagNext
     \/ part # "flags" /\ UNCHANGED flagVars
  /\ \/ part = "cache" /\ CacheNext
     \/ part # "cache" /\ UNCHANGED cacheVars
  /\ \/ part = "migrations" /\ MigrationNext
     \/ part # "migrations" /\ UNCHANGED migrationVars
  /\ \/ part = "registry" /\ RegistryNext
     \/ part # "registry" /\ UNCHANGED registryVars
  /\ \/ part = "server" /\ ServerNext
     \/ part # "server" /\ UNCHANGED serverVars
  /\ \/ part = "rooms" /\ RoomsNext
     \/ part # "rooms" /\ UNCHANGED roomVars
  /\ \/ part = "catalogue" /\ CatalogueNext
     \/ part # "catalogue" /\ UNCHANGED catalogueVars

vars == <<part, storeVars, dlockVars, flagVars, cacheVars, migrationVars,
          registryVars, serverVars, roomVars, catalogueVars>>

Spec ==
  /\ Init /\ [][Next]_vars
  /\ ServerFairness

TypeOK ==
  /\ StoreTypeOK /\ LeaseTypeOK /\ FlagTypeOK /\ CacheTypeOK /\ MigrationTypeOK
  /\ RegistryTypeOK /\ ServerTypeOK /\ RoomsTypeOK /\ CatalogueTypeOK
=============================================================================

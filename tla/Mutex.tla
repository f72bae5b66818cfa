------------------------------- MODULE Mutex -------------------------------
(***************************************************************************)
(* What a keyed lock promises: at any time a caller is inside at most one  *)
(* key, and a key has at most one caller inside.  How callers queue is not *)
(* part of the promise.  LockService implements this module.               *)
(***************************************************************************)
CONSTANTS
  Callers,  \* who takes locks
  Keys      \* the lock names

VARIABLE inside   \* the pairs <<c, k>> of a caller c inside its lock k

Init == inside = {}

\* Nobody is inside k and c is inside nothing: c gets in.
Enter(c, k) ==
  /\ \A d \in Callers : <<d, k>> \notin inside
  /\ \A l \in Keys : <<c, l>> \notin inside
  /\ inside' = inside \cup {<<c, k>>}

Leave(c, k) ==
  /\ <<c, k>> \in inside
  /\ inside' = inside \ {<<c, k>>}

\* The process of the callers in S stops: all of them are out.
Abandon(S) ==
  inside' = {p \in inside : p[1] \notin S}

Next ==
  \/ \E c \in Callers, k \in Keys : Enter(c, k) \/ Leave(c, k)
  \/ \E S \in SUBSET Callers : Abandon(S)

Spec == Init /\ [][Next]_inside
=============================================================================

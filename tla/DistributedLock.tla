-------------------------- MODULE DistributedLock --------------------------
(***************************************************************************)
(* infrastructure/caching/distributed-lock.service.ts over acquireLock and *)
(* releaseLock of redis-client.ts: SET NX EX, and a DEL that does not look *)
(* at the token the SET stored.  The entry expires by itself; the function *)
(* run under the lock has no time limit and is not told.                   *)
(***************************************************************************)
CONSTANTS
  Holders,   \* calls of withLock
  LockKeys,
  Nobody

ASSUME NobodyAssumption == Nobody \notin Holders \cup LockKeys

VARIABLES
  lease,     \* Redis: key -> the call whose token is stored, or Nobody
  running,   \* the key under which each call runs its function, or Nobody
  stray,     \* history: calls that still ran when their entry was gone
  late       \* history: calls that have once outlived their time to live

dlockVars == <<lease, running, stray, late>>

LeaseTypeOK ==
  /\ lease \in [LockKeys -> Holders \cup {Nobody}]
  /\ running \in [Holders -> LockKeys \cup {Nobody}]
  /\ stray \subseteq Holders
  /\ late \subseteq Holders

LeaseInit ==
  /\ lease = [k \in LockKeys |-> Nobody]
  /\ running = [h \in Holders |-> Nobody]
  /\ stray = {}
  /\ late = {}

Dropped(k) == {h \in Holders : lease[k] = h /\ running[h] = k}

(* Variant: SET without NX.                                                *)
AcquireOverwriting(h, k) ==
  /\ running[h] = Nobody
  /\ lease' = [lease EXCEPT ![k] = h]
  /\ running' = [running EXCEPT ![h] = k]
  /\ stray' = stray \ {h}
  /\ UNCHANGED late

(* SET NX answers OK and fn starts; otherwise withLock throws and nothing  *)
(* is changed.                                                             *)
AcquireLease(h, k) ==
  /\ running[h] = Nobody
  /\ lease[k] = Nobody
  /\ lease' = [lease EXCEPT ![k] = h]
  /\ running' = [running EXCEPT ![h] = k]
  /\ stray' = stray \ {h}
  /\ UNCHANGED late

(* External: Redis drops the entry when its time is over.                  *)
ExpireLease(k) ==
  /\ lease[k] # Nobody
  /\ lease' = [lease EXCEPT ![k] = Nobody]
  /\ stray' = stray \cup Dropped(k)
  /\ late' = late \cup Dropped(k)
  /\ UNCHANGED running

(* finally: DEL, whoever's entry it is.                                    *)
ReleaseLease(h) ==
  /\ running[h] # Nobody
  /\ lease' = [lease EXCEPT ![running[h]] = Nobody]
  /\ running' = [running EXCEPT ![h] = Nobody]
  /\ stray' = (stray \cup Dropped(running[h])) \ {h}
  /\ UNCHANGED late

(* External: the process dies while fn runs.                               *)
LoseHolder(h) ==
  /\ running[h] # Nobody
  /\ running' = [running EXCEPT ![h] = Nobody]
  /\ stray' = stray \ {h}
  /\ UNCHANGED <<lease, late>>

LeaseNext ==
  \/ \E h \in Holders : \/ \E k \in LockKeys : AcquireLease(h, k)
                        \/ ReleaseLease(h)
                        \/ LoseHolder(h)
  \/ \E k \in LockKeys : ExpireLease(k)

LeaseSpec == LeaseInit /\ [][LeaseNext]_dlockVars

-----------------------------------------------------------------------------
(* Two calls run under one key only if one of them has lost its entry: the *)
(* lock excludes while entries outlive the functions run under them.       *)
OverlapNeedsLostEntry ==
  \A h, i \in Holders :
    h # i /\ running[h] # Nobody /\ running[h] = running[i] => h \in stray \/ i \in stray

(* The first entry to be lost is lost to time: if no call has outlived its *)
(* time to live, none has lost its entry to another call's DEL.            *)
TimelyCallsKeepEntries ==
  late = {} => stray = {}
=============================================================================

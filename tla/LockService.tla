---------------------------- MODULE LockService ----------------------------
(***************************************************************************)
(* domain/services/lock.service.ts: the in-memory lock of one Node         *)
(* process.  `locks' is its Map from a key to the promise of the call that *)
(* set it; the promise is identified by that caller.  A call that finds    *)
(* the key in the map awaits the promise it found, and when the promise    *)
(* resolves it is put back on the microtask queue and tests the map AGAIN: *)
(* between the two another call may have taken the key.                    *)
(*                                                                         *)
(* The operators take the caller and the key, so that a module composing   *)
(* this one can conjoin them with its own part of the step.                *)
(***************************************************************************)
CONSTANTS
  Callers,  \* calls to acquire(key, fn); a caller makes one call at a time
  Keys,     \* trimmed lock keys
  NoOne      \* no caller, no key

ASSUME NoOneAssumption == NoOne \notin Callers \cup Keys

VARIABLES
  locks,    \* the Map: key -> the caller whose promise is stored under it
  phase,    \* where each caller is in acquire
  wanted,   \* the key argument of each caller's call
  awaits    \* the caller whose promise a waiting caller awaits

vars == <<locks, phase, wanted, awaits>>

Phases == {"idle", "waiting", "woken", "inside"}

TypeOK ==
  /\ DOMAIN locks \subseteq Keys
  /\ locks \in [DOMAIN locks -> Callers]
  /\ phase \in [Callers -> Phases]
  /\ wanted \in [Callers -> Keys \cup {NoOne}]
  /\ awaits \in [Callers -> Callers \cup {NoOne}]

Init ==
  /\ locks = [k \in {} |-> NoOne]
  /\ phase = [c \in Callers |-> "idle"]
  /\ wanted = [c \in Callers |-> NoOne]
  /\ awaits = [c \in Callers |-> NoOne]

-----------------------------------------------------------------------------
(* locks.has(k) is false: the promise is stored and fn starts, with no     *)
(* await in between.                                                       *)
Enter(c, k) ==
  /\ k \notin DOMAIN locks
  /\ locks' = [l \in DOMAIN locks \cup {k} |-> IF l = k THEN c ELSE locks[l]]
  /\ phase' = [phase EXCEPT ![c] = "inside"]
  /\ UNCHANGED awaits

(* locks.has(k) is true: await locks.get(k).                               *)
Wait(c, k) ==
  /\ k \in DOMAIN locks
  /\ phase' = [phase EXCEPT ![c] = "waiting"]
  /\ awaits' = [awaits EXCEPT ![c] = locks[k]]
  /\ UNCHANGED locks

(* Variant for the mutation runs: the entry is stored under the untrimmed  *)
(* key.                                                                    *)
AcquireUntrimmed(c, k) ==
  /\ phase[c] = "idle"
  /\ wanted' = [wanted EXCEPT ![c] = <<"untrimmed", k>>]
  /\ Enter(c, wanted'[c])

(* The call: the loop's first test is made in the caller's own turn.       *)
Acquire(c, k) ==
  /\ phase[c] = "idle"
  /\ wanted' = [wanted EXCEPT ![c] = k]
  /\ Enter(c, k) \/ Wait(c, k)

(* Variant: `if' instead of `while', the woken caller does not test again. *)
RetryWithoutTest(c) ==
  /\ phase[c] = "woken"
  /\ locks' = [l \in DOMAIN locks \cup {wanted[c]} |->
                 IF l = wanted[c] THEN c ELSE locks[l]]
  /\ phase' = [phase EXCEPT ![c] = "inside"]
  /\ UNCHANGED <<wanted, awaits>>

(* The awaited promise has resolved: the loop tests the map again.         *)
Retry(c) ==
  /\ phase[c] = "woken"
  /\ Enter(c, wanted[c]) \/ Wait(c, wanted[c])
  /\ UNCHANGED wanted

(* Variant: the entry is deleted but the promise never resolves.           *)
ReleaseWithoutWake(c) ==
  /\ phase[c] = "inside"
  /\ locks' = [l \in DOMAIN locks \ {wanted[c]} |-> locks[l]]
  /\ phase' = [phase EXCEPT ![c] = "idle"]
  /\ wanted' = [wanted EXCEPT ![c] = NoOne]
  /\ UNCHANGED awaits

(* Variant: the promise resolves but its entry stays in the map.           *)
ReleaseKeepsEntry(c) ==
  /\ phase[c] = "inside"
  /\ phase' = [d \in Callers |->
                 IF d = c THEN "idle"
                 ELSE IF phase[d] = "waiting" /\ awaits[d] = c THEN "woken"
                 ELSE phase[d]]
  /\ wanted' = [wanted EXCEPT ![c] = NoOne]
  /\ awaits' = [d \in Callers |-> IF awaits[d] = c THEN NoOne ELSE awaits[d]]
  /\ UNCHANGED locks

(* The finally block, whether fn returned or threw: the entry under the    *)
(* key is deleted, whoever's it is, and c's promise resolves, which makes  *)
(* every caller that awaits it runnable.                                   *)
Release(c) ==
  /\ phase[c] = "inside"
  /\ locks' = [l \in DOMAIN locks \ {wanted[c]} |-> locks[l]]
  /\ phase' = [d \in Callers |->
                 IF d = c THEN "idle"
                 ELSE IF phase[d] = "waiting" /\ awaits[d] = c THEN "woken"
                 ELSE phase[d]]
  /\ wanted' = [wanted EXCEPT ![c] = NoOne]
  /\ awaits' = [d \in Callers |-> IF awaits[d] = c THEN NoOne ELSE awaits[d]]

-----------------------------------------------------------------------------
(* External: the process running the calls in S dies and its memory with   *)
(* it.  S is closed under "shares a key with", since a map is private to   *)
(* its process.                                                            *)
Abandon(S) ==
  /\ \A c \in S, d \in Callers : wanted[c] # NoOne /\ wanted[d] = wanted[c] => d \in S
  /\ locks' = [l \in {k \in DOMAIN locks : locks[k] \notin S} |-> locks[l]]
  /\ phase' = [c \in Callers |-> IF c \in S THEN "idle" ELSE phase[c]]
  /\ wanted' = [c \in Callers |-> IF c \in S THEN NoOne ELSE wanted[c]]
  /\ awaits' = [c \in Callers |-> IF c \in S THEN NoOne ELSE awaits[c]]

Next ==
  \/ \E c \in Callers, k \in Keys : Acquire(c, k)
  \/ \E c \in Callers : Retry(c) \/ Release(c)
  \/ \E S \in SUBSET Callers : Abandon(S)

Spec == Init /\ [][Next]_vars

(* Node runs every queued microtask, and the functions passed to acquire   *)
(* finish (their awaits are database and broker calls with timeouts).      *)
Fairness == \A c \in Callers : WF_vars(Retry(c)) /\ WF_vars(Release(c))

FairSpec == Spec /\ Fairness

-----------------------------------------------------------------------------
(* Two calls are never both inside the function they passed for the same   *)
(* key (LockService.acquire, lines 13-34).                                 *)
MutualExclusion ==
  \A c, d \in Callers :
    phase[c] = "inside" /\ phase[d] = "inside" /\ wanted[c] = wanted[d] => c = d

(* The map holds exactly the promises of the calls that are inside: a      *)
(* finally block deletes its own entry and leaves none behind.             *)
MapMatchesHolders ==
  /\ \A c \in Callers :
       phase[c] = "inside" => wanted[c] \in DOMAIN locks /\ locks[wanted[c]] = c
  /\ \A k \in DOMAIN locks : phase[locks[k]] = "inside" /\ wanted[locks[k]] = k

(* No lost wake-up: a waiting call awaits the promise of a call that is    *)
(* still inside the same key, so a release is still to come.               *)
NoLostWakeup ==
  \A c \in Callers :
    phase[c] = "waiting" =>
      /\ awaits[c] \in Callers
      /\ phase[awaits[c]] = "inside"
      /\ wanted[awaits[c]] = wanted[c]

(* Nothing is lost between a release and the loop's next test: a call that *)
(* waits or was woken still wants its key.                                 *)
PendingCallsHaveKeys ==
  \A c \in Callers : phase[c] # "idle" <=> wanted[c] # NoOne

LockInv == TypeOK /\ MapMatchesHolders /\ NoLostWakeup /\ PendingCallsHaveKeys

(* Every waiting call is woken: the loop of acquire does not park a caller *)
(* for ever.  (It may be overtaken when it tests again: a later call can   *)
(* take the key first, so entry itself is not promised.)                   *)
WaitersAreWoken ==
  \A c \in Callers : phase[c] = "waiting" ~> phase[c] # "waiting"

(* The promise of the lock, without the queue.                             *)
inside == {<<c, wanted[c]>> : c \in {d \in Callers : phase[d] = "inside"}}
Abstract == INSTANCE Mutex
ImplementsMutex == Abstract!Spec
=============================================================================

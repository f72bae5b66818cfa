------------------------- MODULE LockService_proof -------------------------
(***************************************************************************)
(* Proofs about LockService for any sets of callers and keys.              *)
(***************************************************************************)
EXTENDS LockService, TLAPS

Typed == TypeOK /\ PendingCallsHaveKeys

(* The variables keep their types, and exactly the calls in progress have  *)
(* a key.  The second is needed for the first: a woken call stores its     *)
(* promise under the key it wants, which must be a key.                    *)
LEMMA TypedInvariant == Spec => []Typed
<1>1. Init => Typed
  BY NoOneAssumption DEF Init, Typed, TypeOK, PendingCallsHaveKeys, Phases
<1>2. Typed /\ [Next]_vars => Typed'
  <2> SUFFICES ASSUME Typed, [Next]_vars PROVE Typed'
    OBVIOUS
  <2> USE NoOneAssumption DEF Typed, TypeOK, PendingCallsHaveKeys, Phases
  <2>1. ASSUME NEW c \in Callers, NEW k \in Keys, Acquire(c, k) PROVE Typed'
    BY <2>1 DEF Acquire, Enter, Wait
  <2>2. ASSUME NEW c \in Callers, Retry(c) PROVE Typed'
    <3> wanted[c] \in Keys
      BY <2>2 DEF Retry
    <3>1. CASE Enter(c, wanted[c])
      BY <2>2, <3>1 DEF Retry, Enter
    <3>2. CASE Wait(c, wanted[c])
      BY <2>2, <3>2 DEF Retry, Wait
    <3> QED BY <2>2, <3>1, <3>2 DEF Retry
  <2>3. ASSUME NEW c \in Callers, Release(c) PROVE Typed'
    BY <2>3 DEF Release
  <2>4. ASSUME NEW S \in SUBSET Callers, Abandon(S) PROVE Typed'
    BY <2>4 DEF Abandon
  <2>5. CASE UNCHANGED vars
    BY <2>5 DEF vars
  <2> QED BY <2>1, <2>2, <2>3, <2>4, <2>5 DEF Next
<1> QED BY <1>1, <1>2, PTL DEF Spec

(* The variables keep their types.                                         *)
THEOREM Typing == Spec => []TypeOK
BY TypedInvariant, PTL DEF Typed

-----------------------------------------------------------------------------
(* The map holds exactly the promises of the calls inside.                 *)
THEOREM HoldersInvariant == Spec => []MapMatchesHolders
<1>1. Init => MapMatchesHolders
  BY DEF Init, MapMatchesHolders
<1>2. Typed /\ MapMatchesHolders /\ [Next]_vars => MapMatchesHolders'
  <2> SUFFICES ASSUME Typed, MapMatchesHolders, [Next]_vars
               PROVE MapMatchesHolders'
    OBVIOUS
  <2> USE NoOneAssumption
      DEF Typed, TypeOK, PendingCallsHaveKeys, Phases, MapMatchesHolders
  <2>1. ASSUME NEW c \in Callers, NEW k \in Keys, Acquire(c, k)
        PROVE MapMatchesHolders'
    BY <2>1 DEF Acquire, Enter, Wait
  <2>2. ASSUME NEW c \in Callers, Retry(c) PROVE MapMatchesHolders'
    <3> wanted[c] \in Keys
      BY <2>2 DEF Retry
    <3>1. CASE Enter(c, wanted[c])
      BY <2>2, <3>1 DEF Retry, Enter
    <3>2. CASE Wait(c, wanted[c])
      BY <2>2, <3>2 DEF Retry, Wait
    <3> QED BY <2>2, <3>1, <3>2 DEF Retry
  <2>3. ASSUME NEW c \in Callers, Release(c) PROVE MapMatchesHolders'
    BY <2>3 DEF Release
  <2>4. ASSUME NEW S \in SUBSET Callers, Abandon(S) PROVE MapMatchesHolders'
    BY <2>4 DEF Abandon
  <2>5. CASE UNCHANGED vars
    BY <2>5 DEF vars
  <2> QED BY <2>1, <2>2, <2>3, <2>4, <2>5 DEF Next
<1> QED BY <1>1, <1>2, TypedInvariant, PTL DEF Spec

(* No two calls are inside the same key: each would be the one caller      *)
(* stored under it.                                                        *)
THEOREM MutualExclusionHolds == Spec => []MutualExclusion
<1>1. MapMatchesHolders => MutualExclusion
  BY DEF MapMatchesHolders, MutualExclusion
<1> QED BY <1>1, HoldersInvariant, PTL

(* A waiting call awaits a call that is inside its key.                    *)
THEOREM NoLostWakeupHolds == Spec => []NoLostWakeup
<1>1. Init => NoLostWakeup
  BY DEF Init, NoLostWakeup
<1>2. Typed /\ MapMatchesHolders /\ NoLostWakeup /\ [Next]_vars => NoLostWakeup'
  <2> SUFFICES ASSUME Typed, MapMatchesHolders, NoLostWakeup, [Next]_vars
               PROVE NoLostWakeup'
    OBVIOUS
  <2> USE NoOneAssumption
      DEF Typed, TypeOK, PendingCallsHaveKeys, Phases, MapMatchesHolders, NoLostWakeup
  <2>1. ASSUME NEW c \in Callers, NEW k \in Keys, Acquire(c, k)
        PROVE NoLostWakeup'
    BY <2>1 DEF Acquire, Enter, Wait
  <2>2. ASSUME NEW c \in Callers, Retry(c) PROVE NoLostWakeup'
    <3> wanted[c] \in Keys
      BY <2>2 DEF Retry
    <3>1. CASE Enter(c, wanted[c])
      BY <2>2, <3>1 DEF Retry, Enter
    <3>2. CASE Wait(c, wanted[c])
      BY <2>2, <3>2 DEF Retry, Wait
    <3> QED BY <2>2, <3>1, <3>2 DEF Retry
  <2>3. ASSUME NEW c \in Callers, Release(c) PROVE NoLostWakeup'
    BY <2>3 DEF Release
  <2>4. ASSUME NEW S \in SUBSET Callers, Abandon(S) PROVE NoLostWakeup'
    BY <2>4 DEF Abandon
  <2>5. CASE UNCHANGED vars
    BY <2>5 DEF vars
  <2> QED BY <2>1, <2>2, <2>3, <2>4, <2>5 DEF Next
<1> QED BY <1>1, <1>2, TypedInvariant, HoldersInvariant, PTL DEF Spec

-----------------------------------------------------------------------------
(* The lock service implements Mutex: a step that stores a promise is an   *)
(* Enter, a finally block is a Leave, everything else stutters.            *)
THEOREM Implementation == Spec => ImplementsMutex
<1>1. Init => Abstract!Init
  BY DEF Init, Abstract!Init, inside
<1>2. Typed /\ MapMatchesHolders /\ [Next]_vars => [Abstract!Next]_inside
  <2> SUFFICES ASSUME Typed, MapMatchesHolders, [Next]_vars
               PROVE [Abstract!Next]_inside
    OBVIOUS
  <2> USE NoOneAssumption
      DEF Typed, TypeOK, PendingCallsHaveKeys, Phases, MapMatchesHolders
  <2>1. ASSUME NEW c \in Callers, NEW k \in Keys, phase[c] # "inside",
               Enter(c, k), wanted' = [wanted EXCEPT ![c] = k]
        PROVE Abstract!Enter(c, k)
    <3>1. \A d \in Callers : <<d, k>> \notin inside
      BY <2>1 DEF Enter, inside
    <3>2. \A l \in Keys : <<c, l>> \notin inside
      BY <2>1 DEF inside
    <3>3. inside' = inside \cup {<<c, k>>}
      BY <2>1 DEF Enter, inside
    <3> QED BY <3>1, <3>2, <3>3 DEF Abstract!Enter
  <2>2. ASSUME NEW c \in Callers, NEW k \in Keys, phase[c] # "inside",
               Wait(c, k), wanted' = [wanted EXCEPT ![c] = k]
        PROVE UNCHANGED inside
    BY <2>2 DEF Wait, inside
  <2>3. ASSUME NEW c \in Callers, NEW k \in Keys, Acquire(c, k)
        PROVE [Abstract!Next]_inside
    BY <2>1, <2>2, <2>3 DEF Acquire, Abstract!Next
  <2>4. ASSUME NEW c \in Callers, Retry(c) PROVE [Abstract!Next]_inside
    <3>1. wanted[c] \in Keys /\ phase[c] # "inside"
      BY <2>4 DEF Retry
    <3>2. wanted' = [wanted EXCEPT ![c] = wanted[c]]
      BY <2>4 DEF Retry
    <3> QED BY <2>1, <2>2, <2>4, <3>1, <3>2 DEF Retry, Abstract!Next
  <2>5. ASSUME NEW c \in Callers, Release(c) PROVE [Abstract!Next]_inside
    <3>1. <<c, wanted[c]>> \in inside
      BY <2>5 DEF Release, inside
    <3>2. inside' = inside \ {<<c, wanted[c]>>}
      BY <2>5 DEF Release, inside
    <3> QED BY <2>5, <3>1, <3>2 DEF Release, Abstract!Leave, Abstract!Next
  <2>6. ASSUME NEW S \in SUBSET Callers, Abandon(S) PROVE [Abstract!Next]_inside
    <3>1. inside' = {p \in inside : p[1] \notin S}
      BY <2>6 DEF Abandon, inside
    <3> QED BY <3>1 DEF Abstract!Abandon, Abstract!Next
  <2>7. CASE UNCHANGED vars
    BY <2>7 DEF vars, inside
  <2> QED BY <2>3, <2>4, <2>5, <2>6, <2>7 DEF Next
<1> QED
  BY <1>1, <1>2, TypedInvariant, HoldersInvariant, PTL
     DEF Spec, ImplementsMutex, Abstract!Spec
=============================================================================

---------------------------- MODULE Stores_proof -----------------------------
(***************************************************************************)
(* What the processes share.                                               *)
(*                                                                         *)
(* In the database: the event store, for any aggregates, calls and sizes   *)
(* of batches: its versions have no gaps, with the unique index they are   *)
(* unique, whole batches are stored, and it implements EventLog.  The      *)
(* catalogue, for any ids, admin requests and create calls: what a         *)
(* document names exists, and a table is booked twice only for one of the  *)
(* three reasons DoubledTablesHaveACause names.                            *)
(*                                                                         *)
(* In Redis: the lock, for any callers and keys; the cache, for any        *)
(* readers; the feature flag, for any processes.                           *)
(***************************************************************************)
EXTENDS EventStore, Catalogue, DistributedLock, Cache, FeatureFlags, TLAPS

(* The event store.                                                        *)
(* What a call that may still insert knows of its aggregate: the events    *)
(* up to the one it will write are there.                                  *)
CallsBuildOnTheLog ==
  \A c \in Calls :
    stage[c] \in {"loaded", "checked"} =>
      1 .. expected[c] + inserted[c] \subseteq Versions(StreamOf[c])

(* How far a call has come.                                                *)
CallsKeepCount ==
  \A c \in Calls :
    /\ stage[c] \in {"new", "loaded"} => inserted[c] = 0
    /\ stage[c] = "checked" => inserted[c] < Size[c]
    /\ stage[c] = "appended" => inserted[c] = Size[c]
    /\ \A i \in 1 .. inserted[c] : <<expected[c] + i, c>> \in stored[StreamOf[c]]

VersionsArePositive == \A a \in Aggregates : 0 \notin Versions(a)

StoreInv ==
  /\ StoreTypeOK
  /\ VersionsArePositive
  /\ VersionsHaveNoGaps
  /\ VersionsAreUnique
  /\ CallsBuildOnTheLog
  /\ CallsKeepCount

-----------------------------------------------------------------------------
LEMMA VersionsType == ASSUME StoreTypeOK, NEW a \in Aggregates PROVE Versions(a) \subseteq Nat
  BY DEF StoreTypeOK, Versions

LEMMA StoreInitInv == StoreInit => StoreInv
<1> SUFFICES ASSUME StoreInit
             PROVE  StoreInv
  OBVIOUS
<1>1. \A a \in Aggregates : Versions(a) = {}
  BY DEF StoreInit, Versions
<1>2. StoreTypeOK
  BY DEF StoreInit, StoreTypeOK, Stages
<1>3. CallsBuildOnTheLog
  BY DEF StoreInit, CallsBuildOnTheLog
<1>4. CallsKeepCount
  BY StoreAssumption DEF StoreInit, CallsKeepCount
<1>5. VersionsAreUnique
  BY DEF StoreInit, VersionsAreUnique, SingleWriter
<1> QED BY <1>1, <1>2, <1>3, <1>4, <1>5 DEF StoreInv, VersionsArePositive, VersionsHaveNoGaps

(* getEventStream: the latest version and all before it are there.         *)
LEMMA LoadInv ==
  ASSUME StoreInv, NEW c \in Calls, Load(c)
  PROVE  StoreInv'
<1> DEFINE a == StreamOf[c]
<1>0. a \in Aggregates /\ Versions(a) \subseteq Nat
  BY StoreAssumption, VersionsType DEF StoreInv
<1>1. PICK v \in Versions(a) \cup {0} : expected' = [expected EXCEPT ![c] = v]
  BY DEF Load
<1>2. StoreTypeOK'
  BY <1>0, <1>1 DEF StoreInv, StoreTypeOK, Load, Move, Stages
<1>3. \A b \in Aggregates : Versions(b)' = Versions(b)
  BY DEF Versions, Load
<1>4. CallsBuildOnTheLog'
  <2> SUFFICES ASSUME NEW d \in Calls, stage'[d] \in {"loaded", "checked"}
               PROVE  1 .. expected'[d] + inserted'[d] \subseteq Versions(StreamOf[d])
    BY <1>3, StoreAssumption DEF CallsBuildOnTheLog, Load
  <2>1. CASE d = c
    <3>1. expected'[c] = v /\ inserted'[c] = 0
      BY <1>1 DEF StoreInv, StoreTypeOK, CallsKeepCount, Load
    <3>2. 1 .. v \subseteq Versions(a)
      BY <1>0, <1>1 DEF StoreInv, VersionsHaveNoGaps
    <3> QED BY <2>1, <3>1, <3>2, <1>0, <1>1
  <2>2. CASE d # c
    BY <2>2, <1>1 DEF StoreInv, StoreTypeOK, CallsBuildOnTheLog, Load, Move
  <2> QED BY <2>1, <2>2
<1>5. CallsKeepCount'
  <2> SUFFICES ASSUME NEW d \in Calls
               PROVE  /\ stage'[d] \in {"new", "loaded"} => inserted'[d] = 0
                      /\ stage'[d] = "checked" => inserted'[d] < Size[d]
                      /\ stage'[d] = "appended" => inserted'[d] = Size[d]
                      /\ \A i \in 1 .. inserted'[d] :
                           <<expected'[d] + i, d>> \in stored'[StreamOf[d]]
    BY DEF CallsKeepCount
  <2>1. CASE d = c
    BY <2>1, <1>1 DEF StoreInv, StoreTypeOK, CallsKeepCount, Load, Move
  <2>2. CASE d # c
    BY <2>2, <1>1 DEF StoreInv, StoreTypeOK, CallsKeepCount, Load, Move
  <2> QED BY <2>1, <2>2
<1>6. (VersionsArePositive /\ VersionsHaveNoGaps /\ VersionsAreUnique)'
  BY <1>3 DEF StoreInv, VersionsArePositive, VersionsHaveNoGaps, VersionsAreUnique, SingleWriter, Load
<1> QED BY <1>2, <1>4, <1>5, <1>6 DEF StoreInv

LEMMA CheckInv ==
  ASSUME StoreInv, NEW c \in Calls, Check(c)
  PROVE  StoreInv'
<1>1. stage' \in {[stage EXCEPT ![c] = "checked"], [stage EXCEPT ![c] = "conflict"]}
  BY DEF Check, Move
<1>2. StoreTypeOK'
  BY <1>1 DEF StoreInv, StoreTypeOK, Check, Stages
<1>3. \A b \in Aggregates : Versions(b)' = Versions(b)
  BY DEF Versions, Check
<1>4. CallsBuildOnTheLog'
  BY <1>1, <1>3, StoreAssumption DEF StoreInv, StoreTypeOK, CallsBuildOnTheLog, Check
<1>5. CallsKeepCount'
  BY <1>1, StoreAssumption DEF StoreInv, StoreTypeOK, CallsKeepCount, Check
<1>6. (VersionsArePositive /\ VersionsHaveNoGaps /\ VersionsAreUnique)'
  BY <1>3 DEF StoreInv, VersionsArePositive, VersionsHaveNoGaps, VersionsAreUnique, SingleWriter, Check
<1> QED BY <1>2, <1>4, <1>5, <1>6 DEF StoreInv

-----------------------------------------------------------------------------
(* An insert either stops the call or adds one event, the next one.        *)
Inserts(c) ==
  /\ ~(indexed /\ NextVersion(c) \in Versions(StreamOf[c]))
  /\ stored' = [stored EXCEPT ![StreamOf[c]] = @ \cup {<<NextVersion(c), c>>}]
  /\ inserted' = [inserted EXCEPT ![c] = @ + 1]
  /\ stage' = [stage EXCEPT ![c] = IF inserted[c] + 1 = Size[c] THEN "appended" ELSE "checked"]

InsertFails(c) ==
  /\ stage' = [stage EXCEPT ![c] = "failed"]
  /\ UNCHANGED <<stored, inserted>>

LEMMA InsertCases ==
  ASSUME StoreInv, NEW c \in Calls, Insert(c)
  PROVE  /\ stage[c] = "checked"
         /\ UNCHANGED <<indexed, expected>>
         /\ Inserts(c) \/ InsertFails(c)
  BY DEF StoreInv, StoreTypeOK, Insert, Inserts, InsertFails, Move

(* The event an insert adds continues the log, or repeats a version.       *)
LEMMA InsertContinues ==
  ASSUME StoreInv, NEW c \in Calls, stage[c] = "checked"
  PROVE  LET a == StreamOf[c]
             v == NextVersion(c)
         IN /\ a \in Aggregates
            /\ v \in Nat \ {0}
            /\ Versions(a) \subseteq Nat
            /\ 1 .. v \subseteq Versions(a) \cup {v}
            /\ v \in Versions(a) \/ Versions(a) \cup {v} = 1 .. v
<1> DEFINE a == StreamOf[c]
           v == NextVersion(c)
<1>1. a \in Aggregates /\ Versions(a) \subseteq Nat
  BY StoreAssumption, VersionsType DEF StoreInv
<1>2. v = expected[c] + inserted[c] + 1 /\ expected[c] \in Nat /\ inserted[c] \in Nat
  BY DEF NextVersion, StoreInv, StoreTypeOK
<1>3. 1 .. expected[c] + inserted[c] \subseteq Versions(a)
  BY DEF StoreInv, CallsBuildOnTheLog
<1>4. 1 .. v \subseteq Versions(a) \cup {v}
  BY <1>2, <1>3
<1>5. ASSUME v \notin Versions(a)
      PROVE  Versions(a) \subseteq 1 .. v
  <2> SUFFICES ASSUME NEW w \in Versions(a)
               PROVE  w \in 1 .. v
    OBVIOUS
  <2>1. w \in Nat \ {0} /\ 1 .. w \subseteq Versions(a)
    BY <1>1 DEF StoreInv, VersionsArePositive, VersionsHaveNoGaps
  <2>2. v \notin 1 .. w
    BY <2>1, <1>5
  <2> QED BY <2>1, <2>2, <1>2
<1> HIDE DEF a, v
<1>6. v \in Versions(a) \/ Versions(a) \cup {v} = 1 .. v
  BY <1>2, <1>4, <1>5
<1> QED BY <1>1, <1>2, <1>4, <1>6 DEF a, v

LEMMA InsertVersions ==
  ASSUME StoreInv, NEW c \in Calls, Inserts(c), NEW b \in Aggregates
  PROVE  Versions(b)' = IF b = StreamOf[c] THEN Versions(b) \cup {NextVersion(c)} ELSE Versions(b)
<1>1. CASE b = StreamOf[c]
  <2>1. stored'[b] = stored[b] \cup {<<NextVersion(c), c>>}
    BY <1>1 DEF Inserts, StoreInv, StoreTypeOK
  <2>2. Versions(b)' = {e[1] : e \in stored'[b]}
    BY DEF Versions
  <2>3. <<NextVersion(c), c>>[1] = NextVersion(c)
    OBVIOUS
  <2>4. {e[1] : e \in stored'[b]} = {e[1] : e \in stored[b]} \cup {NextVersion(c)}
    BY <2>1, <2>3
  <2> QED BY <1>1, <2>2, <2>4 DEF Versions
<1>2. CASE b # StreamOf[c]
  BY <1>2 DEF Inserts, StoreInv, StoreTypeOK, Versions
<1> QED BY <1>1, <1>2

LEMMA InsertInv ==
  ASSUME StoreInv, NEW c \in Calls, Insert(c)
  PROVE  StoreInv'
<1> DEFINE a == StreamOf[c]
           v == NextVersion(c)
<1>1. stage[c] = "checked" /\ UNCHANGED <<indexed, expected>> /\ (Inserts(c) \/ InsertFails(c))
  BY InsertCases
<1>2. CASE InsertFails(c)
  <2>1. \A b \in Aggregates : Versions(b)' = Versions(b)
    BY <1>2 DEF InsertFails, Versions
  <2>2. StoreTypeOK'
    BY <1>1, <1>2 DEF StoreInv, StoreTypeOK, Stages, InsertFails
  <2>3. CallsBuildOnTheLog'
    <3> SUFFICES ASSUME NEW d \in Calls, stage'[d] \in {"loaded", "checked"}
                 PROVE  1 .. expected[d] + inserted[d] \subseteq Versions(StreamOf[d])'
      BY <1>1, <1>2 DEF CallsBuildOnTheLog, InsertFails
    <3>1. d # c /\ stage'[d] = stage[d]
      BY <1>2 DEF InsertFails, StoreInv, StoreTypeOK
    <3>2. Versions(StreamOf[d])' = Versions(StreamOf[d])
      BY <2>1, StoreAssumption
    <3> QED BY <3>1, <3>2 DEF StoreInv, CallsBuildOnTheLog
  <2>4. CallsKeepCount'
    BY <1>1, <1>2 DEF StoreInv, StoreTypeOK, CallsKeepCount, InsertFails
  <2>5. (VersionsArePositive /\ VersionsHaveNoGaps /\ VersionsAreUnique)'
    BY <1>1, <1>2, <2>1
    DEF StoreInv, VersionsArePositive, VersionsHaveNoGaps, VersionsAreUnique, SingleWriter, InsertFails
  <2> QED BY <2>2, <2>3, <2>4, <2>5 DEF StoreInv
<1>3. CASE Inserts(c)
  <2>1. a \in Aggregates /\ v \in Nat \ {0} /\ Versions(a) \subseteq Nat
        /\ 1 .. v \subseteq Versions(a) \cup {v}
        /\ (v \in Versions(a) \/ Versions(a) \cup {v} = 1 .. v)
    BY <1>1, InsertContinues
  <2>2. \A b \in Aggregates :
          Versions(b)' = IF b = a THEN Versions(b) \cup {v} ELSE Versions(b)
    BY <1>3, InsertVersions
  <2>3. \A b \in Aggregates : Versions(b) \subseteq Versions(b)'
    BY <2>2
  <2>4. StoreTypeOK'
    <3>1. stored'[a] \subseteq Nat \X Calls
      BY <1>3, <2>1 DEF Inserts, StoreInv, StoreTypeOK
    <3> QED BY <1>1, <1>3, <2>1, <3>1 DEF Inserts, StoreInv, StoreTypeOK, Stages
  <2>5. CallsBuildOnTheLog'
    <3> SUFFICES ASSUME NEW d \in Calls, stage'[d] \in {"loaded", "checked"}
                 PROVE  1 .. expected[d] + inserted'[d] \subseteq Versions(StreamOf[d])'
      BY <1>1 DEF CallsBuildOnTheLog
    <3>1. CASE d = c
      <4>1. expected[c] + inserted'[c] = v
        BY <1>3 DEF Inserts, NextVersion, StoreInv, StoreTypeOK
      <4> QED BY <3>1, <4>1, <2>1, <2>2
    <3>2. CASE d # c
      <4>1. stage'[d] = stage[d] /\ inserted'[d] = inserted[d]
        BY <3>2, <1>3 DEF Inserts, StoreInv, StoreTypeOK
      <4>2. StreamOf[d] \in Aggregates
        BY StoreAssumption
      <4> QED BY <4>1, <4>2, <2>3 DEF StoreInv, CallsBuildOnTheLog
    <3> QED BY <3>1, <3>2
  <2>6. CallsKeepCount'
    <3>0. \A b \in Aggregates : stored[b] \subseteq stored'[b]
      BY <1>3, <2>1 DEF Inserts, StoreInv, StoreTypeOK
    <3> SUFFICES ASSUME NEW d \in Calls
                 PROVE  /\ stage'[d] \in {"new", "loaded"} => inserted'[d] = 0
                        /\ stage'[d] = "checked" => inserted'[d] < Size[d]
                        /\ stage'[d] = "appended" => inserted'[d] = Size[d]
                        /\ \A i \in 1 .. inserted'[d] :
                             <<expected[d] + i, d>> \in stored'[StreamOf[d]]
      BY <1>1 DEF CallsKeepCount
    <3>1. CASE d = c
      <4>1. /\ inserted'[c] = inserted[c] + 1 /\ inserted[c] \in Nat /\ expected[c] \in Nat
            /\ inserted[c] < Size[c] /\ Size[c] \in Nat
            /\ stage'[c] = IF inserted[c] + 1 = Size[c] THEN "appended" ELSE "checked"
        BY <1>1, <1>3, StoreAssumption DEF Inserts, StoreInv, StoreTypeOK, CallsKeepCount
      <4>2. <<expected[c] + inserted'[c], c>> \in stored'[a]
        <5>1. v = expected[c] + inserted'[c]
          BY <4>1 DEF NextVersion
        <5>2. <<v, c>> \in stored'[a]
          BY <1>3, <2>1 DEF Inserts, StoreInv, StoreTypeOK
        <5> QED BY <5>1, <5>2
      <4>3. \A i \in 1 .. inserted[c] : <<expected[c] + i, c>> \in stored'[a]
        BY <3>0, <2>1 DEF StoreInv, CallsKeepCount
      <4>4. \A i \in 1 .. inserted'[c] : i \in 1 .. inserted[c] \/ i = inserted'[c]
        BY <4>1
      <4>5. \A i \in 1 .. inserted'[c] : <<expected[c] + i, c>> \in stored'[a]
        BY <4>2, <4>3, <4>4
      <4> QED BY <3>1, <4>1, <4>5
    <3>2. CASE d # c
      <4>1. stage'[d] = stage[d] /\ inserted'[d] = inserted[d]
        BY <3>2, <1>3 DEF Inserts, StoreInv, StoreTypeOK
      <4>2. StreamOf[d] \in Aggregates
        BY StoreAssumption
      <4> QED BY <4>1, <4>2, <3>0 DEF StoreInv, CallsKeepCount
    <3> QED BY <3>1, <3>2
  <2>7. VersionsArePositive'
    BY <2>1, <2>2 DEF StoreInv, VersionsArePositive
  <2>8. VersionsHaveNoGaps'
    <3> SUFFICES ASSUME NEW b \in Aggregates, NEW w \in Versions(b)'
                 PROVE  1 .. w \subseteq Versions(b)'
      BY DEF VersionsHaveNoGaps
    <3>1. CASE b = a /\ w = v
      BY <3>1, <2>1, <2>2
    <3>2. CASE w \in Versions(b)
      BY <3>2, <2>3 DEF StoreInv, VersionsHaveNoGaps
    <3> QED BY <3>1, <3>2, <2>2
  <2>9. VersionsAreUnique'
    <3> SUFFICES ASSUME indexed, NEW b \in Aggregates, NEW e \in stored'[b], NEW f \in stored'[b],
                        e[1] = f[1]
                 PROVE  e = f
      BY <1>1 DEF VersionsAreUnique, SingleWriter
    <3>1. CASE b # a
      BY <3>1, <1>3, <2>1 DEF Inserts, StoreInv, StoreTypeOK, VersionsAreUnique, SingleWriter
    <3>2. CASE b = a
      <4>1. stored'[a] = stored[a] \cup {<<v, c>>}
        BY <1>3, <2>1 DEF Inserts, StoreInv, StoreTypeOK
      <4>2. \A g \in stored[a] : g[1] # v
        BY <1>3 DEF Inserts, Versions
      <4>3. \A g, i \in stored[a] : g[1] = i[1] => g = i
        BY <2>1 DEF StoreInv, VersionsAreUnique, SingleWriter
      <4> QED BY <3>2, <4>1, <4>2, <4>3
    <3> QED BY <3>1, <3>2
  <2> QED BY <2>4, <2>5, <2>6, <2>7, <2>8, <2>9 DEF StoreInv
<1> QED BY <1>1, <1>2, <1>3

LEMMA IndexInv ==
  ASSUME StoreInv, EnsureIndex
  PROVE  StoreInv'
<1>1. \A b \in Aggregates : Versions(b)' = Versions(b)
  BY DEF Versions, EnsureIndex
<1>2. VersionsAreUnique'
  BY DEF EnsureIndex, VersionsAreUnique, SingleWriter
<1> QED
  BY <1>1, <1>2, StoreAssumption
  DEF EnsureIndex, StoreInv, StoreTypeOK, VersionsArePositive, VersionsHaveNoGaps,
      CallsBuildOnTheLog, CallsKeepCount

LEMMA StoreInductive == StoreInv /\ [StoreNext]_storeVars => StoreInv'
<1> SUFFICES ASSUME StoreInv, [StoreNext]_storeVars
             PROVE  StoreInv'
  OBVIOUS
<1>1. CASE EnsureIndex
  BY <1>1, IndexInv
<1>2. ASSUME NEW c \in Calls, Load(c) \/ Check(c) \/ Insert(c)
      PROVE  StoreInv'
  BY <1>2, LoadInv, CheckInv, InsertInv
<1>3. CASE UNCHANGED storeVars
  <2>1. \A b \in Aggregates : Versions(b)' = Versions(b)
    BY <1>3 DEF Versions, storeVars
  <2> QED
    BY <1>3, <2>1, StoreAssumption
    DEF storeVars, StoreInv, StoreTypeOK, VersionsArePositive, VersionsHaveNoGaps,
        VersionsAreUnique, SingleWriter, CallsBuildOnTheLog, CallsKeepCount
<1> QED BY <1>1, <1>2, <1>3 DEF StoreNext

LEMMA StoreInvariant == StoreSpec => []StoreInv
  BY StoreInitInv, StoreInductive, PTL DEF StoreSpec

-----------------------------------------------------------------------------
(* appendEvents and its callers keep their types.                          *)
THEOREM StoreTyping == StoreSpec => []StoreTypeOK
<1>1. StoreInv => StoreTypeOK
  BY DEF StoreInv
<1> QED BY <1>1, StoreInvariant, PTL

(* An aggregate's versions have no gaps, with or without the index.        *)
THEOREM VersionsHaveNoGapsHolds == StoreSpec => []VersionsHaveNoGaps
<1>1. StoreInv => VersionsHaveNoGaps
  BY DEF StoreInv
<1> QED BY <1>1, StoreInvariant, PTL

(* Once the index exists a version has one event.                          *)
THEOREM VersionsAreUniqueHolds == StoreSpec => []VersionsAreUnique
<1>1. StoreInv => VersionsAreUnique
  BY DEF StoreInv
<1> QED BY <1>1, StoreInvariant, PTL

(* A call that returned has stored its whole batch.                        *)
THEOREM AppendsAreWholeHolds == StoreSpec => []AppendsAreWhole
<1>1. StoreInv => AppendsAreWhole
  BY DEF StoreInv, CallsKeepCount, AppendsAreWhole
<1> QED BY <1>1, StoreInvariant, PTL

-----------------------------------------------------------------------------
(* The writers of each version, as the log of EventLog.                    *)
LEMMA SlotsOf ==
  ASSUME NEW a \in Aggregates
  PROVE  Log!slots(a) = Versions(a)
  BY DEF Log!slots, slots

LEMMA InitRefines == StoreInit => Log!Init
<1> SUFFICES ASSUME StoreInit
             PROVE  Log!Init
  OBVIOUS
<1>1. \A a \in Aggregates : Versions(a) = {}
  BY DEF StoreInit, Versions
<1>2. slots = [a \in Aggregates |-> [v \in {} |-> {}]]
  BY <1>1 DEF slots
<1> QED BY <1>2 DEF Log!Init, StoreInit

LEMMA InsertRefines ==
  ASSUME StoreInv, NEW c \in Calls, Insert(c)
  PROVE  Log!Next \/ UNCHANGED <<slots, indexed>>
<1> DEFINE a == StreamOf[c]
           v == NextVersion(c)
<1>1. stage[c] = "checked" /\ UNCHANGED <<indexed, expected>> /\ (Inserts(c) \/ InsertFails(c))
  BY InsertCases
<1>2. CASE InsertFails(c)
  BY <1>1, <1>2 DEF InsertFails, slots, Versions
<1>3. CASE Inserts(c)
  <2>1. a \in Aggregates /\ v \in Nat \ {0}
        /\ (v \in Versions(a) \/ Versions(a) \cup {v} = 1 .. v)
    BY <1>1, InsertContinues
  <2>2. \A b \in Aggregates :
          Versions(b)' = IF b = a THEN Versions(b) \cup {v} ELSE Versions(b)
    BY <1>3, InsertVersions
  <2>3. \A b \in Aggregates :
          stored'[b] = IF b = a THEN stored[b] \cup {<<v, c>>} ELSE stored[b]
    BY <1>3, <2>1 DEF Inserts, StoreInv, StoreTypeOK
  <2>4. indexed => v \notin Versions(a)
    BY <1>3 DEF Inserts
  <2> DEFINE Entry(w) == (IF w \in Versions(a) THEN slots[a][w] ELSE {}) \cup (IF w = v THEN {c} ELSE {})
  <2>5. slots' = [slots EXCEPT ![a] = [w \in Versions(a) \cup {v} |-> Entry(w)]]
    <3>1. slots' = [b \in Aggregates |->
                      [w \in Versions(b)' |-> {d \in Calls : <<w, d>> \in stored'[b]}]]
      BY DEF slots
    <3>2. ASSUME NEW b \in Aggregates, b # a
          PROVE  slots'[b] = slots[b]
      BY <3>1, <3>2, <2>2, <2>3 DEF slots
    <3>3. slots'[a] = [w \in Versions(a) \cup {v} |-> {d \in Calls : <<w, d>> \in stored'[a]}]
      BY <3>1, <2>1, <2>2
    <3>4. ASSUME NEW w \in Versions(a) \cup {v}
          PROVE  {d \in Calls : <<w, d>> \in stored'[a]} = Entry(w)
      <4>1. {d \in Calls : <<w, d>> \in stored'[a]}
            = {d \in Calls : <<w, d>> \in stored[a]} \cup (IF w = v THEN {c} ELSE {})
        BY <2>1, <2>3
      <4>2. w \in Versions(a) => slots[a][w] = {d \in Calls : <<w, d>> \in stored[a]}
        BY <2>1 DEF slots
      <4>3. w \notin Versions(a) => {d \in Calls : <<w, d>> \in stored[a]} = {}
        <5> SUFFICES ASSUME NEW d \in Calls, <<w, d>> \in stored[a]
                     PROVE  w \in Versions(a)
          OBVIOUS
        <5>1. <<w, d>>[1] = w
          OBVIOUS
        <5> QED BY <5>1 DEF Versions
      <4> QED BY <4>1, <4>2, <4>3
    <3>5. slots'[a] = [w \in Versions(a) \cup {v} |-> Entry(w)]
      BY <3>3, <3>4
    <3> HIDE DEF Entry, a, v
    <3> QED BY <3>1, <3>2, <3>5 DEF slots
  <2>6. Log!Write(a, v, c)
    BY <1>1, <2>1, <2>4, <2>5, SlotsOf DEF Log!Write
  <2>7. v \in DOMAIN slots'[a]
    BY <2>1, <2>5 DEF slots
  <2> QED BY <2>1, <2>6, <2>7 DEF Log!Next
<1> QED BY <1>1, <1>2, <1>3

LEMMA IndexRefines ==
  ASSUME StoreInv, EnsureIndex
  PROVE  Log!Next
<1>1. ASSUME NEW a \in Aggregates, NEW v \in Versions(a), NEW c \in slots[a][v], NEW d \in slots[a][v]
      PROVE  c = d
  <2>1. <<v, c>> \in stored[a] /\ <<v, d>> \in stored[a]
    BY DEF slots
  <2>2. <<v, c>>[1] = <<v, d>>[1]
    OBVIOUS
  <2> QED BY <2>1, <2>2 DEF EnsureIndex, SingleWriter
<1>2. UNCHANGED slots
  BY DEF EnsureIndex, slots, Versions
<1>3. Log!Seal
  BY <1>1, <1>2, SlotsOf DEF Log!Seal, EnsureIndex
<1> QED BY <1>3 DEF Log!Next

LEMMA StepRefines == StoreInv /\ [StoreNext]_storeVars => [Log!Next]_<<slots, indexed>>
<1> SUFFICES ASSUME StoreInv, [StoreNext]_storeVars
             PROVE  Log!Next \/ UNCHANGED <<slots, indexed>>
  OBVIOUS
<1>1. CASE EnsureIndex
  BY <1>1, IndexRefines
<1>2. ASSUME NEW c \in Calls, Load(c) \/ Check(c)
      PROVE  UNCHANGED <<slots, indexed>>
  BY <1>2 DEF Load, Check, slots, Versions
<1>3. ASSUME NEW c \in Calls, Insert(c)
      PROVE  Log!Next \/ UNCHANGED <<slots, indexed>>
  BY <1>3, InsertRefines
<1>4. CASE UNCHANGED storeVars
  BY <1>4 DEF storeVars, slots, Versions
<1> QED BY <1>1, <1>2, <1>3, <1>4 DEF StoreNext

(* The event store implements the log: versions are only added, at the end *)
(* or, before the index exists, beside an event of the same version; with  *)
(* the index every version has one writer and keeps it.                    *)
THEOREM LogImplemented == StoreSpec => ImplementsEventLog
<1>1. StoreSpec => Log!Init /\ [][Log!Next]_<<slots, indexed>>
  BY InitRefines, StepRefines, StoreInvariant, PTL DEF StoreSpec
<1> QED BY <1>1 DEF ImplementsEventLog, Log!Spec

-----------------------------------------------------------------------------
(* The catalogue.                                                          *)
Known(seat) ==
  /\ seat.restaurant \in restaurants
  /\ home[seat.sector] # Absent
  /\ place[seat.table] # Absent

(* The table is in the seat's sector, unless it has been moved.            *)
InPlace(seat) == seat.table \in moved \/ place[seat.table] = seat.sector

Choosing == {g \in Guests : guest[g].stage \in {"selected", "locked", "checked"}}
Inside == {g \in Guests : guest[g].stage \in {"locked", "checked"}}

(* What an admin request has looked up or saved is still there.            *)
AdminsKnow ==
  \A a \in Admins :
    /\ admin[a].stage = "sector" => admin[a].restaurant \in restaurants
    /\ admin[a].stage = "table" => home[admin[a].sector] # Absent
    /\ admin[a].stage \in {"seed_sector", "seed_table", "seed_booking"} =>
         SeedRestaurant \in restaurants
    /\ admin[a].stage \in {"seed_table", "seed_booking"} => home[SeedSector] # Absent
    /\ admin[a].stage = "seed_booking" => place[SeedTable] # Absent

GuestsKnow == \A g \in Choosing : Known(guest[g].seat) /\ InPlace(guest[g].seat)

BookingsInPlace == \A g \in Guests : taken[g] # Absent => InPlace(taken[g])

(* The lock excludes calls of the same seat, and a seat that a call has    *)
(* found free under its lock is not taken.                                 *)
LockExcludes == \A f, g \in Inside : guest[f].seat = guest[g].seat => f = g
CheckedStaysFree ==
  \A f, g \in Guests : guest[g].stage = "checked" => taken[f] # guest[g].seat
SeatsDiffer == \A f, g \in Guests : f # g /\ taken[f] # Absent => taken[f] # taken[g]

CatalogueInv ==
  /\ CatalogueTypeOK
  /\ ParentsExist
  /\ AdminsKnow /\ GuestsKnow /\ BookingsInPlace
  /\ LockExcludes /\ CheckedStaysFree /\ SeatsDiffer

-----------------------------------------------------------------------------
LEMMA CatalogueInitInv == CatalogueInit => CatalogueInv
<1> SUFFICES ASSUME CatalogueInit
             PROVE  CatalogueInv
  OBVIOUS
<1>1. CatalogueTypeOK
  BY CatalogueAssumption DEF CatalogueInit, CatalogueTypeOK, AdminState, GuestState
<1>2. ParentsExist
  BY CatalogueAssumption DEF CatalogueInit, ParentsExist
<1>3. Choosing = {} /\ Inside = {}
  BY DEF CatalogueInit, Choosing, Inside
<1>4. AdminsKnow /\ BookingsInPlace /\ CheckedStaysFree /\ SeatsDiffer
  BY DEF CatalogueInit, AdminsKnow, BookingsInPlace, CheckedStaysFree, SeatsDiffer, Bookable
<1> QED BY <1>1, <1>2, <1>3, <1>4 DEF CatalogueInv, GuestsKnow, LockExcludes

(* The catalogue only grows; a sector keeps having a restaurant and a      *)
(* table a sector, and a table in another sector is noted as moved.        *)
Grows ==
  /\ restaurants \subseteq restaurants'
  /\ \A s \in SectorIds : home[s] # Absent => home'[s] # Absent
  /\ \A t \in TableIds : place[t] # Absent => place'[t] # Absent
  /\ moved \subseteq moved'
  /\ \A t \in TableIds : place[t] # Absent => t \in moved' \/ place'[t] = place[t]

LEMMA SeatsSurvive ==
  ASSUME Grows, NEW seat \in Reservation, Known(seat), InPlace(seat)
  PROVE  Known(seat)' /\ InPlace(seat)'
  BY DEF Grows, Known, InPlace, Reservation

(* A step of an admin request that keeps the calls and the bookings.       *)
LEMMA AdminStep ==
  ASSUME CatalogueInv, Grows, UNCHANGED <<taken, guest>>,
         CatalogueTypeOK', AdminsKnow',
         \A s \in SectorIds : home'[s] # Absent => home'[s] \in restaurants',
         \A t \in TableIds : place'[t] # Absent => home'[place'[t]] # Absent
  PROVE  CatalogueInv'
<1>1. \A b \in Bookable : taken[b] # Absent => taken[b] \in Reservation /\ Known(taken[b])
  BY DEF CatalogueInv, CatalogueTypeOK, ParentsExist, Known
<1>2. \A b \in Bookable : taken[b] # Absent => Known(taken[b])'
  BY <1>1 DEF Grows, Known, Reservation
<1>3. ParentsExist'
  BY <1>2 DEF ParentsExist, Known
<1>4. GuestsKnow'
  <2> SUFFICES ASSUME NEW g \in Choosing
               PROVE  Known(guest[g].seat)' /\ InPlace(guest[g].seat)'
    BY DEF GuestsKnow, Choosing
  <2>1. guest[g].seat \in Reservation
    BY DEF Choosing, CatalogueInv, CatalogueTypeOK, GuestState
  <2> QED BY <2>1, SeatsSurvive DEF CatalogueInv, GuestsKnow
<1>5. BookingsInPlace'
  <2> SUFFICES ASSUME NEW g \in Guests, taken[g] # Absent
               PROVE  InPlace(taken[g])'
    BY DEF BookingsInPlace
  <2> QED BY <1>1, SeatsSurvive DEF CatalogueInv, BookingsInPlace, Bookable
<1>6. (LockExcludes /\ CheckedStaysFree /\ SeatsDiffer)'
  BY DEF CatalogueInv, LockExcludes, Inside, CheckedStaysFree, SeatsDiffer
<1> QED BY <1>3, <1>4, <1>5, <1>6 DEF CatalogueInv

LEMMA AdminInv ==
  ASSUME CatalogueInv, NEW a \in Admins,
         \/ \E r \in RestaurantIds : CreateRestaurant(a, r)
         \/ \E s \in SectorIds, r \in RestaurantIds : FindRestaurant(a, s, r)
         \/ CreateSector(a)
         \/ \E t \in TableIds, s \in SectorIds : FindSector(a, t, s)
         \/ CreateTable(a)
         \/ BeginSeed(a) \/ SeedsSector(a) \/ SeedsTable(a)
  PROVE  CatalogueInv'
<1> USE DEF AdminAt
<1>1. ASSUME NEW r \in RestaurantIds, CreateRestaurant(a, r) \/ (BeginSeed(a) /\ r = SeedRestaurant)
      PROVE  CatalogueInv'
  <2>1. restaurants' = restaurants \cup {r} /\ UNCHANGED <<home, place, moved, taken, guest>>
        /\ admin' \in {[admin EXCEPT ![a] = [stage |-> "done"]],
                       [admin EXCEPT ![a] = [stage |-> "seed_sector"]]}
        /\ (admin' = [admin EXCEPT ![a] = [stage |-> "seed_sector"]] => r = SeedRestaurant \/ CreateRestaurant(a, r))
    BY <1>1 DEF CreateRestaurant, BeginSeed
  <2>2. Grows
    BY <2>1 DEF Grows
  <2>3. CatalogueTypeOK'
    BY <2>1 DEF CatalogueInv, CatalogueTypeOK, AdminState
  <2>4. AdminsKnow'
    BY <1>1, <2>1 DEF CatalogueInv, CatalogueTypeOK, AdminsKnow, CreateRestaurant, BeginSeed
  <2> QED BY <2>1, <2>2, <2>3, <2>4, AdminStep DEF CatalogueInv, ParentsExist
<1>2. ASSUME NEW s \in SectorIds, NEW r \in RestaurantIds, FindRestaurant(a, s, r)
      PROVE  CatalogueInv'
  <2>1. Grows
    BY <1>2 DEF Grows, FindRestaurant
  <2>2. CatalogueTypeOK'
    BY <1>2 DEF CatalogueInv, CatalogueTypeOK, AdminState, FindRestaurant
  <2>3. AdminsKnow'
    BY <1>2 DEF CatalogueInv, CatalogueTypeOK, AdminsKnow, FindRestaurant
  <2> QED BY <1>2, <2>1, <2>2, <2>3, AdminStep DEF FindRestaurant, CatalogueInv, ParentsExist
<1>3. ASSUME NEW t \in TableIds, NEW s \in SectorIds, FindSector(a, t, s)
      PROVE  CatalogueInv'
  <2>1. Grows
    BY <1>3 DEF Grows, FindSector
  <2>2. CatalogueTypeOK'
    BY <1>3 DEF CatalogueInv, CatalogueTypeOK, AdminState, FindSector
  <2>3. AdminsKnow'
    BY <1>3 DEF CatalogueInv, CatalogueTypeOK, AdminsKnow, FindSector
  <2> QED BY <1>3, <2>1, <2>2, <2>3, AdminStep DEF FindSector, CatalogueInv, ParentsExist
<1>4. ASSUME NEW s \in SectorIds, NEW r \in restaurants, SaveSector(s, r),
             UNCHANGED <<restaurants, place, taken, guest, moved>>,
             NEW next \in {"done", "seed_table"}, admin' = [admin EXCEPT ![a] = [stage |-> next]],
             next = "seed_table" => s = SeedSector /\ SeedRestaurant \in restaurants
      PROVE  CatalogueInv'
  <2>1. r \in RestaurantIds /\ r # Absent
    BY CatalogueAssumption DEF CatalogueInv, CatalogueTypeOK
  <2>2. Grows
    BY <1>4, <2>1 DEF Grows, SaveSector, CatalogueInv, CatalogueTypeOK
  <2>3. CatalogueTypeOK'
    BY <1>4, <2>1 DEF CatalogueInv, CatalogueTypeOK, AdminState, SaveSector
  <2>4. AdminsKnow'
    <3> SUFFICES ASSUME NEW b \in Admins
                 PROVE  /\ admin'[b].stage = "sector" => admin'[b].restaurant \in restaurants
                        /\ admin'[b].stage = "table" => home'[admin'[b].sector] # Absent
                        /\ admin'[b].stage \in {"seed_sector", "seed_table", "seed_booking"} =>
                             SeedRestaurant \in restaurants
                        /\ admin'[b].stage \in {"seed_table", "seed_booking"} => home'[SeedSector] # Absent
                        /\ admin'[b].stage = "seed_booking" => place[SeedTable] # Absent
      BY <1>4 DEF AdminsKnow
    <3>1. CASE b = a
      <4>1. admin'[b] = [stage |-> next]
        BY <3>1, <1>4 DEF CatalogueInv, CatalogueTypeOK
      <4>2. next = "seed_table" => home'[SeedSector] # Absent
        BY <1>4, <2>1, CatalogueAssumption DEF SaveSector, CatalogueInv, CatalogueTypeOK
      <4> QED BY <4>1, <4>2, <1>4
    <3>2. CASE b # a
      <4>1. admin'[b] = admin[b] /\ admin[b] \in AdminState
        BY <3>2, <1>4 DEF CatalogueInv, CatalogueTypeOK
      <4>2. admin[b].stage = "table" => admin[b].sector \in SectorIds
        BY <4>1 DEF AdminState
      <4>3. \A q \in SectorIds : home[q] # Absent => home'[q] # Absent
        BY <2>2 DEF Grows
      <4> QED BY <4>1, <4>2, <4>3, CatalogueAssumption DEF CatalogueInv, AdminsKnow
    <3> QED BY <3>1, <3>2
  <2>5. \A q \in SectorIds : home'[q] # Absent => home'[q] \in restaurants'
    BY <1>4 DEF SaveSector, CatalogueInv, CatalogueTypeOK, ParentsExist
  <2>6. \A t \in TableIds : place'[t] # Absent => home'[place'[t]] # Absent
    BY <1>4, <2>2 DEF Grows, CatalogueInv, CatalogueTypeOK, ParentsExist
  <2> QED BY <1>4, <2>2, <2>3, <2>4, <2>5, <2>6, AdminStep
<1>5. ASSUME NEW t \in TableIds, NEW s \in SectorIds, home[s] # Absent, SaveTable(t, s),
             UNCHANGED <<restaurants, home, taken, guest>>,
             NEW next \in {"done", "seed_booking"}, admin' = [admin EXCEPT ![a] = [stage |-> next]],
             next = "seed_booking" => /\ t = SeedTable /\ SeedRestaurant \in restaurants
                                      /\ home[SeedSector] # Absent
      PROVE  CatalogueInv'
  <2>1. s # Absent
    BY CatalogueAssumption
  <2>2. Grows
    BY <1>5, <2>1 DEF Grows, SaveTable, CatalogueInv, CatalogueTypeOK
  <2>3. CatalogueTypeOK'
    BY <1>5 DEF CatalogueInv, CatalogueTypeOK, AdminState, SaveTable
  <2>4. AdminsKnow'
    <3> SUFFICES ASSUME NEW b \in Admins
                 PROVE  /\ admin'[b].stage = "sector" => admin'[b].restaurant \in restaurants
                        /\ admin'[b].stage = "table" => home[admin'[b].sector] # Absent
                        /\ admin'[b].stage \in {"seed_sector", "seed_table", "seed_booking"} =>
                             SeedRestaurant \in restaurants
                        /\ admin'[b].stage \in {"seed_table", "seed_booking"} => home[SeedSector] # Absent
                        /\ admin'[b].stage = "seed_booking" => place'[SeedTable] # Absent
      BY <1>5 DEF AdminsKnow
    <3>1. CASE b = a
      <4>1. admin'[b] = [stage |-> next]
        BY <3>1, <1>5 DEF CatalogueInv, CatalogueTypeOK
      <4>2. next = "seed_booking" => place'[SeedTable] # Absent
        BY <1>5, <2>1, CatalogueAssumption DEF SaveTable, CatalogueInv, CatalogueTypeOK
      <4> QED BY <4>1, <4>2, <1>5
    <3>2. CASE b # a
      <4>1. admin'[b] = admin[b]
        BY <3>2, <1>5 DEF CatalogueInv, CatalogueTypeOK
      <4>2. place[SeedTable] # Absent => place'[SeedTable] # Absent
        BY <2>2, CatalogueAssumption DEF Grows
      <4> QED BY <4>1, <4>2 DEF CatalogueInv, AdminsKnow
    <3> QED BY <3>1, <3>2
  <2>5. \A q \in SectorIds : home'[q] # Absent => home'[q] \in restaurants'
    BY <1>5 DEF CatalogueInv, ParentsExist
  <2>6. \A q \in TableIds : place'[q] # Absent => home'[place'[q]] # Absent
    BY <1>5 DEF SaveTable, CatalogueInv, CatalogueTypeOK, ParentsExist
  <2> QED BY <1>5, <2>2, <2>3, <2>4, <2>5, <2>6, AdminStep
<1>6. CASE BeginSeed(a)
  BY <1>6, <1>1, CatalogueAssumption
<1>7. CASE CreateSector(a)
  <2>1. admin[a] \in AdminState /\ admin[a].stage = "sector"
    BY <1>7 DEF CreateSector, CatalogueInv, CatalogueTypeOK
  <2>2. admin[a].sector \in SectorIds /\ admin[a].restaurant \in restaurants
    BY <2>1 DEF AdminState, CatalogueInv, AdminsKnow
  <2> QED BY <1>7, <2>2, <1>4 DEF CreateSector
<1>8. CASE SeedsSector(a)
  <2>1. SeedRestaurant \in restaurants
    BY <1>8 DEF SeedsSector, CatalogueInv, AdminsKnow
  <2> QED BY <1>8, <2>1, <1>4, CatalogueAssumption DEF SeedsSector
<1>9. CASE CreateTable(a)
  <2>1. admin[a] \in AdminState /\ admin[a].stage = "table"
    BY <1>9 DEF CreateTable, CatalogueInv, CatalogueTypeOK
  <2>2. admin[a].table \in TableIds /\ admin[a].sector \in SectorIds /\ home[admin[a].sector] # Absent
    BY <2>1 DEF AdminState, CatalogueInv, AdminsKnow
  <2> QED BY <1>9, <2>2, <1>5 DEF CreateTable
<1>10. CASE SeedsTable(a)
  <2>1. SeedRestaurant \in restaurants /\ home[SeedSector] # Absent
    BY <1>10 DEF SeedsTable, CatalogueInv, AdminsKnow
  <2> QED BY <1>10, <2>1, <1>5, CatalogueAssumption DEF SeedsTable
<1> QED BY <1>1, <1>2, <1>3, <1>6, <1>7, <1>8, <1>9, <1>10

-----------------------------------------------------------------------------
(* The seed writes its booking beside all locks.                           *)
LEMMA SeedsBookingInv ==
  ASSUME CatalogueInv, NEW a \in Admins, SeedsBooking(a)
  PROVE  CatalogueInv'
<1> DEFINE seat == [restaurant |-> SeedRestaurant, sector |-> SeedSector, table |-> SeedTable]
<1>1. /\ taken' = [taken EXCEPT ![SeedBooking] = seat]
      /\ admin' = [admin EXCEPT ![a] = [stage |-> "done"]]
      /\ UNCHANGED <<restaurants, home, place, guest, moved>>
  BY DEF SeedsBooking, AdminAt
<1>2. Known(seat) /\ seat \in Reservation
  BY CatalogueAssumption DEF SeedsBooking, CatalogueInv, AdminsKnow, Known, Reservation
<1>3. CatalogueTypeOK'
  BY <1>1, <1>2 DEF CatalogueInv, CatalogueTypeOK, AdminState
<1>4. ParentsExist'
  <2>1. \A b \in Bookable : taken'[b] = taken[b] \/ taken'[b] = seat
    BY <1>1 DEF CatalogueInv, CatalogueTypeOK
  <2> QED BY <1>1, <1>2, <2>1 DEF CatalogueInv, ParentsExist, Known
<1>5. \A g \in Guests : taken'[g] = taken[g]
  BY <1>1, CatalogueAssumption DEF CatalogueInv, CatalogueTypeOK, Bookable
<1>6. AdminsKnow'
  BY <1>1 DEF CatalogueInv, CatalogueTypeOK, AdminsKnow
<1>7. (GuestsKnow /\ LockExcludes)'
  BY <1>1 DEF CatalogueInv, GuestsKnow, LockExcludes, Choosing, Inside, Known, InPlace
<1>8. (BookingsInPlace /\ CheckedStaysFree /\ SeatsDiffer)'
  BY <1>1, <1>5 DEF CatalogueInv, BookingsInPlace, CheckedStaysFree, SeatsDiffer, InPlace
<1> QED BY <1>3, <1>4, <1>6, <1>7, <1>8 DEF CatalogueInv

(* A step of a create call g that writes nothing.                          *)
LEMMA GuestStep ==
  ASSUME CatalogueInv, NEW g \in Guests, NEW state \in GuestState, GuestAt(g, state),
         UNCHANGED <<restaurants, home, place, taken, admin, moved>>,
         state.stage \in {"selected", "locked", "checked"} => Known(state.seat) /\ InPlace(state.seat),
         state.stage \in {"locked", "checked"} =>
           \A f \in Inside : f # g => guest[f].seat # state.seat,
         state.stage = "checked" => \A f \in Guests : taken[f] # state.seat
  PROVE  CatalogueInv'
<1>1. \A f \in Guests : guest'[f] = IF f = g THEN state ELSE guest[f]
  BY DEF GuestAt, CatalogueInv, CatalogueTypeOK
<1>2. CatalogueTypeOK'
  BY DEF GuestAt, CatalogueInv, CatalogueTypeOK
<1>3. (ParentsExist /\ AdminsKnow /\ BookingsInPlace /\ SeatsDiffer)'
  BY DEF CatalogueInv, ParentsExist, AdminsKnow, BookingsInPlace, SeatsDiffer, InPlace
<1>4. GuestsKnow'
  BY <1>1 DEF CatalogueInv, GuestsKnow, Choosing, Known, InPlace
<1>5. LockExcludes'
  BY <1>1 DEF CatalogueInv, LockExcludes, Inside
<1>6. CheckedStaysFree'
  BY <1>1 DEF CatalogueInv, CheckedStaysFree
<1> QED BY <1>2, <1>3, <1>4, <1>5, <1>6 DEF CatalogueInv

LEMMA SelectInv ==
  ASSUME CatalogueInv, NEW g \in Guests,
         NEW r \in RestaurantIds, NEW s \in SectorIds, NEW t \in TableIds, Select(g, r, s, t)
  PROVE  CatalogueInv'
<1> DEFINE seat == [restaurant |-> r, sector |-> s, table |-> t]
           state == [stage |-> "selected", seat |-> seat]
<1>1. seat \in Reservation /\ state \in GuestState
  BY DEF Reservation, GuestState
<1>2. Known(seat) /\ InPlace(seat)
  BY CatalogueAssumption DEF Select, Known, InPlace
<1> HIDE DEF seat
<1>3. state.stage = "selected" /\ state.seat = seat
  OBVIOUS
<1>4. GuestAt(g, state) /\ UNCHANGED <<restaurants, home, place, taken, admin, moved>>
  BY DEF Select, seat
<1> HIDE DEF state
<1> QED BY <1>1, <1>2, <1>3, <1>4, GuestStep

LEMMA EnterLockInv ==
  ASSUME CatalogueInv, NEW g \in Guests, EnterLock(g)
  PROVE  CatalogueInv'
<1> DEFINE state == [guest[g] EXCEPT !.stage = "locked"]
<1>1. guest[g] \in [stage : {"selected", "locked", "checked"}, seat : Reservation]
  BY DEF EnterLock, CatalogueInv, CatalogueTypeOK, GuestState
<1>2. state \in GuestState /\ state.stage = "locked" /\ state.seat = guest[g].seat
  BY <1>1 DEF GuestState
<1>3. Known(state.seat) /\ InPlace(state.seat)
  BY <1>2 DEF EnterLock, CatalogueInv, GuestsKnow, Choosing
<1>4. \A f \in Inside : f # g => guest[f].seat # state.seat
  BY <1>2 DEF EnterLock, Inside
<1>5. GuestAt(g, state) /\ UNCHANGED <<restaurants, home, place, taken, admin, moved>>
  BY DEF EnterLock
<1> HIDE DEF state
<1> QED BY <1>2, <1>3, <1>4, <1>5, GuestStep

LEMMA CheckAgainInv ==
  ASSUME CatalogueInv, NEW g \in Guests, CheckAgain(g)
  PROVE  CatalogueInv'
<1>1. guest[g] \in [stage : {"selected", "locked", "checked"}, seat : Reservation]
      /\ guest[g].stage = "locked"
  BY DEF CheckAgain, CatalogueInv, CatalogueTypeOK, GuestState
<1>2. CASE guest[g].seat.table \in TakenIn(guest[g].seat.sector)
  <2> DEFINE state == [stage |-> "done"]
  <2>1. state \in GuestState /\ state.stage = "done"
    BY DEF GuestState
  <2>2. GuestAt(g, state) /\ UNCHANGED <<restaurants, home, place, taken, admin, moved>>
    BY <1>2 DEF CheckAgain
  <2> HIDE DEF state
  <2> QED BY <2>1, <2>2, GuestStep
<1>3. CASE guest[g].seat.table \notin TakenIn(guest[g].seat.sector)
  <2> DEFINE state == [guest[g] EXCEPT !.stage = "checked"]
  <2>1. state \in GuestState /\ state.stage = "checked" /\ state.seat = guest[g].seat
    BY <1>1 DEF GuestState
  <2>2. Known(state.seat) /\ InPlace(state.seat)
    BY <1>1, <2>1 DEF CatalogueInv, GuestsKnow, Choosing
  <2>3. \A f \in Inside : f # g => guest[f].seat # state.seat
    BY <1>1, <2>1 DEF Inside, CatalogueInv, LockExcludes
  <2>4. \A f \in Guests : taken[f] # state.seat
    <3> SUFFICES ASSUME NEW f \in Guests, taken[f] = guest[g].seat
                 PROVE  FALSE
      BY <2>1
    <3>1. f \in Bookable /\ taken[f] # Absent
      BY <1>1, AbsentIsNoReservation DEF Bookable
    <3> QED BY <3>1, <1>3 DEF TakenIn
  <2>5. GuestAt(g, state) /\ UNCHANGED <<restaurants, home, place, taken, admin, moved>>
    BY <1>3 DEF CheckAgain
  <2> HIDE DEF state
  <2> QED BY <2>1, <2>2, <2>3, <2>4, <2>5, GuestStep
<1> QED BY <1>2, <1>3

(* The write: no other call books this seat, since it would hold the lock. *)
LEMMA ReserveInv ==
  ASSUME CatalogueInv, NEW g \in Guests, Reserve(g)
  PROVE  CatalogueInv'
<1> DEFINE seat == guest[g].seat
<1>1. /\ guest[g] \in [stage : {"selected", "locked", "checked"}, seat : Reservation]
      /\ guest[g].stage = "checked"
      /\ seat \in Reservation
  BY DEF Reserve, CatalogueInv, CatalogueTypeOK, GuestState
<1>2. Known(seat) /\ InPlace(seat)
  BY <1>1 DEF CatalogueInv, GuestsKnow, Choosing
<1>3. \A b \in Bookable : taken'[b] = IF b = g THEN seat ELSE taken[b]
  BY DEF Reserve, CatalogueInv, CatalogueTypeOK, Bookable
<1>4. \A f \in Guests : guest'[f] = IF f = g THEN [stage |-> "done"] ELSE guest[f]
  BY DEF Reserve, GuestAt, CatalogueInv, CatalogueTypeOK
<1>5. UNCHANGED <<restaurants, home, place, admin, moved>>
  BY DEF Reserve
<1>6. CatalogueTypeOK'
  BY <1>1 DEF Reserve, GuestAt, GuestState, CatalogueInv, CatalogueTypeOK, Bookable
<1>7. ParentsExist'
  BY <1>2, <1>3, <1>5 DEF CatalogueInv, ParentsExist, Known
<1>8. AdminsKnow'
  BY <1>5 DEF CatalogueInv, AdminsKnow
<1>9. GuestsKnow'
  BY <1>4, <1>5 DEF CatalogueInv, GuestsKnow, Choosing, Known, InPlace
<1>10. BookingsInPlace'
  BY <1>2, <1>3, <1>5 DEF CatalogueInv, BookingsInPlace, InPlace, Bookable
<1>11. LockExcludes'
  BY <1>4 DEF CatalogueInv, LockExcludes, Inside
<1>12. CheckedStaysFree'
  <2> SUFFICES ASSUME NEW f \in Guests, NEW h \in Guests, guest'[h].stage = "checked"
               PROVE  taken'[f] # guest'[h].seat
    BY DEF CheckedStaysFree
  <2>1. h # g /\ guest'[h] = guest[h]
    BY <1>4
  <2>2. guest[h].seat # seat
    BY <1>1, <2>1 DEF CatalogueInv, LockExcludes, Inside
  <2> QED BY <1>3, <2>1, <2>2 DEF CatalogueInv, CheckedStaysFree, Bookable
<1>13. SeatsDiffer'
  <2>1. \A f \in Guests : taken[f] # seat
    BY <1>1 DEF CatalogueInv, CheckedStaysFree
  <2> QED BY <1>3, <2>1 DEF CatalogueInv, SeatsDiffer, Bookable
<1> QED BY <1>6, <1>7, <1>8, <1>9, <1>10, <1>11, <1>12, <1>13 DEF CatalogueInv

LEMMA CatalogueInductive == CatalogueInv /\ [CatalogueNext]_catalogueVars => CatalogueInv'
<1> SUFFICES ASSUME CatalogueInv, [CatalogueNext]_catalogueVars
             PROVE  CatalogueInv'
  OBVIOUS
<1>1. ASSUME NEW a \in Admins,
             \/ \E r \in RestaurantIds : CreateRestaurant(a, r)
             \/ \E s \in SectorIds, r \in RestaurantIds : FindRestaurant(a, s, r)
             \/ CreateSector(a)
             \/ \E t \in TableIds, s \in SectorIds : FindSector(a, t, s)
             \/ CreateTable(a)
             \/ BeginSeed(a) \/ SeedsSector(a) \/ SeedsTable(a)
      PROVE  CatalogueInv'
  BY <1>1, AdminInv
<1>2. ASSUME NEW a \in Admins, SeedsBooking(a)
      PROVE  CatalogueInv'
  BY <1>2, SeedsBookingInv
<1>3. ASSUME NEW g \in Guests, NEW r \in RestaurantIds, NEW s \in SectorIds, NEW t \in TableIds,
             Select(g, r, s, t)
      PROVE  CatalogueInv'
  BY <1>3, SelectInv
<1>4. ASSUME NEW g \in Guests, EnterLock(g) \/ CheckAgain(g) \/ Reserve(g)
      PROVE  CatalogueInv'
  BY <1>4, EnterLockInv, CheckAgainInv, ReserveInv
<1>5. CASE UNCHANGED catalogueVars
  BY <1>5
  DEF catalogueVars, CatalogueInv, CatalogueTypeOK, ParentsExist, AdminsKnow, GuestsKnow,
      BookingsInPlace, LockExcludes, CheckedStaysFree, SeatsDiffer, Choosing, Inside, Known, InPlace
<1> QED BY <1>1, <1>2, <1>3, <1>4, <1>5 DEF CatalogueNext

LEMMA CatalogueInvariant == CatalogueSpec => []CatalogueInv
  BY CatalogueInitInv, CatalogueInductive, PTL DEF CatalogueSpec

-----------------------------------------------------------------------------
(* Documents, requests and calls keep their types.                         *)
THEOREM CatalogueTyping == CatalogueSpec => []CatalogueTypeOK
<1>1. CatalogueInv => CatalogueTypeOK
  BY DEF CatalogueInv
<1> QED BY <1>1, CatalogueInvariant, PTL

(* Sectors, tables and bookings name documents that exist.                 *)
THEOREM ParentsExistHolds == CatalogueSpec => []ParentsExist
<1>1. CatalogueInv => ParentsExist
  BY DEF CatalogueInv
<1> QED BY <1>1, CatalogueInvariant, PTL

(* Two create calls that book one table name different restaurants, unless *)
(* the table has been moved.                                               *)
THEOREM DoubledTablesHaveACauseHolds == CatalogueSpec => []DoubledTablesHaveACause
<1>1. ASSUME CatalogueInv
      PROVE  DoubledTablesHaveACause
  <2> SUFFICES ASSUME NEW b \in Guests, NEW c \in Guests, b # c,
                      taken[b] # Absent, taken[c] # Absent, taken[b].table = taken[c].table,
                      taken[b].table \notin moved, taken[b].restaurant = taken[c].restaurant
               PROVE  FALSE
    BY DEF DoubledTablesHaveACause, Bookable
  <2>1. taken[b] \in Reservation /\ taken[c] \in Reservation
    BY <1>1 DEF CatalogueInv, CatalogueTypeOK, Bookable
  <2>2. taken[b].sector = taken[c].sector
    BY <1>1 DEF CatalogueInv, BookingsInPlace, InPlace
  <2>3. taken[b] = taken[c]
    BY <2>1, <2>2 DEF Reservation
  <2> QED BY <1>1, <2>3 DEF CatalogueInv, SeatsDiffer
<1> QED BY <1>1, CatalogueInvariant, PTL

-----------------------------------------------------------------------------
(* The lock.  The invariant says where a key's entry is: with the call     *)
(* that runs under the key, unless that call has lost it.                  *)

(* A call that runs and has not lost its entry is the one Redis names.     *)
EntriesFollowRuns ==
  \A h \in Holders : running[h] # Nobody /\ h \notin stray => lease[running[h]] = h

(* A call has lost its entry only if some call has outlived its own.       *)
LeaseInv == LeaseTypeOK /\ EntriesFollowRuns /\ TimelyCallsKeepEntries

-----------------------------------------------------------------------------
LEMMA LeaseInitInv == LeaseInit => LeaseInv
  BY NobodyAssumption DEF LeaseInit, LeaseInv, LeaseTypeOK, EntriesFollowRuns, TimelyCallsKeepEntries

(* SET NX gives a free key to a call that was not running.                 *)
LEMMA AcquireInv ==
  ASSUME LeaseInv, NEW h \in Holders, NEW k \in LockKeys, AcquireLease(h, k)
  PROVE  LeaseInv'
<1>1. LeaseTypeOK'
  BY DEF LeaseInv, LeaseTypeOK, AcquireLease
<1>2. EntriesFollowRuns'
  <2> SUFFICES ASSUME NEW i \in Holders, running'[i] # Nobody, i \notin stray'
               PROVE  lease'[running'[i]] = i
    BY DEF EntriesFollowRuns
  <2>1. CASE i = h
    BY <2>1 DEF LeaseInv, LeaseTypeOK, AcquireLease
  <2>2. CASE i # h
    <3>1. running'[i] = running[i] /\ i \notin stray
      BY <2>2 DEF LeaseInv, LeaseTypeOK, AcquireLease
    <3>2. running[i] \in LockKeys /\ lease[running[i]] = i
      BY <3>1 DEF LeaseInv, LeaseTypeOK, EntriesFollowRuns
    <3>3. running[i] # k
      BY <3>2, NobodyAssumption DEF AcquireLease
    <3> QED BY <3>1, <3>2, <3>3 DEF LeaseInv, LeaseTypeOK, AcquireLease
  <2> QED BY <2>1, <2>2
<1>3. TimelyCallsKeepEntries'
  BY DEF LeaseInv, TimelyCallsKeepEntries, AcquireLease
<1> QED BY <1>1, <1>2, <1>3 DEF LeaseInv

(* Whoever loses an entry to its time is noted in stray and in late.       *)
LEMMA ExpireInv ==
  ASSUME LeaseInv, NEW k \in LockKeys, ExpireLease(k)
  PROVE  LeaseInv'
<1>1. LeaseTypeOK'
  BY DEF LeaseInv, LeaseTypeOK, ExpireLease, Dropped
<1>2. EntriesFollowRuns'
  BY DEF LeaseInv, LeaseTypeOK, EntriesFollowRuns, ExpireLease, Dropped
<1>3. TimelyCallsKeepEntries'
  BY DEF LeaseInv, TimelyCallsKeepEntries, ExpireLease
<1> QED BY <1>1, <1>2, <1>3 DEF LeaseInv

(* The DEL may take the entry of another call.  That call runs under the   *)
(* same key, so the one that deletes had lost its own entry before: some   *)
(* call had been late.                                                     *)
LEMMA ReleaseInv ==
  ASSUME LeaseInv, NEW h \in Holders, ReleaseLease(h)
  PROVE  LeaseInv'
<1>1. LeaseTypeOK'
  BY DEF LeaseInv, LeaseTypeOK, ReleaseLease, Dropped
<1>2. EntriesFollowRuns'
  <2> SUFFICES ASSUME NEW i \in Holders, running'[i] # Nobody, i \notin stray'
               PROVE  lease'[running'[i]] = i
    BY DEF EntriesFollowRuns
  <2>1. i # h /\ running'[i] = running[i] /\ i \notin stray /\ i \notin Dropped(running[h])
    BY DEF LeaseInv, LeaseTypeOK, ReleaseLease
  <2>2. running[i] \in LockKeys /\ lease[running[i]] = i
    BY <2>1 DEF LeaseInv, LeaseTypeOK, EntriesFollowRuns
  <2>3. running[i] # running[h]
    BY <2>1, <2>2 DEF Dropped
  <2> QED BY <2>1, <2>2, <2>3 DEF LeaseInv, LeaseTypeOK, ReleaseLease
<1>3. TimelyCallsKeepEntries'
  <2> SUFFICES ASSUME late = {}
               PROVE  stray' = {}
    BY DEF TimelyCallsKeepEntries, ReleaseLease
  <2>1. stray = {}
    BY DEF LeaseInv, TimelyCallsKeepEntries
  <2>2. lease[running[h]] = h
    BY <2>1 DEF LeaseInv, EntriesFollowRuns, ReleaseLease
  <2>3. Dropped(running[h]) \subseteq {h}
    BY <2>2 DEF Dropped
  <2> QED BY <2>1, <2>3 DEF ReleaseLease
<1> QED BY <1>1, <1>2, <1>3 DEF LeaseInv

LEMMA LoseInv ==
  ASSUME LeaseInv, NEW h \in Holders, LoseHolder(h)
  PROVE  LeaseInv'
  BY DEF LeaseInv, LeaseTypeOK, EntriesFollowRuns, TimelyCallsKeepEntries, LoseHolder

LEMMA LeaseInductive == LeaseInv /\ [LeaseNext]_dlockVars => LeaseInv'
<1> SUFFICES ASSUME LeaseInv, [LeaseNext]_dlockVars
             PROVE  LeaseInv'
  OBVIOUS
<1>1. ASSUME NEW h \in Holders, NEW k \in LockKeys, AcquireLease(h, k)
      PROVE  LeaseInv'
  BY <1>1, AcquireInv
<1>2. ASSUME NEW h \in Holders, ReleaseLease(h)
      PROVE  LeaseInv'
  BY <1>2, ReleaseInv
<1>3. ASSUME NEW h \in Holders, LoseHolder(h)
      PROVE  LeaseInv'
  BY <1>3, LoseInv
<1>4. ASSUME NEW k \in LockKeys, ExpireLease(k)
      PROVE  LeaseInv'
  BY <1>4, ExpireInv
<1>5. CASE UNCHANGED dlockVars
  BY <1>5 DEF dlockVars, LeaseInv, LeaseTypeOK, EntriesFollowRuns, TimelyCallsKeepEntries
<1> QED BY <1>1, <1>2, <1>3, <1>4, <1>5 DEF LeaseNext

LEMMA LeaseInvariant == LeaseSpec => []LeaseInv
  BY LeaseInitInv, LeaseInductive, PTL DEF LeaseSpec

-----------------------------------------------------------------------------
(* withLock's state keeps its types.                                       *)
THEOREM LeaseTyping == LeaseSpec => []LeaseTypeOK
<1>1. LeaseInv => LeaseTypeOK
  BY DEF LeaseInv
<1> QED BY <1>1, LeaseInvariant, PTL

(* Two calls run under one key only when one of them has lost its entry.   *)
THEOREM OverlapNeedsLostEntryHolds == LeaseSpec => []OverlapNeedsLostEntry
<1>1. LeaseInv => OverlapNeedsLostEntry
  BY DEF LeaseInv, EntriesFollowRuns, OverlapNeedsLostEntry
<1> QED BY <1>1, LeaseInvariant, PTL

(* While no call outlives its time to live, no call loses its entry.       *)
THEOREM TimelyCallsKeepEntriesHolds == LeaseSpec => []TimelyCallsKeepEntries
<1>1. LeaseInv => TimelyCallsKeepEntries
  BY DEF LeaseInv
<1> QED BY <1>1, LeaseInvariant, PTL

(* Together: while no call outlives its time to live, the lock excludes.   *)
THEOREM TimelyCallsExclude ==
  LeaseSpec => [](late = {} =>
                    \A h, i \in Holders : running[h] # Nobody /\ running[h] = running[i] => h = i)
<1>1. LeaseInv => (late = {} =>
                    \A h, i \in Holders : running[h] # Nobody /\ running[h] = running[i] => h = i)
  BY DEF LeaseInv, EntriesFollowRuns, TimelyCallsKeepEntries
<1> QED BY <1>1, LeaseInvariant, PTL

-----------------------------------------------------------------------------
(* The cache.  A computed value that is older than the database's has been *)
(* straddled; an entry that was not is found by the invalidation of every  *)
(* later change, so that none of these is over, nor has found nothing.     *)
CacheInv ==
  /\ CacheTypeOK
  /\ \A r \in Readers :
       /\ reader[r] = "computed" => computed[r] \in 1 .. latest
       /\ reader[r] = "computed" /\ computed[r] # latest => r \in straddles
  /\ entry # Missing => entry <= latest
  /\ entry # Missing /\ ~straddled =>
       \A v \in AllVersions : entry < v /\ v <= latest => sweep[v] \in {"due", "found", "literal"}

LEMMA VersionTypes ==
  ASSUME CacheTypeOK
  PROVE  /\ MaxVersions \in Nat \ {0} /\ latest \in Nat /\ 1 <= latest /\ latest <= MaxVersions
         /\ latest < MaxVersions => latest + 1 \in AllVersions
         /\ \A v \in AllVersions : v \in Nat /\ v # Missing
         /\ Missing \notin AllVersions
  BY CacheAssumption DEF CacheTypeOK, AllVersions

LEMMA CacheInitInv == CacheInit => CacheInv
<1>1. 1 \in AllVersions
  BY CacheAssumption DEF AllVersions
<1>2. CacheInit => CacheTypeOK
  BY <1>1 DEF CacheInit, CacheTypeOK, Sweeps
<1> QED BY <1>2 DEF CacheInit, CacheInv

LEMMA ReaderInv ==
  ASSUME CacheInv, NEW r \in Readers, Miss(r) \/ Compute(r) \/ Store(r)
  PROVE  CacheInv'
<1>1. CacheTypeOK'
  <2>1. reader[r] = "computed" => computed[r] \in AllVersions
    BY VersionTypes DEF CacheInv, AllVersions
  <2>2. CASE Miss(r)
    BY <2>2 DEF CacheInv, CacheTypeOK, Miss, At
  <2>3. CASE Compute(r)
    BY <2>3 DEF CacheInv, CacheTypeOK, Compute, At
  <2>4. CASE Store(r)
    <3>1. computed[r] \in AllVersions
      BY <2>1, <2>4 DEF Store
    <3> QED BY <2>4, <3>1 DEF CacheInv, CacheTypeOK, Store, At
  <2> QED BY <2>2, <2>3, <2>4
<1>2. CASE Miss(r)
  BY <1>1, <1>2 DEF CacheInv, CacheTypeOK, Miss, At
<1>3. CASE Compute(r)
  BY <1>1, <1>3, VersionTypes DEF CacheInv, CacheTypeOK, Compute, At
<1>4. CASE Store(r)
  <2>1. /\ entry' = computed[r] /\ computed[r] \in 1 .. latest /\ UNCHANGED <<latest, sweep>>
        /\ ~straddled' => computed[r] = latest
    BY <1>4 DEF CacheInv, Store
  <2>2. \A q \in Readers :
          /\ reader'[q] = "computed" => q # r /\ reader[q] = "computed" /\ computed'[q] = computed[q]
          /\ q # r /\ q \in straddles => q \in straddles'
    BY <1>4 DEF CacheInv, CacheTypeOK, Store, At
  <2>3. entry' <= latest'
    BY <2>1, VersionTypes DEF CacheInv
  <2>4. ~straddled' => \A v \in AllVersions : ~(entry' < v /\ v <= latest')
    BY <2>1, VersionTypes DEF CacheInv
  <2> QED BY <1>1, <2>1, <2>2, <2>3, <2>4 DEF CacheInv
<1> QED BY <1>2, <1>3, <1>4

LEMMA ChangeInv ==
  ASSUME CacheInv, ChangeValue
  PROVE  CacheInv'
<1>1. /\ latest' = latest + 1 /\ latest' \in AllVersions /\ latest \in Nat
      /\ UNCHANGED <<entry, computed, reader, straddled>>
      /\ straddles' = {r \in Readers : reader[r] = "computed"}
      /\ sweep' = [sweep EXCEPT ![latest + 1] = "due"]
  BY VersionTypes DEF CacheInv, ChangeValue, Sweep
<1>2. CacheTypeOK'
  BY <1>1 DEF CacheInv, CacheTypeOK, Sweeps
<1>3. ASSUME NEW r \in Readers, reader'[r] = "computed"
      PROVE  computed'[r] \in 1 .. latest' /\ r \in straddles'
  BY <1>1, <1>3 DEF CacheInv
<1>4. entry # Missing => entry' <= latest'
  <2>1. entry # Missing => entry \in Nat
    BY VersionTypes DEF CacheInv, CacheTypeOK
  <2> QED BY <1>1, <2>1 DEF CacheInv
<1>5. ASSUME entry # Missing, ~straddled, NEW v \in AllVersions, entry < v, v <= latest'
      PROVE  sweep'[v] \in {"due", "found", "literal"}
  <2>1. v = latest + 1 \/ v <= latest
    BY <1>1, <1>5, VersionTypes DEF CacheInv
  <2> QED BY <1>1, <1>5, <2>1 DEF CacheInv, CacheTypeOK
<1> QED BY <1>1, <1>2, <1>3, <1>4, <1>5 DEF CacheInv

(* An invalidation that ends has deleted the entry, or found none before   *)
(* the entry that is there now was stored.                                 *)
LEMMA SweepInv ==
  ASSUME CacheInv, NEW v \in AllVersions,
         DeleteEntry(v) \/ FindKeys(v) \/ DeleteFound(v) \/ WorkerDeletes(v)
  PROVE  CacheInv'
<1>1. UNCHANGED <<latest, computed, reader, straddles>>
  BY DEF DeleteEntry, FindKeys, DeleteFound, WorkerDeletes
<1>2. CacheTypeOK'
  BY DEF CacheInv, CacheTypeOK, DeleteEntry, FindKeys, DeleteFound, WorkerDeletes, Sweep, Sweeps
<1>3. CASE entry' = Missing
  BY <1>1, <1>2, <1>3 DEF CacheInv
<1>4. CASE entry' # Missing
  <2>1. /\ UNCHANGED <<entry, straddled>>
        /\ \A u \in AllVersions \ {v} : sweep'[u] = sweep[u]
        /\ \/ sweep'[v] \in {"found", "literal"}
           \/ sweep[v] = "empty"
    BY <1>4 DEF CacheInv, CacheTypeOK, DeleteEntry, FindKeys, DeleteFound, WorkerDeletes, Sweep
  <2> QED BY <1>1, <1>2, <2>1 DEF CacheInv
<1> QED BY <1>3, <1>4

LEMMA EntryExpiresInv ==
  ASSUME CacheInv, ExpireEntry
  PROVE  CacheInv'
  BY DEF CacheInv, CacheTypeOK, ExpireEntry

LEMMA CacheInductive == CacheInv /\ [CacheNext]_cacheVars => CacheInv'
<1>1. CacheInv /\ UNCHANGED cacheVars => CacheInv'
  BY DEF cacheVars, CacheInv, CacheTypeOK
<1> QED BY <1>1, ReaderInv, ChangeInv, SweepInv, EntryExpiresInv DEF CacheNext

LEMMA CacheInvariant == CacheSpec => []CacheInv
  BY CacheInitInv, CacheInductive, PTL DEF CacheSpec

(* The cache keeps its types: a stored entry is a version of the value.    *)
THEOREM CacheTyping == CacheSpec => []CacheTypeOK
<1>1. CacheInv => CacheTypeOK
  BY DEF CacheInv
<1> QED BY <1>1, CacheInvariant, PTL

(* Why a cached value may be stale, for any number of calls of remember,   *)
(* changes and invalidations: an invalidation of a later change is still   *)
(* due, or was made by the worker, or the value was computed before a      *)
(* change and stored after it.                                             *)
THEOREM StaleEntriesHaveACauseHolds == CacheSpec => []StaleEntriesHaveACause
<1>1. CacheInv => StaleEntriesHaveACause
  <2> SUFFICES ASSUME CacheInv, entry # Missing, entry < latest, ~straddled
               PROVE  \E v \in entry + 1 .. latest : sweep[v] # "swept"
    BY DEF StaleEntriesHaveACause
  <2>1. /\ latest \in AllVersions /\ latest \in Nat /\ entry \in Nat
        /\ latest \in entry + 1 .. latest
    BY VersionTypes DEF CacheInv, CacheTypeOK
  <2>2. \A n \in Nat : n <= n
    OBVIOUS
  <2> QED BY <2>1, <2>2 DEF CacheInv
<1> QED BY <1>1, CacheInvariant, PTL

-----------------------------------------------------------------------------
(* The feature flag.  Redis executes the commands of a process in order,   *)
(* and what a process has seen of a flag that is set is no newer than it.  *)
NoNewer(m, n) == m = 0 \/ n = 0 \/ m <= n

CommandsInOrder(p) ==
  \A i, j \in 1 .. Len(sent[p]) :
    i < j => /\ sent[p][j].ran => sent[p][i].ran
             /\ NoNewer(sent[p][i].value, sent[p][j].value)

SeenBy(p) ==
  /\ NoNewer(copy[p], flag) /\ copy[p] <= changes
  /\ \A i \in 1 .. Len(sent[p]) :
       /\ ~sent[p][i].ran => sent[p][i].value = 0
       /\ sent[p][i].value <= changes
       /\ NoNewer(sent[p][i].value, flag)
       /\ NoNewer(copy[p], sent[p][i].value)

FlagInv ==
  /\ FlagTypeOK
  /\ flag <= changes
  /\ \A p \in FlagServers : CommandsInOrder(p) /\ SeenBy(p)

LEMMA FlagTypes ==
  ASSUME FlagTypeOK, NEW p \in FlagServers
  PROVE  /\ flag \in Nat /\ changes \in Nat /\ copy[p] \in Nat
         /\ sent[p] \in Seq(Commands) /\ Len(sent[p]) \in Nat
         /\ \A i \in 1 .. Len(sent[p]) :
              /\ sent[p][i] \in Commands
              /\ sent[p][i].op \in {"get", "set", "del"}
              /\ sent[p][i].value \in Nat /\ sent[p][i].ran \in BOOLEAN
<1>1. flag \in Nat /\ changes \in Nat /\ copy[p] \in Nat /\ sent[p] \in Seq(Commands)
  BY FlagAssumption DEF FlagTypeOK
<1>2. \A i \in 1 .. Len(sent[p]) : sent[p][i] \in Commands
  BY <1>1
<1>3. \A c \in Commands : c.op \in {"get", "set", "del"} /\ c.value \in Nat /\ c.ran \in BOOLEAN
  BY FlagAssumption DEF Commands
<1> QED BY <1>1, <1>2, <1>3

LEMMA FlagInitInv == FlagInit => FlagInv
<1> SUFFICES ASSUME FlagInit PROVE FlagInv
  OBVIOUS
<1>1. FlagTypeOK
  BY FlagAssumption DEF FlagInit, FlagTypeOK
<1>2. \A p \in FlagServers : copy[p] = 0 /\ sent[p] = <<>> /\ Len(sent[p]) = 0
  BY DEF FlagInit
<1> QED BY <1>1, <1>2 DEF FlagInit, FlagInv, CommandsInOrder, SeenBy, NoNewer

(* getFlag, setFlag and deleteFlag send a command.                         *)
LEMMA SendInv ==
  ASSUME FlagInv, NEW p \in FlagServers, NEW op \in {"get", "set", "del"},
         Send(p, op), UNCHANGED <<flag, changes, copy>>
  PROVE  FlagInv'
<1> DEFINE c == [op |-> op, value |-> 0, ran |-> FALSE]
           n == Len(sent[p])
<1>1. c \in Commands /\ c.value = 0 /\ c.ran = FALSE
  BY FlagAssumption DEF Commands
<1>2. sent' = [sent EXCEPT ![p] = Append(sent[p], c)] /\ n < MaxSent
  BY DEF Send
<1> HIDE DEF c
<1>3. sent[p] \in Seq(Commands) /\ n \in Nat /\ sent \in [FlagServers -> Seq(Commands)]
  BY FlagTypes DEF FlagInv, FlagTypeOK
<1>4. /\ Append(sent[p], c) \in Seq(Commands) /\ Len(Append(sent[p], c)) = n + 1
      /\ Append(sent[p], c)[n + 1] = c
      /\ \A i \in 1 .. n : Append(sent[p], c)[i] = sent[p][i]
  BY <1>1, <1>3
<1>5. /\ sent' \in [FlagServers -> Seq(Commands)] /\ sent'[p] = Append(sent[p], c)
      /\ \A q \in FlagServers \ {p} : sent'[q] = sent[q]
  BY <1>2, <1>3, <1>4
<1>6. n + 1 <= MaxSent
  BY <1>2, <1>3, FlagAssumption
<1>7. FlagTypeOK'
  BY <1>4, <1>5, <1>6 DEF FlagInv, FlagTypeOK
<1>8. ASSUME NEW q \in FlagServers PROVE CommandsInOrder(q)' /\ SeenBy(q)'
  <2>1. CommandsInOrder(q) /\ SeenBy(q)
    BY DEF FlagInv
  <2>2. CASE q # p
    BY <1>5, <2>1, <2>2 DEF CommandsInOrder, SeenBy
  <2>3. CASE q = p
    <3>1. \A i \in 1 .. Len(sent'[p]) : i \in 1 .. n \/ i = n + 1
      BY <1>3, <1>4, <1>5
    <3>2. /\ sent'[p][n + 1].value = 0 /\ sent'[p][n + 1].ran = FALSE
          /\ \A i \in 1 .. n : sent'[p][i] = sent[p][i]
      BY <1>1, <1>4, <1>5
    <3>3. \A i, j \in 1 .. Len(sent'[p]) : i < j => i \in 1 .. n
      BY <1>3, <1>4, <1>5
    <3>4. CommandsInOrder(p)'
      BY <2>1, <2>3, <3>1, <3>2, <3>3 DEF CommandsInOrder, NoNewer
    <3>5. 0 <= changes
      BY FlagTypes DEF FlagInv
    <3>6. SeenBy(p)'
      BY <2>1, <2>3, <3>1, <3>2, <3>5 DEF SeenBy, NoNewer
    <3> QED BY <2>3, <3>4, <3>6
  <2> QED BY <2>2, <2>3
<1> QED BY <1>7, <1>8 DEF FlagInv

(* A value read is the flag's, a value written is newer than all others.   *)
LEMMA RunInv ==
  ASSUME FlagInv, NEW p \in FlagServers, NEW i \in 1 .. MaxSent, RunCommand(p, i)
  PROVE  FlagInv'
<1> DEFINE op == sent[p][i].op
           v == IF op = "get" THEN flag ELSE flag'
<1>1. /\ i \in 1 .. Len(sent[p]) /\ sent[p][i] \in Commands /\ op \in {"get", "set", "del"}
      /\ sent \in [FlagServers -> Seq(Commands)] /\ sent[p] \in Seq(Commands)
      /\ flag \in Nat /\ changes \in Nat /\ flag <= changes /\ changes <= MaxChanges
  BY FlagTypes, FlagAssumption DEF FlagInv, FlagTypeOK, RunCommand
<1>2. /\ ~sent[p][i].ran /\ \A j \in 1 .. i - 1 : sent[p][j].ran
      /\ op # "get" => changes < MaxChanges
      /\ changes' = IF op = "get" THEN changes ELSE changes + 1
      /\ flag' = IF op = "get" THEN flag ELSE IF op = "set" THEN changes' ELSE 0
      /\ sent' = [sent EXCEPT ![p][i].ran = TRUE, ![p][i].value = v]
      /\ UNCHANGED copy
  BY DEF RunCommand
<1> HIDE DEF v
<1>3. /\ changes' \in 0 .. MaxChanges /\ flag' \in 0 .. MaxChanges /\ v \in 0 .. MaxChanges
      /\ flag' <= changes' /\ v <= changes' /\ NoNewer(v, flag')
  BY <1>1, <1>2, FlagAssumption DEF NoNewer, v
<1>4. \A u \in Nat : u <= changes /\ NoNewer(u, flag) =>
        u <= changes' /\ NoNewer(u, flag') /\ NoNewer(u, v)
  BY <1>1, <1>2 DEF NoNewer, v
<1> DEFINE c == [sent[p][i] EXCEPT !.ran = TRUE, !.value = v]
           s == [sent[p] EXCEPT ![i] = c]
<1>5. sent' = [sent EXCEPT ![p] = s]
  BY <1>1, <1>2
<1>6. c \in Commands /\ c.ran = TRUE /\ c.value = v
  BY <1>1, <1>3 DEF Commands
<1> HIDE DEF c
<1>7. /\ s \in Seq(Commands) /\ Len(s) = Len(sent[p]) /\ s[i] = c
      /\ \A j \in 1 .. Len(sent[p]) : j # i => s[j] = sent[p][j]
  BY <1>1, <1>6
<1> HIDE DEF s
<1>8. /\ sent' \in [FlagServers -> Seq(Commands)] /\ sent'[p] = s
      /\ \A q \in FlagServers \ {p} : sent'[q] = sent[q]
  BY <1>1, <1>5, <1>7
<1>9. FlagTypeOK'
  BY <1>2, <1>3, <1>7, <1>8 DEF FlagInv, FlagTypeOK
<1>10. ASSUME NEW q \in FlagServers PROVE CommandsInOrder(q)' /\ SeenBy(q)'
  <2>1. CommandsInOrder(q) /\ SeenBy(q)
    BY DEF FlagInv
  <2>2. /\ copy[q] \in Nat
        /\ \A j \in 1 .. Len(sent[q]) : sent[q][j].value \in Nat
    BY FlagTypes DEF FlagInv
  <2>3. CASE q # p
    BY <1>2, <1>4, <1>8, <2>1, <2>2, <2>3 DEF CommandsInOrder, SeenBy
  <2>4. CASE q = p
    <3>1. /\ Len(sent'[p]) = Len(sent[p]) /\ sent'[p][i].ran = TRUE /\ sent'[p][i].value = v
          /\ \A j \in 1 .. Len(sent[p]) : j # i => sent'[p][j] = sent[p][j]
      BY <1>6, <1>7, <1>8
    <3>2. \A j \in 1 .. Len(sent[p]) : i < j => sent[p][j].ran = FALSE /\ sent[p][j].value = 0
      <4>1. \A j \in 1 .. Len(sent[p]) : sent[p][j].ran \in BOOLEAN
        BY FlagTypes DEF FlagInv
      <4> QED BY <1>1, <1>2, <2>1, <2>4, <4>1 DEF CommandsInOrder, SeenBy
    <3>3. \A j \in 1 .. Len(sent[p]) : j < i => sent[p][j].ran
      BY <1>1, <1>2
    <3>4. \A j \in 1 .. Len(sent[p]) : NoNewer(sent[p][j].value, v)
      BY <1>4, <2>1, <2>2, <2>4 DEF SeenBy
    <3>5. CommandsInOrder(p)'
      BY <1>1, <2>1, <2>4, <3>1, <3>2, <3>3, <3>4 DEF CommandsInOrder, NoNewer
    <3>6. SeenBy(p)'
      BY <1>1, <1>2, <1>3, <1>4, <2>1, <2>2, <2>4, <3>1 DEF SeenBy
    <3> QED BY <2>4, <3>5, <3>6
  <2> QED BY <2>3, <2>4
<1> QED BY <1>3, <1>9, <1>10 DEF FlagInv

LEMMA ResumeInv ==
  ASSUME FlagInv, NEW p \in FlagServers, Resume(p)
  PROVE  /\ FlagInv'
         /\ \A q \in FlagServers \ {p} : copy'[q] = copy[q]
         /\ NoNewer(copy[p], copy'[p])
<1> DEFINE h == sent[p][1]
           n == Len(sent[p])
<1>1. /\ sent[p] \in Seq(Commands) /\ n \in Nat /\ sent[p] # <<>> /\ 1 \in 1 .. n
      /\ sent \in [FlagServers -> Seq(Commands)] /\ copy \in [FlagServers -> 0 .. MaxChanges]
      /\ Head(sent[p]) = h /\ h \in Commands /\ h.value \in 0 .. MaxChanges
  <2>1. /\ sent \in [FlagServers -> Seq(Commands)] /\ copy \in [FlagServers -> 0 .. MaxChanges]
        /\ sent[p] \in Seq(Commands) /\ sent[p] # <<>>
    BY DEF FlagInv, FlagTypeOK, Resume
  <2>2. n \in Nat /\ 1 \in 1 .. n /\ Head(sent[p]) = h /\ h \in Commands
    BY <2>1
  <2> QED BY <2>1, <2>2 DEF Commands
<1>2. /\ h.ran /\ UNCHANGED <<flag, changes>>
      /\ sent' = [sent EXCEPT ![p] = Tail(sent[p])]
      /\ copy' = [copy EXCEPT ![p] = IF h.op = "get" /\ h.value = 0 THEN copy[p] ELSE h.value]
  BY <1>1 DEF Resume
<1>3. /\ Tail(sent[p]) \in Seq(Commands) /\ Len(Tail(sent[p])) = n - 1
      /\ \A i \in 1 .. n - 1 : Tail(sent[p])[i] = sent[p][i + 1]
  BY <1>1
<1>4. /\ sent' \in [FlagServers -> Seq(Commands)] /\ sent'[p] = Tail(sent[p])
      /\ copy' \in [FlagServers -> 0 .. MaxChanges] /\ copy'[p] \in {copy[p], h.value}
      /\ \A q \in FlagServers \ {p} : sent'[q] = sent[q] /\ copy'[q] = copy[q]
  BY <1>1, <1>2, <1>3
<1>5. n - 1 <= MaxSent
  BY <1>1, FlagAssumption DEF FlagInv, FlagTypeOK
<1>6. FlagTypeOK'
  BY <1>2, <1>3, <1>4, <1>5 DEF FlagInv, FlagTypeOK
<1>7. CommandsInOrder(p) /\ SeenBy(p)
  BY DEF FlagInv
<1>8. copy[p] \in Nat /\ NoNewer(copy[p], copy[p])
  BY FlagTypes DEF FlagInv, NoNewer
<1>9. NoNewer(copy[p], copy'[p])
  BY <1>1, <1>4, <1>7, <1>8 DEF SeenBy
<1>10. ASSUME NEW q \in FlagServers PROVE CommandsInOrder(q)' /\ SeenBy(q)'
  <2>1. CASE q # p
    BY <1>2, <1>4, <2>1 DEF FlagInv, CommandsInOrder, SeenBy
  <2>2. CASE q = p
    <3>1. /\ Len(sent'[p]) = n - 1
          /\ \A i \in 1 .. n - 1 : i + 1 \in 1 .. n /\ 1 < i + 1 /\ sent'[p][i] = sent[p][i + 1]
          /\ \A i, j \in 1 .. n - 1 : i < j => i + 1 < j + 1
      BY <1>1, <1>3, <1>4
    <3>2. CommandsInOrder(p)'
      BY <1>7, <3>1 DEF CommandsInOrder
    <3>3. NoNewer(copy'[p], flag') /\ copy'[p] <= changes'
      BY <1>1, <1>2, <1>4, <1>7 DEF SeenBy
    <3>4. ASSUME NEW i \in 1 .. n - 1 PROVE NoNewer(copy'[p], sent'[p][i].value)
      <4>1. NoNewer(copy[p], sent[p][i + 1].value) /\ NoNewer(h.value, sent[p][i + 1].value)
        BY <1>1, <1>7, <3>1 DEF SeenBy, CommandsInOrder
      <4> QED BY <1>4, <3>1, <4>1
    <3>5. SeenBy(p)'
      BY <1>2, <1>7, <3>1, <3>3, <3>4 DEF SeenBy
    <3> QED BY <2>2, <3>2, <3>5
  <2> QED BY <2>1, <2>2
<1> QED BY <1>2, <1>4, <1>6, <1>9, <1>10 DEF FlagInv

LEMMA FlagInductive ==
  FlagInv /\ [FlagNext]_flagVars =>
    FlagInv' /\ \A p \in FlagServers : NoNewer(copy[p], copy'[p])
<1> SUFFICES ASSUME FlagInv, [FlagNext]_flagVars
             PROVE  FlagInv' /\ \A p \in FlagServers : NoNewer(copy[p], copy'[p])
  OBVIOUS
<1>1. \A p \in FlagServers : NoNewer(copy[p], copy[p])
  BY FlagTypes DEF FlagInv, NoNewer
<1>2. CASE UNCHANGED flagVars
  BY <1>1, <1>2 DEF flagVars, FlagInv, FlagTypeOK, CommandsInOrder, SeenBy
<1>3. ASSUME NEW p \in FlagServers, GetFlag(p) \/ \E op \in {"set", "del"} : ChangeFlag(p, op)
      PROVE  FlagInv' /\ UNCHANGED copy
  BY <1>3, SendInv DEF GetFlag, ChangeFlag
<1>4. ASSUME NEW p \in FlagServers, NEW i \in 1 .. MaxSent, RunCommand(p, i)
      PROVE  FlagInv' /\ UNCHANGED copy
  BY <1>4, RunInv DEF RunCommand
<1>5. ASSUME NEW p \in FlagServers, Resume(p)
      PROVE  FlagInv' /\ \A q \in FlagServers : NoNewer(copy[q], copy'[q])
  BY <1>1, <1>5, ResumeInv
<1> QED BY <1>1, <1>2, <1>3, <1>4, <1>5 DEF FlagNext

LEMMA FlagInvariant == FlagSpec => []FlagInv
  BY FlagInitInv, FlagInductive, PTL DEF FlagSpec

(* The flag and its copies are numbers of writes that were made.           *)
THEOREM FlagTyping == FlagSpec => []FlagTypeOK
<1>1. FlagInv => FlagTypeOK
  BY DEF FlagInv
<1> QED BY <1>1, FlagInvariant, PTL

(* A process never goes back from a newer version of the flag to an older  *)
(* one, for any number of processes and commands they wait for: the copy   *)
(* is no newer than what its commands have brought, these are in order,    *)
(* and Redis' flag is no older than any of them.                           *)
THEOREM CopiesNeverGoBackHolds == FlagSpec => CopiesNeverGoBack
<1>1. FlagInv /\ [FlagNext]_flagVars =>
        [\A p \in FlagServers : copy[p] # 0 /\ copy'[p] # 0 => copy'[p] >= copy[p]]_flagVars
  <2> SUFFICES ASSUME FlagInv, [FlagNext]_flagVars, NEW p \in FlagServers, copy[p] # 0, copy'[p] # 0
               PROVE  copy'[p] >= copy[p]
    OBVIOUS
  <2>1. FlagInv' /\ NoNewer(copy[p], copy'[p])
    BY FlagInductive
  <2>2. copy[p] \in Nat /\ copy'[p] \in Nat
    BY <2>1, FlagAssumption DEF FlagInv, FlagTypeOK
  <2> QED BY <2>1, <2>2 DEF NoNewer
<1> QED BY <1>1, FlagInvariant, PTL DEF FlagSpec, CopiesNeverGoBack
=============================================================================

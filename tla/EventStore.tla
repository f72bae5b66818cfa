----------------------------- MODULE EventStore -----------------------------
(***************************************************************************)
(* infrastructure/event-store/mongodb-event-store.ts.  appendEvents reads  *)
(* the latest version, compares it with the version its caller expects,    *)
(* and inserts its events in order; other calls run between the read and   *)
(* the inserts and between two inserts.  The unique index on (aggregate,   *)
(* version) is requested by the constructor, which does not wait for it.   *)
(*                                                                         *)
(* The callers are external (nothing under src/ appends): a caller numbers *)
(* its events from the version it has loaded.                              *)
(***************************************************************************)
EXTENDS Naturals

CONSTANTS
  Aggregates,   \* aggregates of one type
  Calls,        \* calls of appendEvents
  StreamOf,     \* the aggregate of each call
  Size          \* how many events each call appends

ASSUME StoreAssumption ==
  /\ StreamOf \in [Calls -> Aggregates]
  /\ Size \in [Calls -> Nat \ {0}]

VARIABLES
  stored,     \* the events collection: per aggregate, <<version, call>>
  indexed,    \* the unique index exists
  expected,   \* the version each caller has loaded
  inserted,   \* how many of its events each call has inserted
  stage       \* where each call is

storeVars == <<stored, indexed, expected, inserted, stage>>

Stages == {"new", "loaded", "checked", "appended", "conflict", "failed"}

StoreTypeOK ==
  /\ stored \in [Aggregates -> SUBSET (Nat \X Calls)]
  /\ indexed \in BOOLEAN
  /\ expected \in [Calls -> Nat]
  /\ inserted \in [Calls -> Nat]
  /\ stage \in [Calls -> Stages]

(* The index exists, or the store is used for the first time.              *)
StoreInit ==
  /\ stored = [a \in Aggregates |-> {}]
  /\ indexed \in BOOLEAN
  /\ expected = [c \in Calls |-> 0]
  /\ inserted = [c \in Calls |-> 0]
  /\ stage = [c \in Calls |-> "new"]

-----------------------------------------------------------------------------
Versions(a) == {e[1] : e \in stored[a]}

(* The version of the latest event; 0 if there is none.                    *)
IsLatest(a, v) ==
  /\ v \in Versions(a) \cup {0}
  /\ \A w \in Versions(a) : w <= v

Move(c, to) == stage' = [stage EXCEPT ![c] = to]

(* getEventStream: the caller learns the version it will expect.           *)
Load(c) ==
  /\ stage[c] = "new"
  /\ \E v \in Versions(StreamOf[c]) \cup {0} :
       IsLatest(StreamOf[c], v) /\ expected' = [expected EXCEPT ![c] = v]
  /\ Move(c, "loaded")
  /\ UNCHANGED <<stored, indexed, inserted>>

(* findOne and the comparison with expectedVersion.                        *)
Check(c) ==
  /\ stage[c] = "loaded"
  /\ \E v \in Versions(StreamOf[c]) \cup {0} :
       /\ IsLatest(StreamOf[c], v)
       /\ Move(c, IF v = expected[c] THEN "checked" ELSE "conflict")
  /\ UNCHANGED <<stored, indexed, expected, inserted>>

NextVersion(c) == expected[c] + inserted[c] + 1

(* Variant: an unordered insertMany goes on with the next event.           *)
InsertUnordered(c) ==
  /\ stage[c] = "checked"
  /\ IF indexed /\ NextVersion(c) \in Versions(StreamOf[c])
     THEN UNCHANGED stored
     ELSE stored' = [stored EXCEPT ![StreamOf[c]] = @ \cup {<<NextVersion(c), c>>}]
  /\ inserted' = [inserted EXCEPT ![c] = @ + 1]
  /\ IF inserted'[c] = Size[c] THEN Move(c, "appended") ELSE UNCHANGED stage
  /\ UNCHANGED <<indexed, expected>>

(* Variant: the index is created without `unique'.                         *)
InsertIntoPlainIndex(c) ==
  /\ stage[c] = "checked"
  /\ stored' = [stored EXCEPT ![StreamOf[c]] = @ \cup {<<NextVersion(c), c>>}]
  /\ inserted' = [inserted EXCEPT ![c] = @ + 1]
  /\ IF inserted[c] + 1 = Size[c] THEN Move(c, "appended") ELSE UNCHANGED stage
  /\ UNCHANGED <<indexed, expected>>

(* The ordered insertMany inserts one event, or meets one of its version   *)
(* and stops: the events before it stay.                                   *)
Insert(c) ==
  /\ stage[c] = "checked"
  /\ IF indexed /\ NextVersion(c) \in Versions(StreamOf[c])
     THEN Move(c, "failed") /\ UNCHANGED <<stored, inserted>>
     ELSE /\ stored' = [stored EXCEPT ![StreamOf[c]] = @ \cup {<<NextVersion(c), c>>}]
          /\ inserted' = [inserted EXCEPT ![c] = @ + 1]
          /\ IF inserted[c] + 1 = Size[c] THEN Move(c, "appended") ELSE UNCHANGED stage
  /\ UNCHANGED <<indexed, expected>>

SingleWriter(a) == \A e, f \in stored[a] : e[1] = f[1] => e = f

(* createIndex builds the index, and fails if versions repeat already (no  *)
(* one awaits ensureIndexes: index.ts:33 then ends the process).           *)
EnsureIndex ==
  /\ ~indexed
  /\ \A a \in Aggregates : SingleWriter(a)
  /\ indexed' = TRUE
  /\ UNCHANGED <<stored, expected, inserted, stage>>

StoreNext == EnsureIndex \/ \E c \in Calls : Load(c) \/ Check(c) \/ Insert(c)

StoreSpec == StoreInit /\ [][StoreNext]_storeVars

-----------------------------------------------------------------------------
(* The versions of an aggregate have no gaps, with or without the index:   *)
(* replay and the next caller's version rely on it.                        *)
VersionsHaveNoGaps ==
  \A a \in Aggregates : \A v \in Versions(a) : 1 .. v \subseteq Versions(a)

(* Once the index exists a version has one event.                          *)
VersionsAreUnique == indexed => \A a \in Aggregates : SingleWriter(a)

(* A call that returned has stored its whole batch, in consecutive         *)
(* versions from the one it expected.                                      *)
AppendsAreWhole ==
  \A c \in Calls :
    stage[c] = "appended" =>
      \A i \in 1 .. Size[c] : <<expected[c] + i, c>> \in stored[StreamOf[c]]

(* The store implements the log: slot v holds the writers of version v.    *)
slots == [a \in Aggregates |->
            [v \in Versions(a) |-> {c \in Calls : <<v, c>> \in stored[a]}]]
Log == INSTANCE EventLog WITH log <- slots, strict <- indexed
ImplementsEventLog == Log!Spec
=============================================================================

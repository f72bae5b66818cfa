----------------------------- MODULE Migrations -----------------------------
(***************************************************************************)
(* infrastructure/database/migrations/migration-runner.ts: several runners *)
(* (one per deployment step that calls it) over one database.  A run reads *)
(* the records once, then for each missing version runs `up' and inserts   *)
(* the record, two awaits; a rollback finds the last record, runs `down'   *)
(* and deletes the record, three awaits.  `up' and `down' of               *)
(* 001_create_indexes.ts can be repeated.                                  *)
(***************************************************************************)
EXTENDS Naturals

CONSTANTS
  Runners,         \* calls of runMigrations
  Rollbacks,       \* calls of rollbackLastMigration
  LastMigration    \* migrations are 1 .. LastMigration

ASSUME MigrationAssumption == LastMigration \in Nat /\ Runners \cap Rollbacks = {}

VARIABLES
  recorded,   \* the migrations collection; `version' has a unique index
  effective,  \* versions whose `up' has been run, and not undone by `down'
  todo,       \* pendingMigrations of each runner; the version a rollback undoes
  run,        \* where each call is
  mixed       \* history: a rollback and a run have been under way together

migrationVars == <<recorded, effective, todo, run, mixed>>

Migration == 1 .. LastMigration
Runs == Runners \cup Rollbacks
Underway(c) == run[c] \in {"up", "record", "down", "erase"}

MigrationTypeOK ==
  /\ recorded \subseteq Migration
  /\ effective \subseteq Migration
  /\ todo \in [Runs -> SUBSET Migration]
  /\ run \in [Runs -> {"new", "up", "record", "down", "erase", "done", "failed", "dead"}]
  /\ mixed \in BOOLEAN

MigrationInit ==
  /\ recorded = {}
  /\ effective = {}
  /\ todo = [c \in Runs |-> {}]
  /\ run = [c \in Runs |-> "new"]
  /\ mixed = FALSE

Step(c, to) == run' = [run EXCEPT ![c] = to]
First(S) == {v \in S : \A w \in S : v <= w}
Last(S) == {v \in S : \A w \in S : w <= v}

Mixes(c, others) == mixed' = (mixed \/ \E d \in others : Underway(d))

(* createIndex, loadMigrations, getAppliedVersions: what is pending.       *)
Plan(c) ==
  /\ run[c] = "new"
  /\ todo' = [todo EXCEPT ![c] = Migration \ recorded]
  /\ Step(c, IF recorded = Migration THEN "done" ELSE "up")
  /\ Mixes(c, Rollbacks)
  /\ UNCHANGED <<recorded, effective>>

(* Variant: the record is written before `up' is run.                      *)
RunUpRecordedFirst(c) ==
  /\ run[c] = "up"
  /\ \E v \in First(todo[c]) : recorded' = recorded \cup {v}
  /\ Step(c, "record")
  /\ UNCHANGED <<effective, todo, mixed>>

(* await migration.up(db) of the first pending version.                    *)
RunUp(c) ==
  /\ run[c] = "up"
  /\ \E v \in First(todo[c]) : effective' = effective \cup {v}
  /\ Step(c, "record")
  /\ UNCHANGED <<recorded, todo, mixed>>

(* insertOne of the record; the unique index refuses a version that        *)
(* another runner has recorded, and the run throws.                        *)
Record(c) ==
  /\ run[c] = "record"
  /\ \E v \in First(todo[c]) :
       IF v \in recorded
       THEN Step(c, "failed") /\ UNCHANGED <<recorded, todo>>
       ELSE /\ recorded' = recorded \cup {v}
            /\ todo' = [todo EXCEPT ![c] = @ \ {v}]
            /\ Step(c, IF todo[c] = {v} THEN "done" ELSE "up")
  /\ UNCHANGED <<effective, mixed>>

(* rollbackLastMigration: the last record.                                 *)
FindLast(c) ==
  /\ run[c] = "new"
  /\ todo' = [todo EXCEPT ![c] = Last(recorded)]
  /\ Step(c, IF recorded = {} THEN "done" ELSE "down")
  /\ Mixes(c, Runs \ {c})
  /\ UNCHANGED <<recorded, effective>>

RunDown(c) ==
  /\ run[c] = "down"
  /\ effective' = effective \ todo[c]
  /\ Step(c, "erase")
  /\ UNCHANGED <<recorded, todo, mixed>>

EraseRecord(c) ==
  /\ run[c] = "erase"
  /\ recorded' = recorded \ todo[c]
  /\ Step(c, "done")
  /\ UNCHANGED <<effective, todo, mixed>>

(* External: the runner's process dies.                                    *)
Kill(c) ==
  /\ Underway(c)
  /\ Step(c, "dead")
  /\ UNCHANGED <<recorded, effective, todo, mixed>>

MigrationNext ==
  \/ \E c \in Runners : Plan(c) \/ RunUp(c) \/ Record(c)
  \/ \E c \in Rollbacks : FindLast(c) \/ RunDown(c) \/ EraseRecord(c)
  \/ \E c \in Runs : Kill(c)

MigrationSpec == MigrationInit /\ [][MigrationNext]_migrationVars

-----------------------------------------------------------------------------
(* A recorded migration is in effect, whatever died between `up' and the   *)
(* record and however many runners ran, unless a rollback is under way,    *)
(* died half-way, or has run beside another call.                          *)
RecordedAreEffective ==
  mixed \/ (\E c \in Rollbacks : run[c] \in {"erase", "dead"}) \/ recorded \subseteq effective

(* Migrations are recorded in order, so that what is pending is always the *)
(* end of the list and the last record is the one to roll back.            *)
RecordedInOrder ==
  mixed \/ \A v \in recorded : 1 .. v \subseteq recorded

(* A run that returned has brought the database to the last version, even  *)
(* when another runner or a crash was in its way, until a rollback.        *)
SuccessMeansAll ==
  (\A c \in Rollbacks : run[c] = "new") =>
    \A c \in Runners : run[c] = "done" => recorded = Migration
=============================================================================

--------------------------- MODULE Platform_proof ----------------------------
(***************************************************************************)
(* A server process: the migrations that are run before it, for any list   *)
(* of migrations and any runs, rollbacks and deaths; its start and stop,   *)
(* for any clients and signals; its sockets, for any rooms and events.     *)
(* Then the components of MCPlatform together: what is proved of each by   *)
(* itself holds of it beside the others, for any values of the constants.  *)
(***************************************************************************)
EXTENDS MCPlatform, Stores_proof, Webhooks_proof

(* Start and stop.                                                         *)
Listening == boot \in {"sockets", "serving"}

(* The database is there from Connect until a stop that has closed the     *)
(* application disconnects it.                                             *)
DatabaseOrClosing ==
  /\ boot # "connect" => connected \/ closing
  /\ \A s \in Signals : stopping[s] \in {"closed", "disconnected"} => closing

(* Requests are under way only in an application that listens, and not     *)
(* once a stop has waited for them.                                        *)
RequestsAreServed ==
  /\ open # {} => Listening /\ connected
  /\ \A s \in Signals : stopping[s] = "disconnected" => open = {}

(* Redis has been closed by a signal that has got past it.                 *)
RedisClosedBySignal ==
  redis = "closed" =>
    \E s \in Signals : stopping[s] \in {"close", "closed", "disconnected"}

ServerInv ==
  /\ ServerTypeOK
  /\ DatabaseOrClosing /\ RequestsAreServed /\ RedisClosedBySignal
  /\ CutRequestsHaveACause

-----------------------------------------------------------------------------
LEMMA ServerInitInv == ServerInit => ServerInv
<1> SUFFICES ASSUME ServerInit
             PROVE  ServerInv
  OBVIOUS
<1>1. ServerTypeOK
  <2>1. upsets \in 0 .. MaxUpsets /\ code \in 0 .. 2
    BY ServerAssumption DEF ServerInit
  <2>2. connected \in BOOLEAN /\ closing \in BOOLEAN
    BY Zenon DEF ServerInit
  <2> QED BY <2>1, <2>2 DEF ServerInit, ServerTypeOK, Boots, Stops
<1>2. DatabaseOrClosing /\ RequestsAreServed /\ RedisClosedBySignal /\ CutRequestsHaveACause
  BY Zenon DEF ServerInit, DatabaseOrClosing, RequestsAreServed, RedisClosedBySignal,
               CutRequestsHaveACause
<1> QED BY <1>1, <1>2 DEF ServerInv

LEMMA StartInv ==
  ASSUME ServerInv, Start
  PROVE  ServerInv'
<1> USE DEF ServerInv, ServerTypeOK, Boots, Stops, DatabaseOrClosing, RequestsAreServed,
            RedisClosedBySignal, CutRequestsHaveACause, Running, Listening, ExitOnError
<1>1. CASE Connect
  <2>1. CASE /\ boot' = "plugins" /\ connected' = TRUE
             /\ UNCHANGED <<stopping, redis, closing, open, answered, joined, upsets, code>>
    <3>1. connected' \in BOOLEAN /\ connected'
      BY <2>1, Zenon
    <3> QED BY <1>1, <2>1, <3>1 DEF Connect
  <2>2. CASE ExitOnError /\ (UNCHANGED upsets \/ Upset)
    <3>1. open = {} /\ open' = {}
      BY <1>1, <2>2 DEF Connect
    <3>2. upsets' \in 0 .. MaxUpsets
      BY <2>2, ServerAssumption DEF Upset
    <3> QED BY <2>2, <3>1, <3>2
  <2> QED BY <1>1, <2>1, <2>2 DEF Connect
<1>2. CASE RegisterPlugins
  BY <1>2 DEF RegisterPlugins
<1>3. CASE RegisterRoutes
  BY <1>3 DEF RegisterRoutes
<1>4. CASE StartWorkers
  BY <1>4 DEF StartWorkers
<1>5. CASE Listen
  BY <1>5 DEF Listen
<1>6. CASE OpenSockets
  BY <1>6 DEF OpenSockets
<1> QED BY <1>1, <1>2, <1>3, <1>4, <1>5, <1>6 DEF Start

LEMMA ClientInv ==
  ASSUME ServerInv,
         \/ \E c \in Clients : Accept(c) \/ Respond(c)
         \/ \E w \in WsClients : JoinSocket(w) \/ LeaveSocket(w)
  PROVE  ServerInv'
<1> USE DEF ServerInv, ServerTypeOK, Boots, Stops, DatabaseOrClosing, RequestsAreServed,
            RedisClosedBySignal, CutRequestsHaveACause, Running, Listening
<1>1. ASSUME NEW c \in Clients, Accept(c)
      PROVE  ServerInv'
  BY <1>1 DEF Accept
<1>2. ASSUME NEW c \in Clients, Respond(c)
      PROVE  ServerInv'
  BY <1>2 DEF Respond
<1>3. ASSUME NEW w \in WsClients, JoinSocket(w) \/ LeaveSocket(w)
      PROVE  ServerInv'
  BY <1>3 DEF JoinSocket, LeaveSocket
<1> QED BY <1>1, <1>2, <1>3

LEMMA SignalInv ==
  ASSUME ServerInv, NEW s \in Signals, Receive(s) \/ Stop(s)
  PROVE  ServerInv'
<1> USE DEF ServerInv, ServerTypeOK, Boots, Stops, DatabaseOrClosing, RequestsAreServed,
            RedisClosedBySignal, CutRequestsHaveACause, Running, Listening, StopAt
<1>1. CASE Receive(s)
  BY <1>1 DEF Receive
<1>2. CASE StopWorkers(s)
  BY <1>2 DEF StopWorkers
<1>3. CASE DisconnectRedis(s)
  <2>1. CASE redis # "closed" /\ stopping' = [stopping EXCEPT ![s] = "close"] /\ ~ExitOnError
    BY <1>3, <2>1 DEF DisconnectRedis
  <2>2. CASE redis = "closed" /\ ExitOnError /\ UNCHANGED upsets
    <3>1. PICK t \in Signals : stopping[t] \in {"close", "closed", "disconnected"}
      BY <2>2
    <3>2. t # s /\ stopping[s] = "redis"
      BY <1>3, <3>1 DEF DisconnectRedis
    <3> QED BY <2>2, <3>1, <3>2 DEF ExitOnError
  <2>3. CASE redis = "open" /\ Upset /\ ExitOnError
    <3>1. upsets' \in 0 .. MaxUpsets /\ upsets' > 0
      BY <2>3, ServerAssumption DEF Upset
    <3> QED BY <2>3, <3>1 DEF ExitOnError
  <2> QED BY <1>3, <2>1, <2>2, <2>3 DEF DisconnectRedis, ExitOnError
<1>4. CASE BeginClose(s)
  BY <1>4 DEF BeginClose
<1>5. CASE Disconnect(s)
  BY <1>5 DEF Disconnect
<1>6. CASE ExitAfterStop(s)
  BY <1>6 DEF ExitAfterStop
<1> QED BY <1>1, <1>2, <1>3, <1>4, <1>5, <1>6 DEF Stop

LEMMA ServerInductive == ServerInv /\ [ServerNext]_serverVars => ServerInv'
<1> SUFFICES ASSUME ServerInv, [ServerNext]_serverVars
             PROVE  ServerInv'
  OBVIOUS
<1>1. CASE Start
  BY <1>1, StartInv
<1>2. CASE \/ \E c \in Clients : Accept(c) \/ Respond(c)
           \/ \E w \in WsClients : JoinSocket(w) \/ LeaveSocket(w)
  BY <1>2, ClientInv
<1>3. ASSUME NEW s \in Signals, Receive(s) \/ Stop(s)
      PROVE  ServerInv'
  BY <1>3, SignalInv
<1>4. CASE UNCHANGED serverVars
  BY <1>4
  DEF serverVars, ServerInv, ServerTypeOK, DatabaseOrClosing, RequestsAreServed,
      RedisClosedBySignal, CutRequestsHaveACause, Running, Listening
<1> QED BY <1>1, <1>2, <1>3, <1>4 DEF ServerNext

LEMMA ServerInvariant == ServerSpec => []ServerInv
  BY ServerInitInv, ServerInductive, PTL DEF ServerSpec

-----------------------------------------------------------------------------
(* The state of bootstrap and stop keeps its types.                        *)
THEOREM ServerTyping == ServerSpec => []ServerTypeOK
<1>1. ServerInv => ServerTypeOK
  BY DEF ServerInv
<1> QED BY <1>1, ServerInvariant, PTL

(* No request is under way without a database, whenever signals arrive.    *)
THEOREM RequestsHaveADatabaseHolds == ServerSpec => []RequestsHaveADatabase
<1>1. ServerInv => RequestsHaveADatabase
  BY DEF ServerInv, RequestsAreServed, RequestsHaveADatabase
<1> QED BY <1>1, ServerInvariant, PTL

(* One signal and connections that hold cut no request off.                *)
THEOREM CutRequestsHaveACauseHolds == ServerSpec => []CutRequestsHaveACause
<1>1. ServerInv => CutRequestsHaveACause
  BY DEF ServerInv
<1> QED BY <1>1, ServerInvariant, PTL

-----------------------------------------------------------------------------
(* Migrations.                                                             *)
Migrating(c) == run[c] \in {"up", "record"}
Undoing(c) == run[c] \in {"down", "erase"}
HalfUndone == \E c \in Rollbacks : run[c] \in {"erase", "dead"}

KindsOfSteps ==
  /\ \A c \in Runners : ~Undoing(c)
  /\ \A c \in Rollbacks : ~Migrating(c)

(* Until calls have mixed, a rollback under way is alone; and calls mix    *)
(* only after a rollback has begun.                                        *)
RollbacksAreAlone == mixed \/ \A c \in Rollbacks, d \in Runs : Underway(c) /\ Underway(d) => c = d
FreshMeansUnmixed == (\A c \in Rollbacks : run[c] = "new") => ~mixed

(* What a run has not planned is recorded; what it is about to record is   *)
(* in effect.                                                              *)
PlansAreTails == mixed \/ \A c \in Runners : Migrating(c) => Migration \ todo[c] \subseteq recorded
UpsComeFirst ==
  mixed \/ HalfUndone \/ \A c \in Runners : run[c] = "record" => First(todo[c]) \subseteq effective

(* What a rollback undoes is the last record, and the rest is in effect.   *)
TargetsAreLast == mixed \/ \A c \in Rollbacks : Undoing(c) => todo[c] = Last(recorded)
RestIsEffective ==
  \/ mixed \/ \E d \in Rollbacks : run[d] = "dead"
  \/ \A c \in Rollbacks : run[c] = "erase" => recorded \ todo[c] \subseteq effective

MigrationInv ==
  /\ MigrationTypeOK /\ KindsOfSteps
  /\ RollbacksAreAlone /\ FreshMeansUnmixed
  /\ PlansAreTails /\ UpsComeFirst
  /\ TargetsAreLast /\ RestIsEffective
  /\ RecordedAreEffective /\ RecordedInOrder /\ SuccessMeansAll

LEMMA MigrationInitInv == MigrationInit => MigrationInv
  BY DEF MigrationInit, MigrationInv, MigrationTypeOK, KindsOfSteps, RollbacksAreAlone,
         FreshMeansUnmixed, PlansAreTails, UpsComeFirst, TargetsAreLast, RestIsEffective,
         RecordedAreEffective, RecordedInOrder, SuccessMeansAll, Migrating, Undoing, Underway,
         HalfUndone, Runs

LEMMA StepEffect ==
  ASSUME MigrationTypeOK, NEW c \in Runs, NEW to, Step(c, to)
  PROVE  \A d \in Runs : run'[d] = IF d = c THEN to ELSE run[d]
  BY DEF MigrationTypeOK, Step

(* getAppliedVersions of a run: the plan is what is not recorded.          *)
LEMMA PlanInv ==
  ASSUME MigrationInv, NEW c \in Runners, Plan(c)
  PROVE  MigrationInv'
<1>1. MigrationTypeOK /\ c \in Runs /\ c \notin Rollbacks /\ Rollbacks \subseteq Runs /\ Runners \subseteq Runs
  BY MigrationAssumption DEF MigrationInv, Runs
<1>2. \A d \in Runs : run'[d] = IF d = c THEN (IF recorded = Migration THEN "done" ELSE "up") ELSE run[d]
  BY <1>1, StepEffect DEF Plan
<1>3. UNCHANGED <<recorded, effective>> /\ (mixed => mixed')
  BY DEF Plan, Mixes
<1>4. \A d \in Runs : todo'[d] = IF d = c THEN Migration \ recorded ELSE todo[d]
  BY <1>1 DEF Plan, MigrationTypeOK
<1>5. MigrationTypeOK'
  BY <1>1 DEF Plan, Step, Mixes, MigrationTypeOK
<1>6. mixed' <=> mixed \/ \E d \in Rollbacks : Underway(d)
  BY DEF Plan, Mixes
<1>7. (KindsOfSteps /\ RollbacksAreAlone /\ FreshMeansUnmixed)'
  BY <1>1, <1>2, <1>6, MigrationAssumption
  DEF MigrationInv, KindsOfSteps, RollbacksAreAlone, FreshMeansUnmixed, Migrating, Undoing, Underway, Runs
<1>8. (PlansAreTails /\ UpsComeFirst)'
  BY <1>1, <1>2, <1>3, <1>4, <1>6
  DEF MigrationInv, PlansAreTails, UpsComeFirst, Migrating, HalfUndone, First
<1>9. (TargetsAreLast /\ RestIsEffective /\ RecordedAreEffective /\ RecordedInOrder)'
  BY <1>1, <1>2, <1>3, <1>4
  DEF MigrationInv, TargetsAreLast, RestIsEffective, RecordedAreEffective, RecordedInOrder, Undoing, Last
<1>10. SuccessMeansAll'
  BY <1>1, <1>2, <1>3 DEF MigrationInv, SuccessMeansAll
<1> QED BY <1>5, <1>7, <1>8, <1>9, <1>10 DEF MigrationInv

(* migration.up(db)                                                        *)
LEMMA RunUpInv ==
  ASSUME MigrationInv, NEW c \in Runners, RunUp(c)
  PROVE  MigrationInv'
<1>1. MigrationTypeOK /\ c \in Runs /\ c \notin Rollbacks /\ Rollbacks \subseteq Runs /\ Runners \subseteq Runs
  BY MigrationAssumption DEF MigrationInv, Runs
<1>2. run[c] = "up" /\ UNCHANGED <<recorded, todo, mixed>>
  BY DEF RunUp
<1>3. \A d \in Runs : run'[d] = IF d = c THEN "record" ELSE run[d]
  BY <1>1, StepEffect DEF RunUp
<1>4. PICK v \in First(todo[c]) : effective' = effective \cup {v}
  BY DEF RunUp
<1>5. First(todo[c]) = {v} /\ v \in Migration
  BY <1>1, <1>4 DEF First, MigrationTypeOK, Migration
<1>6. MigrationTypeOK'
  BY <1>1, <1>2, <1>4, <1>5 DEF RunUp, Step, MigrationTypeOK
<1>7. (KindsOfSteps /\ RollbacksAreAlone /\ FreshMeansUnmixed)'
  BY <1>1, <1>2, <1>3
  DEF MigrationInv, KindsOfSteps, RollbacksAreAlone, FreshMeansUnmixed, Migrating, Undoing, Underway
<1>8. (PlansAreTails /\ UpsComeFirst)'
  BY <1>1, <1>2, <1>3, <1>4, <1>5
  DEF MigrationInv, PlansAreTails, UpsComeFirst, Migrating, HalfUndone, First
<1>9. (TargetsAreLast /\ RestIsEffective /\ RecordedAreEffective /\ RecordedInOrder)'
  BY <1>1, <1>2, <1>3, <1>4
  DEF MigrationInv, TargetsAreLast, RestIsEffective, RecordedAreEffective, RecordedInOrder, Undoing, Last
<1>10. SuccessMeansAll'
  BY <1>1, <1>2, <1>3 DEF MigrationInv, SuccessMeansAll
<1> QED BY <1>6, <1>7, <1>8, <1>9, <1>10 DEF MigrationInv

(* insertOne of the record, or the refusal of its unique index.            *)
LEMMA RecordInv ==
  ASSUME MigrationInv, NEW c \in Runners, Record(c)
  PROVE  MigrationInv'
<1>1. MigrationTypeOK /\ c \in Runs /\ c \notin Rollbacks /\ Rollbacks \subseteq Runs /\ Runners \subseteq Runs
  BY MigrationAssumption DEF MigrationInv, Runs
<1>2. run[c] = "record" /\ UNCHANGED <<effective, mixed>>
  BY DEF Record
<1>3. PICK v \in First(todo[c]) :
        IF v \in recorded
        THEN Step(c, "failed") /\ UNCHANGED <<recorded, todo>>
        ELSE /\ recorded' = recorded \cup {v}
             /\ todo' = [todo EXCEPT ![c] = @ \ {v}]
             /\ Step(c, IF todo[c] = {v} THEN "done" ELSE "up")
  BY DEF Record
<1>4. First(todo[c]) = {v} /\ v \in Migration /\ v \in todo[c] /\ \A w \in todo[c] : v <= w
  BY <1>1, <1>3 DEF First, MigrationTypeOK, Migration
<1>5. CASE v \in recorded
  <2>1. UNCHANGED <<recorded, todo>> /\ \A d \in Runs : run'[d] = IF d = c THEN "failed" ELSE run[d]
    BY <1>1, <1>3, <1>5, StepEffect
  <2>2. MigrationTypeOK'
    BY <1>1, <1>2, <1>3, <1>5 DEF Step, MigrationTypeOK
  <2>3. (KindsOfSteps /\ RollbacksAreAlone /\ FreshMeansUnmixed)'
    BY <1>1, <1>2, <2>1
    DEF MigrationInv, KindsOfSteps, RollbacksAreAlone, FreshMeansUnmixed, Migrating, Undoing, Underway
  <2>4. (PlansAreTails /\ UpsComeFirst)'
    BY <1>1, <1>2, <2>1 DEF MigrationInv, PlansAreTails, UpsComeFirst, Migrating, HalfUndone, First
  <2>5. (TargetsAreLast /\ RestIsEffective /\ RecordedAreEffective /\ RecordedInOrder)'
    BY <1>1, <1>2, <2>1
    DEF MigrationInv, TargetsAreLast, RestIsEffective, RecordedAreEffective, RecordedInOrder, Undoing, Last
  <2>6. SuccessMeansAll'
    BY <1>1, <2>1 DEF MigrationInv, SuccessMeansAll
  <2> QED BY <2>2, <2>3, <2>4, <2>5, <2>6 DEF MigrationInv
<1>6. CASE v \notin recorded
  <2>1. \A d \in Runs : run'[d] = IF d = c THEN (IF todo[c] = {v} THEN "done" ELSE "up") ELSE run[d]
    BY <1>1, <1>3, <1>6, StepEffect
  <2>2. recorded' = recorded \cup {v} /\ \A d \in Runs : todo'[d] = IF d = c THEN todo[c] \ {v} ELSE todo[d]
    BY <1>1, <1>3, <1>6 DEF MigrationTypeOK
  <2>3. MigrationTypeOK'
    <3>1. todo' \in [Runs -> SUBSET Migration] /\ recorded' \subseteq Migration
      BY <1>1, <1>3, <1>4, <1>6 DEF MigrationTypeOK
    <3>2. run' = [run EXCEPT ![c] = IF todo[c] = {v} THEN "done" ELSE "up"]
      BY <1>3, <1>6 DEF Step
    <3> QED BY <1>1, <1>2, <3>1, <3>2 DEF MigrationTypeOK
  <2>4. (KindsOfSteps /\ RollbacksAreAlone /\ FreshMeansUnmixed)'
    BY <1>1, <1>2, <2>1
    DEF MigrationInv, KindsOfSteps, RollbacksAreAlone, FreshMeansUnmixed, Migrating, Undoing, Underway
  <2>5. PlansAreTails' /\ UpsComeFirst'
    BY <1>1, <1>2, <2>1, <2>2
    DEF MigrationInv, PlansAreTails, UpsComeFirst, Migrating, HalfUndone, First
  <2>6. mixed \/ \A d \in Rollbacks : ~Undoing(d)
    BY <1>1, <1>2 DEF MigrationInv, RollbacksAreAlone, Underway, Undoing
  <2>7. TargetsAreLast' /\ RestIsEffective'
    BY <1>1, <1>2, <2>1, <2>6 DEF TargetsAreLast, RestIsEffective, Undoing
  <2>8. RecordedAreEffective'
    BY <1>1, <1>2, <1>4, <2>1, <2>2
    DEF MigrationInv, RecordedAreEffective, UpsComeFirst, HalfUndone
  <2>9. RecordedInOrder'
    <3> SUFFICES ASSUME ~mixed, NEW u \in recorded', NEW w \in 1 .. u
                 PROVE  w \in recorded'
      BY <1>2 DEF RecordedInOrder
    <3>1. CASE u \in recorded
      BY <3>1, <2>2 DEF MigrationInv, RecordedInOrder
    <3>2. CASE u = v
      <4>1. w \in Migration /\ (w = v \/ w < v)
        <5>1. v \in Nat /\ 1 <= v /\ v <= LastMigration /\ LastMigration \in Nat
          BY <1>4, MigrationAssumption DEF Migration
        <5>2. w \in Nat /\ 1 <= w /\ w <= v
          BY <3>2, <5>1
        <5> QED BY <5>1, <5>2 DEF Migration
      <4>2. w = v \/ w \notin todo[c]
        BY <1>4, <4>1 DEF Migration
      <4>3. Migration \ todo[c] \subseteq recorded
        BY <1>2 DEF MigrationInv, PlansAreTails, Migrating
      <4> QED BY <4>1, <4>2, <4>3, <2>2
    <3> QED BY <3>1, <3>2, <2>2
  <2>10. SuccessMeansAll'
    <3> SUFFICES ASSUME \A d \in Rollbacks : run[d] = "new", NEW d \in Runners, run'[d] = "done"
                 PROVE  recorded' = Migration
      BY <1>1, <2>1 DEF SuccessMeansAll
    <3>1. recorded \subseteq Migration /\ (~mixed => Migration \ todo[c] \subseteq recorded)
      BY <1>2 DEF MigrationInv, MigrationTypeOK, PlansAreTails, Migrating
    <3>2. ~mixed
      BY DEF MigrationInv, FreshMeansUnmixed
    <3>3. CASE d = c
      BY <1>1, <1>4, <2>1, <2>2, <3>1, <3>2, <3>3
    <3>4. CASE d # c
      BY <1>1, <1>4, <2>1, <2>2, <3>4 DEF MigrationInv, SuccessMeansAll
    <3> QED BY <3>3, <3>4
  <2> QED BY <2>3, <2>4, <2>5, <2>7, <2>8, <2>9, <2>10 DEF MigrationInv
<1> QED BY <1>5, <1>6

(* A rollback finds the last record.                                       *)
LEMMA FindLastInv ==
  ASSUME MigrationInv, NEW c \in Rollbacks, FindLast(c)
  PROVE  MigrationInv'
<1>1. MigrationTypeOK /\ c \in Runs /\ c \notin Runners /\ Rollbacks \subseteq Runs /\ Runners \subseteq Runs
  BY MigrationAssumption DEF MigrationInv, Runs
<1>2. run[c] = "new" /\ UNCHANGED <<recorded, effective>>
  BY DEF FindLast
<1>3. \A d \in Runs : run'[d] = IF d = c THEN (IF recorded = {} THEN "done" ELSE "down") ELSE run[d]
  BY <1>1, StepEffect DEF FindLast
<1>4. \A d \in Runs : todo'[d] = IF d = c THEN Last(recorded) ELSE todo[d]
  BY <1>1 DEF FindLast, MigrationTypeOK
<1>5. mixed' <=> mixed \/ \E d \in Runs \ {c} : Underway(d)
  BY DEF FindLast, Mixes
<1>6. MigrationTypeOK'
  BY <1>1 DEF FindLast, Step, Mixes, MigrationTypeOK, Last
<1>7. (KindsOfSteps /\ RollbacksAreAlone /\ FreshMeansUnmixed)'
  BY <1>1, <1>3, <1>5
  DEF MigrationInv, KindsOfSteps, RollbacksAreAlone, FreshMeansUnmixed, Migrating, Undoing, Underway
<1>8. (PlansAreTails /\ UpsComeFirst)'
  BY <1>1, <1>2, <1>3, <1>4, <1>5
  DEF MigrationInv, PlansAreTails, UpsComeFirst, Migrating, HalfUndone, First
<1>9. (TargetsAreLast /\ RestIsEffective /\ RecordedAreEffective /\ RecordedInOrder /\ SuccessMeansAll)'
  BY <1>1, <1>2, <1>3, <1>4, <1>5
  DEF MigrationInv, TargetsAreLast, RestIsEffective, RecordedAreEffective, RecordedInOrder,
      SuccessMeansAll, Undoing, Last
<1> QED BY <1>6, <1>7, <1>8, <1>9 DEF MigrationInv

(* migration.down(db): the rest of the records stay in effect.             *)
LEMMA RunDownInv ==
  ASSUME MigrationInv, NEW c \in Rollbacks, RunDown(c)
  PROVE  MigrationInv'
<1>1. MigrationTypeOK /\ c \in Runs /\ c \notin Runners /\ Rollbacks \subseteq Runs /\ Runners \subseteq Runs
  BY MigrationAssumption DEF MigrationInv, Runs
<1>2. run[c] = "down" /\ effective' = effective \ todo[c] /\ UNCHANGED <<recorded, todo, mixed>>
  BY DEF RunDown
<1>3. \A d \in Runs : run'[d] = IF d = c THEN "erase" ELSE run[d]
  BY <1>1, StepEffect DEF RunDown
<1>4. MigrationTypeOK'
  BY <1>1 DEF RunDown, Step, MigrationTypeOK
<1>5. (KindsOfSteps /\ RollbacksAreAlone /\ FreshMeansUnmixed)'
  BY <1>1, <1>2, <1>3
  DEF MigrationInv, KindsOfSteps, RollbacksAreAlone, FreshMeansUnmixed, Migrating, Undoing, Underway
<1>6. (PlansAreTails /\ TargetsAreLast /\ RecordedInOrder /\ SuccessMeansAll)'
  BY <1>1, <1>2, <1>3
  DEF MigrationInv, PlansAreTails, TargetsAreLast, RecordedInOrder, SuccessMeansAll, Migrating, Undoing, Last
<1>7. (UpsComeFirst /\ RecordedAreEffective)'
  BY <1>1, <1>3 DEF UpsComeFirst, RecordedAreEffective, HalfUndone
<1>8. RestIsEffective'
  <2> SUFFICES ASSUME ~mixed, \A d \in Rollbacks : run[d] # "dead", NEW d \in Rollbacks, run'[d] = "erase"
               PROVE  recorded \ todo[d] \subseteq effective'
    BY <1>1, <1>2, <1>3 DEF RestIsEffective
  <2>1. \A q \in Rollbacks : q # c => run[q] # "erase"
    BY <1>1, <1>2 DEF MigrationInv, RollbacksAreAlone, Underway
  <2>2. d = c /\ recorded \subseteq effective
    BY <1>1, <1>2, <1>3, <2>1 DEF MigrationInv, RecordedAreEffective
  <2> QED BY <1>2, <2>2
<1> QED BY <1>4, <1>5, <1>6, <1>7, <1>8 DEF MigrationInv

(* deleteOne of the record: the last one goes, the rest stay in order.     *)
LEMMA EraseRecordInv ==
  ASSUME MigrationInv, NEW c \in Rollbacks, EraseRecord(c)
  PROVE  MigrationInv'
<1>1. MigrationTypeOK /\ c \in Runs /\ c \notin Runners /\ Rollbacks \subseteq Runs /\ Runners \subseteq Runs
  BY MigrationAssumption DEF MigrationInv, Runs
<1>2. run[c] = "erase" /\ recorded' = recorded \ todo[c] /\ UNCHANGED <<effective, todo, mixed>>
  BY DEF EraseRecord
<1>3. \A d \in Runs : run'[d] = IF d = c THEN "done" ELSE run[d]
  BY <1>1, StepEffect DEF EraseRecord
<1>4. MigrationTypeOK'
  BY <1>1 DEF EraseRecord, Step, MigrationTypeOK
<1>5. (KindsOfSteps /\ RollbacksAreAlone /\ FreshMeansUnmixed)'
  BY <1>1, <1>2, <1>3
  DEF MigrationInv, KindsOfSteps, RollbacksAreAlone, FreshMeansUnmixed, Migrating, Undoing, Underway
<1>6. mixed \/ \A d \in Runs : Underway(d) => d = c
  BY <1>2 DEF MigrationInv, RollbacksAreAlone, Underway
<1>7. (PlansAreTails /\ UpsComeFirst /\ TargetsAreLast /\ RestIsEffective)'
  BY <1>1, <1>2, <1>3, <1>6
  DEF PlansAreTails, UpsComeFirst, TargetsAreLast, RestIsEffective, Migrating, Undoing, Underway
<1>8. RecordedAreEffective'
  BY <1>1, <1>2, <1>3, <1>6 DEF MigrationInv, RecordedAreEffective, RestIsEffective, Underway
<1>9. RecordedInOrder'
  <2> SUFFICES ASSUME ~mixed, NEW u \in recorded', NEW w \in 1 .. u
               PROVE  w \in recorded'
    BY <1>2 DEF RecordedInOrder
  <2>1. todo[c] = Last(recorded)
    BY <1>2 DEF MigrationInv, TargetsAreLast, Undoing
  <2>2. u \in recorded /\ u \notin Last(recorded) /\ w \in recorded
    BY <1>2, <2>1 DEF MigrationInv, RecordedInOrder
  <2>3. recorded \subseteq Nat
    BY <1>1 DEF MigrationTypeOK, Migration
  <2>4. w \notin Last(recorded)
    BY <2>2, <2>3 DEF Last
  <2> QED BY <1>2, <2>1, <2>2, <2>4
<1>10. SuccessMeansAll'
  BY <1>1, <1>3 DEF SuccessMeansAll
<1> QED BY <1>4, <1>5, <1>7, <1>8, <1>9, <1>10 DEF MigrationInv

(* A process dies between two awaits.                                      *)
LEMMA KillInv ==
  ASSUME MigrationInv, NEW c \in Runs, Kill(c)
  PROVE  MigrationInv'
<1>1. MigrationTypeOK /\ Rollbacks \subseteq Runs /\ Runners \subseteq Runs
  BY DEF MigrationInv, Runs
<1>2. run[c] \in {"up", "record", "down", "erase"} /\ UNCHANGED <<recorded, effective, todo, mixed>>
  BY DEF Kill, Underway
<1>3. \A d \in Runs : run'[d] = IF d = c THEN "dead" ELSE run[d]
  BY <1>1, StepEffect DEF Kill
<1>4. MigrationTypeOK'
  BY <1>1 DEF Kill, Step, MigrationTypeOK
<1>5. (KindsOfSteps /\ RollbacksAreAlone /\ FreshMeansUnmixed)'
  BY <1>1, <1>2, <1>3
  DEF MigrationInv, KindsOfSteps, RollbacksAreAlone, FreshMeansUnmixed, Migrating, Undoing, Underway
<1>6. (PlansAreTails /\ UpsComeFirst /\ TargetsAreLast /\ RestIsEffective)'
  BY <1>1, <1>2, <1>3
  DEF MigrationInv, PlansAreTails, UpsComeFirst, TargetsAreLast, RestIsEffective, Migrating, Undoing,
      HalfUndone, First, Last
<1>7. (RecordedAreEffective /\ RecordedInOrder /\ SuccessMeansAll)'
  BY <1>1, <1>2, <1>3 DEF MigrationInv, RecordedAreEffective, RecordedInOrder, SuccessMeansAll
<1> QED BY <1>4, <1>5, <1>6, <1>7 DEF MigrationInv

LEMMA MigrationInductive == MigrationInv /\ [MigrationNext]_migrationVars => MigrationInv'
<1> SUFFICES ASSUME MigrationInv, [MigrationNext]_migrationVars
             PROVE  MigrationInv'
  OBVIOUS
<1>1. CASE UNCHANGED migrationVars
  BY <1>1
  DEF migrationVars, MigrationInv, MigrationTypeOK, KindsOfSteps, RollbacksAreAlone, FreshMeansUnmixed,
      PlansAreTails, UpsComeFirst, TargetsAreLast, RestIsEffective, RecordedAreEffective,
      RecordedInOrder, SuccessMeansAll, Migrating, Undoing, Underway, HalfUndone, First, Last
<1>2. ASSUME NEW c \in Runners, Plan(c) \/ RunUp(c) \/ Record(c)
      PROVE  MigrationInv'
  BY <1>2, PlanInv, RunUpInv, RecordInv
<1>3. ASSUME NEW c \in Rollbacks, FindLast(c) \/ RunDown(c) \/ EraseRecord(c)
      PROVE  MigrationInv'
  BY <1>3, FindLastInv, RunDownInv, EraseRecordInv
<1>4. ASSUME NEW c \in Runs, Kill(c)
      PROVE  MigrationInv'
  BY <1>4, KillInv
<1> QED BY <1>1, <1>2, <1>3, <1>4 DEF MigrationNext

LEMMA MigrationInvariant == MigrationSpec => []MigrationInv
  BY MigrationInitInv, MigrationInductive, PTL DEF MigrationSpec

(* A recorded migration is in effect, through crashes between `up' and the *)
(* record, for any number of runners that start together.                  *)
THEOREM RecordedAreEffectiveHolds == MigrationSpec => []RecordedAreEffective
<1>1. MigrationInv => RecordedAreEffective
  BY DEF MigrationInv
<1> QED BY <1>1, MigrationInvariant, PTL

(* The records are the first migrations of the list, without a hole.       *)
THEOREM RecordedInOrderHolds == MigrationSpec => []RecordedInOrder
<1>1. MigrationInv => RecordedInOrder
  BY DEF MigrationInv
<1> QED BY <1>1, MigrationInvariant, PTL

(* runMigrations returns only when every migration is recorded.            *)
THEOREM SuccessMeansAllHolds == MigrationSpec => []SuccessMeansAll
<1>1. MigrationInv => SuccessMeansAll
  BY DEF MigrationInv
<1> QED BY <1>1, MigrationInvariant, PTL

-----------------------------------------------------------------------------
(* Rooms.                                                                  *)

(* What a socket has been told it subscribes to is what socket.io has it   *)
(* in: without this, a broadcast to the rooms says nothing of the answers. *)
RoomsInv == RoomsTypeOK /\ ack = rooms

(* A socket is sent a copy of an event exactly when a room of the payload  *)
(* is one of its own.                                                      *)
LEMMA CopiesOfEvent ==
  ASSUME NEW s \in Sockets, NEW e \in Broadcasts, RoomsTypeOK
  PROVE  /\ Copies(s, e) \in 0 .. 2
         /\ Copies(s, e) > 0 <=> rooms[s] \cap PayloadRooms[e] # {}
<1>1. PayloadRooms[e] \subseteq RestaurantRooms \cup SectorRooms
  BY RoomsAssumption DEF RoomNames
<1>2. rooms[s] \cap PayloadRooms[e] # {} <=>
        \/ rooms[s] \cap PayloadRooms[e] \cap RestaurantRooms # {}
        \/ rooms[s] \cap PayloadRooms[e] \cap SectorRooms # {}
  BY <1>1
<1> QED
  BY <1>2 DEF Copies

LEMMA RoomsInitInv == RoomsInit => RoomsInv
BY DEF RoomsInit, RoomsInv, RoomsTypeOK

LEMMA DataAreRooms == ASSUME NEW data \in Data PROVE data \subseteq RoomNames
BY DEF Data, RoomNames

LEMMA RoomsInductive == RoomsInv /\ [RoomsNext]_roomVars => RoomsInv'
<1> SUFFICES ASSUME RoomsInv, [RoomsNext]_roomVars
             PROVE  RoomsInv'
  OBVIOUS
<1> USE DEF RoomsInv, RoomsTypeOK
<1>1. ASSUME NEW s \in Sockets, NEW p \in Hosts, ConnectSocket(s, p)
      PROVE  RoomsInv'
  BY <1>1 DEF ConnectSocket
<1>2. ASSUME NEW s \in Sockets, DisconnectSocket(s)
      PROVE  RoomsInv'
  BY <1>2 DEF DisconnectSocket
<1>3. ASSUME NEW s \in Sockets, NEW data \in Data, SubscribeRooms(s, data)
      PROVE  RoomsInv'
  BY <1>3, DataAreRooms DEF SubscribeRooms
<1>4. ASSUME NEW s \in Sockets, NEW data \in Data, UnsubscribeRooms(s, data)
      PROVE  RoomsInv'
  BY <1>4 DEF UnsubscribeRooms
<1>5. ASSUME NEW p \in Hosts, NEW e \in Broadcasts, Broadcast(p, e)
      PROVE  RoomsInv'
  <2>1. sentBy' \in [Broadcasts -> SUBSET Hosts]
    BY <1>5 DEF Broadcast
  <2>2. ASSUME NEW s \in Sockets
        PROVE  [heard[s] EXCEPT ![e] = @ + Copies(s, e)] \in [Broadcasts -> Nat]
    <3>1. heard[s] \in [Broadcasts -> Nat] /\ Copies(s, e) \in 0 .. 2
      BY CopiesOfEvent
    <3>2. heard[s][e] + Copies(s, e) \in Nat
      BY <3>1
    <3> QED
      BY <3>1, <3>2
  <2>3. heard' \in [Sockets -> [Broadcasts -> Nat]]
    BY <1>5, <2>2 DEF Broadcast
  <2> QED
    BY <1>5, <2>1, <2>3 DEF Broadcast
<1>6. CASE UNCHANGED roomVars
  BY <1>6 DEF roomVars
<1> QED
  BY <1>1, <1>2, <1>3, <1>4, <1>5, <1>6 DEF RoomsNext

(* Only a broadcast sends anything, and only its own event.                *)
LEMMA BroadcastIsHeard ==
  RoomsInv /\ [RoomsNext]_roomVars =>
    \A s \in Sockets, p \in Hosts, e \in Broadcasts :
      p \in sentBy'[e] \ sentBy[e] =>
        /\ host[s] = p /\ ack[s] \cap PayloadRooms[e] # {} => heard'[s][e] > heard[s][e]
        /\ heard'[s][e] > heard[s][e] => ack[s] \cap BookingRooms[e] # {}
<1> SUFFICES ASSUME RoomsInv, [RoomsNext]_roomVars,
                    NEW s \in Sockets, NEW p \in Hosts, NEW e \in Broadcasts,
                    p \in sentBy'[e] \ sentBy[e]
             PROVE  /\ host[s] = p /\ ack[s] \cap PayloadRooms[e] # {} => heard'[s][e] > heard[s][e]
                    /\ heard'[s][e] > heard[s][e] => ack[s] \cap BookingRooms[e] # {}
  OBVIOUS
<1>1. PICK q \in Hosts, f \in Broadcasts : Broadcast(q, f)
  BY DEF RoomsNext, roomVars, ConnectSocket, DisconnectSocket, SubscribeRooms, UnsubscribeRooms
<1>2. q = p /\ f = e
  BY <1>1 DEF Broadcast, RoomsInv, RoomsTypeOK
<1>3. /\ heard[s] \in [Broadcasts -> Nat] /\ heard[s][e] \in Nat
      /\ Copies(s, e) \in 0 .. 2
      /\ Copies(s, e) > 0 <=> ack[s] \cap PayloadRooms[e] # {}
  BY CopiesOfEvent DEF RoomsInv, RoomsTypeOK
<1>4. heard'[s][e] = IF host[s] = p THEN heard[s][e] + Copies(s, e) ELSE heard[s][e]
  BY <1>1, <1>2, <1>3 DEF Broadcast
<1>5. PayloadRooms[e] \subseteq BookingRooms[e]
  BY RoomsAssumption
<1> QED
  BY <1>3, <1>4, <1>5

(* Type correctness of the rooms: whatever sockets come, subscribe and go. *)
THEOREM RoomsTyping == RoomsSpec => []RoomsTypeOK
<1>1. RoomsInv => RoomsTypeOK
  BY DEF RoomsInv
<1> QED
  BY <1>1, RoomsInitInv, RoomsInductive, PTL DEF RoomsSpec

(* websocket-server.ts handleSubscribe, handleUnsubscribe, broadcastEvent: *)
(* when a process broadcasts an event, its sockets that have been told     *)
(* they subscribe to a room of the payload hear it, and nobody does who    *)
(* has no subscription for the event's booking.                            *)
THEOREM SubscribersHearHolds == RoomsSpec => SubscribersHear
<1> DEFINE Heard ==
      \A s \in Sockets, p \in Hosts, e \in Broadcasts :
        p \in sentBy'[e] \ sentBy[e] =>
          /\ host[s] = p /\ ack[s] \cap PayloadRooms[e] # {} => heard'[s][e] > heard[s][e]
          /\ heard'[s][e] > heard[s][e] => ack[s] \cap BookingRooms[e] # {}
<1>1. RoomsInv /\ [RoomsNext]_roomVars => [Heard]_roomVars
  BY BroadcastIsHeard
<1> QED
  BY <1>1, RoomsInitInv, RoomsInductive, PTL DEF RoomsSpec, SubscribersHear

-----------------------------------------------------------------------------
(* The components together.  Each that has no choice of its first state    *)
(* starts as it would by itself, and every step of the platform is a step  *)
(* of the component or leaves it alone.                                    *)
LEMMA PlatformInits ==
  Init => /\ StoreInit /\ LeaseInit /\ FlagInit /\ CacheInit /\ MigrationInit
          /\ RegistryInit /\ RoomsInit /\ CatalogueInit
BY DEF Init, StoreRests, RegistryRests

LEMMA PlatformSteps ==
  [Next]_vars =>
    /\ [StoreNext]_storeVars /\ [LeaseNext]_dlockVars /\ [FlagNext]_flagVars
    /\ [CacheNext]_cacheVars /\ [MigrationNext]_migrationVars /\ [RegistryNext]_registryVars
    /\ [RoomsNext]_roomVars /\ [CatalogueNext]_catalogueVars
<1>1. Next =>
    /\ StoreNext \/ UNCHANGED storeVars
    /\ LeaseNext \/ UNCHANGED dlockVars
    /\ FlagNext \/ UNCHANGED flagVars
    /\ CacheNext \/ UNCHANGED cacheVars
    /\ MigrationNext \/ UNCHANGED migrationVars
    /\ RegistryNext \/ UNCHANGED registryVars
    /\ RoomsNext \/ UNCHANGED roomVars
    /\ CatalogueNext \/ UNCHANGED catalogueVars
  BY Zenon DEF Next
<1>2. UNCHANGED vars =>
    /\ UNCHANGED storeVars /\ UNCHANGED dlockVars /\ UNCHANGED flagVars
    /\ UNCHANGED cacheVars /\ UNCHANGED migrationVars /\ UNCHANGED registryVars
    /\ UNCHANGED roomVars /\ UNCHANGED catalogueVars
  BY DEF vars
<1> QED BY <1>1, <1>2, Zenon

(* So a behaviour of the platform is one of each of these components, and  *)
(* what is proved of a component holds of the platform.                    *)
THEOREM ComponentsBehave ==
  Spec => /\ StoreSpec /\ LeaseSpec /\ FlagSpec /\ CacheSpec /\ MigrationSpec
          /\ RegistrySpec /\ RoomsSpec /\ CatalogueSpec
BY PlatformInits, PlatformSteps, PTL
   DEF Spec, StoreSpec, LeaseSpec, FlagSpec, CacheSpec, MigrationSpec, RegistrySpec, RoomsSpec,
       CatalogueSpec

(* The server rests in a state in which it could not have started, that of *)
(* a process that has exited, and keeps its invariant when it does not.    *)
PlatformServerInv == IF part = "server" THEN ServerInv ELSE ServerRests

LEMMA PlatformServerInvariant == Spec => []PlatformServerInv
<1>1. Init => PlatformServerInv
  BY ServerInitInv, Zenon DEF Init, PlatformServerInv
<1>2. PlatformServerInv /\ [Next]_vars => PlatformServerInv'
  <2> SUFFICES ASSUME PlatformServerInv, [Next]_vars PROVE PlatformServerInv'
    OBVIOUS
  <2>1. part' = part /\ (part # "server" => UNCHANGED serverVars)
    <3>1. Next => part' = part /\ (part # "server" => UNCHANGED serverVars)
      BY Zenon DEF Next
    <3>2. UNCHANGED vars => part' = part /\ UNCHANGED serverVars
      BY DEF vars
    <3> QED BY <3>1, <3>2, Zenon
  <2>2. [ServerNext]_serverVars
    <3>1. Next => ServerNext \/ UNCHANGED serverVars
      BY Zenon DEF Next
    <3>2. UNCHANGED vars => UNCHANGED serverVars
      BY DEF vars
    <3> QED BY <3>1, <3>2, Zenon
  <2>3. CASE part = "server"
    <3>1. ServerInv'
      BY <2>2, <2>3, ServerInductive, Zenon DEF PlatformServerInv
    <3> QED BY <2>1, <2>3, <3>1, Zenon DEF PlatformServerInv
  <2>4. CASE part # "server"
    <3>1. ServerRests'
      BY <2>1, <2>4, Zenon DEF PlatformServerInv, ServerRests, serverVars
    <3> QED BY <2>1, <2>4, <3>1, Zenon DEF PlatformServerInv
  <2> QED BY <2>3, <2>4
<1> QED BY <1>1, <1>2, PTL DEF Spec

LEMMA PlatformServer ==
  PlatformServerInv => ServerTypeOK /\ CutRequestsHaveACause /\ RequestsHaveADatabase
<1>1. ServerInv => ServerTypeOK /\ CutRequestsHaveACause /\ RequestsHaveADatabase
  BY DEF ServerInv, RequestsAreServed, RequestsHaveADatabase
<1>2. ASSUME ServerRests
      PROVE  ServerTypeOK /\ CutRequestsHaveACause /\ RequestsHaveADatabase
  <2>1. upsets \in 0 .. MaxUpsets /\ code \in 0 .. 2
    BY <1>2, ServerAssumption DEF ServerRests
  <2>2. connected \in BOOLEAN /\ closing \in BOOLEAN
    BY <1>2, Zenon DEF ServerRests
  <2>3. ServerTypeOK
    BY <1>2, <2>1, <2>2 DEF ServerRests, ServerTypeOK, Boots, Stops
  <2>4. CutRequestsHaveACause /\ RequestsHaveADatabase
    BY <1>2, Zenon DEF ServerRests, CutRequestsHaveACause, RequestsHaveADatabase
  <2> QED BY <2>3, <2>4
<1> QED BY <1>1, <1>2, Zenon DEF PlatformServerInv

(* Type correctness of all components.                                     *)
THEOREM PlatformTyping == Spec => []TypeOK
<1>1. MigrationInv => MigrationTypeOK
  BY DEF MigrationInv
<1>2. /\ StoreTypeOK /\ LeaseTypeOK /\ FlagTypeOK /\ CacheTypeOK /\ MigrationTypeOK
      /\ RegistryTypeOK /\ ServerTypeOK /\ RoomsTypeOK /\ CatalogueTypeOK
      => TypeOK
  BY DEF TypeOK
<1> QED
  BY <1>1, <1>2, ComponentsBehave, PlatformServerInvariant, PlatformServer, StoreTyping,
     LeaseTyping, FlagTyping, CacheTyping, MigrationInvariant, RegistryTyping, RoomsTyping,
     CatalogueTyping, PTL

(* What the platform run checks beside the types and the end of a          *)
(* shutdown, for the behaviours it checks it of.                           *)
THEOREM PlatformSafety ==
  Spec => /\ [](AppendsAreWhole /\ OverlapNeedsLostEntry /\ StaleEntriesHaveACause)
          /\ [](RecordedAreEffective /\ RequestsAreSerial)
          /\ [](CutRequestsHaveACause /\ DoubledTablesHaveACause)
          /\ ImplementsEventLog /\ CopiesNeverGoBack /\ SubscribersHear
BY ComponentsBehave, PlatformServerInvariant, PlatformServer, AppendsAreWholeHolds,
   OverlapNeedsLostEntryHolds, StaleEntriesHaveACauseHolds, RecordedAreEffectiveHolds,
   RequestsAreSerialHolds, DoubledTablesHaveACauseHolds, LogImplemented, CopiesNeverGoBackHolds,
   SubscribersHearHolds, PTL
=============================================================================

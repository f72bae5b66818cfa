------------------------- MODULE EventWorkers_proof -------------------------
(***************************************************************************)
(* Proofs about EventBus and EventWorkers for any bookings, processes,     *)
(* order of the workers' starts and bounds.                                *)
(***************************************************************************)
EXTENDS EventWorkers, TLAPS

(* The group never commits more than it has handled, and a process that    *)
(* owns the partition it handles a message of handles the next one: it is  *)
(* given no partition while it handles a message.                          *)
Offsets ==
  /\ \A k \in Keys : committed[k] # None => committed[k] <= position[k]
  /\ \A p \in Processes, k \in Keys :
       Handling(p, k) /\ owner[k] = p => task[p].offset = position[k] + 1

BusOK == BusTypeOK /\ Offsets

LEMMA TasksMade ==
  /\ \A p \in Processes : task[p] \in Task =>
       /\ task[p] # None /\ task[p].key \in Keys /\ task[p].offset \in Nat
       /\ task[p].todo \subseteq Workers
  /\ \A k \in Keys, n \in Nat, todo \in SUBSET Workers :
       [key |-> k, offset |-> n, todo |-> todo] \in Task
BY NoneIsNoTask DEF Task

(* What a handler that returns leaves of its process's message.            *)
LEMMA FinishTask ==
  ASSUME BusOK, NEW p \in Processes, NEW w, Finish(p, w)
  PROVE  /\ task[p] # None /\ w \in task[p].todo
         /\ task' \in [Processes -> Task \cup {None}]
         /\ task'[p] # None /\ task'[p].key = task[p].key /\ task'[p].offset = task[p].offset
         /\ task'[p].todo = task[p].todo \ {w}
         /\ \A q \in Processes \ {p} : task'[q] = task[q]
         /\ UNCHANGED <<topic, committed, position, owner, handlers>>
<1>1. task \in [Processes -> Task \cup {None}] /\ task[p] \in Task
  BY DEF Finish, BusOK, BusTypeOK
<1> DEFINE left == [task[p] EXCEPT !.todo = task[p].todo \ {w}]
<1>2. /\ left \in Task /\ left.key = task[p].key /\ left.offset = task[p].offset
      /\ left.todo = task[p].todo \ {w}
  BY <1>1 DEF Task
<1>3. task' = [task EXCEPT ![p] = left]
  BY DEF Finish
<1> HIDE DEF left
<1>4. task'[p] = left /\ left # None
  BY <1>1, <1>2, <1>3, NoneIsNoTask
<1> QED BY <1>1, <1>2, <1>3, <1>4 DEF Finish

LEMMA BusFinish ==
  ASSUME BusOK, NEW p \in Processes, NEW w, Finish(p, w)
  PROVE  BusOK'
<1>1. BusTypeOK'
  BY FinishTask DEF BusOK, BusTypeOK
<1>2. Offsets'
  BY FinishTask DEF BusOK, Offsets, Handling
<1> QED BY <1>1, <1>2 DEF BusOK

LEMMA BusAppend ==
  ASSUME BusOK, NEW k \in Keys, NEW e \in Events, Append2Topic(k, e)
  PROVE  /\ BusOK'
         /\ Len(topic'[k]) = Len(topic[k]) + 1
         /\ topic'[k][Len(topic[k]) + 1] = e
         /\ \A i \in 1 .. Len(topic[k]) : topic'[k][i] = topic[k][i]
         /\ \A l \in Keys \ {k} : topic'[l] = topic[l]
<1>1. topic \in [Keys -> Seq(Events)] /\ topic[k] \in Seq(Events)
  BY DEF BusOK, BusTypeOK
<1>2. Append(topic[k], e) \in Seq(Events)
  BY <1>1
<1>3. /\ topic' \in [Keys -> Seq(Events)] /\ topic'[k] = Append(topic[k], e)
      /\ \A l \in Keys \ {k} : topic'[l] = topic[l]
  BY <1>1, <1>2 DEF Append2Topic
<1>4. /\ Len(topic'[k]) = Len(topic[k]) + 1
      /\ topic'[k][Len(topic[k]) + 1] = e
      /\ \A i \in 1 .. Len(topic[k]) : topic'[k][i] = topic[k][i]
  BY <1>1, <1>3
<1>5. \A l \in Keys : Len(topic[l]) \in Nat /\ Len(topic[l]) <= Len(topic'[l])
  BY <1>1, <1>3, <1>4
<1>6. BusTypeOK'
  <2>1. \A l \in Keys : position[l] <= Len(topic'[l])
    BY <1>3, <1>5 DEF BusOK, BusTypeOK
  <2>2. ASSUME NEW p \in Processes, task[p] # None
        PROVE  task[p].offset \in 1 .. Len(topic'[task[p].key])
    <3>1. task[p] \in Task /\ task[p].offset \in 1 .. Len(topic[task[p].key])
      BY <2>2 DEF BusOK, BusTypeOK
    <3>2. task[p].key \in Keys
      BY <3>1, TasksMade
    <3> QED BY <1>3, <1>5, <3>1, <3>2
  <2> QED BY <1>3, <2>1, <2>2 DEF BusOK, BusTypeOK, Append2Topic
<1>7. Offsets'
  BY DEF BusOK, Offsets, Append2Topic, Handling
<1> QED BY <1>3, <1>4, <1>6, <1>7 DEF BusOK

LEMMA BusSubscribe ==
  ASSUME BusOK, NEW p \in Processes, NEW w \in Workers, Subscribe(p, w)
  PROVE  BusOK'
BY DEF BusOK, BusTypeOK, Offsets, Handling, Subscribe

LEMMA BusAssign ==
  ASSUME BusOK, NEW k \in Keys, NEW p \in Processes, Assign(k, p)
  PROVE  /\ BusOK'
         /\ owner'[k] = p /\ task[p] = None
         /\ position'[k] = IF committed[k] = None THEN Len(topic[k]) ELSE committed[k]
         /\ committed[k] # None => position'[k] <= position[k]
         /\ \A l \in Keys \ {k} : owner'[l] = owner[l] /\ position'[l] = position[l]
         /\ UNCHANGED <<topic, committed, handlers, task>>
<1>1. /\ owner'[k] = p /\ task[p] = None
      /\ position'[k] = IF committed[k] = None THEN Len(topic[k]) ELSE committed[k]
      /\ \A l \in Keys \ {k} : owner'[l] = owner[l] /\ position'[l] = position[l]
      /\ UNCHANGED <<topic, committed, handlers, task>>
  BY DEF BusOK, BusTypeOK, Assign
<1>2. /\ Len(topic[k]) \in Nat /\ committed[k] \in Nat \cup {None} /\ None \notin Nat
      /\ position[k] \in Nat /\ position[k] <= Len(topic[k])
      /\ committed[k] # None => committed[k] <= position[k]
  BY NoneIsNoPosition DEF BusOK, BusTypeOK, Offsets
<1>3. position'[k] \in Nat /\ position'[k] <= Len(topic[k])
  BY <1>1, <1>2
<1>4. BusTypeOK'
  BY <1>1, <1>3 DEF BusOK, BusTypeOK, Assign
<1>5. Offsets'
  <2>1. ASSUME NEW l \in Keys, committed[l] # None PROVE committed[l] <= position'[l]
    BY <1>1, <1>2, <2>1 DEF BusOK, Offsets
  <2>2. ASSUME NEW q \in Processes, NEW l \in Keys, Handling(q, l), owner'[l] = q
        PROVE  task[q].offset = position'[l] + 1
    BY <1>1, <2>2 DEF BusOK, Offsets, Handling
  <2> QED BY <1>1, <2>1, <2>2 DEF Offsets, Handling
<1> QED BY <1>1, <1>2, <1>4, <1>5 DEF BusOK

LEMMA BusFetch ==
  ASSUME BusOK, NEW p \in Processes, NEW k \in Keys, Fetch(p, k)
  PROVE  /\ BusOK'
         /\ task[p] = None /\ task'[p] # None
         /\ task'[p].key = k /\ task'[p].offset = position[k] + 1 /\ task'[p].todo = handlers[p]
         /\ owner[k] = p
         /\ \A q \in Processes \ {p} : task'[q] = task[q]
         /\ UNCHANGED <<topic, committed, position, owner, handlers>>
<1> DEFINE t == [key |-> k, offset |-> position[k] + 1, todo |-> handlers[p]]
<1>1. /\ position[k] \in Nat /\ position[k] < Len(topic[k]) /\ Len(topic[k]) \in Nat
      /\ handlers[p] \in SUBSET Workers
  BY DEF BusOK, BusTypeOK, Fetch
<1>2. t \in Task /\ t # None
  BY <1>1, NoneIsNoTask DEF Task
<1>3. task' = [task EXCEPT ![p] = t] /\ t.key = k /\ t.offset = position[k] + 1 /\ t.todo = handlers[p]
  BY DEF Fetch
<1>4. t.offset \in 1 .. Len(topic[t.key])
  BY <1>1, <1>3
<1> HIDE DEF t
<1>5. /\ task' \in [Processes -> Task \cup {None}] /\ task'[p] = t
      /\ \A q \in Processes \ {p} : task'[q] = task[q]
  BY <1>2, <1>3 DEF BusOK, BusTypeOK
<1>6. UNCHANGED <<topic, committed, position, owner, handlers>> /\ owner[k] = p /\ task[p] = None
  BY DEF Fetch
<1>7. BusTypeOK'
  BY <1>4, <1>5, <1>6 DEF BusOK, BusTypeOK
<1>8. Offsets'
  BY <1>2, <1>3, <1>5, <1>6 DEF BusOK, Offsets, Handling
<1> QED BY <1>2, <1>3, <1>5, <1>6, <1>7, <1>8 DEF BusOK

(* A completed message moves its owner's position, and that of nobody else.*)
LEMMA BusComplete ==
  ASSUME BusOK, NEW p \in Processes, Complete(p)
  PROVE  /\ BusOK'
         /\ task[p] # None /\ task[p].todo = {} /\ task'[p] = None
         /\ \A q \in Processes \ {p} : task'[q] = task[q]
         /\ \A k \in Keys :
              \/ ~(Handling(p, k) /\ owner[k] = p) /\ position'[k] = position[k]
              \/ Handling(p, k) /\ owner[k] = p /\ position'[k] = task[p].offset
         /\ \A k \in Keys : position[k] <= position'[k]
         /\ UNCHANGED <<topic, owner, handlers>>
<1> DEFINE k0 == task[p].key
<1>1. /\ task[p] \in Task /\ k0 \in Keys /\ task[p].offset \in Nat
      /\ task[p].offset <= Len(topic[k0])
  BY TasksMade DEF Complete, BusOK, BusTypeOK
<1>2. task' = [task EXCEPT ![p] = None] /\ UNCHANGED <<topic, owner, handlers>>
      /\ task[p] # None /\ task[p].todo = {}
  BY DEF Complete
<1>3. task'[p] = None /\ \A q \in Processes \ {p} : task'[q] = task[q]
  BY <1>2 DEF BusOK, BusTypeOK
<1>0. \A k \in Keys : position[k] \in Nat
  BY DEF BusOK, BusTypeOK
<1>4. CASE owner[k0] = p
  <2>1. /\ position' = [position EXCEPT ![k0] = task[p].offset]
        /\ \/ committed' = [committed EXCEPT ![k0] = task[p].offset]
           \/ UNCHANGED committed
    BY <1>4 DEF Complete
  <2>2. task[p].offset = position[k0] + 1
    BY <1>1, <1>2, <1>4 DEF BusOK, Offsets, Handling
  <2>3. /\ position' \in [Keys -> Nat] /\ position'[k0] = task[p].offset
        /\ position'[k0] <= Len(topic[k0])
        /\ \A k \in Keys \ {k0} : position'[k] = position[k]
    BY <1>1, <2>1 DEF BusOK, BusTypeOK
  <2>4. \A k \in Keys : position[k] <= position'[k]
    BY <1>0, <2>2, <2>3
  <2>5. BusTypeOK'
    BY <1>1, <1>2, <1>3, <2>1, <2>3 DEF BusOK, BusTypeOK
  <2>6. ASSUME NEW k \in Keys, committed'[k] # None PROVE committed'[k] <= position'[k]
    <3>1. CASE k = k0
      <4>1. \/ committed'[k] = task[p].offset
            \/ committed'[k] = committed[k] /\ committed[k] <= position[k] /\ committed[k] \in Nat
        BY <1>1, <2>1, <2>6, <3>1 DEF BusOK, BusTypeOK, Offsets
      <4> QED BY <1>1, <2>2, <2>3, <3>1, <4>1 DEF BusOK, BusTypeOK
    <3>2. CASE k # k0
      BY <2>1, <2>3, <2>6, <3>2 DEF BusOK, BusTypeOK, Offsets
    <3> QED BY <3>1, <3>2
  <2>7. ASSUME NEW q \in Processes, NEW k \in Keys, Handling(q, k)', owner'[k] = q
        PROVE  task'[q].offset = position'[k] + 1
    <3>1. q # p /\ k # k0
      BY <1>2, <1>3, <1>4, <2>7 DEF Handling
    <3> QED BY <1>2, <1>3, <2>3, <2>7, <3>1 DEF BusOK, Offsets, Handling
  <2>8. Offsets'
    BY <2>6, <2>7 DEF Offsets
  <2> QED BY <1>1, <1>2, <1>3, <1>4, <2>3, <2>4, <2>5, <2>8 DEF BusOK, Handling
<1>5. CASE owner[k0] # p
  <2>1. UNCHANGED <<position, committed>>
    BY <1>5 DEF Complete
  <2>2. BusTypeOK'
    BY <1>2, <1>3, <2>1 DEF BusOK, BusTypeOK
  <2>3. Offsets'
    BY <1>2, <1>3, <2>1 DEF BusOK, Offsets, Handling
  <2>4. \A k \in Keys : position[k] <= position'[k]
    BY <1>0, <2>1
  <2>5. \A k \in Keys : ~(Handling(p, k) /\ owner[k] = p)
    BY <1>5 DEF Handling
  <2> QED BY <1>2, <1>3, <2>1, <2>2, <2>3, <2>4, <2>5 DEF BusOK
<1> QED BY <1>4, <1>5

LEMMA BusLeave ==
  ASSUME BusOK, NEW p \in Processes, Leave(p)
  PROVE  /\ BusOK'
         /\ task'[p] = None
         /\ \A q \in Processes \ {p} : task'[q] = task[q]
         /\ \A k \in Keys : owner'[k] = IF owner[k] = p THEN None ELSE owner[k]
         /\ UNCHANGED <<topic, committed, position>>
<1>1. /\ task'[p] = None
      /\ \A q \in Processes \ {p} : task'[q] = task[q]
      /\ \A k \in Keys : owner'[k] = IF owner[k] = p THEN None ELSE owner[k]
      /\ UNCHANGED <<topic, committed, position>>
  BY DEF Leave, BusOK, BusTypeOK
<1>2. BusTypeOK'
  BY <1>1 DEF BusOK, BusTypeOK, Leave
<1>3. Offsets'
  BY <1>1, NoneIsNoPosition DEF BusOK, Offsets, Handling
<1> QED BY <1>1, <1>2, <1>3 DEF BusOK

-----------------------------------------------------------------------------
(* What the commands owe the topic: an event is due once its write is      *)
(* stored, and is then awaited, rejected or published, once at most.       *)
Published(k, e) == \E i \in 1 .. Len(topic[k]) : topic[k][i] = e

Due(k, e) == bookings[k] # None /\ (e = Cancelled => bookings[k] = "CANCELLED")

LedgerOf(k) ==
  /\ \A i \in 1 .. Len(topic[k]) : topic[k][i] \in {Created, Cancelled}
  /\ \A i, j \in 1 .. Len(topic[k]) : topic[k][i] = topic[k][j] => i = j
  /\ \A e \in {Created, Cancelled} :
       /\ Due(k, e) <=> e \in unsent[k] \/ e \in rejected[k] \/ Published(k, e)
       /\ ~(e \in unsent[k] /\ Published(k, e))

Ledger == \A k \in Keys : LedgerOf(k)

WorkersOK == TypeOK /\ Offsets /\ Ledger

LEMMA EventNames == Created # Cancelled /\ Created \in Events /\ Cancelled \in Events
BY WorkersAssumption DEF Created, Cancelled

LEMMA WorkersInit == Init => WorkersOK
<1> SUFFICES ASSUME Init PROVE WorkersOK
  OBVIOUS
<1>1. \A k \in Keys : topic[k] = <<>>
  BY DEF Init, BusInit
<1>2. BusTypeOK
  BY <1>1 DEF Init, BusInit, BusTypeOK
<1>3. TypeOK
  BY <1>2, WorkersAssumption DEF Init, TypeOK
<1>4. Offsets
  BY NoneIsNoPosition DEF Init, BusInit, Offsets, Handling
<1>5. ASSUME NEW k \in Keys PROVE LedgerOf(k)
  <2>1. bookings[k] = None /\ unsent[k] = {} /\ rejected[k] = {}
    BY DEF Init
  <2>2. 1 .. Len(topic[k]) = {}
    BY <1>1
  <2> QED BY <2>1, <2>2 DEF LedgerOf, Published, Due
<1> QED BY <1>3, <1>4, <1>5 DEF WorkersOK, Ledger

LEMMA LedgerQuiet ==
  ASSUME Ledger, UNCHANGED <<topic, commands>>
  PROVE  Ledger'
BY DEF Ledger, LedgerOf, Published, Due, commands

(* The event a worker is handed.                                           *)
LEMMA CurrentEvent ==
  ASSUME WorkersOK, NEW p \in Processes, task[p] # None
  PROVE  /\ task[p] \in Task /\ task[p].key \in Keys /\ task[p].todo \subseteq Workers
         /\ task[p].offset \in 1 .. Len(topic[task[p].key])
         /\ Current(p) \in {Created, Cancelled}
<1>1. task[p] \in Task /\ task[p].offset \in 1 .. Len(topic[task[p].key])
  BY DEF WorkersOK, TypeOK, BusTypeOK
<1>2. task[p].key \in Keys /\ task[p].todo \subseteq Workers
  BY <1>1, TasksMade
<1> QED BY <1>1, <1>2 DEF WorkersOK, Ledger, LedgerOf, Current

-----------------------------------------------------------------------------
LEMMA OKSaveBooking ==
  ASSUME WorkersOK, NEW k \in Keys, SaveBooking(k)
  PROVE  WorkersOK'
<1>1. TypeOK' /\ Offsets'
  BY DEF WorkersOK, TypeOK, BusTypeOK, Offsets, Handling, SaveBooking, busVars, sinks, bounds
<1>2. /\ bookings \in [Keys -> {None, "CONFIRMED", "CANCELLED"}]
      /\ unsent \in [Keys -> SUBSET {Created, Cancelled}]
  BY DEF WorkersOK, TypeOK
<1>3. ASSUME NEW l \in Keys PROVE LedgerOf(l)'
  <2>1. CASE l # k
    BY <1>2, <2>1 DEF WorkersOK, Ledger, LedgerOf, Published, Due, SaveBooking, busVars
  <2>2. CASE l = k
    <3>1. bookings[k] = None /\ bookings'[k] = "CONFIRMED" /\ unsent'[k] = unsent[k] \cup {Created}
      BY <1>2 DEF SaveBooking
    <3>2. UNCHANGED <<topic, rejected>>
      BY DEF SaveBooking, busVars
    <3> QED BY <2>2, <3>1, <3>2, EventNames, WorkersAssumption
            DEF WorkersOK, Ledger, LedgerOf, Published, Due
  <2> QED BY <2>1, <2>2
<1> QED BY <1>1, <1>3 DEF WorkersOK, Ledger

LEMMA OKSaveCancelled ==
  ASSUME WorkersOK, NEW k \in Keys, SaveCancelled(k)
  PROVE  WorkersOK'
<1>1. TypeOK' /\ Offsets'
  BY DEF WorkersOK, TypeOK, BusTypeOK, Offsets, Handling, SaveCancelled, busVars, sinks, bounds
<1>2. /\ bookings \in [Keys -> {None, "CONFIRMED", "CANCELLED"}]
      /\ unsent \in [Keys -> SUBSET {Created, Cancelled}]
  BY DEF WorkersOK, TypeOK
<1>3. ASSUME NEW l \in Keys PROVE LedgerOf(l)'
  <2>1. CASE l # k
    BY <1>2, <2>1 DEF WorkersOK, Ledger, LedgerOf, Published, Due, SaveCancelled, busVars
  <2>2. CASE l = k
    <3>1. /\ bookings[k] = "CONFIRMED" /\ bookings'[k] = "CANCELLED"
          /\ unsent'[k] = unsent[k] \cup {Cancelled}
      BY <1>2 DEF SaveCancelled
    <3>2. UNCHANGED <<topic, rejected>>
      BY DEF SaveCancelled, busVars
    <3> QED BY <2>2, <3>1, <3>2, EventNames, WorkersAssumption
            DEF WorkersOK, Ledger, LedgerOf, Published, Due
  <2> QED BY <2>1, <2>2
<1> QED BY <1>1, <1>3 DEF WorkersOK, Ledger

LEMMA OKPublish ==
  ASSUME WorkersOK, NEW k \in Keys, NEW e \in {Created, Cancelled}, Publish(k, e)
  PROVE  WorkersOK'
<1>1. /\ BusOK'
      /\ Len(topic'[k]) = Len(topic[k]) + 1 /\ Len(topic[k]) \in Nat
      /\ topic'[k][Len(topic[k]) + 1] = e
      /\ \A i \in 1 .. Len(topic[k]) : topic'[k][i] = topic[k][i]
      /\ \A l \in Keys \ {k} : topic'[l] = topic[l]
  BY BusAppend, EventNames DEF WorkersOK, TypeOK, BusOK, BusTypeOK, Publish
<1>2. TypeOK'
  BY <1>1 DEF WorkersOK, TypeOK, BusOK, Publish, sinks, bounds
<1>3. /\ e \in unsent[k] /\ unsent'[k] = unsent[k] \ {e} /\ UNCHANGED <<bookings, rejected>>
      /\ \A l \in Keys \ {k} : unsent'[l] = unsent[l]
  BY DEF WorkersOK, TypeOK, Publish
<1>4. ASSUME NEW l \in Keys PROVE LedgerOf(l)'
  <2>1. CASE l # k
    BY <1>1, <1>3, <2>1 DEF WorkersOK, Ledger, LedgerOf, Published, Due
  <2>2. CASE l = k
    <3>1. LedgerOf(k) /\ ~Published(k, e)
      BY <1>3 DEF WorkersOK, Ledger, LedgerOf
    <3>2. \A f : Published(k, f)' <=> Published(k, f) \/ f = e
      BY <1>1 DEF Published
    <3>3. \A i \in 1 .. Len(topic'[k]) : i = Len(topic[k]) + 1 \/ i \in 1 .. Len(topic[k])
      BY <1>1
    <3>4. /\ \A i \in 1 .. Len(topic'[k]) : topic'[k][i] \in {Created, Cancelled}
          /\ \A i, j \in 1 .. Len(topic'[k]) : topic'[k][i] = topic'[k][j] => i = j
      BY <1>1, <3>1, <3>3 DEF LedgerOf, Published
    <3> QED BY <1>3, <2>2, <3>1, <3>2, <3>4 DEF LedgerOf, Due
  <2> QED BY <2>1, <2>2
<1> QED BY <1>1, <1>2, <1>4 DEF WorkersOK, Ledger, BusOK

LEMMA OKRejectPublication ==
  ASSUME WorkersOK, NEW k \in Keys, NEW e \in {Created, Cancelled}, RejectPublication(k, e)
  PROVE  WorkersOK'
<1>0. failures' \in 0 .. MaxFailures
  BY WorkersAssumption DEF WorkersOK, TypeOK, RejectPublication
<1>1. TypeOK' /\ Offsets'
  BY <1>0 DEF WorkersOK, TypeOK, BusTypeOK, Offsets, Handling, RejectPublication, busVars, sinks
<1>2. /\ e \in unsent[k] /\ unsent'[k] = unsent[k] \ {e} /\ rejected'[k] = rejected[k] \cup {e}
      /\ UNCHANGED <<topic, bookings>>
      /\ \A l \in Keys \ {k} : unsent'[l] = unsent[l] /\ rejected'[l] = rejected[l]
  BY DEF WorkersOK, TypeOK, RejectPublication, busVars
<1>3. ASSUME NEW l \in Keys PROVE LedgerOf(l)'
  BY <1>2 DEF WorkersOK, Ledger, LedgerOf, Published, Due
<1> QED BY <1>1, <1>3 DEF WorkersOK, Ledger

(* The steps of the bus and of the processes leave the commands alone.     *)
LEMMA OKBusSteps ==
  ASSUME WorkersOK, NEW p \in Processes,
         \/ \E n \in 1 .. Len(Startup) : StartWorker(p, n)
         \/ \E k \in Keys : TakePartition(k, p)
         \/ \E k \in Keys : Receive(p, k)
         \/ Acknowledge(p)
  PROVE  WorkersOK'
<1>1. BusOK
  BY DEF WorkersOK, TypeOK, BusOK
<1>2. /\ UNCHANGED <<topic, commands, sinks, database, failures, exits>>
      /\ BusOK'
  <2>1. ASSUME NEW n \in 1 .. Len(Startup), StartWorker(p, n)
        PROVE  BusOK' /\ UNCHANGED topic
    <3>1. Startup[n] \in Workers
      BY WorkersAssumption
    <3> QED BY <1>1, <2>1, <3>1, BusSubscribe DEF StartWorker, Subscribe
  <2>2. ASSUME NEW k \in Keys, TakePartition(k, p) PROVE BusOK' /\ UNCHANGED topic
    BY <1>1, <2>2, BusAssign DEF TakePartition
  <2>3. ASSUME NEW k \in Keys, Receive(p, k) PROVE BusOK' /\ UNCHANGED topic
    BY <1>1, <2>3, BusFetch DEF Receive
  <2>4. ASSUME Acknowledge(p) PROVE BusOK' /\ UNCHANGED topic
    BY <1>1, <2>4, BusComplete DEF Acknowledge
  <2> QED BY <2>1, <2>2, <2>3, <2>4
          DEF StartWorker, TakePartition, Receive, Acknowledge, bounds
<1>3. excused' \subseteq Workers \X Keys
  <2>1. excused \subseteq Workers \X Keys /\ handlers[p] \subseteq Workers
    BY DEF WorkersOK, TypeOK, BusTypeOK
  <2> QED BY <2>1 DEF StartWorker, TakePartition, Receive, Acknowledge
<1>4. rebalances' \in 0 .. MaxRebalances
  <2>1. rebalances \in 0 .. MaxRebalances /\ MaxRebalances \in Nat
    BY WorkersAssumption DEF WorkersOK, TypeOK
  <2>2. ASSUME NEW k \in Keys, TakePartition(k, p) PROVE rebalances' \in 0 .. MaxRebalances
    BY <2>1, <2>2 DEF TakePartition
  <2> QED BY <2>1, <2>2 DEF StartWorker, Receive, Acknowledge, bounds
<1>5. TypeOK'
  BY <1>2, <1>3, <1>4 DEF WorkersOK, TypeOK, BusOK, commands, sinks
<1> QED BY <1>2, <1>5, LedgerQuiet DEF WorkersOK, BusOK

LEMMA OKProject ==
  ASSUME WorkersOK, NEW p \in Processes, Project(p)
  PROVE  WorkersOK'
<1>1. BusOK' /\ UNCHANGED <<topic, commands>>
  BY BusFinish, FinishTask DEF WorkersOK, TypeOK, BusOK, Project
<1> DEFINE model == Projected(Current(p), view[task[p].key])
<1>2. model \in ReadModel \cup {None}
  <2>1. task[p].key \in Keys
    BY CurrentEvent DEF Project, Finish
  <2>2. view[task[p].key] \in ReadModel \cup {None}
    BY <2>1 DEF WorkersOK, TypeOK
  <2> QED BY <2>2 DEF Projected, ReadModel, Stamp
<1>3. view' = [view EXCEPT ![task[p].key] = model]
  BY DEF Project
<1> HIDE DEF model
<1>4. TypeOK'
  BY <1>1, <1>2, <1>3 DEF WorkersOK, TypeOK, BusOK, Project, commands, bounds
<1> QED BY <1>1, <1>4, LedgerQuiet DEF WorkersOK, BusOK

LEMMA OKStoreAudit ==
  ASSUME WorkersOK, NEW p \in Processes, StoreAudit(p)
  PROVE  WorkersOK'
<1>1. BusOK' /\ UNCHANGED <<topic, commands>>
  BY BusFinish, FinishTask DEF WorkersOK, TypeOK, BusOK, StoreAudit
<1> DEFINE k == task[p].key
<1>2. k \in Keys /\ Current(p) \in {Created, Cancelled}
  BY CurrentEvent DEF StoreAudit, Finish
<1>3. trail' \in [Keys -> Seq({Created, Cancelled})]
  <2>1. trail \in [Keys -> Seq({Created, Cancelled})] /\ trail[k] \in Seq({Created, Cancelled})
    BY <1>2 DEF WorkersOK, TypeOK
  <2>2. Append(trail[k], Current(p)) \in Seq({Created, Cancelled})
    BY <1>2, <2>1
  <2>3. trail' = [trail EXCEPT ![k] = Append(trail[k], Current(p))] \/ UNCHANGED trail
    BY DEF StoreAudit
  <2> HIDE DEF k
  <2> QED BY <2>1, <2>2, <2>3
<1>4. TypeOK'
  BY <1>1, <1>3 DEF WorkersOK, TypeOK, BusOK, StoreAudit, commands, bounds
<1> QED BY <1>1, <1>4, LedgerQuiet DEF WorkersOK, BusOK

LEMMA OKStoreAnalytics ==
  ASSUME WorkersOK, NEW p \in Processes, StoreAnalytics(p)
  PROVE  WorkersOK'
<1>1. BusOK' /\ UNCHANGED <<topic, commands>>
  BY BusFinish, FinishTask DEF WorkersOK, TypeOK, BusOK, StoreAnalytics
<1>2. task[p].key \in Keys /\ Current(p) \in {Created, Cancelled}
  BY CurrentEvent DEF StoreAnalytics, Finish
<1>3. counts' \in [Keys -> [{Created, Cancelled} -> Nat]]
  <2> DEFINE k == task[p].key
             c == [counts[k] EXCEPT ![Current(p)] = counts[k][Current(p)] + 1]
  <2>1. counts[k] \in [{Created, Cancelled} -> Nat]
    BY <1>2 DEF WorkersOK, TypeOK
  <2>2. c \in [{Created, Cancelled} -> Nat]
    BY <1>2, <2>1
  <2>3. counts' = [counts EXCEPT ![k] = c]
    BY DEF StoreAnalytics
  <2> HIDE DEF c
  <2> QED BY <2>2, <2>3 DEF WorkersOK, TypeOK
<1>4. TypeOK'
  BY <1>1, <1>3 DEF WorkersOK, TypeOK, BusOK, StoreAnalytics, commands, bounds
<1> QED BY <1>1, <1>4, LedgerQuiet DEF WorkersOK, BusOK

LEMMA OKFailHandler ==
  ASSUME WorkersOK, NEW p \in Processes, NEW w \in Workers, FailHandler(p, w)
  PROVE  WorkersOK'
<1>1. BusOK' /\ UNCHANGED <<topic, commands>>
  BY BusFinish, FinishTask DEF WorkersOK, TypeOK, BusOK, FailHandler
<1>2. task[p].key \in Keys
  BY CurrentEvent DEF FailHandler, Finish
<1>3. failures' \in 0 .. MaxFailures
  BY WorkersAssumption DEF WorkersOK, TypeOK, FailHandler
<1>4. excused' \subseteq Workers \X Keys
  BY <1>2 DEF WorkersOK, TypeOK, FailHandler
<1>5. TypeOK'
  BY <1>1, <1>3, <1>4 DEF WorkersOK, TypeOK, BusOK, FailHandler, commands, sinks
<1> QED BY <1>1, <1>5, LedgerQuiet DEF WorkersOK, BusOK

LEMMA OKEnds ==
  ASSUME WorkersOK, NEW p \in Processes, StopServer(p) \/ Exit(p)
  PROVE  WorkersOK'
<1>1. BusOK
  BY DEF WorkersOK, TypeOK, BusOK
<1>2. BusOK' /\ UNCHANGED <<topic, commands, sinks, excused, failures, rebalances>>
  <2>1. CASE Leave(p)
    BY <1>1, <2>1, BusLeave DEF StopServer, Exit
  <2>2. CASE UNCHANGED busVars
    BY <1>1, <2>2 DEF StopServer, Exit, busVars, BusOK, BusTypeOK, Offsets, Handling
  <2> QED BY <2>1, <2>2 DEF StopServer, Exit
<1>3. exits' \in 0 .. MaxExits
  BY WorkersAssumption DEF WorkersOK, TypeOK, StopServer, Exit
<1>4. database' \in [Processes -> BOOLEAN]
  BY DEF WorkersOK, TypeOK, StopServer, Exit
<1>5. TypeOK'
  BY <1>2, <1>3, <1>4 DEF WorkersOK, TypeOK, BusOK, commands, sinks
<1> QED BY <1>2, <1>5, LedgerQuiet DEF WorkersOK, BusOK

LEMMA WorkersStep == WorkersOK /\ [Next]_vars => WorkersOK'
<1> SUFFICES ASSUME WorkersOK, [Next]_vars PROVE WorkersOK'
  OBVIOUS
<1>1. CASE UNCHANGED vars
  <2>1. TypeOK'
    BY <1>1 DEF vars, busVars, commands, sinks, bounds, WorkersOK, TypeOK, BusTypeOK
  <2>2. Offsets'
    BY <1>1 DEF vars, busVars, WorkersOK, Offsets, Handling
  <2>3. Ledger'
    BY <1>1, LedgerQuiet DEF vars, busVars, WorkersOK
  <2> QED BY <2>1, <2>2, <2>3 DEF WorkersOK
<1> QED
  BY <1>1, OKSaveBooking, OKSaveCancelled, OKPublish, OKRejectPublication, OKBusSteps,
     OKProject, OKStoreAudit, OKStoreAnalytics, OKFailHandler, OKEnds
     DEF Next, Command, Work

LEMMA WorkersInvariant == Spec => []WorkersOK
BY WorkersInit, WorkersStep, PTL DEF Spec

(* Every variable keeps its type: no partition is ever resumed past its    *)
(* end, and no process handles a message that is not there.                *)
THEOREM Typing == Spec => []TypeOK
BY WorkersInvariant, PTL DEF WorkersOK

-----------------------------------------------------------------------------
(* The steps as the invariants below see them: a command or the start of a *)
(* worker at most lengthens a topic; the others leave the topics alone.    *)
TopicsGrow ==
  \A k \in Keys : /\ Len(topic[k]) <= Len(topic'[k])
                  /\ \A i \in 1 .. Len(topic[k]) : topic'[k][i] = topic[k][i]

Elsewhere ==
  TopicsGrow /\ UNCHANGED <<committed, position, owner, task, sinks, database, excused, exits, rebalances>>

Ends(p) ==
  /\ Leave(p) \/ UNCHANGED <<committed, position, owner, task>>
  /\ exits < exits' \/ ~database[p]
  /\ exits <= exits'
  /\ \A q \in Processes \ {p} : database'[q] = database[q]
  /\ UNCHANGED <<topic, sinks, excused, rebalances>>

LEMMA WorkerSteps ==
  ASSUME WorkersOK, [Next]_vars
  PROVE  \/ Elsewhere
         \/ \E p \in Processes : \/ \E k \in Keys : TakePartition(k, p)
                                 \/ \E k \in Keys : Receive(p, k)
                                 \/ Project(p)
                                 \/ StoreAudit(p)
                                 \/ StoreAnalytics(p)
                                 \/ \E w \in Workers : FailHandler(p, w)
                                 \/ Acknowledge(p)
                                 \/ Ends(p)
<1>1. \A k \in Keys : Len(topic[k]) \in Nat
  BY DEF WorkersOK, TypeOK, BusTypeOK
<1>2. UNCHANGED topic => TopicsGrow
  BY <1>1 DEF TopicsGrow
<1>3. ASSUME NEW k \in Keys, Command(k) PROVE Elsewhere
  <2>1. CASE SaveBooking(k) \/ SaveCancelled(k)
    BY <1>2, <2>1 DEF SaveBooking, SaveCancelled, Elsewhere, busVars, sinks, bounds
  <2>2. ASSUME NEW e \in {Created, Cancelled}, RejectPublication(k, e) PROVE Elsewhere
    BY <1>2, <2>2 DEF RejectPublication, Elsewhere, busVars, sinks
  <2>3. ASSUME NEW e \in {Created, Cancelled}, Publish(k, e) PROVE Elsewhere
    <3>1. e \in Events
      BY EventNames
    <3>2. TopicsGrow
      <4>1. /\ Len(topic'[k]) = Len(topic[k]) + 1
            /\ \A i \in 1 .. Len(topic[k]) : topic'[k][i] = topic[k][i]
            /\ \A l \in Keys \ {k} : topic'[l] = topic[l]
        BY <2>3, <3>1, BusAppend DEF Publish, WorkersOK, TypeOK, BusOK
      <4> QED BY <1>1, <4>1 DEF TopicsGrow
    <3> QED BY <2>3, <3>2 DEF Publish, Append2Topic, Elsewhere, sinks, bounds
  <2> QED BY <1>3, <2>1, <2>2, <2>3 DEF Command
<1>4. ASSUME NEW p \in Processes, NEW n \in 1 .. Len(Startup), StartWorker(p, n) PROVE Elsewhere
  BY <1>2, <1>4 DEF StartWorker, Subscribe, Elsewhere, sinks, bounds
<1>5. ASSUME NEW p \in Processes, StopServer(p) \/ Exit(p) PROVE Ends(p)
  <2>1. exits \in Nat
    BY DEF WorkersOK, TypeOK
  <2>2. /\ exits < exits' \/ ~database[p]
        /\ exits <= exits'
    BY <1>5, <2>1 DEF StopServer, Exit
  <2>3. \A q \in Processes \ {p} : database'[q] = database[q]
    BY <1>5 DEF WorkersOK, TypeOK, StopServer, Exit
  <2>4. UNCHANGED <<topic, sinks, excused, rebalances>>
    BY <1>5 DEF StopServer, Exit, Leave, busVars, sinks
  <2>5. Leave(p) \/ UNCHANGED <<committed, position, owner, task>>
    BY <1>5 DEF StopServer, Exit, busVars
  <2> QED BY <2>2, <2>3, <2>4, <2>5 DEF Ends
<1>6. CASE UNCHANGED vars
  BY <1>2, <1>6 DEF vars, busVars, sinks, bounds, Elsewhere
<1> QED BY <1>3, <1>4, <1>5, <1>6 DEF Next, Work

LEMMA ViewSteps ==
  ASSUME WorkersOK, [Next]_vars
  PROVE  UNCHANGED view \/ \E p \in Processes : Project(p) /\ UNCHANGED <<bookings, topic>>
BY WorkerSteps DEF Elsewhere, Ends, TakePartition, Receive, Project, StoreAudit, StoreAnalytics,
                   FailHandler, Acknowledge, sinks, commands, Finish

(* A stored booking stays, and so does its cancellation.                   *)
LEMMA BookingsAdvance ==
  ASSUME WorkersOK, [Next]_vars, NEW k \in Keys
  PROVE  /\ bookings[k] # None => bookings'[k] # None
         /\ bookings[k] = "CANCELLED" => bookings'[k] = "CANCELLED"
<1>1. bookings \in [Keys -> {None, "CONFIRMED", "CANCELLED"}]
  BY DEF WorkersOK, TypeOK
<1>2. ASSUME NEW l \in Keys, SaveBooking(l) \/ SaveCancelled(l)
      PROVE  /\ bookings[k] # None => bookings'[k] # None
             /\ bookings[k] = "CANCELLED" => bookings'[k] = "CANCELLED"
  BY <1>1, <1>2, WorkersAssumption DEF SaveBooking, SaveCancelled
<1>3. ASSUME NEW l \in Keys, NEW e, Publish(l, e) \/ RejectPublication(l, e)
      PROVE  UNCHANGED bookings
  BY <1>3 DEF Publish, RejectPublication
<1>4. ASSUME NEW p \in Processes, NEW n, StartWorker(p, n) PROVE UNCHANGED bookings
  BY <1>4 DEF StartWorker, commands
<1>5. ASSUME NEW p \in Processes,
             \/ \E l \in Keys : TakePartition(l, p) \/ Receive(p, l)
             \/ Work(p)
             \/ \E w \in Workers : FailHandler(p, w)
             \/ Acknowledge(p) \/ StopServer(p) \/ Exit(p)
      PROVE  UNCHANGED bookings
  BY <1>5 DEF TakePartition, Receive, Work, Project, StoreAudit, StoreAnalytics, FailHandler,
              Acknowledge, StopServer, Exit, commands
<1>6. CASE UNCHANGED vars
  BY <1>6 DEF vars, commands
<1> QED BY <1>2, <1>3, <1>4, <1>5, <1>6 DEF Next, Command

(* The read model is never ahead of the bookings, in any order of events   *)
(* and whatever is repeated: what it projects has been published, and what *)
(* is published has been stored and stays.                                 *)
THEOREM ViewIsNeverAheadHolds == Spec => []ViewIsNeverAhead
<1>1. Init => ViewIsNeverAhead
  BY DEF Init, ViewIsNeverAhead
<1>2. WorkersOK /\ ViewIsNeverAhead /\ [Next]_vars => ViewIsNeverAhead'
  <2> SUFFICES ASSUME WorkersOK, ViewIsNeverAhead, [Next]_vars, NEW k \in Keys, view'[k] # None
               PROVE  /\ bookings'[k] # None
                      /\ view'[k].status = "CANCELLED" => bookings'[k] = "CANCELLED"
    BY DEF ViewIsNeverAhead
  <2>1. CASE view'[k] = view[k]
    BY <2>1, BookingsAdvance DEF ViewIsNeverAhead
  <2>2. ASSUME NEW p \in Processes, Project(p), UNCHANGED <<bookings, topic>>, view'[k] # view[k]
        PROVE  /\ bookings'[k] # None
               /\ view'[k].status = "CANCELLED" => bookings'[k] = "CANCELLED"
    <3>1. /\ task[p].key \in Keys /\ task[p].offset \in 1 .. Len(topic[task[p].key])
          /\ Current(p) \in {Created, Cancelled}
      BY <2>2, CurrentEvent DEF Project, Finish
    <3>2. view \in [Keys -> ReadModel \cup {None}]
      BY DEF WorkersOK, TypeOK
    <3>3. task[p].key = k /\ view'[k] = Projected(Current(p), view[k])
      BY <2>2, <3>1, <3>2 DEF Project
    <3>4. Due(k, Current(p))
      BY <3>1, <3>3 DEF WorkersOK, Ledger, LedgerOf, Published, Current
    <3>5. CASE Current(p) = Created
      BY <2>2, <3>3, <3>4, <3>5, EventNames DEF Due, Projected
    <3>6. CASE Current(p) = Cancelled
      BY <2>2, <3>3, <3>4, <3>6, EventNames DEF Due, Projected
    <3> QED BY <3>1, <3>5, <3>6
  <2> QED BY <2>1, <2>2, ViewSteps
<1> QED BY <1>1, <1>2, WorkersInvariant, PTL DEF Spec

-----------------------------------------------------------------------------
(* The audit trail of a booking, unless its worker is excused: it has what *)
(* was consumed, and the message at hand once the worker is done with it.  *)
Trailed(k, e) == e \in ToSet(trail[k])

TrailOf(k) ==
  <<"audit", k>> \notin excused =>
    /\ \A i \in 1 .. Len(topic[k]) : i <= position[k] => Trailed(k, topic[k][i])
    /\ \A p \in Processes :
         Handling(p, k) /\ "audit" \notin task[p].todo => Trailed(k, Current(p))

(* What a worker's return means for the messages at hand.                  *)
LEMMA FinishHandling ==
  ASSUME WorkersOK, NEW p \in Processes, NEW w, Finish(p, w), NEW k \in Keys
  PROVE  /\ \A q \in Processes :
              /\ Handling(q, k)' <=> Handling(q, k)
              /\ Handling(q, k) => task'[q].offset = task[q].offset /\ Current(q)' = Current(q)
              /\ Handling(q, k) /\ q # p => task'[q].todo = task[q].todo
         /\ task'[p].todo = task[p].todo \ {w} /\ w \in task[p].todo
         /\ UNCHANGED <<topic, committed, position, owner, handlers>>
BY FinishTask DEF WorkersOK, TypeOK, BusOK, Handling, Current

LEMMA TrailKept ==
  ASSUME WorkersOK, TopicsGrow, NEW k \in Keys, TrailOf(k),
         excused \subseteq excused', UNCHANGED trail,
         position'[k] \in Nat, position'[k] <= position[k],
         \A p \in Processes : Handling(p, k)' => task'[p] = task[p]
  PROVE  TrailOf(k)'
<1>1. position[k] \in Nat /\ position[k] <= Len(topic[k]) /\ Len(topic[k]) \in Nat
  BY DEF WorkersOK, TypeOK, BusTypeOK
<1>2. \A i \in 1 .. Len(topic[k]) : topic'[k][i] = topic[k][i]
  BY DEF TopicsGrow
<1>3. ASSUME NEW i \in 1 .. Len(topic'[k]), i <= position'[k],
             \A j \in 1 .. Len(topic[k]) : j <= position[k] => Trailed(k, topic[k][j])
      PROVE  Trailed(k, topic[k][i])'
  <2>1. i \in 1 .. Len(topic[k]) /\ i <= position[k]
    BY <1>1, <1>3
  <2> QED BY <1>2, <1>3, <2>1 DEF Trailed
<1>4. ASSUME NEW p \in Processes, Handling(p, k)', "audit" \notin task'[p].todo,
             <<"audit", k>> \notin excused
      PROVE  Trailed(k, Current(p))'
  <2>1. task'[p] = task[p] /\ Handling(p, k)
    BY <1>4 DEF Handling
  <2>2. task[p].offset \in 1 .. Len(topic[k])
    BY <2>1, CurrentEvent DEF Handling
  <2>3. Current(p)' = Current(p)
    BY <1>2, <2>1, <2>2 DEF Current, Handling
  <2> QED BY <1>4, <2>1, <2>3 DEF TrailOf, Trailed
<1> QED BY <1>3, <1>4 DEF TrailOf

LEMMA TrailFinish ==
  ASSUME WorkersOK, NEW k \in Keys, TrailOf(k), NEW p \in Processes,
         Project(p) \/ StoreAudit(p) \/ StoreAnalytics(p) \/ (\E w \in Workers : FailHandler(p, w))
  PROVE  TrailOf(k)'
<1>1. PICK w : /\ Finish(p, w)
               /\ \/ w # "audit" /\ UNCHANGED <<excused, trail>>
                  \/ StoreAudit(p) /\ w = "audit"
                  \/ FailHandler(p, w)
  BY DEF Project, StoreAudit, StoreAnalytics, FailHandler
<1>2. \A e : Trailed(k, e) => Trailed(k, e)'
  <2>1. CASE UNCHANGED trail
    BY <2>1 DEF Trailed
  <2>2. CASE StoreAudit(p) /\ ~UNCHANGED trail
    <3>1. /\ task[p].key \in Keys /\ Current(p) \in {Created, Cancelled}
          /\ trail \in [Keys -> Seq({Created, Cancelled})]
      BY <2>2, CurrentEvent DEF StoreAudit, Finish, WorkersOK, TypeOK
    <3>2. trail' = [trail EXCEPT ![task[p].key] = Append(@, Current(p))]
      BY <2>2 DEF StoreAudit
    <3>3. trail'[k] = trail[k] \/ trail'[k] = Append(trail[k], Current(p))
      BY <3>1, <3>2
    <3>4. trail[k] \in Seq({Created, Cancelled})
      BY <3>1
    <3> QED BY <3>1, <3>3, <3>4 DEF Trailed, ToSet
  <2> QED BY <1>1, <2>1, <2>2 DEF FailHandler, sinks
<1>3. /\ excused \subseteq excused'
      /\ FailHandler(p, "audit") /\ Handling(p, k) => <<"audit", k>> \in excused'
  BY <1>1 DEF StoreAudit, FailHandler, Handling
<1>4. StoreAudit(p) /\ Handling(p, k) => Trailed(k, Current(p))'
  <2> SUFFICES ASSUME StoreAudit(p), Handling(p, k) PROVE Trailed(k, Current(p))'
    OBVIOUS
  <2>1. /\ task[p].key = k /\ trail[k] \in Seq({Created, Cancelled})
        /\ trail \in [Keys -> Seq({Created, Cancelled})]
        /\ Current(p) \in {Created, Cancelled}
    BY CurrentEvent DEF Handling, WorkersOK, TypeOK
  <2>2. \/ trail'[k] = Append(trail[k], Current(p))
        \/ Current(p) \in ToSet(trail[k]) /\ trail'[k] = trail[k]
    BY <2>1 DEF StoreAudit
  <2>3. Current(p) \in ToSet(trail'[k])
    BY <2>1, <2>2 DEF ToSet
  <2>4. Current(p)' = Current(p)
    BY <1>1, FinishHandling
  <2> QED BY <2>3, <2>4 DEF Trailed
<1>5. /\ UNCHANGED <<topic, position>>
      /\ \A q \in Processes : Handling(q, k)' =>
           /\ Handling(q, k) /\ Current(q)' = Current(q)
           /\ "audit" \notin task'[q].todo => "audit" \notin task[q].todo \/ (q = p /\ w = "audit")
  BY <1>1, FinishHandling
<1> QED BY <1>1, <1>2, <1>3, <1>4, <1>5 DEF TrailOf

(* Redelivery repeats, it does not skip: a partition that changes hands is *)
(* resumed at the committed offset, which no worker is behind, or passed   *)
(* over where nothing was committed, which excuses.  Unless the audit      *)
(* worker missed a message of a booking, its trail has every event         *)
(* consumed so far.                                                        *)
THEOREM TrailHasNoGapsHolds == Spec => []TrailHasNoGaps
<1> DEFINE Trails == \A k \in Keys : TrailOf(k)
<1>1. Init => Trails
  <2> SUFFICES ASSUME Init, NEW k \in Keys PROVE TrailOf(k)
    OBVIOUS
  <2>1. topic[k] = <<>> /\ \A p \in Processes : ~Handling(p, k)
    BY DEF Init, BusInit, Handling
  <2> QED BY <2>1 DEF TrailOf
<1>2. WorkersOK /\ Trails /\ [Next]_vars => Trails'
  <2> SUFFICES ASSUME WorkersOK, Trails, [Next]_vars, NEW k \in Keys PROVE TrailOf(k)'
    OBVIOUS
  <2>1. /\ TrailOf(k) /\ BusOK
        /\ position[k] \in Nat /\ Len(topic[k]) \in Nat /\ position[k] <= Len(topic[k])
    BY DEF WorkersOK, TypeOK, BusOK, BusTypeOK
  <2>2. /\ position[k] <= position[k]
        /\ UNCHANGED topic => TopicsGrow
    BY <2>1 DEF WorkersOK, TypeOK, BusTypeOK, TopicsGrow
  <2>3. CASE Elsewhere
    BY <2>1, <2>2, <2>3, TrailKept DEF Elsewhere, sinks
  <2>4. ASSUME NEW p \in Processes, NEW l \in Keys, TakePartition(l, p) PROVE TrailOf(k)'
    <3>1. /\ UNCHANGED <<topic, trail, task>> /\ excused \subseteq excused'
          /\ l # k => position'[k] = position[k]
      BY <2>1, <2>4, BusAssign DEF TakePartition, sinks
    <3>2. CASE <<"audit", k>> \notin excused'
      <4>1. ASSUME l = k PROVE position'[k] \in Nat /\ position'[k] <= position[k]
        <5>1. committed[k] = None => topic[k] = <<>>
          BY <2>4, <3>2, <4>1, WorkersAssumption DEF TakePartition
        <5>2. BusOK' /\ position'[k] = IF committed[k] = None THEN Len(topic[k]) ELSE committed[k]
          BY <2>1, <2>4, <4>1, BusAssign DEF TakePartition
        <5> QED BY <2>1, <5>1, <5>2 DEF BusOK, BusTypeOK, Offsets
      <4> QED BY <2>1, <2>2, <3>1, <4>1, TrailKept
    <3>3. CASE <<"audit", k>> \in excused'
      BY <3>3 DEF TrailOf
    <3> QED BY <3>2, <3>3
  <2>5. ASSUME NEW p \in Processes, NEW l \in Keys, Receive(p, l) PROVE TrailOf(k)'
    <3>1. /\ UNCHANGED <<topic, position>> /\ \A q \in Processes \ {p} : task'[q] = task[q]
          /\ task'[p].key = l /\ task'[p].todo = handlers[p]
      BY <2>1, <2>5, BusFetch DEF Receive
    <3>2. UNCHANGED trail /\ excused' = excused \cup ((Workers \ handlers[p]) \X {l})
      BY <2>5 DEF Receive, sinks
    <3>3. ASSUME <<"audit", k>> \notin excused', NEW q \in Processes, Handling(q, k)',
                 "audit" \notin task'[q].todo
          PROVE  Trailed(k, Current(q))'
      <4>1. q # p
        BY <3>1, <3>2, <3>3, WorkersAssumption DEF Handling
      <4> QED BY <2>1, <3>1, <3>2, <3>3, <4>1 DEF TrailOf, Trailed, Handling, Current
    <3> QED BY <2>1, <3>1, <3>2, <3>3 DEF TrailOf, Trailed
  <2>6. ASSUME NEW p \in Processes,
               \/ Project(p) \/ StoreAudit(p) \/ StoreAnalytics(p)
               \/ \E w \in Workers : FailHandler(p, w)
        PROVE  TrailOf(k)'
    BY <2>1, <2>6, TrailFinish
  <2>7. ASSUME NEW p \in Processes, Acknowledge(p) PROVE TrailOf(k)'
    <3>1. /\ UNCHANGED <<topic, trail, excused>> /\ task[p].todo = {} /\ task'[p] = None
          /\ \A q \in Processes \ {p} : task'[q] = task[q]
          /\ \/ position'[k] = position[k]
             \/ Handling(p, k) /\ owner[k] = p /\ position'[k] = task[p].offset
      BY <2>1, <2>7, BusComplete DEF Acknowledge, sinks
    <3>2. CASE position'[k] = position[k]
      BY <2>1, <2>2, <3>1, <3>2, TrailKept DEF Handling
    <3>3. CASE Handling(p, k) /\ owner[k] = p /\ position'[k] = task[p].offset
      <4>1. position'[k] = position[k] + 1
        BY <2>1, <3>3 DEF BusOK, Offsets
      <4>2. ASSUME <<"audit", k>> \notin excused', NEW i \in 1 .. Len(topic[k]), i <= position'[k]
            PROVE  Trailed(k, topic[k][i])
        <5>1. i <= position[k] \/ i = task[p].offset
          BY <2>1, <3>3, <4>1, <4>2
        <5> QED BY <2>1, <3>1, <3>3, <4>2, <5>1 DEF TrailOf, Current, Handling
      <4>3. ASSUME <<"audit", k>> \notin excused', NEW q \in Processes, Handling(q, k)',
                   "audit" \notin task'[q].todo
            PROVE  Trailed(k, Current(q))'
        BY <2>1, <3>1, <4>3 DEF TrailOf, Trailed, Handling, Current
      <4> QED BY <3>1, <4>2, <4>3 DEF TrailOf, Trailed
    <3> QED BY <3>1, <3>2, <3>3
  <2>8. ASSUME NEW p \in Processes, Ends(p) PROVE TrailOf(k)'
    <3>1. /\ UNCHANGED <<topic, trail, excused, position>>
          /\ \A q \in Processes : Handling(q, k)' => task'[q] = task[q]
      BY <2>1, <2>8, BusLeave DEF Ends, sinks, Handling
    <3> QED BY <2>1, <2>2, <3>1, TrailKept
  <2> QED BY <2>3, <2>4, <2>5, <2>6, <2>7, <2>8, WorkerSteps
<1>3. WorkersOK /\ Trails => TrailHasNoGaps
  BY DEF WorkersOK, TypeOK, BusTypeOK, TrailOf, TrailHasNoGaps, Trailed
<1> QED BY <1>1, <1>2, <1>3, WorkersInvariant, PTL DEF Spec

-----------------------------------------------------------------------------
(* What the read model shows once n events of a booking, published in      *)
(* order, have been projected.                                             *)
Shown(k, n) ==
  /\ n >= 1 => view[k] # None
  /\ n >= 2 => view[k].status = "CANCELLED"

(* InOrder, event by event.                                                *)
Ordered(k) ==
  /\ Len(topic[k]) <= 2
  /\ Len(topic[k]) >= 1 => topic[k][1] = Created
  /\ Len(topic[k]) >= 2 => topic[k][2] = Cancelled

(* Unless the projection is excused for a booking, one process at a time   *)
(* handles its events, and the read model shows those consumed and the one *)
(* at hand once it is projected.  A partition is resumed no further than   *)
(* it has been consumed, so what is projected again is followed by what    *)
(* came after it.                                                          *)
ViewOf(k) ==
  <<"projection", k>> \notin excused =>
    /\ \A p \in Processes : Handling(p, k) => owner[k] = p
    /\ Ordered(k) => /\ Shown(k, position[k])
                     /\ \A p \in Processes :
                          Handling(p, k) /\ "projection" \notin task[p].todo
                            => Shown(k, task[p].offset)

LEMMA OrderedBefore ==
  ASSUME WorkersOK, WorkersOK', TopicsGrow, NEW k \in Keys, Ordered(k)'
  PROVE  Ordered(k)
<1>1. /\ Len(topic[k]) \in Nat /\ Len(topic'[k]) \in Nat
      /\ Len(topic[k]) <= Len(topic'[k])
      /\ \A i \in 1 .. Len(topic[k]) : topic'[k][i] = topic[k][i]
  BY DEF WorkersOK, TypeOK, BusTypeOK, TopicsGrow
<1> QED BY <1>1 DEF Ordered

LEMMA ViewKept ==
  ASSUME WorkersOK, WorkersOK', TopicsGrow, NEW k \in Keys, ViewOf(k),
         excused \subseteq excused', UNCHANGED view, position'[k] <= position[k],
         <<"projection", k>> \notin excused' =>
           \A p \in Processes :
             Handling(p, k)' => task'[p] = task[p] /\ (owner[k] = p => owner'[k] = p)
  PROVE  ViewOf(k)'
<1>1. position[k] \in Nat /\ position'[k] \in Nat
  BY DEF WorkersOK, TypeOK, BusTypeOK
<1>2. \A n : Shown(k, n) <=> Shown(k, n)'
  BY DEF Shown
<1>3. Shown(k, position[k]) => Shown(k, position'[k])
  BY <1>1 DEF Shown
<1>4. Ordered(k)' => Ordered(k)
  BY OrderedBefore
<1> QED BY <1>2, <1>3, <1>4 DEF ViewOf, Handling, Shown

LEMMA ViewFinish ==
  ASSUME WorkersOK, NEW k \in Keys, ViewOf(k), NEW p \in Processes,
         StoreAudit(p) \/ StoreAnalytics(p) \/ (\E w \in Workers : FailHandler(p, w))
  PROVE  ViewOf(k)'
<1>1. PICK w : /\ Finish(p, w)
               /\ w # "projection" \/ FailHandler(p, w)
               /\ excused \subseteq excused' /\ UNCHANGED view
  BY DEF StoreAudit, StoreAnalytics, FailHandler, sinks
<1>2. FailHandler(p, "projection") /\ Handling(p, k) => <<"projection", k>> \in excused'
  BY DEF FailHandler, Handling
<1>3. /\ UNCHANGED <<topic, position, owner>>
      /\ \A q \in Processes : Handling(q, k)' =>
           /\ Handling(q, k) /\ task'[q].offset = task[q].offset
           /\ "projection" \notin task'[q].todo =>
                "projection" \notin task[q].todo \/ (q = p /\ w = "projection")
  BY <1>1, FinishHandling
<1> QED BY <1>1, <1>2, <1>3 DEF ViewOf, Ordered, Shown

LEMMA ViewProject ==
  ASSUME WorkersOK, NEW k \in Keys, ViewOf(k), NEW p \in Processes, Project(p)
  PROVE  ViewOf(k)'
<1>1. /\ Finish(p, "projection") /\ UNCHANGED <<excused>>
      /\ view' = [view EXCEPT ![task[p].key] = Projected(Current(p), view[task[p].key])]
  BY DEF Project
<1>2. /\ UNCHANGED <<topic, position, owner>>
      /\ \A q \in Processes : Handling(q, k)' =>
           /\ Handling(q, k) /\ task'[q].offset = task[q].offset
           /\ q # p => task'[q].todo = task[q].todo
  BY <1>1, FinishHandling
<1>3. /\ view \in [Keys -> ReadModel \cup {None}] /\ position[k] \in Nat
      /\ task[p].key \in Keys /\ task[p].offset \in 1 .. Len(topic[task[p].key])
  BY <1>1, CurrentEvent DEF Finish, WorkersOK, TypeOK, BusTypeOK
<1>4. CASE ~Handling(p, k)
  <2>1. view'[k] = view[k]
    BY <1>1, <1>3, <1>4 DEF Handling, Finish
  <2> QED BY <1>1, <1>2, <1>4, <2>1 DEF ViewOf, Ordered, Shown
<1>5. CASE Handling(p, k)
  <2> SUFFICES ASSUME <<"projection", k>> \notin excused', Ordered(k)'
               PROVE  Shown(k, position[k])' /\ Shown(k, task[p].offset)'
    <3>1. <<"projection", k>> \notin excused' => \A q \in Processes : Handling(q, k)' => q = p /\ owner'[k] = q
      BY <1>1, <1>2, <1>5 DEF ViewOf
    <3> QED BY <1>2, <3>1 DEF ViewOf
  <2>1. Ordered(k) /\ owner[k] = p /\ Shown(k, position[k])
    BY <1>1, <1>2, <1>5 DEF ViewOf, Ordered
  <2>2. task[p].key = k /\ task[p].offset = position[k] + 1 /\ Len(topic[k]) \in Nat
    <3>1. task[p].key = k /\ task[p].offset = position[k] + 1
      BY <1>5, <2>1 DEF Handling, WorkersOK, Offsets
    <3>2. topic[k] \in Seq(Events)
      BY DEF WorkersOK, TypeOK, BusTypeOK
    <3> QED BY <3>1, <3>2
  <2>3. view'[k] = Projected(topic[k][position[k] + 1], view[k])
    BY <1>1, <1>3, <2>2 DEF Current
  <2>4. task'[p].offset = task[p].offset /\ position' = position
    BY <1>1, <1>2, <1>5, FinishHandling
  <2>5. view[k] \in ReadModel \cup {None}
    BY <1>3
  <2>6. CASE position[k] = 0
    <3>1. topic[k][1] = Created
      BY <1>3, <2>1, <2>2, <2>6 DEF Ordered
    <3>2. view'[k] \in ReadModel
      BY <2>3, <2>6, <3>1 DEF Projected, ReadModel, Stamp
    <3>3. view'[k] # None
      BY <3>2, WorkersAssumption
    <3> QED BY <2>2, <2>4, <2>6, <3>3 DEF Shown
  <2>7. CASE position[k] = 1
    <3>1. topic[k][2] = Cancelled
      BY <1>3, <2>1, <2>2, <2>7 DEF Ordered
    <3>2. view[k] # None
      BY <2>1, <2>7 DEF Shown
    <3>3. /\ view'[k] \in ReadModel
          /\ view'[k].status = "CANCELLED"
      <4>1. view'[k] = [view[k] EXCEPT !.status = "CANCELLED", !.updatedAt = "string"]
        BY <2>3, <2>7, <3>1, <3>2, EventNames DEF Projected
      <4>2. view[k] \in ReadModel
        BY <2>5, <3>2
      <4> QED BY <4>1, <4>2 DEF ReadModel, Stamp
    <3>4. view'[k] # None
      BY <3>3, WorkersAssumption
    <3> QED BY <2>2, <2>4, <2>7, <3>3, <3>4 DEF Shown
  <2>8. position[k] = 0 \/ position[k] = 1
    BY <1>3, <2>1, <2>2 DEF Ordered
  <2> QED BY <2>6, <2>7, <2>8
<1> QED BY <1>4, <1>5

LEMMA ViewsStep ==
  ASSUME WorkersOK, WorkersOK', [Next]_vars, NEW k \in Keys, ViewOf(k)
  PROVE  ViewOf(k)'
<1>1. /\ BusOK
      /\ position[k] \in Nat /\ Len(topic[k]) \in Nat /\ position[k] <= Len(topic[k])
  BY DEF WorkersOK, TypeOK, BusOK, BusTypeOK
<1>2. /\ position[k] <= position[k]
      /\ UNCHANGED topic => TopicsGrow
  <2>1. \A l \in Keys : Len(topic[l]) \in Nat
    BY DEF WorkersOK, TypeOK, BusTypeOK
  <2>2. \A n \in Nat : n <= n
    OBVIOUS
  <2> QED BY <1>1, <2>1, <2>2 DEF TopicsGrow
<1>3. CASE Elsewhere
  BY <1>1, <1>2, <1>3, ViewKept DEF Elsewhere, sinks
<1>4. ASSUME NEW p \in Processes, NEW l \in Keys, TakePartition(l, p) PROVE ViewOf(k)'
  <2>1. /\ UNCHANGED <<topic, view, task>> /\ excused \subseteq excused'
        /\ l # k => position'[k] = position[k] /\ owner'[k] = owner[k]
    BY <1>1, <1>4, BusAssign DEF TakePartition, sinks
  <2>2. CASE l # k
    BY <1>2, <2>1, <2>2, ViewKept DEF Handling
  <2>3. CASE l = k /\ <<"projection", k>> \notin excused'
    <3>1. /\ committed[k] = None => topic[k] = <<>>
          /\ \A q \in Processes : ~Handling(q, k)
      BY <1>4, <2>3, WorkersAssumption DEF TakePartition
    <3>2. BusOK' /\ position'[k] = IF committed[k] = None THEN Len(topic[k]) ELSE committed[k]
      BY <1>1, <1>4, <2>3, BusAssign DEF TakePartition
    <3>3. position'[k] <= position[k]
      BY <1>1, <3>1, <3>2 DEF BusOK, BusTypeOK, Offsets
    <3>4. \A q \in Processes : ~Handling(q, k)'
      BY <2>1, <3>1 DEF Handling
    <3> QED BY <1>2, <2>1, <3>3, <3>4, ViewKept
  <2>4. CASE <<"projection", k>> \in excused'
    BY <2>4 DEF ViewOf
  <2> QED BY <2>2, <2>3, <2>4
<1>5. ASSUME NEW p \in Processes, NEW l \in Keys, Receive(p, l) PROVE ViewOf(k)'
  <2>1. /\ UNCHANGED <<topic, position, owner>> /\ \A q \in Processes \ {p} : task'[q] = task[q]
        /\ task'[p].key = l /\ task'[p].todo = handlers[p] /\ owner[l] = p
    BY <1>1, <1>5, BusFetch DEF Receive
  <2>2. UNCHANGED view /\ excused' = excused \cup ((Workers \ handlers[p]) \X {l})
    BY <1>5 DEF Receive, sinks
  <2>3. ASSUME <<"projection", k>> \notin excused', NEW q \in Processes, Handling(q, k)'
        PROVE  /\ owner[k] = q
               /\ "projection" \notin task'[q].todo
                    => Handling(q, k) /\ "projection" \notin task[q].todo /\ task'[q].offset = task[q].offset
    <3>1. CASE q = p
      BY <2>1, <2>2, <2>3, <3>1, WorkersAssumption DEF Handling
    <3>2. CASE q # p
      BY <2>1, <2>2, <2>3, <3>2 DEF ViewOf, Handling
    <3> QED BY <3>1, <3>2
  <2> QED BY <2>1, <2>2, <2>3 DEF ViewOf, Shown, Ordered
<1>6. ASSUME NEW p \in Processes,
             \/ StoreAudit(p) \/ StoreAnalytics(p)
             \/ \E w \in Workers : FailHandler(p, w)
      PROVE  ViewOf(k)'
  BY <1>6, ViewFinish
<1>7. ASSUME NEW p \in Processes, Project(p) PROVE ViewOf(k)'
  BY <1>7, ViewProject
<1>8. ASSUME NEW p \in Processes, Acknowledge(p) PROVE ViewOf(k)'
  <2>1. /\ UNCHANGED <<topic, view, excused, owner>> /\ task[p].todo = {} /\ task'[p] = None
        /\ \A q \in Processes \ {p} : task'[q] = task[q]
        /\ \/ position'[k] = position[k]
           \/ Handling(p, k) /\ position'[k] = task[p].offset
    BY <1>1, <1>8, BusComplete DEF Acknowledge, sinks
  <2>2. CASE position'[k] = position[k]
    BY <1>2, <2>1, <2>2, ViewKept DEF Handling
  <2>3. CASE Handling(p, k) /\ position'[k] = task[p].offset
    <3>1. \A q \in Processes : Handling(q, k)' => Handling(q, k) /\ task'[q] = task[q]
      BY <2>1 DEF Handling
    <3>2. ViewOf(k) => (<<"projection", k>> \notin excused /\ Ordered(k) => Shown(k, position'[k]))
      BY <2>1, <2>3 DEF ViewOf
    <3> QED BY <2>1, <3>1, <3>2 DEF ViewOf, Shown, Ordered
  <2> QED BY <2>1, <2>2, <2>3
<1>9. ASSUME NEW p \in Processes, Ends(p) PROVE ViewOf(k)'
  <2>1. /\ UNCHANGED <<topic, view, excused, position>>
        /\ \A q \in Processes :
             Handling(q, k)' => task'[q] = task[q] /\ (owner[k] = q => owner'[k] = q)
    BY <1>1, <1>9, BusLeave DEF Ends, sinks, Handling
  <2> QED BY <1>2, <2>1, ViewKept
<1> QED BY <1>3, <1>4, <1>5, <1>6, <1>7, <1>8, <1>9, WorkerSteps

(* Why a read model may stay stale: once everything published about a      *)
(* booking has been consumed, the read model agrees with the booking,      *)
(* whatever was handled again after a crash or a rebalance, unless a       *)
(* publication was rejected, the events were published in the wrong order, *)
(* or the projection missed an event or ran twice at once.                 *)
THEOREM StaleViewsHaveACauseHolds == Spec => []StaleViewsHaveACause
<1> DEFINE Views == \A k \in Keys : ViewOf(k)
<1>1. Init => Views
  <2> SUFFICES ASSUME Init, NEW k \in Keys PROVE ViewOf(k)
    OBVIOUS
  <2>1. position[k] = 0 /\ \A p \in Processes : ~Handling(p, k)
    BY DEF Init, BusInit, Handling
  <2> QED BY <2>1 DEF ViewOf, Shown
<1>2. WorkersOK /\ WorkersOK' /\ Views /\ [Next]_vars => Views'
  BY ViewsStep
<1>3. WorkersOK /\ ViewIsNeverAhead /\ Views => StaleViewsHaveACause
  <2> SUFFICES ASSUME WorkersOK, ViewIsNeverAhead, Views, NEW k \in Keys,
                      Drained(k), rejected[k] = {}, InOrder(k), <<"projection", k>> \notin excused
               PROVE  IF bookings[k] = None THEN view[k] = None
                      ELSE view[k] # None /\ view[k].status = bookings[k]
    BY DEF StaleViewsHaveACause
  <2>1. Ordered(k)
    <3>1. CASE topic[k] = <<>>
      BY <3>1 DEF Ordered
    <3>2. CASE topic[k] = <<Created>>
      BY <3>2 DEF Ordered
    <3>3. CASE topic[k] = <<Created, Cancelled>>
      BY <3>3 DEF Ordered
    <3> QED BY <3>1, <3>2, <3>3 DEF InOrder
  <2>2. Shown(k, Len(topic[k])) /\ Len(topic[k]) \in Nat
    <3>1. topic[k] \in Seq(Events)
      BY DEF WorkersOK, TypeOK, BusTypeOK
    <3> QED BY <2>1, <3>1 DEF ViewOf, Drained
  <2>3. \A e \in {Created, Cancelled} : Due(k, e) <=> Published(k, e)
    BY DEF WorkersOK, Ledger, LedgerOf, Drained
  <2>4. /\ bookings[k] \in {None, "CONFIRMED", "CANCELLED"} /\ None \notin {"CONFIRMED", "CANCELLED"}
        /\ view[k] \in ReadModel \cup {None}
    BY WorkersAssumption DEF WorkersOK, TypeOK
  <2>5. CASE topic[k] = <<>>
    <3>1. ~Published(k, Created)
      BY <2>5 DEF Published
    <3> QED BY <2>3, <3>1, EventNames DEF Due, ViewIsNeverAhead
  <2>6. CASE topic[k] = <<Created>>
    <3>1. Published(k, Created) /\ ~Published(k, Cancelled) /\ Len(topic[k]) = 1
      BY <2>6, EventNames DEF Published
    <3>2. bookings[k] = "CONFIRMED"
      BY <2>3, <2>4, <3>1, EventNames DEF Due
    <3>3. view[k] # None /\ view[k].status # "CANCELLED"
      BY <2>2, <2>4, <3>1, <3>2 DEF Shown, ViewIsNeverAhead
    <3> QED BY <2>4, <3>2, <3>3 DEF ReadModel
  <2>7. CASE topic[k] = <<Created, Cancelled>>
    <3>1. Published(k, Cancelled) /\ Len(topic[k]) = 2
      BY <2>7, EventNames DEF Published
    <3>2. bookings[k] = "CANCELLED"
      BY <2>3, <2>4, <3>1, EventNames DEF Due
    <3> QED BY <2>2, <2>4, <3>1, <3>2 DEF Shown
  <2> QED BY <2>5, <2>6, <2>7 DEF InOrder
<1> QED BY <1>1, <1>2, <1>3, WorkersInvariant, ViewIsNeverAheadHolds, PTL DEF Spec

-----------------------------------------------------------------------------
(* No process has ended: all are connected to the database.                *)
Connected == exits = 0 => \A p \in Processes : database[p]

(* An event of a booking that analytics are done with: consumed, or at     *)
(* hand with the analytics handler returned.                               *)
Analysed(k, i) ==
  \/ i <= position[k]
  \/ \E p \in Processes : Handling(p, k) /\ task[p].offset = i /\ "analytics" \notin task[p].todo

Counted(k, e) ==
  /\ counts[k][e] <= 1
  /\ counts[k][e] # 0 =>
       /\ owner[k] # None
       /\ \E i \in 1 .. Len(topic[k]) : topic[k][i] = e /\ Analysed(k, i)

(* While no process has ended and no partition has moved, only the owner   *)
(* of a partition handles its messages, and an event is counted when       *)
(* analytics are done with it, never before and not again.                 *)
CountsOf(k) ==
  exits = 0 /\ rebalances = 0 =>
    /\ \A p \in Processes : Handling(p, k) => owner[k] = p
    /\ \A e \in {Created, Cancelled} : Counted(k, e)

LEMMA CountsKept ==
  ASSUME WorkersOK, TopicsGrow, NEW k \in Keys, CountsOf(k), exits' = 0 /\ rebalances' = 0 =>
           /\ exits = 0 /\ rebalances = 0
           /\ counts'[k] = counts[k] /\ owner'[k] = owner[k]
           /\ \A i \in 1 .. Len(topic[k]) : Analysed(k, i) => Analysed(k, i)'
           /\ \A p \in Processes : Handling(p, k)' => Handling(p, k) \/ owner[k] = p
  PROVE  CountsOf(k)'
<1> SUFFICES ASSUME exits' = 0, rebalances' = 0
             PROVE  /\ \A p \in Processes : Handling(p, k)' => owner'[k] = p
                    /\ \A e \in {Created, Cancelled} : Counted(k, e)'
  BY DEF CountsOf
<1>1. \A p \in Processes : Handling(p, k)' => owner'[k] = p
  BY DEF CountsOf
<1>2. ASSUME NEW e \in {Created, Cancelled} PROVE Counted(k, e)'
  <2>1. Counted(k, e) /\ counts'[k][e] = counts[k][e] /\ owner'[k] = owner[k]
    BY DEF CountsOf
  <2>2. ASSUME NEW i \in 1 .. Len(topic[k]), topic[k][i] = e, Analysed(k, i)
        PROVE  i \in 1 .. Len(topic'[k]) /\ topic'[k][i] = e /\ Analysed(k, i)'
    <3>1. Len(topic[k]) \in Nat
      BY DEF WorkersOK, TypeOK, BusTypeOK
    <3> QED BY <2>2, <3>1 DEF TopicsGrow
  <2> QED BY <2>1, <2>2 DEF Counted
<1> QED BY <1>1, <1>2

LEMMA CountsAnalytics ==
  ASSUME WorkersOK, NEW k \in Keys, CountsOf(k), NEW p \in Processes, StoreAnalytics(p)
  PROVE  CountsOf(k)'
<1>1. /\ Finish(p, "analytics") /\ UNCHANGED <<exits, rebalances>>
      /\ counts' = [counts EXCEPT ![task[p].key][Current(p)] = @ + 1]
  BY DEF StoreAnalytics, bounds
<1>2. /\ UNCHANGED <<topic, position, owner>>
      /\ \A q \in Processes :
           /\ Handling(q, k)' <=> Handling(q, k)
           /\ Handling(q, k) => task'[q].offset = task[q].offset
           /\ Handling(q, k) /\ q # p => task'[q].todo = task[q].todo
      /\ task'[p].todo = task[p].todo \ {"analytics"} /\ "analytics" \in task[p].todo
  BY <1>1, FinishHandling
<1>3. \A i : Analysed(k, i) => Analysed(k, i)'
  BY <1>2 DEF Analysed
<1>4. /\ counts \in [Keys -> [{Created, Cancelled} -> Nat]] /\ counts[k] \in [{Created, Cancelled} -> Nat]
      /\ task[p].key \in Keys /\ Current(p) \in {Created, Cancelled}
  BY <1>1, CurrentEvent DEF Finish, WorkersOK, TypeOK
<1>5. ASSUME NEW e \in {Created, Cancelled},
             counts'[k][e] = counts[k][e], Counted(k, e)
      PROVE  Counted(k, e)'
  BY <1>2, <1>3, <1>5 DEF Counted
<1>6. CASE ~Handling(p, k)
  <2>1. \A e \in {Created, Cancelled} : counts'[k][e] = counts[k][e]
    BY <1>1, <1>4, <1>6 DEF Handling, Finish
  <2> QED BY <1>1, <1>2, <1>5, <2>1 DEF CountsOf
<1>7. CASE Handling(p, k) /\ exits = 0 /\ rebalances = 0
  <2> DEFINE o == task[p].offset
             e0 == Current(p)
  <2>1. /\ owner[k] = p /\ o = position[k] + 1 /\ task[p].key = k
        /\ \A q \in Processes : Handling(q, k) => q = p
    BY <1>7 DEF CountsOf, WorkersOK, Offsets, Handling
  <2>2. o \in 1 .. Len(topic[k]) /\ topic[k][o] = e0 /\ position[k] \in Nat
    BY <1>1, <2>1, CurrentEvent DEF Finish, Current, WorkersOK, TypeOK, BusTypeOK
  <2>3. counts[k][e0] = 0
    <3>1. ASSUME NEW i \in 1 .. Len(topic[k]), topic[k][i] = e0, Analysed(k, i) PROVE FALSE
      <4>1. i = o
        BY <2>2, <3>1 DEF WorkersOK, Ledger, LedgerOf
      <4>2. ~(i <= position[k])
        BY <2>1, <2>2, <4>1
      <4> QED BY <1>2, <2>1, <3>1, <4>2 DEF Analysed
    <3> QED BY <1>4, <1>7, <3>1 DEF CountsOf, Counted
  <2>4. /\ counts'[k][e0] = 1
        /\ \A e \in {Created, Cancelled} : e # e0 => counts'[k][e] = counts[k][e]
    BY <1>1, <1>4, <2>1, <2>3
  <2>6. ASSUME NEW e \in {Created, Cancelled} PROVE Counted(k, e)'
    <3>1. owner'[k] # None
      BY <1>2, <2>1, NoneIsNoPosition
    <3>2. CASE e = e0
      <4>1. counts'[k][e] = 1
        BY <2>4, <3>2
      <4>2. o \in 1 .. Len(topic'[k]) /\ topic'[k][o] = e
        BY <1>2, <2>2, <3>2
      <4>3. \E i \in 1 .. Len(topic'[k]) : topic'[k][i] = e /\ Analysed(k, i)'
        BY <1>2, <1>7, <4>2 DEF Analysed
      <4> QED BY <3>1, <4>1, <4>3 DEF Counted
    <3>3. CASE e # e0
      BY <1>5, <1>7, <2>4, <3>3 DEF CountsOf
    <3> QED BY <3>2, <3>3
  <2> QED BY <1>2, <2>1, <2>6 DEF CountsOf
<1> QED BY <1>1, <1>6, <1>7 DEF CountsOf

LEMMA ConnectedStep ==
  ASSUME WorkersOK, [Next]_vars, Connected
  PROVE  Connected'
<1>1. exits \in Nat
  BY DEF WorkersOK, TypeOK
<1>2. CASE UNCHANGED <<exits, database>>
  BY <1>2 DEF Connected
<1>3. ASSUME NEW p \in Processes, Ends(p) PROVE Connected'
  BY <1>1, <1>3 DEF Ends, Connected
<1>4. ASSUME NEW p \in Processes,
             \/ \E k \in Keys : TakePartition(k, p) \/ Receive(p, k)
             \/ Project(p) \/ StoreAudit(p) \/ StoreAnalytics(p)
             \/ \E w \in Workers : FailHandler(p, w)
             \/ Acknowledge(p)
      PROVE  UNCHANGED <<exits, database>>
  BY <1>4 DEF TakePartition, Receive, Project, StoreAudit, StoreAnalytics, FailHandler,
              Acknowledge, bounds
<1> QED BY <1>2, <1>3, <1>4, WorkerSteps DEF Elsewhere

LEMMA CountsStep ==
  ASSUME WorkersOK, WorkersOK', [Next]_vars, Connected, NEW k \in Keys, CountsOf(k)
  PROVE  CountsOf(k)'
<1>1. BusOK /\ exits \in Nat /\ rebalances \in Nat
  BY DEF WorkersOK, TypeOK, BusOK
<1>2. UNCHANGED topic => TopicsGrow
  <2>1. \A l \in Keys : Len(topic[l]) \in Nat
    BY DEF WorkersOK, TypeOK, BusTypeOK
  <2>2. \A n \in Nat : n <= n
    OBVIOUS
  <2> QED BY <2>1, <2>2 DEF TopicsGrow
<1>3. CASE Elsewhere
  <2>1. \A i : Analysed(k, i) => Analysed(k, i)'
    BY <1>3 DEF Elsewhere, Analysed, Handling
  <2> QED BY <1>3, <2>1, CountsKept DEF Elsewhere, sinks, Handling
<1>4. ASSUME NEW p \in Processes, NEW l \in Keys, TakePartition(l, p)
      PROVE  CountsOf(k)'
  <2>1. /\ UNCHANGED <<topic, counts, task, exits, database>>
        /\ l # k => position'[k] = position[k] /\ owner'[k] = owner[k]
        /\ l = k => owner'[k] = p
    BY <1>1, <1>4, BusAssign DEF TakePartition, sinks
  <2>2. rebalances' = 0 => rebalances = 0 /\ owner[l] = None
    BY <1>1, <1>4 DEF TakePartition
  <2>3. CASE l # k
    <3>1. \A i : Analysed(k, i) => Analysed(k, i)'
      BY <2>1, <2>3 DEF Analysed, Handling
    <3> QED BY <1>2, <2>1, <2>2, <2>3, <3>1, CountsKept DEF Handling
  <2>4. CASE l = k
    <3>1. ASSUME exits' = 0, rebalances' = 0
          PROVE  /\ \A q \in Processes : ~Handling(q, k)'
                 /\ \A e \in {Created, Cancelled} : counts'[k][e] = 0
      <4>1. exits = 0 /\ rebalances = 0 /\ owner[k] = None
        BY <2>1, <2>2, <2>4, <3>1
      <4>2. counts[k] \in [{Created, Cancelled} -> Nat]
        BY DEF WorkersOK, TypeOK
      <4> QED BY <2>1, <4>1, <4>2, NoneIsNoPosition DEF CountsOf, Counted, Handling
    <3> QED BY <2>1, <3>1 DEF CountsOf, Counted
  <2> QED BY <2>3, <2>4
<1>5. ASSUME NEW p \in Processes, NEW l \in Keys, Receive(p, l)
      PROVE  CountsOf(k)'
  <2>1. /\ UNCHANGED <<topic, position, owner>> /\ \A q \in Processes \ {p} : task'[q] = task[q]
        /\ task'[p].key = l /\ task[p] = None /\ owner[l] = p
    BY <1>1, <1>5, BusFetch DEF Receive
  <2>2. UNCHANGED <<counts, exits, rebalances, database>>
    BY <1>5 DEF Receive, sinks, bounds
  <2>3. \A i : Analysed(k, i) => Analysed(k, i)'
    BY <2>1 DEF Analysed, Handling
  <2>4. \A q \in Processes : Handling(q, k)' => Handling(q, k) \/ owner[k] = q
    BY <2>1 DEF Handling
  <2> QED BY <1>2, <2>1, <2>2, <2>3, <2>4, CountsKept
<1>6. ASSUME NEW p \in Processes,
             \/ Project(p) \/ StoreAudit(p)
             \/ \E w \in Workers : FailHandler(p, w)
      PROVE  CountsOf(k)'
  <2>1. PICK w : Finish(p, w)
    BY <1>6 DEF Project, StoreAudit, FailHandler
  <2>2. UNCHANGED <<counts, exits, rebalances, database>>
    BY <1>6 DEF Project, StoreAudit, FailHandler, sinks, bounds
  <2>3. /\ UNCHANGED <<topic, position, owner>>
        /\ \A q \in Processes :
             /\ Handling(q, k)' <=> Handling(q, k)
             /\ Handling(q, k) => task'[q].offset = task[q].offset
             /\ Handling(q, k) /\ q # p => task'[q].todo = task[q].todo
        /\ task'[p].todo = task[p].todo \ {w}
    BY <2>1, FinishHandling
  <2>4. \A i : Analysed(k, i) => Analysed(k, i)'
    BY <2>3 DEF Analysed
  <2> QED BY <1>2, <2>2, <2>3, <2>4, CountsKept
<1>7. ASSUME NEW p \in Processes, StoreAnalytics(p) PROVE CountsOf(k)'
  BY <1>7, CountsAnalytics
<1>8. ASSUME NEW p \in Processes, Acknowledge(p) PROVE CountsOf(k)'
  <2>1. /\ UNCHANGED <<topic, owner>> /\ task'[p] = None
        /\ \A q \in Processes \ {p} : task'[q] = task[q]
        /\ position[k] <= position'[k]
        /\ Handling(p, k) /\ owner[k] = p => position'[k] = task[p].offset
    BY <1>1, <1>8, BusComplete DEF Acknowledge
  <2>2. UNCHANGED <<counts, exits, rebalances, database>>
    BY <1>8 DEF Acknowledge, sinks, bounds
  <2>3. ASSUME exits = 0, rebalances = 0, NEW i \in 1 .. Len(topic[k]), Analysed(k, i)
        PROVE  Analysed(k, i)'
    <3>1. position[k] \in Nat /\ position'[k] \in Nat /\ i \in Nat
      BY DEF WorkersOK, TypeOK, BusTypeOK
    <3>2. CASE i <= position[k]
      BY <2>1, <3>1, <3>2 DEF Analysed
    <3>3. ASSUME NEW q \in Processes, Handling(q, k), task[q].offset = i,
                 "analytics" \notin task[q].todo
          PROVE  Analysed(k, i)'
      <4>1. CASE q = p
        <5>1. position'[k] = i
          BY <2>1, <2>3, <3>3, <4>1 DEF CountsOf
        <5> QED BY <3>1, <5>1 DEF Analysed
      <4>2. CASE q # p
        BY <2>1, <3>3, <4>2 DEF Analysed, Handling
      <4> QED BY <4>1, <4>2
    <3> QED BY <2>3, <3>2, <3>3 DEF Analysed
  <2>4. \A q \in Processes : Handling(q, k)' => Handling(q, k)
    BY <2>1 DEF Handling
  <2> QED BY <1>2, <2>1, <2>2, <2>3, <2>4, CountsKept
<1>9. ASSUME NEW p \in Processes, Ends(p) PROVE CountsOf(k)'
  <2>1. exits' # 0
    BY <1>1, <1>9 DEF Ends, Connected
  <2> QED BY <2>1 DEF CountsOf
<1> QED BY <1>3, <1>4, <1>5, <1>6, <1>7, <1>8, <1>9, WorkerSteps

(* Analytics count each event once at most as long as no process ends and  *)
(* no partition moves, in any order of the handlers and whatever fails:    *)
(* nothing else hands a message out again.                                 *)
THEOREM CountedOnceHolds == Spec => []CountedOnce
<1> DEFINE Counts == Connected /\ \A k \in Keys : CountsOf(k)
<1>1. Init => Counts
  <2> SUFFICES ASSUME Init PROVE Counts
    OBVIOUS
  <2>1. Connected
    BY DEF Init, Connected
  <2>2. ASSUME NEW k \in Keys PROVE CountsOf(k)
    <3>1. \A p \in Processes : ~Handling(p, k)
      BY DEF Init, BusInit, Handling
    <3>2. \A e \in {Created, Cancelled} : counts[k][e] = 0
      BY DEF Init
    <3> QED BY <3>1, <3>2 DEF CountsOf, Counted
  <2> QED BY <2>1, <2>2
<1>2. WorkersOK /\ WorkersOK' /\ Counts /\ [Next]_vars => Counts'
  <2> SUFFICES ASSUME WorkersOK, WorkersOK', Counts, [Next]_vars PROVE Counts'
    OBVIOUS
  <2> QED BY ConnectedStep, CountsStep
<1>3. Counts => CountedOnce
  BY DEF CountsOf, Counted, CountedOnce
<1> QED BY <1>1, <1>2, <1>3, WorkersInvariant, PTL DEF Spec
=============================================================================

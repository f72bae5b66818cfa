------------------------------ MODULE EventBus ------------------------------
(***************************************************************************)
(* The event bus of the server processes: infrastructure/messaging/        *)
(* event-bus.ts over kafka-client.ts.  One topic, partitioned by the       *)
(* aggregate; all processes are one consumer group.  Each process keeps a  *)
(* list of handlers and runs, for one message at a time, those registered  *)
(* when the message arrives, all at once (Promise.all).                    *)
(*                                                                         *)
(* External (kafkajs and the broker): a process is given a partition,      *)
(* loses it when it dies or answers too slowly, resumes at the committed   *)
(* offset, and at the end of the log when nothing was ever committed       *)
(* (fromBeginning: false).                                                 *)
(***************************************************************************)
EXTENDS Naturals, Sequences

CONSTANTS
  Keys,        \* aggregates, one partition each
  Events,      \* event types
  Processes,   \* server processes
  Workers,     \* who registers handlers
  None

ASSUME NoneIsNoPosition == None \notin Nat \cup Processes

VARIABLES
  topic,      \* the messages of each partition
  committed,  \* the group's committed offset, None before the first commit
  position,   \* offset of the next message, minus one
  owner,      \* the process that consumes the partition
  handlers,   \* the workers that have registered with the bus of a process
  task        \* eachMessage: the message a process handles, and who has not finished

busVars == <<topic, committed, position, owner, handlers, task>>

Task == [key : Keys, offset : Nat, todo : SUBSET Workers]

ASSUME NoneIsNoTask == None \notin Task

BusTypeOK ==
  /\ topic \in [Keys -> Seq(Events)]
  /\ committed \in [Keys -> Nat \cup {None}]
  /\ position \in [Keys -> Nat]
  /\ owner \in [Keys -> Processes \cup {None}]
  /\ handlers \in [Processes -> SUBSET Workers]
  /\ task \in [Processes -> Task \cup {None}]
  /\ \A k \in Keys : position[k] <= Len(topic[k])
  /\ \A p \in Processes : task[p] # None => task[p].offset \in 1 .. Len(topic[task[p].key])

BusInit ==
  /\ topic = [k \in Keys |-> <<>>]
  /\ committed = [k \in Keys |-> None]
  /\ position = [k \in Keys |-> 0]
  /\ owner = [k \in Keys |-> None]
  /\ handlers = [p \in Processes |-> {}]
  /\ task = [p \in Processes |-> None]

-----------------------------------------------------------------------------
Handling(p, k) == task[p] # None /\ task[p].key = k
Current(p) == topic[task[p].key][task[p].offset]

(* publish: the message is appended under its aggregate's key.             *)
Append2Topic(k, e) ==
  /\ topic' = [topic EXCEPT ![k] = Append(@, e)]
  /\ UNCHANGED <<committed, position, owner, handlers, task>>

(* A worker's start: subscribe for its event types, then startConsuming.   *)
(* The consumer runs from the first worker's start on; the starts that     *)
(* follow only lengthen the list of handlers (kafkajs refuses a second     *)
(* subscription of a running consumer, which the server logs).             *)
Subscribe(p, w) ==
  /\ w \notin handlers[p]
  /\ handlers' = [handlers EXCEPT ![p] = @ \cup {w}]
  /\ UNCHANGED <<topic, committed, position, owner, task>>

Consuming(p) == handlers[p] # {}

(* Variant: the consumer resumes at an offset nobody has committed.        *)
AssignUncommitted(k, p) ==
  /\ owner[k] # p
  /\ Consuming(p)
  /\ task[p] = None
  /\ owner' = [owner EXCEPT ![k] = p]
  /\ position' = [position EXCEPT ![k] = committed[k]]
  /\ UNCHANGED <<topic, committed, handlers, task>>

(* The group gives partition k to p.                                       *)
Assign(k, p) ==
  /\ owner[k] # p
  /\ Consuming(p)
  /\ task[p] = None
  /\ owner' = [owner EXCEPT ![k] = p]
  /\ position' = [position EXCEPT ![k] = IF committed[k] = None THEN Len(topic[k])
                                                               ELSE committed[k]]
  /\ UNCHANGED <<topic, committed, handlers, task>>

(* eachMessage is called with the next message.                            *)
Fetch(p, k) ==
  /\ owner[k] = p
  /\ task[p] = None
  /\ position[k] < Len(topic[k])
  /\ task' = [task EXCEPT ![p] = [key |-> k, offset |-> position[k] + 1, todo |-> handlers[p]]]
  /\ UNCHANGED <<topic, committed, position, owner, handlers>>

(* One of the handlers returns.                                            *)
Finish(p, w) ==
  /\ task[p] # None
  /\ w \in task[p].todo
  /\ task' = [task EXCEPT ![p].todo = @ \ {w}]
  /\ UNCHANGED <<topic, committed, position, owner, handlers>>

(* Variant: the message counts as consumed while handlers still run.       *)
CompleteEarly(p) ==
  /\ task[p] # None
  /\ task' = [task EXCEPT ![p] = None]
  /\ IF owner[task[p].key] = p
     THEN LET k == task[p].key
          IN /\ position' = [position EXCEPT ![k] = task[p].offset]
             /\ \/ committed' = [committed EXCEPT ![k] = task[p].offset]
                \/ UNCHANGED committed
     ELSE UNCHANGED <<position, committed>>
  /\ UNCHANGED <<topic, owner, handlers>>

(* Variant: the process does not go on to the next message.                *)
CompleteRepeating(p) ==
  /\ task[p] # None
  /\ task[p].todo = {}
  /\ task' = [task EXCEPT ![p] = None]
  /\ UNCHANGED <<topic, committed, position, owner, handlers>>

(* Variant: a process that has lost the partition never returns.           *)
CompleteOwned(p) ==
  /\ task[p] # None
  /\ task[p].todo = {}
  /\ owner[task[p].key] = p
  /\ task' = [task EXCEPT ![p] = None]
  /\ position' = [position EXCEPT ![task[p].key] = task[p].offset]
  /\ committed' = [committed EXCEPT ![task[p].key] = task[p].offset]
  /\ UNCHANGED <<topic, owner, handlers>>

(* All handlers have returned: eachMessage does, the process goes on to    *)
(* the next message, and the offset is committed now or with a later one.  *)
(* A process that has lost the partition meanwhile changes nothing.        *)
Complete(p) ==
  /\ task[p] # None
  /\ task[p].todo = {}
  /\ task' = [task EXCEPT ![p] = None]
  /\ IF owner[task[p].key] = p
     THEN LET k == task[p].key
          IN /\ position' = [position EXCEPT ![k] = task[p].offset]
             /\ \/ committed' = [committed EXCEPT ![k] = task[p].offset]
                \/ UNCHANGED committed
     ELSE UNCHANGED <<position, committed>>
  /\ UNCHANGED <<topic, owner, handlers>>

(* External: the process ends; its handlers and its message end with it.   *)
Leave(p) ==
  /\ handlers' = [handlers EXCEPT ![p] = {}]
  /\ task' = [task EXCEPT ![p] = None]
  /\ owner' = [k \in Keys |-> IF owner[k] = p THEN None ELSE owner[k]]
  /\ UNCHANGED <<topic, committed, position>>
=============================================================================

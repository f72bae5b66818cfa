---------------------------- MODULE EventWorkers ----------------------------
(***************************************************************************)
(* From a booking command to the read model and the audit log: the         *)
(* commands' writes and publications, the bus, and the workers of          *)
(* infrastructure/workers with what their handlers store.  The read model  *)
(* is the collection bookings_read that GET /bookings/:id answers from,    *)
(* while DELETE and the list answer from the bookings themselves.          *)
(***************************************************************************)
EXTENDS EventBus, FiniteSets, SequencesExt

CONSTANTS
  Startup,        \* the workers in the order server.ts starts them
  MaxFailures,    \* bound on rejected publications and failing handlers
  MaxExits,       \* bound on ends of processes
  MaxRebalances   \* bound on partitions taken from a live process

Created == "BookingCreated"
Cancelled == "BookingCancelled"

VARIABLES
  bookings,   \* status in the bookings collection, None if there is none
  unsent,     \* events whose publication the command still awaits
  rejected,   \* events whose publication failed
  view,       \* bookings_read
  trail,      \* audit_logs: the events stored for a booking, in order
  counts,     \* analytics_events: how often each event is stored
  database,   \* is a process connected to the database
  excused,    \* history: <<worker, booking>>: the worker missed an event or
              \* ran twice at once
  failures, exits, rebalances

sinks == <<view, trail, counts>>
commands == <<bookings, unsent, rejected>>
bounds == <<failures, exits, rebalances>>
vars == <<busVars, commands, sinks, database, excused, bounds>>

(* After JSON.parse of a message the event's dates are strings; the        *)
(* projection stores occurredAt as it finds it (dates that come from the   *)
(* event store would be Dates).                                            *)
Stamp == {"string", "Date"}
ReadModel == [status : {"CONFIRMED", "CANCELLED"}, createdAt : Stamp, updatedAt : Stamp]

(* The three workers of server.ts are started, in some order.              *)
ASSUME WorkersAssumption ==
  /\ Startup \in Seq(Workers)
  /\ {"projection", "analytics", "audit"} \subseteq Workers
  /\ {Created, Cancelled} \subseteq Events
  /\ None \notin {"CONFIRMED", "CANCELLED"} \cup ReadModel
  /\ MaxFailures \in Nat /\ MaxExits \in Nat /\ MaxRebalances \in Nat

TypeOK ==
  /\ BusTypeOK
  /\ bookings \in [Keys -> {None, "CONFIRMED", "CANCELLED"}]
  /\ unsent \in [Keys -> SUBSET {Created, Cancelled}]
  /\ rejected \in [Keys -> SUBSET {Created, Cancelled}]
  /\ view \in [Keys -> ReadModel \cup {None}]
  /\ trail \in [Keys -> Seq({Created, Cancelled})]
  /\ counts \in [Keys -> [{Created, Cancelled} -> Nat]]
  /\ database \in [Processes -> BOOLEAN]
  /\ excused \subseteq Workers \X Keys
  /\ failures \in 0 .. MaxFailures /\ exits \in 0 .. MaxExits /\ rebalances \in 0 .. MaxRebalances

Init ==
  /\ BusInit
  /\ bookings = [k \in Keys |-> None]
  /\ unsent = [k \in Keys |-> {}]
  /\ rejected = [k \in Keys |-> {}]
  /\ view = [k \in Keys |-> None]
  /\ trail = [k \in Keys |-> <<>>]
  /\ counts = [k \in Keys |-> [e \in {Created, Cancelled} |-> 0]]
  /\ database = [p \in Processes |-> TRUE]
  /\ excused = {}
  /\ failures = 0 /\ exits = 0 /\ rebalances = 0

-----------------------------------------------------------------------------
(* The commands (see Booking): a create call saves, then publishes.        *)
SaveBooking(k) ==
  /\ bookings[k] = None
  /\ bookings' = [bookings EXCEPT ![k] = "CONFIRMED"]
  /\ unsent' = [unsent EXCEPT ![k] = @ \cup {Created}]
  /\ UNCHANGED <<busVars, rejected, sinks, database, excused, bounds>>

(* Variant: the cancellation is announced before it is saved.              *)
SaveCancelledLater(k) ==
  /\ bookings[k] = "CONFIRMED"
  /\ unsent' = [unsent EXCEPT ![k] = @ \cup {Cancelled}]
  /\ UNCHANGED <<busVars, bookings, rejected, sinks, database, excused, bounds>>

(* A cancellation finds the booking as soon as it is saved, whether or not *)
(* its creation has been published.  One that overlaps another writes and  *)
(* publishes the same again (see Booking); it is left out here.            *)
SaveCancelled(k) ==
  /\ bookings[k] = "CONFIRMED"
  /\ bookings' = [bookings EXCEPT ![k] = "CANCELLED"]
  /\ unsent' = [unsent EXCEPT ![k] = @ \cup {Cancelled}]
  /\ UNCHANGED <<busVars, rejected, sinks, database, excused, bounds>>

Publish(k, e) ==
  /\ e \in unsent[k]
  /\ unsent' = [unsent EXCEPT ![k] = @ \ {e}]
  /\ Append2Topic(k, e)
  /\ UNCHANGED <<bookings, rejected, sinks, database, excused, bounds>>

(* The publisher logs a failure and the command succeeds.                  *)
RejectPublication(k, e) ==
  /\ e \in unsent[k]
  /\ failures < MaxFailures
  /\ failures' = failures + 1
  /\ unsent' = [unsent EXCEPT ![k] = @ \ {e}]
  /\ rejected' = [rejected EXCEPT ![k] = @ \cup {e}]
  /\ UNCHANGED <<busVars, bookings, sinks, database, excused, exits, rebalances>>

-----------------------------------------------------------------------------
(* initializeWorkers and initializeWebSocketServer start the workers one   *)
(* after the other.                                                        *)
StartWorker(p, n) ==
  /\ database[p]
  /\ handlers[p] = {Startup[i] : i \in 1 .. n - 1}
  /\ Subscribe(p, Startup[n])
  /\ UNCHANGED <<commands, sinks, database, excused, bounds>>

(* A partition changes hands.  A message that its old owner still handles  *)
(* may then be handled twice at once; without a committed offset what was  *)
(* published so far is passed over.                                        *)
TakePartition(k, p) ==
  /\ Assign(k, p)
  /\ owner[k] # None => rebalances < MaxRebalances
  /\ rebalances' = IF owner[k] = None THEN rebalances ELSE rebalances + 1
  /\ excused' = IF \/ \E q \in Processes : Handling(q, k)
                   \/ committed[k] = None /\ topic[k] # <<>>
                THEN excused \cup (Workers \X {k})
                ELSE excused
  /\ UNCHANGED <<commands, sinks, database, failures, exits>>

(* Workers that have not registered yet miss the message.                  *)
Receive(p, k) ==
  /\ Fetch(p, k)
  /\ excused' = excused \cup ((Workers \ handlers[p]) \X {k})
  /\ UNCHANGED <<commands, sinks, database, bounds>>

(* project: BookingCreated writes the whole document, upserting it;        *)
(* BookingCancelled updates a document that is there.                      *)
Projected(e, model) ==
  IF e = Created
  THEN [status |-> "CONFIRMED", createdAt |-> "string", updatedAt |-> "string"]
  ELSE IF model = None THEN None
  ELSE [model EXCEPT !.status = "CANCELLED", !.updatedAt = "string"]

Project(p) ==
  /\ database[p]
  /\ Finish(p, "projection")
  /\ view' = [view EXCEPT ![task[p].key] = Projected(Current(p), @)]
  /\ UNCHANGED <<commands, trail, counts, database, excused, bounds>>

(* insertOne with an eventId made of booking, version and time of arrival: *)
(* a repeated event has its own id unless it comes in the same millisecond.*)
StoreAudit(p) ==
  /\ database[p]
  /\ Finish(p, "audit")
  /\ LET k == task[p].key
         e == Current(p)
     IN \/ trail' = [trail EXCEPT ![k] = Append(@, e)]
        \/ e \in ToSet(trail[k]) /\ UNCHANGED trail
  /\ UNCHANGED <<commands, view, counts, database, excused, bounds>>

StoreAnalytics(p) ==
  /\ database[p]
  /\ Finish(p, "analytics")
  /\ counts' = [counts EXCEPT ![task[p].key][Current(p)] = @ + 1]
  /\ UNCHANGED <<commands, view, trail, database, excused, bounds>>

(* A handler's error is logged and swallowed; the message counts as        *)
(* processed.  Every handler that needs the database fails without it.     *)
FailHandler(p, w) ==
  /\ Finish(p, w)
  /\ database[p] => failures < MaxFailures
  /\ failures' = IF database[p] THEN failures + 1 ELSE failures
  /\ excused' = excused \cup {<<w, task[p].key>>}
  /\ UNCHANGED <<commands, sinks, database, exits, rebalances>>

(* Promise.all has resolved.                                               *)
Acknowledge(p) ==
  /\ Complete(p)
  /\ UNCHANGED <<commands, sinks, database, excused, bounds>>

(* server.stop clears each worker's isConsuming flag, which no handler     *)
(* looks at, closes the HTTP server and disconnects the database; the      *)
(* consumer goes on until the process exits, unless the webhook worker is  *)
(* enabled: its stop disconnects the Kafka client they share, once the     *)
(* message being handled is done.                                          *)
StopServer(p) ==
  /\ database[p]
  /\ exits < MaxExits
  /\ exits' = exits + 1
  /\ database' = [database EXCEPT ![p] = FALSE]
  /\ UNCHANGED busVars \/ (task[p] = None /\ Leave(p))
  /\ UNCHANGED <<commands, sinks, excused, failures, rebalances>>

(* process.exit after a stop, or a crash; the process is started again.    *)
Exit(p) ==
  /\ \/ ~database[p] /\ UNCHANGED exits
     \/ database[p] /\ exits < MaxExits /\ exits' = exits + 1
  /\ Leave(p)
  /\ database' = [database EXCEPT ![p] = TRUE]
  /\ UNCHANGED <<commands, sinks, excused, failures, rebalances>>

-----------------------------------------------------------------------------
Command(k) == \/ SaveBooking(k) \/ SaveCancelled(k)
              \/ \E e \in {Created, Cancelled} : Publish(k, e) \/ RejectPublication(k, e)

Work(p) == Project(p) \/ StoreAudit(p) \/ StoreAnalytics(p)

Next ==
  \/ \E k \in Keys : Command(k)
  \/ \E p \in Processes :
       \/ \E n \in 1 .. Len(Startup) : StartWorker(p, n)
       \/ \E k \in Keys : TakePartition(k, p) \/ Receive(p, k)
       \/ Work(p)
       \/ \E w \in Workers : FailHandler(p, w)
       \/ Acknowledge(p)
       \/ StopServer(p)
       \/ Exit(p)

Spec == Init /\ [][Next]_vars

(* Publications and handlers await calls that return or throw; a process   *)
(* starts its workers; the group assigns partitions nobody has.            *)
Fairness ==
  /\ \A k \in Keys, e \in {Created, Cancelled} : WF_vars(Publish(k, e))
  /\ \A k \in Keys : WF_vars(owner[k] = None /\ \E p \in Processes : TakePartition(k, p))
  /\ \A p \in Processes :
       /\ WF_vars(\E n \in 1 .. Len(Startup) : StartWorker(p, n))
       /\ WF_vars(\E k \in Keys : Receive(p, k))
       /\ WF_vars(Work(p) \/ \E w \in Workers : FailHandler(p, w))
       /\ WF_vars(Acknowledge(p))
       /\ WF_vars(~database[p] /\ Exit(p))

FairSpec == Spec /\ Fairness

-----------------------------------------------------------------------------
(* The read model is never ahead: it shows a booking, or a cancellation,   *)
(* only when the bookings collection has it.                               *)
ViewIsNeverAhead ==
  \A k \in Keys :
    view[k] # None => /\ bookings[k] # None
                      /\ view[k].status = "CANCELLED" => bookings[k] = "CANCELLED"

Drained(k) ==
  /\ unsent[k] = {}
  /\ position[k] = Len(topic[k])
  /\ \A p \in Processes : ~Handling(p, k)

InOrder(k) == topic[k] \in {<<>>, <<Created>>, <<Created, Cancelled>>}

(* Why a read model may stay stale.  Once everything published has been    *)
(* consumed it agrees with the booking, whatever was repeated after a      *)
(* crash or a rebalance, unless a publication was rejected, the events     *)
(* were published in the wrong order, or the projection missed an event or *)
(* handled the booking in two processes at once.                           *)
StaleViewsHaveACause ==
  \A k \in Keys :
    Drained(k) /\ rejected[k] = {} /\ InOrder(k) /\ <<"projection", k>> \notin excused =>
      IF bookings[k] = None THEN view[k] = None
      ELSE view[k] # None /\ view[k].status = bookings[k]

(* Redelivery repeats, it does not skip: unless the audit worker missed a  *)
(* message of a booking, its trail has every event consumed so far.        *)
TrailHasNoGaps ==
  \A k \in Keys :
    <<"audit", k>> \notin excused =>
      \A i \in 1 .. Len(topic[k]) :
        position[k] >= i => topic[k][i] \in ToSet(trail[k])

(* Analytics count each event once as long as no process ends and no       *)
(* partition moves: nothing else repeats a message.                        *)
CountedOnce ==
  exits = 0 /\ rebalances = 0 =>
    \A k \in Keys, e \in {Created, Cancelled} : counts[k][e] <= 1

(* Every published event is eventually consumed, through crashes, restarts *)
(* and rebalances.                                                         *)
EventsAreConsumed == \A k \in Keys : <>[]Drained(k)

(* GetBookingUseCase: a date that is a string has no toISOString.          *)
GetBooking(k) ==
  IF view[k] = None THEN "not_found"
  ELSE IF view[k].createdAt # "Date" \/ view[k].updatedAt # "Date" THEN "error"
  ELSE view[k].status

(* openapi.yaml:355: GET answers with the booking's details, at the latest *)
(* when its creation has been consumed.                                    *)
ProjectedBookingsAreShown ==
  \A k \in Keys :
    Drained(k) /\ view[k] # None => GetBooking(k) = view[k].status
=============================================================================

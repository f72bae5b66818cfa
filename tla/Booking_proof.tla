--------------------------- MODULE Booking_proof ---------------------------
(***************************************************************************)
(* Proofs about Booking for any requests, instances, keys and bounds.      *)
(***************************************************************************)
EXTENDS Booking, Seating_proof

(* The theorems about the lock service, for the maps of all processes.     *)
LP == INSTANCE LockService_proof
     WITH Callers <- Requests, Keys <- Instances \X LockNames, NoOne <- None

(* The candidates of a request are sets of tables of its sector, at integer *)
(* times.                                                                  *)
LEMMA AsksAreFormed == \A r \in Requests : WellFormed(Ask[r])
BY BookingAssumption DEF WellFormed, Times

LEMMA CandidateType ==
  ASSUME NEW a, WellFormed(a), NEW B, AllTimed(B), NEW c \in Candidates(a, B)
  PROVE  c.tables \in SUBSET TablesOf(a.sector) /\ Timed(c)
<1>1. c.tables \in TableSets(a.sector) /\ c.start \in Int /\ c.end = c.start + a.duration
  BY CandidatesFit DEF Comparable
<1> QED BY <1>1 DEF TableSets, Timed, WellFormed

-----------------------------------------------------------------------------
(* What the position of a call says of its data.                           *)
CallsAreFormed ==
  /\ \A r \in Requests :
       /\ pc[r] \notin Deleting
       /\ InFlight(r) => at[r] \in Instances
       /\ pc[r] \in {"key", "recheck", "saveKey"} => KeyOf[r] \in IdemKeys
       /\ pc[r] \in {"lock"} \cup InLock => seat[r] \in Seat /\ Found(r)
  /\ \A d \in Deletes :
       /\ pc[d] \in {"start", "done", "dead"} \cup Deleting
       /\ pc[d] \in Deleting => at[d] \in Instances /\ target[d] \in Requests
       /\ pc[d] = "cancel" => bookings[target[d]] # None

Formed == DataTypeOK /\ CallsAreFormed

LEMMA BookingsAreTimed ==
  ASSUME DataTypeOK, NEW sector
  PROVE  AllTimed(Confirmed(sector))
<1> SUFFICES ASSUME NEW x \in Requests, bookings[x] # None PROVE Timed(bookings[x])
  BY DEF AllTimed, Confirmed
<1>1. bookings[x] \in Document
  BY DEF DataTypeOK
<1> QED BY <1>1 DEF Document, Timed

(* The proof that a step keeps DataTypeOK and CallsAreFormed treats the    *)
(* documents and the answers as opaque: these are the ones the steps make. *)
LEMMA AnswersMade ==
  /\ \A code \in {"cancelled", "not_found", "invalid", "no_capacity", "conflict", "error"} :
       [code |-> code] \in Answer
  /\ \A code \in {"created", "replayed"}, b \in Requests : [code |-> code, id |-> b] \in Answer
BY DEF Answer

LEMMA DocumentsMade ==
  /\ \A r \in Requests :
       seat[r] \in Seat /\ Found(r) => NewBooking(r) \in Document
  /\ \A doc \in Document : [doc EXCEPT !.status = "CANCELLED"] \in Document
BY DEF NewBooking, Document, Seat, Status, Found

LEMMA EventsMade ==
  ASSUME NEW b \in Requests, NEW e \in {"created", "cancelled"},
         events \in [Requests -> Seq({"created", "cancelled"})],
         faults \in 0 .. MaxFaults, Publish(b, e)
  PROVE  /\ events' \in [Requests -> Seq({"created", "cancelled"})]
         /\ faults' \in 0 .. MaxFaults
<1>1. CASE events' = [events EXCEPT ![b] = Append(@, e)] /\ UNCHANGED faults
  <2>1. events[b] \in Seq({"created", "cancelled"})
    OBVIOUS
  <2>2. Append(events[b], e) \in Seq({"created", "cancelled"})
    BY <2>1
  <2> QED BY <1>1, <2>2
<1>2. CASE faults < MaxFaults /\ faults' = faults + 1 /\ UNCHANGED events
  BY <1>2, BookingAssumption
<1> QED BY <1>1, <1>2 DEF Publish

LEMMA StepsMade ==
  ASSUME DataTypeOK, NEW c \in Calls
  PROVE  /\ \A step \in Steps : Goto(c, step) => pc' \in [Calls -> Steps]
         /\ \A step \in Steps, answer \in Answer :
              Conclude(c, answer, step) => /\ pc' \in [Calls -> Steps]
                                           /\ result' \in [Calls -> Answer \cup {None}]
BY DEF DataTypeOK, Goto, Conclude

LEMMA FormedInit == Init => Formed
<1> SUFFICES ASSUME Init PROVE Formed
  OBVIOUS
<1>1. \A c \in Calls : pc[c] = "start"
  BY DEF Init
<1>2. CallsAreFormed
  BY <1>1 DEF CallsAreFormed, Calls, InFlight, BeforeLock, InLock, Deleting
<1>3. events \in [Requests -> Seq({"created", "cancelled"})]
  BY DEF Init
<1>4. pc \in [Calls -> Steps]
  BY DEF Init, Steps
<1>5. DataTypeOK
  BY <1>3, <1>4, BookingAssumption DEF Init, DataTypeOK
<1> QED BY <1>2, <1>5 DEF Formed

LEMMA FormedArrive ==
  ASSUME Formed, NEW c \in Calls, NEW i \in Instances, Arrive(c, i)
  PROVE  Formed'
<1>1. pc' \in [Calls -> Steps]
  BY StepsMade DEF Formed, Arrive, Steps, BeforeLock, Deleting
<1>2. at' \in [Calls -> Instances \cup {None}]
  BY DEF Formed, DataTypeOK, Arrive
<1>3. target' \in [Deletes -> Requests \cup {None}]
  BY DEF Formed, DataTypeOK, Arrive
<1>4. DataTypeOK'
  BY <1>1, <1>2, <1>3 DEF Formed, DataTypeOK, Arrive, data
<1>5. CASE c \in Deletes
  <2>1. c \notin Requests /\ pc' = [pc EXCEPT ![c] = "find"]
    BY <1>5, BookingAssumption DEF Arrive, Goto
  <2>2. target'[c] \in Requests
    BY <1>5 DEF Arrive, Formed, DataTypeOK
  <2> QED BY <1>4, <1>5, <2>1, <2>2, BookingAssumption
          DEF Formed, DataTypeOK, CallsAreFormed, Arrive, data, Calls, InFlight, BeforeLock, InLock, Deleting
<1>6. CASE c \in Requests
  BY <1>4, <1>6, BookingAssumption
     DEF Formed, DataTypeOK, CallsAreFormed, Arrive, data, Calls, Goto, InFlight, BeforeLock, InLock, Deleting
<1> QED BY <1>5, <1>6 DEF Calls

(* A create call moves on: what its new position says of it must hold, and *)
(* nobody else is disturbed.                                               *)
LEMMA CreateMoves ==
  ASSUME Formed, NEW r \in Requests, NEW step \in Steps \ Deleting,
         pc' = [pc EXCEPT ![r] = step],
         step \in BeforeLock \cup InLock => InFlight(r),
         step \in {"key", "recheck", "saveKey"} => KeyOf[r] \in IdemKeys,
         step \in {"lock"} \cup InLock => seat'[r] \in Seat /\ Found(r),
         \A s \in Requests \ {r} : seat'[s] = seat[s],
         UNCHANGED <<at, target>>,
         \A b \in Requests : bookings'[b] = None => bookings[b] = None
  PROVE  CallsAreFormed'
<1> USE BookingAssumption
    DEF Formed, DataTypeOK, CallsAreFormed, Calls, InFlight, Steps, BeforeLock, InLock, Deleting
<1>1. \A c \in Calls \ {r} : pc'[c] = pc[c]
  OBVIOUS
<1>2. pc'[r] = step
  OBVIOUS
<1>3. ASSUME NEW s \in Requests
      PROVE /\ pc'[s] \notin Deleting
            /\ InFlight(s)' => at'[s] \in Instances
            /\ pc'[s] \in {"key", "recheck", "saveKey"} => KeyOf[s] \in IdemKeys
            /\ pc'[s] \in {"lock"} \cup InLock => seat'[s] \in Seat /\ Found(s)
  <2>1. CASE s = r
    BY <1>2, <2>1
  <2>2. CASE s # r
    BY <1>1, <2>2
  <2> QED BY <2>1, <2>2
<1>4. ASSUME NEW d \in Deletes
      PROVE /\ pc'[d] \in {"start", "done", "dead"} \cup Deleting
            /\ pc'[d] \in Deleting => at'[d] \in Instances /\ target'[d] \in Requests
            /\ pc'[d] = "cancel" => bookings'[target'[d]] # None
  BY <1>1
<1> QED BY <1>3, <1>4

(* The same for a call that cancels.                                       *)
LEMMA CancelMoves ==
  ASSUME Formed, NEW d \in Deletes, NEW step \in {"done"} \cup Deleting,
         pc' = [pc EXCEPT ![d] = step],
         pc[d] \in Deleting,
         step = "cancel" => bookings[target[d]] # None,
         UNCHANGED <<at, target, seat>>,
         \A b \in Requests : bookings'[b] = None => bookings[b] = None
  PROVE  CallsAreFormed'
<1> USE BookingAssumption
    DEF Formed, DataTypeOK, CallsAreFormed, Calls, InFlight, Steps, BeforeLock, InLock, Deleting
<1>1. \A c \in Calls \ {d} : pc'[c] = pc[c]
  OBVIOUS
<1>2. pc'[d] = step
  OBVIOUS
<1>3. ASSUME NEW s \in Requests
      PROVE /\ pc'[s] \notin Deleting
            /\ InFlight(s)' => at'[s] \in Instances
            /\ pc'[s] \in {"key", "recheck", "saveKey"} => KeyOf[s] \in IdemKeys
            /\ pc'[s] \in {"lock"} \cup InLock => seat'[s] \in Seat /\ Found(s)
  BY <1>1
<1>4. ASSUME NEW e \in Deletes
      PROVE /\ pc'[e] \in {"start", "done", "dead"} \cup Deleting
            /\ pc'[e] \in Deleting => at'[e] \in Instances /\ target'[e] \in Requests
            /\ pc'[e] = "cancel" => bookings'[target'[e]] # None
  <2>1. CASE e = d
    BY <1>2, <2>1
  <2>2. CASE e # d
    BY <1>1, <2>2
  <2> QED BY <2>1, <2>2
<1> QED BY <1>3, <1>4

-----------------------------------------------------------------------------
LEMMA FormedCheckKey ==
  ASSUME Formed, NEW r \in Requests, CheckKey(r)
  PROVE  Formed'
<1>1. KeyOf[r] \in IdemKeys
  BY DEF Formed, CallsAreFormed, CheckKey
<1>2. Known(KeyOf[r]) => [code |-> "replayed", id |-> idempotency[KeyOf[r]]] \in Answer
  BY <1>1, AnswersMade DEF Known, Formed, DataTypeOK
<1>3. pc' \in [Calls -> Steps] /\ result' \in [Calls -> Answer \cup {None}]
  BY <1>2, StepsMade DEF Formed, DataTypeOK, CheckKey, Steps, BeforeLock, Calls
<1>4. DataTypeOK'
  BY <1>3 DEF Formed, DataTypeOK, CheckKey, data, local
<1>5. \E step \in {"done", "select"} : pc' = [pc EXCEPT ![r] = step]
  BY DEF CheckKey, Conclude, Goto
<1>6. CallsAreFormed'
  BY <1>5, CreateMoves DEF CheckKey, data, local, InFlight, Steps, BeforeLock, InLock, Deleting
<1> QED BY <1>4, <1>6 DEF Formed

LEMMA FormedSelectSeat ==
  ASSUME Formed, NEW r \in Requests, SelectSeat(r)
  PROVE  Formed'
<1>1. CASE UNCHANGED seat /\ (\E code \in {"not_found", "invalid", "no_capacity"} :
                                Conclude(r, [code |-> code], "done"))
  <2>1. PICK code \in {"not_found", "invalid", "no_capacity"} :
          Conclude(r, [code |-> code], "done")
    BY <1>1
  <2>2. [code |-> code] \in Answer
    BY AnswersMade
  <2>3. pc' \in [Calls -> Steps] /\ result' \in [Calls -> Answer \cup {None}]
    BY <2>1, <2>2, StepsMade DEF Formed, Steps, Calls
  <2>4. DataTypeOK'
    BY <1>1, <2>3 DEF Formed, DataTypeOK, SelectSeat, data
  <2>5. CallsAreFormed'
    BY <1>1, <2>1, CreateMoves
       DEF SelectSeat, Conclude, Goto, data, InFlight, Steps, BeforeLock, InLock, Deleting
  <2> QED BY <2>4, <2>5 DEF Formed
<1>2. ASSUME NEW c \in BestCandidates(Candidates(Ask[r], Confirmed(Ask[r].sector)),
                                      Ask[r].partySize),
             seat' = [seat EXCEPT ![r] = [tables |-> c.tables, start |-> c.start, end |-> c.end]],
             Found(r), Goto(r, "lock"), UNCHANGED result
      PROVE Formed'
  <2>1. c.tables \in SUBSET TablesOf(Ask[r].sector) /\ Timed(c)
    BY <1>2, AsksAreFormed, CandidateType, BookingsAreTimed DEF BestCandidates, Formed
  <2>2. [tables |-> c.tables, start |-> c.start, end |-> c.end] \in Seat
    BY <2>1 DEF Seat, Timed, TablesOf
  <2>3. pc' \in [Calls -> Steps]
    BY <1>2, StepsMade DEF Formed, Steps, BeforeLock, Calls
  <2>4. seat' \in [Requests -> Seat \cup {None}] /\ seat'[r] \in Seat
    BY <1>2, <2>2 DEF Formed, DataTypeOK
  <2>5. DataTypeOK'
    BY <1>2, <2>3, <2>4 DEF Formed, DataTypeOK, SelectSeat, data
  <2>6. \A s \in Requests \ {r} : seat'[s] = seat[s]
    BY <1>2 DEF Formed, DataTypeOK
  <2>7. CallsAreFormed'
    BY <1>2, <2>4, <2>6, CreateMoves
       DEF SelectSeat, Goto, data, InFlight, Steps, BeforeLock, InLock, Deleting
  <2> QED BY <2>5, <2>7 DEF Formed
<1> QED BY <1>1, <1>2 DEF SelectSeat

LEMMA FormedTakeLock ==
  ASSUME Formed, NEW r \in Requests, TakeLock(r)
  PROVE  Formed'
<1>1. PICK step \in {"lock", "recheck", "read"} :
        Goto(r, step) /\ (step = "recheck" => KeyOf[r] # None)
  BY DEF TakeLock
<1>2. pc' \in [Calls -> Steps]
  BY <1>1, StepsMade DEF Formed, Steps, BeforeLock, InLock, Calls
<1>3. DataTypeOK'
  BY <1>2 DEF Formed, DataTypeOK, TakeLock, data, local
<1>4. KeyOf[r] # None => KeyOf[r] \in IdemKeys
  BY BookingAssumption
<1>5. seat[r] \in Seat /\ Found(r)
  BY DEF Formed, CallsAreFormed, TakeLock
<1>6. CallsAreFormed'
  BY <1>1, <1>4, <1>5, CreateMoves
     DEF TakeLock, Goto, data, local, InFlight, Steps, BeforeLock, InLock, Deleting
<1> QED BY <1>3, <1>6 DEF Formed

LEMMA FormedRecheckKey ==
  ASSUME Formed, NEW r \in Requests, RecheckKey(r)
  PROVE  Formed'
<1>1. KeyOf[r] \in IdemKeys /\ seat[r] \in Seat /\ Found(r)
  BY DEF Formed, CallsAreFormed, RecheckKey, InLock
<1>2. Known(KeyOf[r]) => [code |-> "replayed", id |-> idempotency[KeyOf[r]]] \in Answer
  BY <1>1, AnswersMade DEF Known, Formed, DataTypeOK
<1>3. pc' \in [Calls -> Steps] /\ result' \in [Calls -> Answer \cup {None}]
  BY <1>2, StepsMade DEF Formed, DataTypeOK, RecheckKey, Steps, InLock, Calls
<1>4. DataTypeOK'
  BY <1>3 DEF Formed, DataTypeOK, RecheckKey, data, local
<1>5. \E step \in {"release", "read"} : pc' = [pc EXCEPT ![r] = step]
  BY DEF RecheckKey, Conclude, Goto
<1>6. CallsAreFormed'
  BY <1>1, <1>5, CreateMoves
     DEF RecheckKey, data, local, InFlight, Steps, BeforeLock, InLock, Deleting
<1> QED BY <1>4, <1>6 DEF Formed

LEMMA FormedReadLatest ==
  ASSUME Formed, NEW r \in Requests, ReadLatest(r)
  PROVE  Formed'
<1>1. seat[r] \in Seat /\ Found(r)
  BY DEF Formed, CallsAreFormed, ReadLatest, InLock
<1>2. pc' \in [Calls -> Steps] /\ result' \in [Calls -> Answer \cup {None}]
  BY AnswersMade, StepsMade DEF Formed, DataTypeOK, ReadLatest, Steps, InLock, Calls
<1>3. DataTypeOK'
  BY <1>2 DEF Formed, DataTypeOK, ReadLatest, data, local
<1>4. \E step \in {"release", "save"} : pc' = [pc EXCEPT ![r] = step]
  BY DEF ReadLatest, Conclude, Goto
<1>5. CallsAreFormed'
  BY <1>1, <1>4, CreateMoves
     DEF ReadLatest, data, local, InFlight, Steps, BeforeLock, InLock, Deleting
<1> QED BY <1>3, <1>5 DEF Formed

(* The document a create call writes, acknowledged or not.                 *)
LEMMA BookingWritten ==
  ASSUME Formed, NEW r \in Requests, pc[r] = "save",
         bookings' = [bookings EXCEPT ![r] = NewBooking(r)]
  PROVE  /\ bookings' \in [Requests -> Document \cup {None}]
         /\ \A b \in Requests : bookings'[b] = None => bookings[b] = None
<1>1. NewBooking(r) \in Document
  BY DocumentsMade DEF Formed, CallsAreFormed, InLock
<1> QED BY <1>1, NoneIsNoRecord DEF Formed, DataTypeOK

(* The document a cancel call writes, acknowledged or not.                 *)
LEMMA BookingCancelled ==
  ASSUME Formed, NEW d \in Deletes, pc[d] = "cancel",
         bookings' = [bookings EXCEPT ![target[d]].status = "CANCELLED"]
  PROVE  /\ bookings' \in [Requests -> Document \cup {None}]
         /\ \A b \in Requests : bookings'[b] = None => bookings[b] = None
<1>1. target[d] \in Requests /\ bookings[target[d]] \in Document
  BY DEF Formed, CallsAreFormed, DataTypeOK, Deleting
<1>2. [bookings[target[d]] EXCEPT !.status = "CANCELLED"] \in Document
  BY <1>1, DocumentsMade
<1>3. bookings' = [bookings EXCEPT ![target[d]] =
                     [bookings[target[d]] EXCEPT !.status = "CANCELLED"]]
  OBVIOUS
<1>4. bookings \in [Requests -> Document \cup {None}]
  BY DEF Formed, DataTypeOK
<1> DEFINE doc == [bookings[target[d]] EXCEPT !.status = "CANCELLED"]
<1>5. doc # None
  BY <1>2, NoneIsNoRecord
<1> HIDE DEF doc
<1>6. doc \in Document /\ bookings' = [bookings EXCEPT ![target[d]] = doc]
  BY <1>2, <1>3 DEF doc
<1> QED BY <1>1, <1>4, <1>5, <1>6

LEMMA FormedSaves ==
  ASSUME Formed, NEW r \in Requests, SaveBooking(r) \/ SaveKey(r) \/ PublishCreated(r)
  PROVE  Formed'
<1>1. seat[r] \in Seat /\ Found(r)
  BY DEF Formed, CallsAreFormed, SaveBooking, SaveKey, PublishCreated, InLock
<1>2. CASE SaveBooking(r)
  <2>1. PICK step \in {"saveKey", "publish"} :
          Goto(r, step) /\ (step = "saveKey" => KeyOf[r] # None)
    BY <1>2 DEF SaveBooking
  <2>2. /\ bookings' \in [Requests -> Document \cup {None}]
        /\ \A b \in Requests : bookings'[b] = None => bookings[b] = None
    BY <1>2, BookingWritten DEF SaveBooking
  <2>3. pc' \in [Calls -> Steps]
    BY <2>1, StepsMade DEF Formed, Steps, InLock, Calls
  <2>4. DataTypeOK'
    BY <1>2, <2>2, <2>3 DEF Formed, DataTypeOK, SaveBooking, local
  <2>5. KeyOf[r] # None => KeyOf[r] \in IdemKeys
    BY BookingAssumption
  <2>6. CallsAreFormed'
    BY <1>1, <1>2, <2>1, <2>2, <2>5, CreateMoves
       DEF SaveBooking, Goto, local, InFlight, Steps, BeforeLock, InLock, Deleting
  <2> QED BY <2>4, <2>6 DEF Formed
<1>3. CASE SaveKey(r)
  <2>1. pc' \in [Calls -> Steps]
    BY <1>3, StepsMade DEF Formed, SaveKey, Steps, InLock, Calls
  <2>2. DataTypeOK'
    BY <1>3, <2>1 DEF Formed, DataTypeOK, SaveKey, local
  <2>3. CallsAreFormed'
    BY <1>1, <1>3, CreateMoves
       DEF SaveKey, Goto, local, InFlight, Steps, BeforeLock, InLock, Deleting
  <2> QED BY <2>2, <2>3 DEF Formed
<1>4. CASE PublishCreated(r)
  <2>1. pc' \in [Calls -> Steps] /\ result' \in [Calls -> Answer \cup {None}]
    BY <1>4, AnswersMade, StepsMade DEF Formed, PublishCreated, Steps, InLock, Calls
  <2>2. DataTypeOK'
    BY <1>4, <2>1, EventsMade DEF Formed, DataTypeOK, PublishCreated, local
  <2>3. CallsAreFormed'
    BY <1>1, <1>4, CreateMoves
       DEF PublishCreated, Conclude, Goto, local, InFlight, Steps, BeforeLock, InLock, Deleting
  <2> QED BY <2>2, <2>3 DEF Formed
<1> QED BY <1>2, <1>3, <1>4

LEMMA FormedFinish ==
  ASSUME Formed, NEW r \in Requests, Finish(r)
  PROVE  Formed'
<1>1. pc' \in [Calls -> Steps]
  BY StepsMade DEF Formed, Finish, Steps, Calls
<1>2. DataTypeOK'
  BY <1>1 DEF Formed, DataTypeOK, Finish, data, local
<1>3. CallsAreFormed'
  BY CreateMoves DEF Finish, Goto, data, local, Steps, BeforeLock, InLock, Deleting
<1> QED BY <1>2, <1>3 DEF Formed

LEMMA FormedCancel ==
  ASSUME Formed, NEW d \in Deletes, Cancel(d)
  PROVE  Formed'
<1>1. CASE FindBooking(d)
  <2>1. pc' \in [Calls -> Steps] /\ result' \in [Calls -> Answer \cup {None}]
    BY <1>1, AnswersMade, StepsMade DEF Formed, DataTypeOK, FindBooking, Steps, Deleting, Calls
  <2>2. DataTypeOK'
    BY <1>1, <2>1 DEF Formed, DataTypeOK, FindBooking, data, local
  <2>3. PICK step \in {"done", "cancel"} :
          pc' = [pc EXCEPT ![d] = step] /\ (step = "cancel" => bookings[target[d]] # None)
    BY <1>1 DEF FindBooking, Conclude, Goto
  <2>4. CallsAreFormed'
    BY <1>1, <2>3, CancelMoves DEF FindBooking, data, local, Deleting
  <2> QED BY <2>2, <2>4 DEF Formed
<1>2. CASE SaveCancelled(d)
  <2>1. pc' \in [Calls -> Steps]
    BY <1>2, StepsMade DEF Formed, SaveCancelled, Steps, Deleting, Calls
  <2>2. /\ bookings' \in [Requests -> Document \cup {None}]
        /\ \A b \in Requests : bookings'[b] = None => bookings[b] = None
    BY <1>2, BookingCancelled DEF SaveCancelled
  <2>3. DataTypeOK'
    BY <1>2, <2>1, <2>2 DEF Formed, DataTypeOK, SaveCancelled, local
  <2>4. CallsAreFormed'
    BY <1>2, <2>2, CancelMoves DEF SaveCancelled, Goto, local, Deleting
  <2> QED BY <2>3, <2>4 DEF Formed
<1>3. CASE PublishCancelled(d)
  <2>1. pc' \in [Calls -> Steps] /\ result' \in [Calls -> Answer \cup {None}]
    BY <1>3, AnswersMade, StepsMade DEF Formed, PublishCancelled, Steps, Calls
  <2>2. target[d] \in Requests
    BY <1>3 DEF Formed, CallsAreFormed, PublishCancelled, Deleting
  <2>3. DataTypeOK'
    BY <1>3, <2>1, <2>2, EventsMade DEF Formed, DataTypeOK, PublishCancelled, local
  <2>4. CallsAreFormed'
    BY <1>3, CancelMoves DEF PublishCancelled, Conclude, Goto, local, Deleting
  <2> QED BY <2>3, <2>4 DEF Formed
<1> QED BY <1>1, <1>2, <1>3 DEF Cancel

LEMMA FormedFaults ==
  ASSUME Formed, NEW c \in Calls, DatabaseFails(c) \/ AcknowledgementLost(c)
  PROVE  Formed'
<1>1. PICK step \in {"done", "release"} :
        /\ Conclude(c, [code |-> "error"], step)
        /\ step = "release" => pc[c] \in {"recheck", "read", "save", "saveKey"}
        /\ pc[c] \in Deleting => step = "done"
  BY DEF DatabaseFails, AcknowledgementLost, Deleting
<1>2. pc' \in [Calls -> Steps] /\ result' \in [Calls -> Answer \cup {None}]
  BY <1>1, AnswersMade, StepsMade DEF Formed, Steps, InLock
<1>3. faults' \in 0 .. MaxFaults
  BY BookingAssumption DEF Formed, DataTypeOK, DatabaseFails, AcknowledgementLost
<1>4. /\ bookings' \in [Requests -> Document \cup {None}]
      /\ \A b \in Requests : bookings'[b] = None => bookings[b] = None
  <2>1. CASE UNCHANGED bookings
    BY <2>1 DEF Formed, DataTypeOK
  <2>2. CASE pc[c] = "save" /\ bookings' = [bookings EXCEPT ![c] = NewBooking(c)]
    <3>1. c \in Requests
      BY <2>2 DEF Formed, CallsAreFormed, Calls, Deleting
    <3> QED BY <2>2, <3>1, BookingWritten
  <2>3. CASE pc[c] = "cancel" /\ bookings' = [bookings EXCEPT ![target[c]].status = "CANCELLED"]
    <3>1. c \in Deletes
      BY <2>3 DEF Formed, CallsAreFormed, Calls, Deleting
    <3> QED BY <2>3, <3>1, BookingCancelled
  <2> QED BY <2>1, <2>2, <2>3 DEF DatabaseFails, AcknowledgementLost, data
<1>5. idempotency' \in [IdemKeys -> Requests \cup {None}]
  <2>1. CASE pc[c] = "saveKey" /\ idempotency' = [idempotency EXCEPT ![KeyOf[c]] = c]
    <3>1. c \in Requests
      BY <2>1 DEF Formed, CallsAreFormed, Calls, Deleting
    <3> QED BY <2>1, <3>1 DEF Formed, DataTypeOK
  <2> QED BY <2>1 DEF DatabaseFails, AcknowledgementLost, Formed, DataTypeOK, data
<1>6. UNCHANGED <<events, at, local, crashes>>
  BY DEF DatabaseFails, AcknowledgementLost, data
<1>7. DataTypeOK'
  BY <1>2, <1>3, <1>4, <1>5, <1>6 DEF Formed, DataTypeOK, local
<1>8. CASE c \in Requests
  <2>1. pc[c] \in InLock => seat[c] \in Seat /\ Found(c)
    BY <1>8 DEF Formed, CallsAreFormed
  <2> QED BY <1>1, <1>4, <1>6, <1>7, <1>8, <2>1, CreateMoves
          DEF Conclude, Goto, local, InFlight, Steps, BeforeLock, InLock, Deleting, Formed
<1>9. CASE c \in Deletes
  <2>1. pc[c] \in Deleting
    BY <1>9 DEF Formed, CallsAreFormed, DatabaseFails, AcknowledgementLost, Deleting
  <2> QED BY <1>1, <1>4, <1>6, <1>7, <1>9, <2>1, CancelMoves DEF Conclude, Goto, local, Formed
<1> QED BY <1>8, <1>9 DEF Calls

LEMMA FormedCrash ==
  ASSUME Formed, NEW i \in Instances, Crash(i)
  PROVE  Formed'
<1>1. \A c \in Calls : pc'[c] \in {"dead", pc[c]}
  BY DEF Crash
<1>2. pc' \in [Calls -> Steps] /\ result' \in [Calls -> Answer \cup {None}]
  BY DEF Crash, Formed, DataTypeOK, Steps
<1>3. crashes' \in 0 .. MaxCrashes
  BY BookingAssumption DEF Crash, Formed, DataTypeOK
<1>4. DataTypeOK'
  BY <1>2, <1>3 DEF Crash, Formed, DataTypeOK, data, local
<1>5. CallsAreFormed'
  BY <1>1 DEF Crash, Formed, CallsAreFormed, Calls, InFlight, BeforeLock, InLock, Deleting,
              data, local
<1> QED BY <1>4, <1>5 DEF Formed

(* The documents keep their types, and a call has what its position needs. *)
LEMMA FormedInvariant == Spec => []Formed
<1>1. Formed /\ [Next]_vars => Formed'
  <2> SUFFICES ASSUME Formed, [Next]_vars PROVE Formed'
    OBVIOUS
  <2>1. CASE UNCHANGED vars
    BY <2>1 DEF Formed, DataTypeOK, CallsAreFormed, InFlight, vars, data, local
  <2> QED
    BY <2>1, FormedArrive, FormedCheckKey, FormedSelectSeat, FormedTakeLock, FormedRecheckKey,
       FormedReadLatest, FormedSaves, FormedFinish, FormedCancel, FormedFaults, FormedCrash
       DEF Next, Serve, Create
<1> QED BY <1>1, FormedInit, PTL DEF Spec

-----------------------------------------------------------------------------
LEMMA LockNameType ==
  ASSUME NEW r \in Requests, KeyOf[r] = None => seat[r] \in Seat /\ Found(r)
  PROVE  LockName(r) \in LockNames
<1>1. CASE KeyOf[r] # None
  BY <1>1, BookingAssumption DEF LockName, LockNames
<1>2. CASE KeyOf[r] = None
  BY <1>2 DEF LockName, LockNames, Seat, Found
<1> QED BY <1>1, <1>2

(* Every step is a step of the lock service or leaves it alone.            *)
LEMMA LockStep == Formed /\ [Next]_vars => [LP!Next]_LP!vars
<1> SUFFICES ASSUME Formed, [Next]_vars PROVE [LP!Next]_LP!vars
  OBVIOUS
<1>1. ASSUME NEW r \in Requests, TakeLock(r) PROVE LP!Next
  <2>1. at[r] \in Instances /\ seat[r] \in Seat /\ Found(r)
    BY <1>1 DEF TakeLock, Formed, CallsAreFormed, InFlight, BeforeLock
  <2>2. <<at[r], LockName(r)>> \in Instances \X LockNames
    BY <2>1, LockNameType
  <2> QED BY <1>1, <2>2
          DEF TakeLock, LP!Next, LP!Acquire, L!Acquire, LP!Retry, L!Retry, LP!Enter, L!Enter,
              LP!Wait, L!Wait
<1>2. ASSUME NEW r \in Requests, Finish(r) PROVE LP!Next
  BY <1>2 DEF Finish, LP!Next, LP!Release, L!Release
<1>3. ASSUME NEW i \in Instances, Crash(i) PROVE LP!Next
  <2>1. PICK S \in SUBSET Requests : L!Abandon(S)
    BY <1>3 DEF Crash
  <2> QED BY <2>1 DEF LP!Next, LP!Abandon, L!Abandon
<1>4. CASE UNCHANGED lockVars
  BY <1>4 DEF lockVars, LP!vars
<1>5. ASSUME NEW c \in Calls, NEW i \in Instances, Arrive(c, i) PROVE UNCHANGED lockVars
  BY <1>5 DEF Arrive
<1>6. ASSUME NEW r \in Requests, Create(r), ~TakeLock(r), ~Finish(r) PROVE UNCHANGED lockVars
  BY <1>6 DEF Create, CheckKey, SelectSeat, RecheckKey, ReadLatest, SaveBooking, SaveKey,
              PublishCreated
<1>7. ASSUME NEW d \in Deletes, Cancel(d) PROVE UNCHANGED lockVars
  BY <1>7 DEF Cancel, FindBooking, SaveCancelled, PublishCancelled
<1>8. ASSUME NEW c \in Calls, DatabaseFails(c) \/ AcknowledgementLost(c)
      PROVE UNCHANGED lockVars
  BY <1>8 DEF DatabaseFails, AcknowledgementLost
<1>9. CASE UNCHANGED vars
  BY <1>9, <1>4 DEF vars
<1> QED BY <1>1, <1>2, <1>3, <1>4, <1>5, <1>6, <1>7, <1>8, <1>9 DEF Next, Serve

LEMMA LockNone == LP!NoOneAssumption
BY NoneIsNoRecord, BookingAssumption DEF LP!NoOneAssumption

LEMMA LockSpec == Spec => LP!Spec
<1>1. Init => LP!Init
  BY DEF Init, L!Init, LP!Init
<1> QED BY <1>1, FormedInvariant, LockStep, PTL DEF Spec, LP!Spec

THEOREM Typing == Spec => []TypeOK
<1>1. LP!Spec => []LP!TypeOK
  BY LP!Typing, LockNone
<1>2. LP!TypeOK /\ Formed => TypeOK
  BY DEF TypeOK, LP!TypeOK, L!TypeOK, LP!Phases, L!Phases, Formed
<1> QED BY <1>1, <1>2, FormedInvariant, LockSpec, PTL

-----------------------------------------------------------------------------
(* A create call is at a step of its critical section exactly when the     *)
(* lock service has let it in, under the name of the seat it still has.    *)
LockLink ==
  \A r \in Requests :
    /\ pc[r] \in InLock <=> phase[r] = "inside"
    /\ phase[r] # "idle" => pc[r] \in {"lock"} \cup InLock /\ wanted[r] = <<at[r], LockName(r)>>

(* A step that leaves the lock service alone keeps the link when the call  *)
(* it moves stays on its side of the lock's door.                          *)
LEMMA LinkKept ==
  ASSUME TypeOK, LockLink, NEW c \in Calls, NEW step \in Steps,
         pc' = [pc EXCEPT ![c] = step], UNCHANGED lockVars,
         \/ /\ pc[c] \in InLock /\ step \in InLock
            /\ UNCHANGED <<at, seat>>
         \/ /\ pc[c] \notin {"lock"} \cup InLock /\ step \notin InLock
            /\ \A x \in Calls \ {c} : at'[x] = at[x]
            /\ \A x \in Requests \ {c} : seat'[x] = seat[x]
  PROVE  LockLink'
<1> SUFFICES ASSUME NEW r \in Requests
             PROVE /\ pc'[r] \in InLock <=> phase'[r] = "inside"
                   /\ phase'[r] # "idle" => /\ pc'[r] \in {"lock"} \cup InLock
                                            /\ wanted'[r] = <<at'[r], LockName(r)'>>
  BY DEF LockLink
<1>1. pc \in [Calls -> Steps] /\ r \in Calls
  BY DEF TypeOK, DataTypeOK, Calls
<1>2. CASE r = c
  BY <1>1, <1>2 DEF LockLink, lockVars, LockName
<1>3. CASE r # c
  BY <1>1, <1>3 DEF LockLink, lockVars, LockName
<1> QED BY <1>2, <1>3

LEMMA LinkTakeLock ==
  ASSUME TypeOK, LockLink, NEW r \in Requests, TakeLock(r)
  PROVE  LockLink'
<1> USE DEF L!TypeOK, L!Phases
<1>1. pc \in [Calls -> Steps] /\ r \in Calls /\ Requests \subseteq Calls
  BY DEF TypeOK, DataTypeOK, Calls
<1>2. phase' \in [Requests -> {"idle", "waiting", "woken", "inside"}]
  BY DEF TypeOK, TakeLock, L!Acquire, L!Retry, L!Enter, L!Wait
<1>3. /\ phase'[r] \in {"inside", "waiting"}
      /\ wanted'[r] = <<at[r], LockName(r)>>
      /\ \A s \in Requests \ {r} : phase'[s] = phase[s] /\ wanted'[s] = wanted[s]
  BY DEF TypeOK, LockLink, TakeLock, L!Acquire, L!Retry, L!Enter, L!Wait
<1>4. \A s \in Requests \ {r} : pc'[s] = pc[s]
  BY <1>1 DEF TakeLock, Goto
<1>5. pc'[r] \in {"lock"} \cup InLock /\ (pc'[r] \in InLock <=> phase'[r] = "inside")
  BY <1>1 DEF TakeLock, Goto, InLock
<1>6. UNCHANGED <<at, seat>>
  BY DEF TakeLock, local
<1> QED BY <1>2, <1>3, <1>4, <1>5, <1>6 DEF LockLink, LockName

LEMMA LinkFinish ==
  ASSUME TypeOK, LockLink, NEW r \in Requests, Finish(r)
  PROVE  LockLink'
<1> USE DEF L!TypeOK, L!Phases
<1>1. pc \in [Calls -> Steps] /\ r \in Calls /\ Requests \subseteq Calls
  BY DEF TypeOK, DataTypeOK, Calls
<1>2. phase'[r] = "idle" /\ pc'[r] = "done"
  BY <1>1 DEF Finish, Goto, L!Release
<1>3. \A s \in Requests \ {r} : pc'[s] = pc[s] /\ wanted'[s] = wanted[s]
  BY <1>1 DEF TypeOK, Finish, Goto, L!Release
<1>4. \A s \in Requests \ {r} :
        /\ phase'[s] = "inside" <=> phase[s] = "inside"
        /\ phase'[s] = "idle" <=> phase[s] = "idle"
  BY DEF TypeOK, Finish, L!Release
<1>5. UNCHANGED <<at, seat>>
  BY DEF Finish, local
<1> QED BY <1>2, <1>3, <1>4, <1>5 DEF LockLink, LockName, InLock

LEMMA LinkCrash ==
  ASSUME TypeOK, Formed, LockLink, NEW i \in Instances, Crash(i)
  PROVE  LockLink'
<1> DEFINE lost == {c \in Calls : at[c] = i /\ InFlight(c)}
<1>1. Requests \subseteq Calls
  BY DEF Calls
<1>2. \A s \in Requests :
        IF s \in lost THEN pc'[s] = "dead" /\ phase'[s] = "idle"
        ELSE pc'[s] = pc[s] /\ phase'[s] = phase[s] /\ wanted'[s] = wanted[s]
  BY <1>1 DEF Crash, L!Abandon
<1>3. UNCHANGED <<at, seat>>
  BY DEF Crash, local
<1> HIDE DEF lost
<1> QED BY <1>2, <1>3 DEF LockLink, LockName, InLock

LEMMA LinkInvariant == Spec => []LockLink
<1>1. Init => LockLink
  BY DEF Init, L!Init, LockLink, Calls, InLock
<1>2. TypeOK /\ Formed /\ LockLink /\ [Next]_vars => LockLink'
  <2> SUFFICES ASSUME TypeOK, Formed, LockLink, [Next]_vars PROVE LockLink'
    OBVIOUS
  <2> USE DEF InFlight, Steps, BeforeLock, InLock, Deleting
  <2>1. ASSUME NEW c \in Calls, NEW i \in Instances, Arrive(c, i) PROVE LockLink'
    <3>1. \E step \in {"find", "key", "select"} : pc' = [pc EXCEPT ![c] = step]
      BY <2>1 DEF Arrive, Goto
    <3>2. \A x \in Calls \ {c} : at'[x] = at[x]
      BY <2>1 DEF Arrive, TypeOK, DataTypeOK
    <3> QED BY <2>1, <3>1, <3>2, LinkKept DEF Arrive
  <2>2. ASSUME NEW r \in Requests, Create(r), ~TakeLock(r), ~Finish(r) PROVE LockLink'
    <3>1. r \in Calls
      BY DEF Calls
    <3>2. CASE CheckKey(r)
      <4>1. \E step \in {"done", "select"} : pc' = [pc EXCEPT ![r] = step]
        BY <3>2 DEF CheckKey, Conclude, Goto
      <4> QED BY <3>1, <3>2, <4>1, LinkKept DEF CheckKey, local
    <3>3. CASE SelectSeat(r)
      <4>1. \E step \in {"done", "lock"} : pc' = [pc EXCEPT ![r] = step]
        BY <3>3 DEF SelectSeat, Conclude, Goto
      <4>2. \A x \in Requests \ {r} : seat'[x] = seat[x]
        BY <3>3 DEF SelectSeat, TypeOK, DataTypeOK
      <4> QED BY <3>1, <3>3, <4>1, <4>2, LinkKept DEF SelectSeat
    <3>4. CASE RecheckKey(r) \/ ReadLatest(r) \/ SaveBooking(r) \/ SaveKey(r) \/ PublishCreated(r)
      <4>1. /\ \E step \in InLock : pc' = [pc EXCEPT ![r] = step]
            /\ pc[r] \in InLock
            /\ UNCHANGED <<at, seat>> /\ UNCHANGED lockVars
        BY <3>4 DEF RecheckKey, ReadLatest, SaveBooking, SaveKey, PublishCreated, Conclude, Goto, local
      <4> QED BY <3>1, <4>1, LinkKept
    <3> QED BY <2>2, <3>2, <3>3, <3>4 DEF Create
  <2>3. ASSUME NEW d \in Deletes, Cancel(d) PROVE LockLink'
    <3>1. /\ \E step \in {"done"} \cup Deleting : pc' = [pc EXCEPT ![d] = step]
          /\ pc[d] \in Deleting
          /\ UNCHANGED <<at, seat>> /\ UNCHANGED lockVars
      BY <2>3 DEF Cancel, FindBooking, SaveCancelled, PublishCancelled, Conclude, Goto, local
    <3> QED BY <3>1, LinkKept DEF Calls
  <2>4. ASSUME NEW c \in Calls, DatabaseFails(c) \/ AcknowledgementLost(c) PROVE LockLink'
    <3>1. /\ \E step \in Steps : /\ pc' = [pc EXCEPT ![c] = step]
                               /\ \/ pc[c] \in InLock /\ step \in InLock
                                  \/ pc[c] \notin {"lock"} \cup InLock /\ step \notin InLock
          /\ UNCHANGED <<at, seat>> /\ UNCHANGED lockVars
      BY <2>4 DEF DatabaseFails, AcknowledgementLost, Conclude, Goto, local
    <3> QED BY <3>1, LinkKept
  <2>5. CASE UNCHANGED vars
    BY <2>5 DEF LockLink, LockName, vars, lockVars, local
  <2> QED
    BY <2>1, <2>2, <2>3, <2>4, <2>5, LinkTakeLock, LinkFinish, LinkCrash DEF Next, Serve
<1> QED BY <1>1, <1>2, Typing, FormedInvariant, PTL DEF Spec

(* Of the calls of one process that use the same lock name, at most one is *)
(* between the lock and its release: the use case keeps its lock's name    *)
(* and place for as long as it holds it.                                   *)
THEOREM OneCallPerLockHolds == Spec => []OneCallPerLock
<1>1. LP!Spec => []LP!MutualExclusion
  BY LP!MutualExclusionHolds, LockNone
<1>2. LP!MutualExclusion /\ LockLink => OneCallPerLock
  <2> SUFFICES ASSUME LP!MutualExclusion, LockLink, NEW a \in Requests, NEW b \in Requests,
                      pc[a] \in InLock, pc[b] \in InLock, at[a] = at[b],
                      LockName(a) = LockName(b)
               PROVE  a = b
    BY DEF OneCallPerLock
  <2>1. phase[a] = "inside" /\ phase[b] = "inside" /\ wanted[a] = wanted[b]
    BY DEF LockLink
  <2> QED BY <2>1 DEF LP!MutualExclusion
<1> QED BY <1>1, <1>2, LinkInvariant, LockSpec, PTL

-----------------------------------------------------------------------------
(* A stored booking is the seat its call chose, among its sector's tables, *)
(* and is not stored before its call has come to the save.                 *)
Unsaved == {"start", "key", "select", "lock", "recheck", "read", "save"}

SeatBooked(r) ==
  /\ pc[r] \in Unsaved => bookings[r] = None
  /\ seat[r] # None => seat[r].tables \subseteq TablesOf(Ask[r].sector)
  /\ bookings[r] # None => /\ seat[r] # None
                           /\ bookings[r].tables = seat[r].tables
                           /\ bookings[r].start = seat[r].start
                           /\ bookings[r].end = seat[r].end
                           /\ bookings[r].sector = Ask[r].sector

SeatsBooked == \A r \in Requests : SeatBooked(r)

(* What a step can do to the documents: nothing, write the document of a   *)
(* call at its save, or cancel one.                                        *)
Writes(r) ==
  /\ pc[r] = "save"
  /\ bookings' = [bookings EXCEPT ![r] = NewBooking(r)]
  /\ UNCHANGED <<at, seat>>
  /\ \E step \in {"saveKey", "publish", "release"} : pc' = [pc EXCEPT ![r] = step]

Cancels(b) ==
  /\ bookings[b] # None
  /\ bookings' = [bookings EXCEPT ![b].status = "CANCELLED"]
  /\ UNCHANGED <<at, seat>>
  /\ \A r \in Requests : pc'[r] = pc[r]

LEMMA StepsWrite ==
  ASSUME Formed, [Next]_vars
  PROVE  \/ UNCHANGED bookings
         \/ \E r \in Requests : Writes(r)
         \/ \E b \in Requests : Cancels(b)
<1> USE DEF Goto, Conclude, local, data
<1>1. ASSUME NEW c \in Calls, NEW i \in Instances, Arrive(c, i) PROVE UNCHANGED bookings
  BY <1>1 DEF Arrive
<1>2. ASSUME NEW r \in Requests, Create(r) PROVE UNCHANGED bookings \/ Writes(r)
  BY <1>2 DEF Create, CheckKey, SelectSeat, TakeLock, RecheckKey, ReadLatest, SaveBooking,
              SaveKey, PublishCreated, Finish, Writes
<1>3. ASSUME NEW d \in Deletes, pc[d] = "cancel",
             NEW step \in {"publishCancel", "done"}, Goto(d, step),
             bookings' = [bookings EXCEPT ![target[d]].status = "CANCELLED"],
             UNCHANGED <<at, local>>
      PROVE target[d] \in Requests /\ Cancels(target[d])
  <2>1. \A r \in Requests : pc'[r] = pc[r]
    BY <1>3, BookingAssumption DEF Formed, DataTypeOK, Calls
  <2> QED BY <1>3, <2>1 DEF Cancels, Formed, CallsAreFormed, Deleting
<1>4. ASSUME NEW d \in Deletes, Cancel(d)
      PROVE UNCHANGED bookings \/ (\E b \in Requests : Cancels(b))
  BY <1>3, <1>4 DEF Cancel, FindBooking, SaveCancelled, PublishCancelled
<1>5. ASSUME NEW c \in Calls, DatabaseFails(c) \/ AcknowledgementLost(c)
      PROVE \/ UNCHANGED bookings
            \/ \E r \in Requests : Writes(r)
            \/ \E b \in Requests : Cancels(b)
  <2>1. CASE pc[c] = "save" /\ AcknowledgementLost(c)
    <3>1. c \in Requests
      BY <2>1 DEF Formed, CallsAreFormed, Calls, Deleting
    <3> QED BY <2>1, <3>1 DEF AcknowledgementLost, Writes
  <2>2. CASE pc[c] = "cancel" /\ AcknowledgementLost(c)
    <3>1. c \in Deletes
      BY <2>2 DEF Formed, CallsAreFormed, Calls, Deleting
    <3> QED BY <1>3, <2>2, <3>1 DEF AcknowledgementLost
  <2> QED BY <1>5, <2>1, <2>2 DEF DatabaseFails, AcknowledgementLost
<1>6. ASSUME NEW i \in Instances, Crash(i) PROVE UNCHANGED bookings
  BY <1>6 DEF Crash
<1>7. CASE UNCHANGED vars
  BY <1>7 DEF vars
<1> QED BY <1>1, <1>2, <1>4, <1>5, <1>6, <1>7 DEF Next, Serve

(* A call never comes back to a step before its save, and its seat changes *)
(* only when it is selected.                                               *)
LEMMA StepsMove ==
  ASSUME Formed, [Next]_vars, NEW r \in Requests
  PROVE  /\ pc'[r] \in Unsaved => pc[r] \in Unsaved
         /\ \/ seat'[r] = seat[r]
            \/ /\ pc[r] = "select"
               /\ seat'[r] # None
               /\ seat'[r].tables \subseteq TablesOf(Ask[r].sector)
<1> USE DEF Goto, Conclude, local, data, Unsaved
<1>1. pc \in [Calls -> Steps] /\ Requests \subseteq Calls
  BY DEF Formed, DataTypeOK, Calls
<1>2. ASSUME NEW c \in Calls, NEW i \in Instances, Arrive(c, i)
      PROVE (pc'[r] \in Unsaved => pc[r] \in Unsaved) /\ seat'[r] = seat[r]
  BY <1>1, <1>2 DEF Arrive
<1>3. ASSUME NEW x \in Requests, Create(x), ~SelectSeat(x)
      PROVE (pc'[r] \in Unsaved => pc[r] \in Unsaved) /\ seat'[r] = seat[r]
  BY <1>1, <1>3 DEF Create, CheckKey, TakeLock, RecheckKey, ReadLatest, SaveBooking, SaveKey,
                    PublishCreated, Finish
<1>4. ASSUME NEW x \in Requests, SelectSeat(x)
      PROVE /\ pc'[r] \in Unsaved => pc[r] \in Unsaved
            /\ \/ seat'[r] = seat[r]
               \/ /\ pc[r] = "select"
                  /\ seat'[r] # None
                  /\ seat'[r].tables \subseteq TablesOf(Ask[r].sector)
  <2>1. pc[x] = "select" /\ (\E step \in {"done", "lock"} : pc' = [pc EXCEPT ![x] = step])
    BY <1>4 DEF SelectSeat
  <2>2. CASE UNCHANGED seat
    BY <1>1, <2>1, <2>2
  <2>3. ASSUME NEW c \in BestCandidates(Candidates(Ask[x], Confirmed(Ask[x].sector)),
                                        Ask[x].partySize),
               seat' = [seat EXCEPT ![x] = [tables |-> c.tables, start |-> c.start, end |-> c.end]]
        PROVE  \/ seat'[r] = seat[r]
               \/ /\ r = x
                  /\ seat'[r] # None
                  /\ seat'[r].tables \subseteq TablesOf(Ask[r].sector)
    <3>1. c.tables \in SUBSET TablesOf(Ask[x].sector) /\ Timed(c)
      BY <2>3, AsksAreFormed, CandidateType, BookingsAreTimed DEF BestCandidates, Formed
    <3>2. [tables |-> c.tables, start |-> c.start, end |-> c.end] \in Seat
      BY <3>1 DEF Seat, Timed, TablesOf
    <3>3. [tables |-> c.tables, start |-> c.start, end |-> c.end] # None
      BY <3>2, NoneIsNoRecord
    <3>4. seat \in [Requests -> Seat \cup {None}]
      BY DEF Formed, DataTypeOK
    <3> QED BY <2>3, <3>1, <3>3, <3>4
  <2> QED BY <1>1, <1>4, <2>1, <2>2, <2>3 DEF SelectSeat
<1>5. ASSUME NEW d \in Deletes, Cancel(d)
      PROVE (pc'[r] \in Unsaved => pc[r] \in Unsaved) /\ seat'[r] = seat[r]
  BY <1>1, <1>5 DEF Cancel, FindBooking, SaveCancelled, PublishCancelled
<1>6. ASSUME NEW c \in Calls, DatabaseFails(c) \/ AcknowledgementLost(c)
      PROVE (pc'[r] \in Unsaved => pc[r] \in Unsaved) /\ seat'[r] = seat[r]
  BY <1>1, <1>6 DEF DatabaseFails, AcknowledgementLost
<1>7. ASSUME NEW i \in Instances, Crash(i)
      PROVE (pc'[r] \in Unsaved => pc[r] \in Unsaved) /\ seat'[r] = seat[r]
  BY <1>1, <1>7 DEF Crash
<1>8. CASE UNCHANGED vars
  BY <1>8 DEF vars
<1> QED BY <1>2, <1>3, <1>4, <1>5, <1>6, <1>7, <1>8 DEF Next, Serve, Create

LEMMA WritesOne ==
  ASSUME Formed, NEW r \in Requests, Writes(r)
  PROVE  /\ bookings'[r] = NewBooking(r) /\ NewBooking(r) # None /\ seat[r] # None
         /\ pc'[r] \notin Unsaved
         /\ \A x \in Requests \ {r} : bookings'[x] = bookings[x] /\ pc'[x] = pc[x]
<1>1. NewBooking(r) \in Document /\ seat[r] \in Seat
  BY DocumentsMade DEF Formed, CallsAreFormed, InLock, Writes
<1>2. bookings'[r] = NewBooking(r) /\ \A x \in Requests \ {r} : bookings'[x] = bookings[x]
  BY DEF Formed, DataTypeOK, Writes
<1>3. pc'[r] \notin Unsaved /\ \A x \in Requests \ {r} : pc'[x] = pc[x]
  BY DEF Formed, DataTypeOK, Writes, Calls, Unsaved
<1> QED BY <1>1, <1>2, <1>3, NoneIsNoRecord

LEMMA CancelsOne ==
  ASSUME Formed, NEW b \in Requests, Cancels(b), NEW x \in Requests
  PROVE  /\ bookings'[x] = None <=> bookings[x] = None
         /\ bookings[x] # None =>
              /\ bookings'[x].tables = bookings[x].tables
              /\ bookings'[x].start = bookings[x].start
              /\ bookings'[x].end = bookings[x].end
              /\ bookings'[x].sector = bookings[x].sector
              /\ bookings'[x].status = "CONFIRMED" => bookings[x].status = "CONFIRMED"
<1>1. bookings \in [Requests -> Document \cup {None}] /\ bookings[b] \in Document
  BY DEF Formed, DataTypeOK, Cancels
<1> DEFINE doc == [bookings[b] EXCEPT !.status = "CANCELLED"]
<1>2. doc \in Document /\ doc # None
  BY <1>1, DocumentsMade, NoneIsNoRecord
<1>3. /\ doc.tables = bookings[b].tables /\ doc.start = bookings[b].start
      /\ doc.end = bookings[b].end /\ doc.sector = bookings[b].sector
      /\ doc.status = "CANCELLED"
  BY <1>1 DEF Document
<1>4. bookings' = [bookings EXCEPT ![b] = doc]
  BY DEF Cancels
<1> HIDE DEF doc
<1>5. CASE x = b
  <2>1. bookings'[x] = doc /\ bookings[x] # None
    BY <1>1, <1>4, <1>5 DEF Cancels
  <2> QED BY <1>2, <1>3, <1>5, <2>1
<1>6. CASE x # b
  BY <1>1, <1>4, <1>6
<1> QED BY <1>5, <1>6

LEMMA SeatsBookedInvariant == Spec => []SeatsBooked
<1>1. Init => SeatsBooked
  BY DEF Init, SeatsBooked, SeatBooked, Calls
<1>2. Formed /\ SeatsBooked /\ [Next]_vars => SeatsBooked'
  <2> SUFFICES ASSUME Formed, SeatsBooked, [Next]_vars, NEW r \in Requests
               PROVE SeatBooked(r)'
    BY DEF SeatsBooked
  <2>1. CASE UNCHANGED bookings
    BY <2>1, StepsMove DEF SeatsBooked, SeatBooked, Unsaved
  <2>2. ASSUME NEW x \in Requests, Writes(x) PROVE SeatBooked(r)'
    <3>1. seat' = seat
      BY <2>2 DEF Writes
    <3>2. CASE r = x
      <4>1. bookings'[r] = NewBooking(r) /\ seat[r] # None /\ pc'[r] \notin Unsaved
        BY <2>2, <3>2, WritesOne
      <4> QED BY <3>1, <4>1 DEF SeatsBooked, SeatBooked, NewBooking
    <3>3. CASE r # x
      <4>1. bookings'[r] = bookings[r] /\ pc'[r] = pc[r]
        BY <2>2, <3>3, WritesOne
      <4> QED BY <3>1, <4>1 DEF SeatsBooked, SeatBooked
    <3> QED BY <3>2, <3>3
  <2>3. ASSUME NEW b \in Requests, Cancels(b) PROVE SeatBooked(r)'
    <3>1. seat' = seat /\ pc'[r] = pc[r]
      BY <2>3 DEF Cancels
    <3> QED BY <2>3, <3>1, CancelsOne DEF SeatsBooked, SeatBooked
  <2> QED BY <2>1, <2>2, <2>3, StepsWrite
<1> QED BY <1>1, <1>2, FormedInvariant, PTL DEF Spec

-----------------------------------------------------------------------------
(* A call comes to its save by the read of the latest bookings alone.      *)
LEMMA OnlyReadLatest ==
  ASSUME Formed, [Next]_vars, NEW r \in Requests, pc'[r] = "save", pc[r] # "save"
  PROVE  ReadLatest(r)
<1> USE DEF Goto, Conclude
<1>1. pc \in [Calls -> Steps] /\ Requests \subseteq Calls
  BY DEF Formed, DataTypeOK, Calls
<1>2. ASSUME NEW c \in Calls, NEW i \in Instances, Arrive(c, i) PROVE FALSE
  BY <1>1, <1>2 DEF Arrive
<1>3. ASSUME NEW x \in Requests, Create(x) PROVE ReadLatest(r)
  BY <1>1, <1>3 DEF Create, CheckKey, SelectSeat, TakeLock, RecheckKey, ReadLatest, SaveBooking,
                    SaveKey, PublishCreated, Finish
<1>4. ASSUME NEW d \in Deletes, Cancel(d) PROVE FALSE
  BY <1>1, <1>4 DEF Cancel, FindBooking, SaveCancelled, PublishCancelled
<1>5. ASSUME NEW c \in Calls, DatabaseFails(c) \/ AcknowledgementLost(c) PROVE FALSE
  BY <1>1, <1>5 DEF DatabaseFails, AcknowledgementLost
<1>6. ASSUME NEW i \in Instances, Crash(i) PROVE FALSE
  BY <1>1, <1>6 DEF Crash
<1>7. CASE UNCHANGED vars
  BY <1>7 DEF vars
<1> QED BY <1>2, <1>3, <1>4, <1>5, <1>6, <1>7 DEF Next, Serve

(* A step moves a call by a step of its own or by the death of its         *)
(* process, or leaves it where it is; its process stays the one it has     *)
(* arrived at.                                                             *)
LEMMA CallSteps ==
  ASSUME Formed, [Next]_vars, NEW r \in Requests
  PROVE  /\ \/ pc'[r] = pc[r] /\ result'[r] = result[r]
            \/ pc'[r] = "dead" /\ result'[r] = None
            \/ \E i \in Instances : Arrive(r, i)
            \/ Create(r)
            \/ DatabaseFails(r) \/ AcknowledgementLost(r)
         /\ pc[r] # "start" => at'[r] = at[r]
<1> USE DEF Goto, Conclude, local, data
<1>1. /\ pc \in [Calls -> Steps] /\ result \in [Calls -> Answer \cup {None}]
      /\ Requests \subseteq Calls /\ Deletes \cap Requests = {}
  BY BookingAssumption DEF Formed, DataTypeOK, Calls
<1>2. ASSUME NEW c \in Calls, NEW i \in Instances, Arrive(c, i), c # r
      PROVE pc'[r] = pc[r] /\ result'[r] = result[r] /\ at'[r] = at[r]
  BY <1>1, <1>2 DEF Arrive, Formed, DataTypeOK
<1>3. ASSUME NEW i \in Instances, Arrive(r, i) PROVE pc[r] = "start"
  BY <1>3 DEF Arrive
<1>4. ASSUME NEW x \in Requests, Create(x)
      PROVE at' = at /\ (x # r => pc'[r] = pc[r] /\ result'[r] = result[r])
  BY <1>1, <1>4 DEF Create, CheckKey, SelectSeat, TakeLock, RecheckKey, ReadLatest, SaveBooking,
                    SaveKey, PublishCreated, Finish
<1>5. ASSUME NEW d \in Deletes, Cancel(d)
      PROVE pc'[r] = pc[r] /\ result'[r] = result[r] /\ at' = at
  BY <1>1, <1>5 DEF Cancel, FindBooking, SaveCancelled, PublishCancelled, Calls
<1>6. ASSUME NEW c \in Calls, DatabaseFails(c) \/ AcknowledgementLost(c)
      PROVE at' = at /\ (c # r => pc'[r] = pc[r] /\ result'[r] = result[r])
  BY <1>1, <1>6 DEF DatabaseFails, AcknowledgementLost
<1>7. ASSUME NEW i \in Instances, Crash(i)
      PROVE /\ at' = at
            /\ \/ pc'[r] = pc[r] /\ result'[r] = result[r]
               \/ pc'[r] = "dead" /\ result'[r] = None
  BY <1>1, <1>7 DEF Crash
<1>8. CASE UNCHANGED vars
  BY <1>8 DEF vars
<1> QED BY <1>2, <1>3, <1>4, <1>5, <1>6, <1>7, <1>8 DEF Next, Serve

(* Bookings of other sectors cannot take a call's tables.                  *)
LEMMA SectorsApart ==
  ASSUME SeatsBooked, NEW b \in Requests, NEW r \in Requests,
         bookings[b] # None, seat[r] # None, Conflicting(bookings[b], seat[r])
  PROVE  bookings[b].sector = Ask[r].sector
<1>1. PICK t : t \in bookings[b].tables /\ t \in seat[r].tables
  BY DEF Conflicting
<1>2. t \in TablesOf(Ask[b].sector) /\ t \in TablesOf(Ask[r].sector)
  BY <1>1 DEF SeatsBooked, SeatBooked
<1> QED BY <1>2 DEF TablesOf, SeatsBooked, SeatBooked

(* The lock of a call that has booked, or is at its save, is settled.      *)
SameLock(a, b) == at[a] = at[b] /\ LockName(a) = LockName(b)

LEMMA LocksSettle ==
  ASSUME Formed, SeatsBooked, [Next]_vars, NEW r \in Requests,
         bookings[r] # None \/ pc[r] = "save"
  PROVE  at'[r] = at[r] /\ seat'[r] = seat[r] /\ LockName(r)' = LockName(r)
<1>1. pc[r] \notin {"start", "select"}
  BY DEF SeatsBooked, SeatBooked, Unsaved
<1>2. at'[r] = at[r] /\ seat'[r] = seat[r]
  BY <1>1, StepsMove, CallSteps
<1> QED BY <1>2 DEF LockName

(* A seat that is taken between its check and its write is taken by a call *)
(* with another lock.                                                      *)
Taken(b) == bookings[b] # None /\ bookings[b].status = "CONFIRMED"

LockedSavesAreFree ==
  \A r, b \in Requests :
    pc[r] = "save" /\ Taken(b) /\ Conflicting(bookings[b], seat[r]) => ~SameLock(b, r)

LEMMA LockedSavesInvariant == Spec => []LockedSavesAreFree
<1>1. Init => LockedSavesAreFree
  BY DEF Init, LockedSavesAreFree, Taken
<1>2. Formed /\ SeatsBooked /\ OneCallPerLock /\ LockedSavesAreFree /\ [Next]_vars
        => LockedSavesAreFree'
  <2> SUFFICES ASSUME Formed, SeatsBooked, OneCallPerLock, LockedSavesAreFree, [Next]_vars,
                      NEW r \in Requests, NEW b \in Requests, pc'[r] = "save",
                      bookings'[b] # None, bookings'[b].status = "CONFIRMED",
                      bookings'[b].tables \cap seat'[r].tables # {},
                      Overlaps(bookings'[b], seat'[r]),
                      at'[b] = at'[r], LockName(b)' = LockName(r)'
               PROVE  FALSE
    BY DEF LockedSavesAreFree, Taken, Conflicting, Overlaps, SameLock
  <2>1. CASE pc[r] # "save"
    <3>1. ReadLatest(r)
      BY <2>1, OnlyReadLatest
    <3>2. UNCHANGED <<bookings, seat>> /\ \A d \in Confirmed(Ask[r].sector) : ~Conflicting(d, seat[r])
      BY <3>1, <2>1 DEF ReadLatest, Goto, Conclude, data, local, Formed, DataTypeOK, Calls
    <3>3. seat[r] # None
      BY <3>1, NoneIsNoRecord DEF ReadLatest, Formed, CallsAreFormed, InLock
    <3>4. Conflicting(bookings[b], seat[r])
      BY <3>2 DEF Conflicting
    <3>5. bookings[b].sector = Ask[r].sector
      BY <3>2, <3>3, <3>4, SectorsApart
    <3> QED BY <3>2, <3>4, <3>5 DEF Confirmed
  <2>2. CASE pc[r] = "save"
    <3>1. at'[r] = at[r] /\ seat'[r] = seat[r] /\ LockName(r)' = LockName(r)
      BY <2>2, LocksSettle
    <3>2. ASSUME Taken(b), bookings'[b].tables = bookings[b].tables,
                 bookings'[b].start = bookings[b].start, bookings'[b].end = bookings[b].end
          PROVE  FALSE
      <4>1. Conflicting(bookings[b], seat[r])
        BY <3>1, <3>2 DEF Conflicting, Overlaps
      <4>2. SameLock(b, r)
        BY <3>1, <3>2, LocksSettle DEF Taken, SameLock
      <4> QED BY <2>2, <3>2, <4>1, <4>2 DEF LockedSavesAreFree
    <3>3. ASSUME NEW x \in Requests, Writes(x) PROVE FALSE
      <4>1. CASE x = b
        <5>1. pc[b] = "save" /\ pc'[b] \notin Unsaved
          BY <3>3, <4>1, WritesOne DEF Writes
        <5>2. SameLock(b, r)
          BY <3>1, <5>1, LocksSettle DEF SameLock
        <5>3. b = r
          BY <2>2, <5>1, <5>2 DEF OneCallPerLock, SameLock, InLock
        <5> QED BY <5>1, <5>3 DEF Unsaved
      <4>2. CASE x # b
        <5>1. bookings'[b] = bookings[b]
          BY <3>3, <4>2, WritesOne
        <5> QED BY <3>2, <5>1 DEF Taken
      <4> QED BY <4>1, <4>2
    <3>4. ASSUME NEW x \in Requests, Cancels(x) PROVE FALSE
      BY <3>2, <3>4, CancelsOne DEF Taken
    <3> QED BY <3>2, <3>3, <3>4, StepsWrite DEF Taken
  <2> QED BY <2>1, <2>2
<1> QED BY <1>1, <1>2, FormedInvariant, SeatsBookedInvariant, OneCallPerLockHolds, PTL DEF Spec

(* Two bookings of one table for one time come from calls that took        *)
(* different locks, with no hypothesis on requests, keys, processes,       *)
(* crashes or failures.  This is what the lock service gives the bookings. *)
THEOREM DoubleBookingsHaveACauseHolds == Spec => []DoubleBookingsHaveACause
<1> DEFINE Apart(a, b) ==
      Taken(a) /\ Taken(b) /\ Conflicting(bookings[a], bookings[b]) => ~SameLock(a, b)
<1>1. Init => DoubleBookingsHaveACause
  BY DEF Init, DoubleBookingsHaveACause
<1>2. Formed /\ SeatsBooked /\ LockedSavesAreFree /\ DoubleBookingsHaveACause /\ [Next]_vars
        => DoubleBookingsHaveACause'
  <2> SUFFICES ASSUME Formed, SeatsBooked, LockedSavesAreFree, DoubleBookingsHaveACause,
                      [Next]_vars, NEW a \in Requests, NEW b \in Requests, a # b
               PROVE  Apart(a, b)'
    BY DEF DoubleBookingsHaveACause, Taken, SameLock
  <2>1. Apart(a, b)
    BY DEF DoubleBookingsHaveACause, Taken, SameLock
  <2>2. ASSUME NEW x \in Requests, bookings[x] # None \/ pc[x] = "save"
        PROVE  at'[x] = at[x] /\ LockName(x)' = LockName(x)
    BY <2>2, LocksSettle
  <2>3. CASE UNCHANGED bookings
    BY <2>1, <2>2, <2>3 DEF Taken, SameLock
  <2>4. ASSUME NEW x \in Requests, NEW y \in Requests, x # y, Writes(x),
               Taken(y)', SameLock(x, y)', Conflicting(bookings[y], seat[x])
        PROVE  FALSE
    <3>1. pc[x] = "save" /\ bookings'[y] = bookings[y]
      BY <2>4, WritesOne DEF Writes
    <3>2. Taken(y) /\ SameLock(y, x)
      BY <2>2, <2>4, <3>1 DEF Taken, SameLock
    <3> QED BY <2>4, <3>1, <3>2 DEF LockedSavesAreFree
  <2>5. ASSUME NEW x \in Requests, Writes(x) PROVE Apart(a, b)'
    <3>1. /\ bookings'[x] = NewBooking(x)
          /\ \A y \in Requests \ {x} : bookings'[y] = bookings[y]
      BY <2>5, WritesOne
    <3>2. ASSUME NEW y \in Requests, x # y, Taken(y)', SameLock(x, y)',
                 bookings'[x].tables \cap bookings'[y].tables # {},
                 Overlaps(bookings'[x], bookings'[y])
          PROVE  FALSE
      <4>1. Conflicting(bookings[y], seat[x])
        BY <3>1, <3>2 DEF Conflicting, Overlaps, NewBooking
      <4> QED BY <2>4, <2>5, <3>2, <4>1
    <3>3. CASE a = x
      BY <3>2, <3>3 DEF Conflicting, SameLock
    <3>4. CASE b = x
      BY <3>2, <3>4 DEF Conflicting, Overlaps, SameLock
    <3>5. CASE a # x /\ b # x
      <4>1. bookings'[a] = bookings[a] /\ bookings'[b] = bookings[b]
        BY <3>1, <3>5
      <4> QED BY <2>1, <2>2, <4>1 DEF Taken, SameLock, Conflicting
    <3> QED BY <3>3, <3>4, <3>5
  <2>6. ASSUME NEW x \in Requests, Cancels(x), Taken(a)', Taken(b)'
        PROVE  /\ Taken(a) /\ Taken(b)
               /\ Conflicting(bookings'[a], bookings'[b]) <=> Conflicting(bookings[a], bookings[b])
    BY <2>6, CancelsOne DEF Taken, Conflicting, Overlaps
  <2>7. ASSUME NEW x \in Requests, Cancels(x) PROVE Apart(a, b)'
    BY <2>1, <2>2, <2>6, <2>7 DEF Taken, SameLock, Conflicting
  <2> QED BY <2>3, <2>5, <2>7, StepsWrite
<1> QED
  BY <1>1, <1>2, FormedInvariant, SeatsBookedInvariant, LockedSavesInvariant, PTL DEF Spec

(* Bookings are the seats of their calls, so where the lock covers the     *)
(* conflicts two confirmed bookings cannot conflict.                       *)
LEMMA CoveredConflicts ==
  ASSUME SeatsBooked, LockCoversConflicts, NEW b \in Requests, NEW r \in Requests,
         bookings[b] # None, seat[r] # None, Conflicting(bookings[b], seat[r])
  PROVE  SameLock(b, r)
<1>1. seat[b] # None /\ Conflicting(seat[b], seat[r])
  BY DEF SeatsBooked, SeatBooked, Conflicting, Overlaps
<1> QED BY <1>1 DEF LockCoversConflicts, SameLock

(* Calls at their save have chosen seats that nobody has: the read of the  *)
(* latest bookings said so, and only a call with a conflicting seat could  *)
(* take it since.  Such a call would hold the same lock.                   *)
THEOREM CheckedSeatStaysFreeHolds ==
  Spec /\ []LockCoversConflicts => []CheckedSeatStaysFree
<1>1. Formed /\ SeatsBooked /\ LockedSavesAreFree /\ LockCoversConflicts => CheckedSeatStaysFree
  <2> SUFFICES ASSUME Formed, SeatsBooked, LockedSavesAreFree, LockCoversConflicts,
                      NEW r \in Requests, pc[r] = "save",
                      NEW b \in Requests, Taken(b), Conflicting(bookings[b], seat[r])
               PROVE  FALSE
    BY DEF CheckedSeatStaysFree, Confirmed, Taken
  <2>1. seat[r] # None
    BY NoneIsNoRecord DEF Formed, CallsAreFormed, InLock
  <2> QED BY <2>1, CoveredConflicts DEF LockedSavesAreFree, Taken
<1> QED BY <1>1, FormedInvariant, SeatsBookedInvariant, LockedSavesInvariant, PTL

(* No table is booked twice for the same time, as long as calls that try   *)
(* conflicting seats contend for the same lock.  The hypothesis is what    *)
(* the choice of the lock's name and of the lock's scope must provide, and *)
(* the runs that violate NoDoubleBooking are the cases where they do not.  *)
THEOREM NoDoubleBookingHolds ==
  Spec /\ []LockCoversConflicts => []NoDoubleBooking
<1>1. SeatsBooked /\ LockCoversConflicts /\ DoubleBookingsHaveACause => NoDoubleBooking
  <2> SUFFICES ASSUME SeatsBooked, LockCoversConflicts, DoubleBookingsHaveACause,
                      NEW a \in Requests, NEW b \in Requests, a # b, Taken(a), Taken(b),
                      Conflicting(bookings[a], bookings[b])
               PROVE  FALSE
    BY DEF NoDoubleBooking, Taken
  <2>1. seat[b] # None /\ Conflicting(bookings[a], seat[b])
    BY DEF SeatsBooked, SeatBooked, Conflicting, Overlaps, Taken
  <2> QED BY <2>1, CoveredConflicts DEF DoubleBookingsHaveACause, SameLock, Taken
<1> QED BY <1>1, SeatsBookedInvariant, DoubleBookingsHaveACauseHolds, PTL

-----------------------------------------------------------------------------
(* Under the same hypothesis the collection keeps the promise of           *)
(* Reservations: the write of a create call is a Book, whether or not the  *)
(* call learns of it, the write of a cancellation is a Cancel, and every   *)
(* other step, a crash included, leaves the ledger alone.                  *)
THEOREM ReservationsImplemented ==
  Spec /\ []LockCoversConflicts => ImplementsReservations
<1>1. Init => Promise!Init
  BY DEF Init, Promise!Init
<1>2. Formed /\ SeatsBooked /\ CheckedSeatStaysFree /\ [Next]_vars => [Promise!Next]_bookings
  <2> SUFFICES ASSUME Formed, SeatsBooked, CheckedSeatStaysFree, [Next]_vars
               PROVE  [Promise!Next]_bookings
    OBVIOUS
  <2>1. ASSUME NEW x \in Requests, Writes(x) PROVE Promise!Book(x, bookings'[x])
    <3>1. /\ bookings'[x] = NewBooking(x) /\ seat[x] # None
          /\ \A y \in Requests \ {x} : bookings'[y] = bookings[y]
      BY <2>1, WritesOne
    <3>2. bookings[x] = None
      BY <2>1 DEF SeatsBooked, SeatBooked, Writes, Unsaved
    <3>3. NewBooking(x) \in Document /\ NewBooking(x).status = "CONFIRMED"
      BY <2>1, DocumentsMade DEF Formed, CallsAreFormed, InLock, Writes, NewBooking
    <3>4. ASSUME NEW b \in Requests, bookings[b] # None, bookings[b].status = "CONFIRMED"
          PROVE ~Conflicting(bookings[b], NewBooking(x))
      <4>1. CASE bookings[b].sector = Ask[x].sector
        <5>1. ~Conflicting(bookings[b], seat[x])
          BY <2>1, <3>4, <4>1 DEF CheckedSeatStaysFree, Confirmed, Writes
        <5> QED BY <5>1 DEF Conflicting, Overlaps, NewBooking
      <4>2. CASE bookings[b].sector # Ask[x].sector
        <5>1. /\ bookings[b].tables \subseteq TablesOf(Ask[b].sector)
              /\ Ask[b].sector # Ask[x].sector
          BY <3>4, <4>2 DEF SeatsBooked, SeatBooked
        <5>2. seat[x].tables \subseteq TablesOf(Ask[x].sector)
          BY <3>1 DEF SeatsBooked, SeatBooked
        <5> QED BY <5>1, <5>2 DEF Conflicting, TablesOf, NewBooking
      <4> QED BY <4>1, <4>2
    <3> QED BY <2>1, <3>1, <3>2, <3>3, <3>4 DEF Promise!Book, Writes
  <2>2. ASSUME NEW b \in Requests, Cancels(b) PROVE Promise!Cancel(b)
    BY <2>2 DEF Cancels, Promise!Cancel
  <2> QED BY <2>1, <2>2, StepsWrite DEF Promise!Next
<1> QED
  BY <1>1, <1>2, FormedInvariant, SeatsBookedInvariant, CheckedSeatStaysFreeHolds, PTL
     DEF Spec, ImplementsReservations, Promise!Spec

-----------------------------------------------------------------------------
(* A booking, and its cancellation, stay: a document is written over only  *)
(* by its cancellation.                                                    *)
IsCancelled(b) == bookings[b] # None /\ bookings[b].status = "CANCELLED"

LEMMA BookingsStay ==
  ASSUME Formed, SeatsBooked, [Next]_vars, NEW b \in Requests
  PROVE  /\ bookings[b] # None => bookings'[b] # None
         /\ bookings[b] = None /\ bookings'[b] # None => pc[b] = "save" /\ pc'[b] \notin Unsaved
         /\ IsCancelled(b) => IsCancelled(b)'
<1>1. CASE UNCHANGED bookings
  BY <1>1 DEF IsCancelled
<1>2. ASSUME NEW x \in Requests, Writes(x) PROVE
         /\ bookings[b] # None => bookings'[b] # None
         /\ bookings[b] = None /\ bookings'[b] # None => pc[b] = "save" /\ pc'[b] \notin Unsaved
         /\ IsCancelled(b) => IsCancelled(b)'
  <2>1. pc[x] = "save" /\ bookings[x] = None
    BY <1>2 DEF Writes, SeatsBooked, SeatBooked, Unsaved
  <2>2. pc'[x] \notin Unsaved /\ (x # b => bookings'[b] = bookings[b])
    BY <1>2, WritesOne
  <2> QED BY <2>1, <2>2 DEF IsCancelled
<1>3. ASSUME NEW x \in Requests, Cancels(x) PROVE
         /\ bookings'[b] = None <=> bookings[b] = None
         /\ IsCancelled(b) => IsCancelled(b)'
  <2>1. bookings'[b] = None <=> bookings[b] = None
    BY <1>3, CancelsOne
  <2>2. ASSUME IsCancelled(b) PROVE bookings'[b].status = "CANCELLED"
    <3>1. bookings[b] \in Document /\ bookings \in [Requests -> Document \cup {None}]
      BY <2>2 DEF Formed, DataTypeOK, IsCancelled
    <3> QED BY <1>3, <2>2, <3>1 DEF Cancels, IsCancelled, Document
  <2> QED BY <2>1, <2>2 DEF IsCancelled
<1> QED BY <1>1, <1>2, <1>3, StepsWrite

(* The key's document is written by the second write of a create call.     *)
LEMMA KeysWritten ==
  ASSUME Formed, [Next]_vars
  PROVE  \/ UNCHANGED idempotency
         \/ \E r \in Requests : /\ pc[r] = "saveKey" /\ KeyOf[r] \in IdemKeys
                                /\ idempotency' = [idempotency EXCEPT ![KeyOf[r]] = r]
                                /\ UNCHANGED bookings
<1> USE DEF Goto, Conclude, local, data
<1>1. \A r \in Requests : pc[r] = "saveKey" => KeyOf[r] \in IdemKeys
  BY DEF Formed, CallsAreFormed
<1>2. \A c \in Calls : pc[c] = "saveKey" => c \in Requests
  BY DEF Formed, CallsAreFormed, Calls, Deleting
<1>3. ASSUME NEW c \in Calls, NEW i \in Instances, Arrive(c, i) PROVE UNCHANGED idempotency
  BY <1>3 DEF Arrive
<1>4. ASSUME NEW r \in Requests, Create(r), ~SaveKey(r) PROVE UNCHANGED idempotency
  BY <1>4 DEF Create, CheckKey, SelectSeat, TakeLock, RecheckKey, ReadLatest, SaveBooking,
              PublishCreated, Finish
<1>5. ASSUME NEW d \in Deletes, Cancel(d) PROVE UNCHANGED idempotency
  BY <1>5 DEF Cancel, FindBooking, SaveCancelled, PublishCancelled
<1>6. ASSUME NEW i \in Instances, Crash(i) PROVE UNCHANGED idempotency
  BY <1>6 DEF Crash
<1>7. ASSUME NEW c \in Calls, DatabaseFails(c) PROVE UNCHANGED idempotency
  BY <1>7 DEF DatabaseFails
<1> QED BY <1>1, <1>2, <1>3, <1>4, <1>5, <1>6, <1>7
        DEF Next, Serve, Create, SaveKey, AcknowledgementLost, vars

-----------------------------------------------------------------------------
(* What a create call has left in the collection, by where it is and what  *)
(* it has answered.                                                        *)
AnswerRecorded(r) ==
  /\ result[r].code = "created" => result[r].id = r /\ bookings[r] # None
  /\ result[r].code = "replayed" => /\ bookings[result[r].id] # None
                                    /\ KeyOf[r] # None
                                    /\ KeyOf[result[r].id] = KeyOf[r]
  /\ result[r].code \in {"not_found", "invalid", "no_capacity", "conflict", "replayed"}
       => bookings[r] = None

CallRecorded(r) ==
  /\ pc[r] \in {"saveKey", "publish"} => bookings[r] # None
  /\ pc[r] \in {"release", "done"} <=> result[r] # None
  /\ result[r] # None => AnswerRecorded(r)

CallsRecorded == \A r \in Requests : CallRecorded(r)

(* A recorded call stays so in a step that leaves it where it is: its      *)
(* booking and the one it was answered with stay, and nobody else writes   *)
(* its booking.                                                            *)
LEMMA RecordKept ==
  ASSUME Formed, SeatsBooked, CallsRecorded, [Next]_vars, NEW r \in Requests,
         pc'[r] = pc[r], result'[r] = result[r]
  PROVE  CallRecorded(r)'
<1>1. /\ bookings[r] # None => bookings'[r] # None
      /\ pc[r] # "save" /\ bookings[r] = None => bookings'[r] = None
  BY BookingsStay
<1>2. result[r] \in Answer \cup {None} /\ CallRecorded(r)
  BY DEF Formed, DataTypeOK, CallsRecorded, Calls
<1>3. ASSUME result[r] # None, result[r].code = "replayed"
      PROVE bookings'[result[r].id] # None
  <2>1. result[r].id \in Requests /\ bookings[result[r].id] # None
    BY <1>2, <1>3 DEF Answer, CallRecorded, AnswerRecorded
  <2> QED BY <2>1, BookingsStay
<1> QED BY <1>1, <1>2, <1>3 DEF CallRecorded, AnswerRecorded

(* The answers of a create call's own steps.                               *)
LEMMA RecordCreate ==
  ASSUME Formed, SeatsBooked, KeysLeadToBookings, CallsRecorded, [Next]_vars,
         NEW r \in Requests, Create(r)
  PROVE  CallRecorded(r)'
<1> USE DEF Goto, Conclude, local, data, InLock
<1>1. /\ pc \in [Calls -> Steps] /\ result \in [Calls -> Answer \cup {None}] /\ r \in Calls
      /\ \A code \in {"not_found", "invalid", "no_capacity", "conflict"} : [code |-> code] # None
      /\ \A b \in Requests : [code |-> "created", id |-> b] # None
                             /\ [code |-> "replayed", id |-> b] # None
  BY AnswersMade, NoneIsNoRecord DEF Formed, DataTypeOK, Calls
<1>2. CallRecorded(r) /\ (bookings[r] # None => bookings'[r] # None)
  BY BookingsStay DEF CallsRecorded
<1>3. pc[r] \in Unsaved => bookings[r] = None
  BY DEF SeatsBooked, SeatBooked
<1>4. ASSUME Known(KeyOf[r]), pc[r] \in {"key", "recheck"}
      PROVE  LET b == idempotency[KeyOf[r]]
             IN b \in Requests /\ bookings[b] # None /\ KeyOf[r] # None /\ KeyOf[b] = KeyOf[r]
  <2>1. KeyOf[r] \in IdemKeys /\ KeyOf[r] # None
    BY <1>4, BookingAssumption DEF Formed, CallsAreFormed
  <2> QED BY <1>4, <2>1 DEF Known, KeysLeadToBookings, Formed, DataTypeOK
<1>5. CASE CheckKey(r) \/ RecheckKey(r)
  <2>1. UNCHANGED bookings /\ pc[r] \in {"key", "recheck"}
    BY <1>5 DEF CheckKey, RecheckKey
  <2>2. CASE Known(KeyOf[r])
    <3>1. /\ result'[r] = [code |-> "replayed", id |-> idempotency[KeyOf[r]]]
          /\ pc'[r] \in {"done", "release"}
      BY <1>1, <1>5, <2>2 DEF CheckKey, RecheckKey
    <3> QED BY <1>1, <1>3, <1>4, <2>1, <2>2, <3>1 DEF CallRecorded, AnswerRecorded, Unsaved
  <2>3. CASE ~Known(KeyOf[r])
    <3>1. result'[r] = result[r] /\ pc'[r] \in {"select", "read"}
      BY <1>1, <1>5, <2>3 DEF CheckKey, RecheckKey
    <3> QED BY <1>2, <2>1, <3>1 DEF CallRecorded
  <2> QED BY <2>2, <2>3
<1>6. CASE SelectSeat(r)
  <2>1. UNCHANGED bookings /\ pc[r] = "select" /\ bookings[r] = None
    BY <1>3, <1>6 DEF SelectSeat, Unsaved
  <2>2. \/ /\ pc'[r] = "done"
           /\ \E code \in {"not_found", "invalid", "no_capacity"} : result'[r] = [code |-> code]
        \/ pc'[r] = "lock" /\ result'[r] = result[r]
    BY <1>1, <1>6 DEF SelectSeat
  <2> QED BY <1>1, <1>2, <2>1, <2>2 DEF CallRecorded, AnswerRecorded
<1>7. CASE TakeLock(r)
  <2>1. UNCHANGED <<bookings, result>> /\ pc[r] = "lock" /\ pc'[r] \in {"lock", "recheck", "read"}
    BY <1>1, <1>7 DEF TakeLock
  <2> QED BY <1>2, <2>1 DEF CallRecorded
<1>8. CASE ReadLatest(r)
  <2>1. UNCHANGED bookings /\ pc[r] = "read" /\ bookings[r] = None
    BY <1>3, <1>8 DEF ReadLatest, Unsaved
  <2>2. \/ /\ pc'[r] = "release"
           /\ \E code \in {"invalid", "conflict"} : result'[r] = [code |-> code]
        \/ pc'[r] = "save" /\ result'[r] = result[r]
    BY <1>1, <1>8 DEF ReadLatest
  <2> QED BY <1>1, <1>2, <2>1, <2>2 DEF CallRecorded, AnswerRecorded
<1>9. CASE SaveBooking(r)
  <2>1. pc'[r] \in {"saveKey", "publish"} /\ UNCHANGED result /\ pc[r] = "save" /\ Writes(r)
    BY <1>1, <1>9 DEF SaveBooking, Writes
  <2>2. bookings'[r] # None
    BY <2>1, WritesOne
  <2> QED BY <1>2, <2>1, <2>2 DEF CallRecorded
<1>10. CASE SaveKey(r)
  <2>1. UNCHANGED <<bookings, result>> /\ pc[r] = "saveKey" /\ pc'[r] = "publish"
    BY <1>1, <1>10 DEF SaveKey
  <2> QED BY <1>2, <2>1 DEF CallRecorded
<1>11. CASE PublishCreated(r)
  <2>1. /\ UNCHANGED bookings /\ pc[r] = "publish" /\ pc'[r] = "release"
        /\ result'[r] = [code |-> "created", id |-> r]
    BY <1>1, <1>11 DEF PublishCreated
  <2> QED BY <1>1, <1>2, <2>1 DEF CallRecorded, AnswerRecorded
<1>12. CASE Finish(r)
  <2>1. UNCHANGED <<bookings, result>> /\ pc[r] = "release" /\ pc'[r] = "done"
    BY <1>1, <1>12 DEF Finish
  <2> QED BY <1>2, <2>1 DEF CallRecorded, AnswerRecorded
<1> QED BY <1>5, <1>6, <1>7, <1>8, <1>9, <1>10, <1>11, <1>12 DEF Create

(* The error of a failed call says nothing of its booking.                 *)
LEMMA RecordFaults ==
  ASSUME Formed, SeatsBooked, CallsRecorded, [Next]_vars,
         NEW r \in Requests, DatabaseFails(r) \/ AcknowledgementLost(r)
  PROVE  CallRecorded(r)'
<1>1. /\ pc'[r] \in {"release", "done"}
      /\ result'[r] = [code |-> "error"]
  BY DEF DatabaseFails, AcknowledgementLost, Conclude, Goto, Formed, DataTypeOK, Calls
<1>2. [code |-> "error"] # None
  BY AnswersMade, NoneIsNoRecord
<1> QED BY <1>1, <1>2 DEF CallRecorded, AnswerRecorded

(* The key's document leads to the booking written before it.              *)
LEMMA KeysLeadStep ==
  ASSUME Formed, SeatsBooked, CallsRecorded, KeysLeadToBookings, [Next]_vars
  PROVE  KeysLeadToBookings'
<1> SUFFICES ASSUME NEW k \in IdemKeys, idempotency'[k] # None
             PROVE  bookings'[idempotency'[k]] # None /\ KeyOf[idempotency'[k]] = k
  BY DEF KeysLeadToBookings
<1>1. idempotency \in [IdemKeys -> Requests \cup {None}]
  BY DEF Formed, DataTypeOK
<1>2. CASE idempotency'[k] = idempotency[k]
  <2>1. idempotency[k] \in Requests /\ bookings[idempotency[k]] # None
    BY <1>1, <1>2 DEF KeysLeadToBookings
  <2> QED BY <1>2, <2>1, BookingsStay DEF KeysLeadToBookings
<1>3. ASSUME NEW r \in Requests, pc[r] = "saveKey", KeyOf[r] \in IdemKeys,
             idempotency' = [idempotency EXCEPT ![KeyOf[r]] = r], UNCHANGED bookings,
             idempotency'[k] # idempotency[k]
      PROVE bookings'[idempotency'[k]] # None /\ KeyOf[idempotency'[k]] = k
  <2>1. k = KeyOf[r] /\ idempotency'[k] = r
    BY <1>1, <1>3
  <2>2. bookings[r] # None
    BY <1>3 DEF CallsRecorded, CallRecorded
  <2> QED BY <1>3, <2>1, <2>2
<1> QED BY <1>2, <1>3, KeysWritten

LEMMA RecordsInvariant == Spec => [](CallsRecorded /\ KeysLeadToBookings)
<1>1. Init => CallsRecorded /\ KeysLeadToBookings
  BY DEF Init, CallsRecorded, CallRecorded, KeysLeadToBookings, Calls
<1>2. Formed /\ SeatsBooked /\ CallsRecorded /\ KeysLeadToBookings /\ [Next]_vars
        => CallsRecorded' /\ KeysLeadToBookings'
  <2> SUFFICES ASSUME Formed, SeatsBooked, CallsRecorded, KeysLeadToBookings, [Next]_vars
               PROVE  CallsRecorded' /\ KeysLeadToBookings'
    OBVIOUS
  <2>1. ASSUME NEW r \in Requests PROVE CallRecorded(r)'
    <3>1. CASE pc'[r] = pc[r] /\ result'[r] = result[r]
      BY <3>1, RecordKept
    <3>2. CASE pc'[r] = "dead" /\ result'[r] = None
      BY <3>2 DEF CallRecorded
    <3>3. ASSUME NEW i \in Instances, Arrive(r, i) PROVE CallRecorded(r)'
      <4>1. pc[r] = "start" /\ pc'[r] \in {"key", "select"} /\ UNCHANGED result
        BY <3>3, BookingAssumption DEF Arrive, Goto, Formed, DataTypeOK, Calls
      <4> QED BY <4>1 DEF CallsRecorded, CallRecorded
    <3> QED BY <3>1, <3>2, <3>3, RecordCreate, RecordFaults, CallSteps
  <2> QED BY <2>1, KeysLeadStep DEF CallsRecorded
<1> QED BY <1>1, <1>2, FormedInvariant, SeatsBookedInvariant, PTL DEF Spec

(* The key's document always leads to a stored booking made with that key: *)
(* the booking is written first, and bookings are never removed.           *)
THEOREM KeysLeadToBookingsHolds == Spec => []KeysLeadToBookings
BY RecordsInvariant, PTL

(* A client told about a booking can rely on it, whatever crashed or       *)
(* failed: the document is stored, its own or the one made with its key.   *)
THEOREM AnswersAreDurableHolds == Spec => []AnswersAreDurable
<1>1. CallsRecorded => AnswersAreDurable
  BY DEF CallsRecorded, CallRecorded, AnswerRecorded, AnswersAreDurable
<1> QED BY <1>1, RecordsInvariant, PTL

(* A call that was refused, or answered with an earlier booking, has       *)
(* written none of its own.                                                *)
THEOREM RefusalsLeaveNothingHolds == Spec => []RefusalsLeaveNothing
<1>1. CallsRecorded => RefusalsLeaveNothing
  BY DEF CallsRecorded, CallRecorded, AnswerRecorded, RefusalsLeaveNothing
<1> QED BY <1>1, RecordsInvariant, PTL

-----------------------------------------------------------------------------
(* A cancellation is announced once the cancelled document is saved.       *)
Announcing == \A d \in Deletes : pc[d] = "publishCancel" => IsCancelled(target[d])

LEMMA AnnouncingStep ==
  ASSUME Formed, SeatsBooked, Announcing, [Next]_vars
  PROVE  Announcing'
<1> SUFFICES ASSUME NEW d \in Deletes, pc'[d] = "publishCancel" PROVE IsCancelled(target[d])'
  BY DEF Announcing
<1> USE DEF Goto, Conclude, local, data
<1>1. /\ pc \in [Calls -> Steps] /\ d \in Calls /\ Requests \cap Deletes = {}
      /\ Requests \subseteq Calls /\ Deletes \subseteq Calls
  BY BookingAssumption DEF Formed, DataTypeOK, Calls
<1>2. CASE pc[d] = "publishCancel" /\ target'[d] = target[d]
  <2>1. target[d] \in Requests /\ IsCancelled(target[d])
    BY <1>2 DEF Announcing, Formed, CallsAreFormed, Deleting
  <2>2. IsCancelled(target[d])'
    BY <1>2, <2>1, BookingsStay DEF IsCancelled
  <2> QED BY <2>2
<1>3. CASE SaveCancelled(d)
  <2>1. target[d] \in Requests /\ bookings[target[d]] \in Document
    BY <1>3 DEF SaveCancelled, Formed, CallsAreFormed, DataTypeOK, Deleting
  <2>2. Cancels(target[d])
    <3>1. \A r \in Requests : pc'[r] = pc[r]
      BY <1>1, <1>3 DEF SaveCancelled
    <3> QED BY <1>3, <2>1, <3>1, NoneIsNoRecord DEF SaveCancelled, Cancels
  <2>3. bookings'[target[d]].status = "CANCELLED" /\ bookings'[target[d]] # None
    <3>1. bookings'[target[d]] # None
      BY <2>1, <2>2, CancelsOne, NoneIsNoRecord
    <3>2. bookings \in [Requests -> Document \cup {None}]
      BY DEF Formed, DataTypeOK
    <3> QED BY <2>1, <2>2, <3>1, <3>2 DEF Cancels, Document
  <2>4. target' = target
    BY <1>3 DEF SaveCancelled
  <2> QED BY <2>3, <2>4 DEF IsCancelled
<1>4. ASSUME NEW c \in Calls, NEW i \in Instances, Arrive(c, i)
      PROVE pc[d] = "publishCancel" /\ target'[d] = target[d]
  BY <1>1, <1>4 DEF Arrive, Formed, DataTypeOK
<1>5. ASSUME NEW x \in Requests, Create(x)
      PROVE pc[d] = "publishCancel" /\ target'[d] = target[d]
  BY <1>1, <1>5 DEF Create, CheckKey, SelectSeat, TakeLock, RecheckKey, ReadLatest, SaveBooking,
                    SaveKey, PublishCreated, Finish
<1>6. ASSUME NEW e \in Deletes, Cancel(e)
      PROVE SaveCancelled(d) \/ (pc[d] = "publishCancel" /\ target'[d] = target[d])
  BY <1>1, <1>6 DEF Cancel, FindBooking, SaveCancelled, PublishCancelled
<1>7. ASSUME NEW c \in Calls, DatabaseFails(c) \/ AcknowledgementLost(c)
      PROVE pc[d] = "publishCancel" /\ target'[d] = target[d]
  BY <1>1, <1>7 DEF DatabaseFails, AcknowledgementLost
<1>8. ASSUME NEW i \in Instances, Crash(i)
      PROVE pc[d] = "publishCancel" /\ target'[d] = target[d]
  BY <1>1, <1>8 DEF Crash
<1>9. CASE UNCHANGED vars
  BY <1>2, <1>9 DEF vars
<1> QED BY <1>2, <1>3, <1>4, <1>5, <1>6, <1>7, <1>8, <1>9 DEF Next, Serve

(* An event reaches the broker when its booking is in the state it tells.  *)
LEMMA EventsGrow ==
  ASSUME Formed, CallsRecorded, Announcing, [Next]_vars
  PROVE  \/ UNCHANGED events
         \/ \E b \in Requests, e \in {"created", "cancelled"} :
              /\ events' = [events EXCEPT ![b] = Append(@, e)]
              /\ bookings[b] # None
              /\ e = "cancelled" => IsCancelled(b)
<1> USE DEF data, local
<1>1. ASSUME NEW r \in Requests, PublishCreated(r)
      PROVE  \/ UNCHANGED events
             \/ /\ events' = [events EXCEPT ![r] = Append(@, "created")]
                /\ bookings[r] # None
  BY <1>1 DEF PublishCreated, Publish, CallsRecorded, CallRecorded
<1>2. ASSUME NEW d \in Deletes, PublishCancelled(d)
      PROVE  /\ target[d] \in Requests
             /\ \/ UNCHANGED events
                \/ /\ events' = [events EXCEPT ![target[d]] = Append(@, "cancelled")]
                   /\ IsCancelled(target[d])
  BY <1>2 DEF PublishCancelled, Publish, Announcing, Formed, CallsAreFormed, Deleting
<1>3. ASSUME NEW c \in Calls, NEW i \in Instances, Arrive(c, i) PROVE UNCHANGED events
  BY <1>3 DEF Arrive
<1>4. ASSUME NEW r \in Requests, Create(r), ~PublishCreated(r) PROVE UNCHANGED events
  BY <1>4 DEF Create, CheckKey, SelectSeat, TakeLock, RecheckKey, ReadLatest, SaveBooking,
              SaveKey, Finish
<1>5. ASSUME NEW d \in Deletes, Cancel(d), ~PublishCancelled(d) PROVE UNCHANGED events
  BY <1>5 DEF Cancel, FindBooking, SaveCancelled
<1>6. ASSUME NEW c \in Calls, DatabaseFails(c) \/ AcknowledgementLost(c) PROVE UNCHANGED events
  BY <1>6 DEF DatabaseFails, AcknowledgementLost
<1>7. ASSUME NEW i \in Instances, Crash(i) PROVE UNCHANGED events
  BY <1>7 DEF Crash
<1>8. CASE UNCHANGED vars
  BY <1>8 DEF vars
<1> QED BY <1>1, <1>2, <1>3, <1>4, <1>5, <1>6, <1>7, <1>8 DEF Next, Serve, IsCancelled

(* What is announced has happened: no event precedes its write, and the    *)
(* write it tells of is never undone.                                      *)
THEOREM EventsFollowWritesHolds == Spec => []EventsFollowWrites
<1>1. Init => Announcing /\ EventsFollowWrites
  BY DEF Init, Announcing, EventsFollowWrites, Calls
<1>2. Formed /\ SeatsBooked /\ CallsRecorded /\ Announcing /\ EventsFollowWrites /\ [Next]_vars
        => Announcing' /\ EventsFollowWrites'
  <2> SUFFICES ASSUME Formed, SeatsBooked, CallsRecorded, Announcing, EventsFollowWrites,
                      [Next]_vars
               PROVE  EventsFollowWrites'
    BY AnnouncingStep
  <2> SUFFICES ASSUME NEW b \in Requests, NEW n \in DOMAIN events'[b]
               PROVE  bookings'[b] # None /\ (events'[b][n] = "cancelled" => IsCancelled(b)')
    BY DEF EventsFollowWrites, IsCancelled
  <2>1. events \in [Requests -> Seq({"created", "cancelled"})]
    BY DEF Formed, DataTypeOK
  <2>2. bookings[b] # None /\ (events'[b][n] = "cancelled" => IsCancelled(b))
    <3>1. CASE events'[b] = events[b]
      BY <3>1 DEF EventsFollowWrites, IsCancelled
    <3>2. ASSUME NEW e \in {"created", "cancelled"}, events'[b] = Append(events[b], e),
                 bookings[b] # None, e = "cancelled" => IsCancelled(b)
          PROVE bookings[b] # None /\ (events'[b][n] = "cancelled" => IsCancelled(b))
      <4>1. events[b] \in Seq({"created", "cancelled"})
        BY <2>1
      <4>2. (n \in DOMAIN events[b] /\ events'[b][n] = events[b][n]) \/ events'[b][n] = e
        BY <3>2, <4>1
      <4> QED BY <3>2, <4>2 DEF EventsFollowWrites, IsCancelled
    <3> QED BY <2>1, <3>1, <3>2, EventsGrow
  <2> QED BY <2>2, BookingsStay
<1> QED
  BY <1>1, <1>2, FormedInvariant, SeatsBookedInvariant, RecordsInvariant, PTL DEF Spec

-----------------------------------------------------------------------------
(* A call that ended without the answer its booking deserves.              *)
Marred(r) == pc[r] = "dead" \/ (result[r] # None /\ result[r].code = "error")

(* Two calls with one key at one process contend for one lock.             *)
Twins(a, b) == a # b /\ KeyOf[a] # None /\ KeyOf[a] = KeyOf[b] /\ at[a] = at[b]

(* A booking made with a key is marred, about to store the key, or the key *)
(* is stored; so a call that did not find the key under the lock knows     *)
(* that its twins' bookings, if any, are marred.                           *)
KeyLedger ==
  /\ \A r \in Requests :
       KeyOf[r] # None /\ bookings[r] # None =>
         Marred(r) \/ pc[r] = "saveKey" \/ idempotency[KeyOf[r]] # None
  /\ \A a, b \in Requests :
       Twins(a, b) /\ bookings[a] # None /\ pc[b] \in {"read", "save"} => Marred(a)

(* A call that has been marred stays so, and one that has booked or passed *)
(* the lock has arrived.                                                   *)
LEMMA MarredStays ==
  ASSUME Formed, CallsRecorded, [Next]_vars, NEW r \in Requests, Marred(r)
  PROVE  Marred(r)'
<1> USE DEF Goto, Conclude, local, data
<1>1. pc[r] \in {"dead", "release", "done"}
  BY DEF CallsRecorded, CallRecorded, Marred
<1>2. ASSUME Create(r) PROVE Marred(r)'
  <2>1. Finish(r)
    BY <1>1, <1>2 DEF Create, CheckKey, SelectSeat, TakeLock, RecheckKey, ReadLatest, SaveBooking,
                      SaveKey, PublishCreated
  <2>2. pc[r] = "release" /\ UNCHANGED result
    BY <2>1 DEF Finish
  <2> QED BY <2>2 DEF Marred
<1>3. \A i \in Instances : ~Arrive(r, i)
  BY <1>1 DEF Arrive
<1>4. ~DatabaseFails(r) /\ ~AcknowledgementLost(r)
  BY <1>1 DEF DatabaseFails, AcknowledgementLost
<1> QED BY <1>2, <1>3, <1>4, CallSteps DEF Marred

LEMMA TwinsStay ==
  ASSUME Formed, [Next]_vars, NEW a \in Requests, NEW b \in Requests,
         pc[a] # "start", pc[b] # "start"
  PROVE  Twins(a, b)' <=> Twins(a, b)
BY CallSteps DEF Twins

(* Twins have the same lock.                                               *)
LEMMA TwinsShareTheLock ==
  ASSUME OneCallPerLock, NEW a \in Requests, NEW b \in Requests, Twins(a, b), pc[a] \in InLock
  PROVE  pc[b] \notin InLock
BY DEF OneCallPerLock, Twins, LockName

(* With a key, a call comes to the read of the bookings only when the key  *)
(* is not found under the lock.                                            *)
LEMMA OnlyRecheck ==
  ASSUME Formed, [Next]_vars, NEW r \in Requests, KeyOf[r] # None,
         pc'[r] \in {"read", "save"}, pc[r] \notin {"read", "save"}
  PROVE  pc[r] = "recheck" /\ ~Known(KeyOf[r]) /\ UNCHANGED <<bookings, idempotency>>
<1> USE DEF Goto, Conclude, local, data
<1>1. pc \in [Calls -> Steps] /\ r \in Calls
  BY DEF Formed, DataTypeOK, Calls
<1>2. \A i \in Instances : ~Arrive(r, i)
  BY <1>1, BookingAssumption DEF Arrive
<1>3. ~DatabaseFails(r) /\ ~AcknowledgementLost(r)
  BY <1>1 DEF DatabaseFails, AcknowledgementLost
<1>4. Create(r)
  BY <1>2, <1>3, CallSteps
<1>5. RecheckKey(r)
  BY <1>1, <1>4 DEF Create, CheckKey, SelectSeat, TakeLock, ReadLatest, SaveBooking, SaveKey,
                    PublishCreated, Finish
<1> QED BY <1>1, <1>5 DEF RecheckKey

(* A call that stores its booking or its key goes on to the next write, or *)
(* is marred.                                                              *)
LEMMA KeyLedgerStored ==
  ASSUME Formed, SeatsBooked, CallsRecorded, KeyLedger, [Next]_vars,
         NEW r \in Requests, KeyOf[r] # None, bookings'[r] # None
  PROVE  Marred(r)' \/ pc'[r] = "saveKey" \/ idempotency'[KeyOf[r]] # None
<1> USE DEF Goto, Conclude, local, data
<1>1. /\ pc \in [Calls -> Steps] /\ result \in [Calls -> Answer \cup {None}] /\ r \in Calls
      /\ idempotency \in [IdemKeys -> Requests \cup {None}] /\ KeyOf[r] \in IdemKeys
      /\ None \notin Requests
  BY BookingAssumption DEF Formed, DataTypeOK, Calls
<1>2. idempotency[KeyOf[r]] # None => idempotency'[KeyOf[r]] # None
  BY <1>1, KeysWritten
<1>3. DatabaseFails(r) \/ AcknowledgementLost(r) => Marred(r)'
  <2>1. DatabaseFails(r) \/ AcknowledgementLost(r) => result'[r] = [code |-> "error"]
    BY <1>1 DEF DatabaseFails, AcknowledgementLost
  <2> QED BY <2>1, AnswersMade, NoneIsNoRecord DEF Marred
<1>4. CASE pc[r] \in {"save", "saveKey"}
  <2>1. \A i \in Instances : ~Arrive(r, i)
    BY <1>4 DEF Arrive
  <2>2. CASE Create(r)
    <3>1. SaveBooking(r) \/ SaveKey(r)
      BY <1>4, <2>2 DEF Create, CheckKey, SelectSeat, TakeLock, RecheckKey, ReadLatest,
                        PublishCreated, Finish
    <3> QED BY <1>1, <3>1 DEF SaveBooking, SaveKey
  <2>3. CASE pc'[r] = pc[r]
    <3>1. pc[r] = "save" => bookings[r] = None
      BY DEF SeatsBooked, SeatBooked, Unsaved
    <3>2. pc[r] # "save"
      BY <2>3, <3>1, BookingsStay DEF Unsaved
    <3> QED BY <1>4, <2>3, <3>2
  <2>4. CASE pc'[r] = "dead"
    BY <2>4 DEF Marred
  <2> QED BY <1>3, <2>1, <2>2, <2>3, <2>4, CallSteps
<1>5. CASE pc[r] \notin {"save", "saveKey"}
  <2>1. bookings[r] # None
    BY <1>5, BookingsStay
  <2> QED BY <1>2, <1>5, <2>1, MarredStays DEF KeyLedger
<1> QED BY <1>4, <1>5

(* Nobody stores a booking while a twin is between the lock and the save.  *)
LEMMA KeyLedgerTwins ==
  ASSUME Formed, SeatsBooked, OneCallPerLock, CallsRecorded, KeysLeadToBookings, KeyLedger,
         [Next]_vars,
         NEW a \in Requests, NEW b \in Requests, Twins(a, b)',
         bookings'[a] # None, pc'[b] \in {"read", "save"}
  PROVE  Marred(a)'
<1>1. \/ bookings[a] # None /\ pc[a] \notin Unsaved
      \/ bookings[a] = None /\ pc[a] = "save"
  BY BookingsStay DEF SeatsBooked, SeatBooked
<1>2. KeyOf[b] # None /\ KeyOf[b] \in IdemKeys
  BY BookingAssumption DEF Twins
<1>3. \/ pc[b] \in {"read", "save"}
      \/ pc[b] = "recheck" /\ ~Known(KeyOf[b]) /\ UNCHANGED <<bookings, idempotency>>
  BY <1>2, OnlyRecheck
<1>4. Twins(a, b) /\ pc[a] # "start"
  BY <1>1, <1>3, TwinsStay DEF Unsaved
<1>5. pc[a] \notin InLock
  BY <1>3, <1>4, TwinsShareTheLock DEF InLock
<1>6. bookings[a] # None
  BY <1>1, <1>5 DEF InLock
<1>7. Marred(a)
  <2>1. CASE pc[b] \in {"read", "save"}
    BY <1>4, <1>6, <2>1 DEF KeyLedger
  <2>2. CASE ~Known(KeyOf[b])
    <3>1. idempotency[KeyOf[b]] = None
      BY <1>2, <2>2 DEF Known, KeysLeadToBookings
    <3> QED BY <1>4, <1>5, <1>6, <3>1 DEF KeyLedger, Twins, InLock
  <2> QED BY <1>3, <2>1, <2>2
<1> QED BY <1>7, MarredStays

(* A retry with the same Idempotency-Key books a second time only when     *)
(* another process serves it, or when one of the two calls has died or     *)
(* ended in an error: otherwise the second look at the key, under the lock *)
(* they share, finds what the first has stored.                            *)
THEOREM KeyRepeatsHaveACauseHolds == Spec => []KeyRepeatsHaveACause
<1>1. Init => KeyLedger /\ KeyRepeatsHaveACause
  BY DEF Init, KeyLedger, KeyRepeatsHaveACause
<1>2. Formed /\ SeatsBooked /\ OneCallPerLock /\ CallsRecorded /\ KeysLeadToBookings /\ KeyLedger
        /\ KeyRepeatsHaveACause /\ [Next]_vars => KeyLedger' /\ KeyRepeatsHaveACause'
  <2> SUFFICES ASSUME Formed, SeatsBooked, OneCallPerLock, CallsRecorded, KeysLeadToBookings,
                      KeyLedger, KeyRepeatsHaveACause, [Next]_vars
               PROVE  KeyLedger' /\ KeyRepeatsHaveACause'
    OBVIOUS
  <2>1. KeyLedger'
    BY KeyLedgerStored, KeyLedgerTwins DEF KeyLedger
  <2>2. ASSUME NEW a \in Requests, NEW b \in Requests, Twins(a, b)',
               bookings'[a] # None, bookings'[b] # None, bookings[b] = None
        PROVE  Marred(a)'
    <3>1. pc[b] = "save"
      BY <2>2, BookingsStay
    <3>2. \/ bookings[a] # None /\ pc[a] \notin Unsaved
          \/ bookings[a] = None /\ pc[a] = "save"
      BY <2>2, BookingsStay DEF SeatsBooked, SeatBooked
    <3>3. Twins(a, b)
      BY <2>2, <3>1, <3>2, TwinsStay DEF Unsaved
    <3>4. pc[a] \notin InLock
      BY <3>1, <3>3, TwinsShareTheLock DEF InLock
    <3> QED BY <3>1, <3>2, <3>3, <3>4, MarredStays DEF KeyLedger, InLock
  <2>3. ASSUME NEW a \in Requests, NEW b \in Requests, Twins(a, b)',
               bookings[a] # None, bookings[b] # None
        PROVE  Marred(a)' \/ Marred(b)'
    <3>1. pc[a] # "start" /\ pc[b] # "start"
      BY <2>3 DEF SeatsBooked, SeatBooked, Unsaved
    <3>2. Marred(a) \/ Marred(b)
      BY <2>3, <3>1, TwinsStay DEF KeyRepeatsHaveACause, Twins, Marred
    <3> QED BY <3>2, MarredStays
  <2>4. ASSUME NEW a \in Requests, NEW b \in Requests, Twins(a, b)',
               bookings'[a] # None, bookings'[b] # None
        PROVE  Marred(a)' \/ Marred(b)'
    <3>1. Twins(b, a)'
      BY <2>4 DEF Twins
    <3> QED BY <2>2, <2>3, <2>4, <3>1
  <2>5. KeyRepeatsHaveACause'
    BY <2>4 DEF KeyRepeatsHaveACause, Twins, Marred
  <2> QED BY <2>1, <2>5
<1> QED
  BY <1>1, <1>2, FormedInvariant, SeatsBookedInvariant, OneCallPerLockHolds, RecordsInvariant, PTL
     DEF Spec

-----------------------------------------------------------------------------
(* Conflicting choices are the same tables from the same start.            *)
ConflictsAlign ==
  \A a, b \in Requests :
    seat[a] # None /\ seat[b] # None /\ Conflicting(seat[a], seat[b])
    => seat[a].tables = seat[b].tables /\ seat[a].start = seat[b].start

SeatedHaveArrived == \A r \in Requests : seat[r] # None => pc[r] # "start" /\ at[r] \in Instances

LEMMA SeatedInvariant == Spec => []SeatedHaveArrived
<1>1. Init => SeatedHaveArrived
  BY DEF Init, SeatedHaveArrived
<1>2. Formed /\ SeatedHaveArrived /\ [Next]_vars => SeatedHaveArrived'
  <2> SUFFICES ASSUME Formed, SeatedHaveArrived, [Next]_vars, NEW r \in Requests, seat'[r] # None
               PROVE  pc'[r] # "start" /\ at'[r] \in Instances
    BY DEF SeatedHaveArrived
  <2>1. pc[r] # "start" /\ at[r] \in Instances
    <3>1. CASE seat'[r] = seat[r]
      BY <3>1 DEF SeatedHaveArrived
    <3>2. CASE pc[r] = "select"
      BY <3>2 DEF Formed, CallsAreFormed, InFlight, BeforeLock
    <3> QED BY <3>1, <3>2, StepsMove
  <2>2. pc'[r] # "start"
    <3> USE DEF Goto, Conclude
    <3>1. r \in Calls /\ pc \in [Calls -> Steps]
      BY DEF Formed, DataTypeOK, Calls
    <3>2. \A i \in Instances : Arrive(r, i) => pc'[r] # "start"
      BY <3>1 DEF Arrive
    <3>3. Create(r) => pc'[r] # "start"
      BY <3>1 DEF Create, CheckKey, SelectSeat, TakeLock, RecheckKey, ReadLatest, SaveBooking,
                  SaveKey, PublishCreated, Finish
    <3>4. DatabaseFails(r) \/ AcknowledgementLost(r) => pc'[r] # "start"
      BY <3>1 DEF DatabaseFails, AcknowledgementLost
    <3> QED BY <2>1, <3>2, <3>3, <3>4, CallSteps
  <2> QED BY <2>1, <2>2, CallSteps
<1> QED BY <1>1, <1>2, FormedInvariant, PTL DEF Spec

OneProcess == \A i, j \in Instances : i = j

KeysAreUnused == \A r \in Requests : KeyOf[r] = None

(* Calls that name one sector name one restaurant with it, as a client     *)
(* does that knows whose sector it is: the code does not compare the two.  *)
OneRestaurantPerSector ==
  \A a, b \in Requests :
    Ask[a].sector = Ask[b].sector => Ask[a].restaurant = Ask[b].restaurant

(* Where the lock is enough: one process, calls without a key that name    *)
(* one restaurant with each sector, and asks whose conflicting choices are *)
(* the same tables from the same start.  Without one of these, calls that  *)
(* conflict take different locks (lines 95-102 of create-booking).         *)
THEOREM LockCoversAlignedChoices ==
  ASSUME OneProcess, KeysAreUnused, OneRestaurantPerSector
  PROVE  Spec /\ []ConflictsAlign => []LockCoversConflicts
<1>1. SeatsBooked /\ SeatedHaveArrived /\ ConflictsAlign => LockCoversConflicts
  <2> SUFFICES ASSUME SeatsBooked, SeatedHaveArrived, ConflictsAlign,
                      NEW a \in Requests, NEW b \in Requests,
                      seat[a] # None, seat[b] # None, Conflicting(seat[a], seat[b])
               PROVE  at[a] = at[b] /\ LockName(a) = LockName(b)
    BY DEF LockCoversConflicts
  <2>1. at[a] = at[b]
    BY DEF SeatedHaveArrived, OneProcess
  <2>2. Ask[a].sector = Ask[b].sector
    <3>1. PICK t : t \in seat[a].tables /\ t \in seat[b].tables
      BY DEF Conflicting
    <3>2. t \in TablesOf(Ask[a].sector) /\ t \in TablesOf(Ask[b].sector)
      BY <3>1 DEF SeatsBooked, SeatBooked
    <3> QED BY <3>2 DEF TablesOf
  <2>3. seat[a].tables = seat[b].tables /\ seat[a].start = seat[b].start
    BY DEF ConflictsAlign
  <2> QED BY <2>1, <2>2, <2>3 DEF LockName, KeysAreUnused, OneRestaurantPerSector
<1> QED BY <1>1, SeatsBookedInvariant, SeatedInvariant, PTL

(* End to end: in such a deployment no table is booked twice, for any      *)
(* requests, crashes and failures.                                         *)
THEOREM AlignedChoicesBookOnce ==
  ASSUME OneProcess, KeysAreUnused, OneRestaurantPerSector
  PROVE  Spec /\ []ConflictsAlign => []NoDoubleBooking
BY LockCoversAlignedChoices, NoDoubleBookingHolds, PTL

-----------------------------------------------------------------------------
(* A call dies only in a crash, and ends in an error only when a call to   *)
(* the database has failed.                                                *)
FailuresLeaveTraces ==
  \A r \in Requests :
    /\ pc[r] = "dead" => crashes > 0
    /\ result[r] # None /\ result[r].code = "error" => faults > 0

LEMMA FailuresInvariant == Spec => []FailuresLeaveTraces
<1>1. Init => FailuresLeaveTraces
  BY DEF Init, FailuresLeaveTraces, Calls
<1>2. Formed /\ FailuresLeaveTraces /\ [Next]_vars => FailuresLeaveTraces'
  <2> SUFFICES ASSUME Formed, FailuresLeaveTraces, [Next]_vars, NEW r \in Requests
               PROVE  /\ pc'[r] = "dead" => crashes' > 0
                      /\ result'[r] # None /\ result'[r].code = "error" => faults' > 0
    BY DEF FailuresLeaveTraces
  <2> DEFINE Traced(c) == /\ pc[c] = "dead" => crashes > 0
                          /\ result[c] # None /\ result[c].code = "error" => faults > 0
  <2> USE DEF Goto, Conclude, local, data, Publish
  <2>1. /\ Traced(r) /\ crashes \in Nat /\ faults \in Nat
        /\ pc \in [Calls -> Steps] /\ result \in [Calls -> Answer \cup {None}]
        /\ r \in Calls /\ r \notin Deletes
    BY BookingAssumption DEF FailuresLeaveTraces, Formed, DataTypeOK, Calls
  <2>2. ASSUME NEW c \in Calls, NEW i \in Instances, Arrive(c, i) PROVE Traced(r)'
    BY <2>1, <2>2 DEF Arrive
  <2>3. ASSUME NEW x \in Requests, Create(x) PROVE Traced(r)'
    <3>1. /\ crashes' = crashes /\ faults' \in {faults, faults + 1}
          /\ pc'[r] = "dead" => pc[r] = "dead"
      BY <2>1, <2>3 DEF Create, CheckKey, SelectSeat, TakeLock, RecheckKey, ReadLatest,
                        SaveBooking, SaveKey, PublishCreated, Finish
    <3>2. result'[r] = result[r] \/ result'[r].code # "error"
      BY <2>1, <2>3 DEF Create, CheckKey, SelectSeat, TakeLock, RecheckKey, ReadLatest,
                        SaveBooking, SaveKey, PublishCreated, Finish
    <3> QED BY <2>1, <3>1, <3>2
  <2>4. ASSUME NEW d \in Deletes, Cancel(d) PROVE Traced(r)'
    <3>1. /\ crashes' = crashes /\ faults' \in {faults, faults + 1}
          /\ pc'[r] = pc[r] /\ result'[r] = result[r]
      BY <2>1, <2>4 DEF Cancel, FindBooking, SaveCancelled, PublishCancelled
    <3> QED BY <2>1, <3>1
  <2>5. ASSUME NEW c \in Calls, DatabaseFails(c) \/ AcknowledgementLost(c) PROVE Traced(r)'
    <3>1. /\ crashes' = crashes /\ faults' = faults + 1
          /\ pc'[r] = "dead" => pc[r] = "dead"
      BY <2>1, <2>5 DEF DatabaseFails, AcknowledgementLost
    <3> QED BY <2>1, <3>1
  <2>6. ASSUME NEW i \in Instances, Crash(i) PROVE Traced(r)'
    <3>1. /\ crashes' = crashes + 1 /\ faults' = faults
          /\ result'[r] = result[r] \/ result'[r] = None
      BY <2>1, <2>6 DEF Crash
    <3> QED BY <2>1, <3>1
  <2>7. CASE UNCHANGED vars
    BY <2>1, <2>7 DEF vars
  <2> QED BY <2>2, <2>3, <2>4, <2>5, <2>6, <2>7 DEF Next, Serve
<1> QED BY <1>1, <1>2, FormedInvariant, PTL DEF Spec

(* A retry with the same Idempotency-Key never books a second time in one  *)
(* process that has not crashed and whose database has not failed: the run *)
(* that books twice for one key needs its crash, or a second process.      *)
THEOREM RetriesBookOnce ==
  ASSUME OneProcess
  PROVE  Spec => [](crashes = 0 /\ faults = 0 => OneBookingPerKey)
<1>1. SeatsBooked /\ SeatedHaveArrived /\ FailuresLeaveTraces /\ KeyRepeatsHaveACause
        => (crashes = 0 /\ faults = 0 => OneBookingPerKey)
  <2> SUFFICES ASSUME SeatsBooked, SeatedHaveArrived, FailuresLeaveTraces, KeyRepeatsHaveACause,
                      crashes = 0, faults = 0,
                      NEW a \in Requests, NEW b \in Requests, a # b,
                      bookings[a] # None, bookings[b] # None, KeyOf[a] # None, KeyOf[a] = KeyOf[b]
               PROVE  FALSE
    BY DEF OneBookingPerKey
  <2>1. at[a] = at[b]
    BY DEF SeatsBooked, SeatBooked, SeatedHaveArrived, OneProcess
  <2>2. \A c \in {a, b} : ~Marred(c)
    BY DEF FailuresLeaveTraces, Marred
  <2> QED BY <2>1, <2>2 DEF KeyRepeatsHaveACause, Marred
<1> QED
  BY <1>1, SeatsBookedInvariant, SeatedInvariant, FailuresInvariant, KeyRepeatsHaveACauseHolds, PTL

-----------------------------------------------------------------------------
(* Which seats calls try, whatever is booked, and whatever has happened    *)
(* since they chose: see ChoiceIgnoresBookings.                            *)
SeatOf(c) == [tables |-> c.tables, start |-> c.start, end |-> c.end]

EmptyDayChoices(r) ==
  {SeatOf(c) : c \in BestCandidates(Candidates(Ask[r], {}), Ask[r].partySize)}

SeatsIgnoreBookings ==
  \A r \in Requests : seat[r] # None => ValidAsk(Ask[r]) /\ seat[r] \in EmptyDayChoices(r)

LEMMA OnlySelectSeat ==
  ASSUME Formed, [Next]_vars, NEW r \in Requests, seat'[r] # seat[r]
  PROVE  SelectSeat(r)
<1> USE DEF local, data
<1>1. \A c \in Calls, i \in Instances : ~Arrive(c, i)
  BY DEF Arrive
<1>2. ASSUME NEW x \in Requests, Create(x) PROVE SelectSeat(r)
  <2>1. SelectSeat(x)
    BY <1>2 DEF Create, CheckKey, TakeLock, RecheckKey, ReadLatest, SaveBooking,
                SaveKey, PublishCreated, Finish
  <2>2. x = r
    BY <2>1 DEF SelectSeat, Formed, DataTypeOK
  <2> QED BY <2>1, <2>2
<1>3. \A d \in Deletes : ~Cancel(d)
  BY DEF Cancel, FindBooking, SaveCancelled, PublishCancelled
<1>4. \A c \in Calls : ~DatabaseFails(c) /\ ~AcknowledgementLost(c)
  BY DEF DatabaseFails, AcknowledgementLost
<1>5. \A i \in Instances : ~Crash(i)
  BY DEF Crash
<1>6. ~UNCHANGED vars
  BY DEF vars
<1> QED BY <1>1, <1>2, <1>3, <1>4, <1>5, <1>6 DEF Next, Serve

(* The seat a call tries is one that it would have tried on an empty day:  *)
(* the bookings that create-booking.use-case.ts reads before it chooses do *)
(* not change the choice, at any time and under any interleaving.          *)
THEOREM SeatsIgnoreBookingsHolds == Spec => []SeatsIgnoreBookings
<1>1. Init => SeatsIgnoreBookings
  BY DEF Init, SeatsIgnoreBookings
<1>2. Formed /\ SeatsIgnoreBookings /\ [Next]_vars => SeatsIgnoreBookings'
  <2> SUFFICES ASSUME Formed, SeatsIgnoreBookings, [Next]_vars, NEW r \in Requests,
                      seat'[r] # None
               PROVE  ValidAsk(Ask[r]) /\ seat'[r] \in EmptyDayChoices(r)
    BY DEF SeatsIgnoreBookings, EmptyDayChoices
  <2>1. CASE seat'[r] = seat[r]
    BY <2>1 DEF SeatsIgnoreBookings
  <2>2. CASE seat'[r] # seat[r]
    <3> DEFINE best == BestCandidates(Candidates(Ask[r], Confirmed(Ask[r].sector)),
                                      Ask[r].partySize)
    <3>1. ValidAsk(Ask[r]) /\ \E c \in best : seat' = [seat EXCEPT ![r] = SeatOf(c)]
      BY <2>2, OnlySelectSeat DEF SelectSeat, SeatOf
    <3>2. AllTimed({}) /\ AllTimed(Confirmed(Ask[r].sector))
      BY BookingsAreTimed DEF AllTimed, Formed
    <3>3. best = BestCandidates(Candidates(Ask[r], {}), Ask[r].partySize)
      BY <3>1, <3>2, AsksAreFormed, ChoiceIgnoresBookings
    <3> HIDE DEF best
    <3> QED BY <3>1, <3>3 DEF EmptyDayChoices, Formed, DataTypeOK
  <2> QED BY <2>1, <2>2
<1> QED BY <1>1, <1>2, FormedInvariant, PTL DEF Spec

(* What such a seat is: a set of tables that seats the party, from the     *)
(* start of the asked window.                                              *)
LEMMA EmptyDaySeats ==
  ASSUME NEW r \in Requests, ValidAsk(Ask[r]), NEW s \in EmptyDayChoices(r)
  PROVE  /\ s.tables \in TableSets(Ask[r].sector)
         /\ Seats(s.tables, Ask[r].partySize)
         /\ s.start = WindowOf(Ask[r]).start
         /\ s.end = s.start + Ask[r].duration
<1>1. PICK c \in BestCandidates(Candidates(Ask[r], {}), Ask[r].partySize) : s = SeatOf(c)
  BY DEF EmptyDayChoices
<1>2. AllTimed({})
  BY DEF AllTimed
<1>3. c \in Candidates(Ask[r], {})
  BY DEF BestCandidates
<1>4. /\ c.tables \in TableSets(Ask[r].sector) /\ Seats(c.tables, Ask[r].partySize)
      /\ c.end = c.start + Ask[r].duration
  BY <1>2, <1>3, AsksAreFormed, CandidatesFit
<1>5. c.start = WindowOf(Ask[r]).start
  BY <1>2, AsksAreFormed, BestStartsTheWindow
<1> QED BY <1>1, <1>4, <1>5 DEF SeatOf

(* Where the lock is enough, in terms of the deployment and of the         *)
(* requests alone: one process; no idempotency keys; one restaurant named  *)
(* with each sector; stays in a sector that overlap start together, as in  *)
(* a house with fixed sittings; and table sets that seat the parties are   *)
(* equal or have no table in common, as without combinations.              *)
Stay(r) == Gap(WindowOf(Ask[r]).start, WindowOf(Ask[r]).start + Ask[r].duration)

SittingsAreFixed ==
  \A a, b \in Requests :
    Ask[a].sector = Ask[b].sector /\ Overlaps(Stay(a), Stay(b)) => Stay(a).start = Stay(b).start

TablesAreSeparate ==
  \A a, b \in Requests :
    \A T \in TableSets(Ask[a].sector), U \in TableSets(Ask[b].sector) :
      Seats(T, Ask[a].partySize) /\ Seats(U, Ask[b].partySize) => T = U \/ T \cap U = {}

LEMMA FixedSittingsAlign ==
  ASSUME SittingsAreFixed, TablesAreSeparate
  PROVE  SeatsIgnoreBookings => ConflictsAlign
<1> SUFFICES ASSUME SeatsIgnoreBookings, NEW a \in Requests, NEW b \in Requests,
                    seat[a] # None, seat[b] # None, Conflicting(seat[a], seat[b])
             PROVE  seat[a].tables = seat[b].tables /\ seat[a].start = seat[b].start
  BY DEF ConflictsAlign
<1>1. /\ seat[a].tables \in TableSets(Ask[a].sector)
      /\ Seats(seat[a].tables, Ask[a].partySize)
      /\ seat[a].start = Stay(a).start /\ seat[a].end = Stay(a).end
  BY EmptyDaySeats DEF SeatsIgnoreBookings, Stay, Gap
<1>2. /\ seat[b].tables \in TableSets(Ask[b].sector)
      /\ Seats(seat[b].tables, Ask[b].partySize)
      /\ seat[b].start = Stay(b).start /\ seat[b].end = Stay(b).end
  BY EmptyDaySeats DEF SeatsIgnoreBookings, Stay, Gap
<1>3. seat[a].tables \cap seat[b].tables # {} /\ Overlaps(Stay(a), Stay(b))
  BY <1>1, <1>2 DEF Conflicting, Overlaps
<1>4. seat[a].tables = seat[b].tables
  BY <1>1, <1>2, <1>3 DEF TablesAreSeparate
<1>5. Ask[a].sector = Ask[b].sector
  BY <1>1, <1>2, <1>3 DEF TableSets, TablesOf
<1> QED BY <1>1, <1>2, <1>3, <1>4, <1>5 DEF SittingsAreFixed

(* In such a deployment the lock's name covers every conflict, so that no  *)
(* table is ever booked twice and the collection keeps the promise of      *)
(* Reservations, for any number of requests, crashes and failing calls.    *)
THEOREM FixedSittingsBookOnce ==
  ASSUME OneProcess, KeysAreUnused, OneRestaurantPerSector, SittingsAreFixed, TablesAreSeparate
  PROVE  Spec => []NoDoubleBooking /\ []CheckedSeatStaysFree /\ ImplementsReservations
<1>1. SeatsIgnoreBookings => ConflictsAlign
  BY FixedSittingsAlign
<1>2. Spec /\ []ConflictsAlign => []LockCoversConflicts
  BY LockCoversAlignedChoices
<1> QED
  BY <1>1, <1>2, SeatsIgnoreBookingsHolds, NoDoubleBookingHolds, CheckedSeatStaysFreeHolds,
     ReservationsImplemented, PTL
-----------------------------------------------------------------------------
(* What a refusal says is so: the restaurant or the sector is unknown; the request, or the   *)
(* stay it would get, is malformed; no set of tables seats the party, or   *)
(* the window is too short; or a booking of another call has a table of    *)
(* the chosen seat at that time.  Only the last depends on what is booked: *)
(* a full day never leads to NoCapacityError (create-booking.use-case.ts,  *)
(* line 90), as one may expect, but to ConflictError (line 125).           *)
NoCapacity(r) ==
  \/ \A T \in TableSets(Ask[r].sector) : ~Seats(T, Ask[r].partySize)
  \/ WindowOf(Ask[r]).start + Ask[r].duration > WindowOf(Ask[r]).end

RefusedRightly(r) ==
  /\ result[r].code = "not_found" => ~Found(r)
  /\ result[r].code = "invalid" => ~ValidAsk(Ask[r]) \/ ~OnGrid(Stay(r))
  /\ result[r].code = "no_capacity" => ValidAsk(Ask[r]) /\ NoCapacity(r)
  /\ result[r].code = "conflict" =>
       /\ seat[r] # None
       /\ \E b \in Requests \ {r} : bookings[b] # None /\ Conflicting(bookings[b], seat[r])

RefusalsAreTrue == \A r \in Requests : result[r] # None => RefusedRightly(r)

(* The refusals before the lock.                                           *)
LEMMA EarlyRefusals ==
  ASSUME Formed, NEW r \in Requests, SelectSeat(r), result'[r] # result[r]
  PROVE  RefusedRightly(r)'
<1> DEFINE taken == Confirmed(Ask[r].sector)
           best == BestCandidates(Candidates(Ask[r], taken), Ask[r].partySize)
<1>1. result \in [Calls -> Answer \cup {None}] /\ r \in Calls
  BY DEF Formed, DataTypeOK, Calls
<1>2. \/ result'[r] = [code |-> "not_found"] /\ ~Found(r)
      \/ result'[r] = [code |-> "invalid"] /\ ~ValidAsk(Ask[r])
      \/ result'[r] = [code |-> "no_capacity"] /\ ValidAsk(Ask[r]) /\ best = {}
  BY <1>1 DEF SelectSeat, Conclude
<1>3. ASSUME ValidAsk(Ask[r]), best = {} PROVE NoCapacity(r)
  <2>1. WellFormed(Ask[r]) /\ AllTimed(taken)
    BY AsksAreFormed, BookingsAreTimed DEF Formed
  <2> HIDE DEF taken
  <2>2. Candidates(Ask[r], taken) = {}
    <3>1. \A c \in Candidates(Ask[r], taken) : Comparable(c)
      BY <1>3, <2>1, CandidatesFit
    <3>2. IsFiniteSet(Candidates(Ask[r], taken)) /\ Ask[r].partySize \in Int
      BY <2>1, CandidatesAreFinite DEF WellFormed
    <3> QED BY <1>3, <3>1, <3>2, BestExists
  <2>3. ~(/\ \E T \in TableSets(Ask[r].sector) : Seats(T, Ask[r].partySize)
          /\ WindowOf(Ask[r]).start + Ask[r].duration <= WindowOf(Ask[r]).end)
    BY <1>3, <2>1, <2>2, CapacityIgnoresBookings
  <2>4. WindowOf(Ask[r]) \in Times /\ Ask[r].duration \in Int
    BY <2>1, AskedTimes DEF WellFormed
  <2> QED BY <2>3, <2>4 DEF NoCapacity, Times
<1> HIDE DEF best
<1> QED BY <1>2, <1>3 DEF RefusedRightly, NoCapacity

(* The refusals under the lock: the seat starts the asked window, and the  *)
(* booking in its way is another call's, for this one has none yet.        *)
LEMMA LateRefusals ==
  ASSUME Formed, SeatsBooked, SeatsIgnoreBookings, NEW r \in Requests, ReadLatest(r),
         result'[r] # result[r]
  PROVE  RefusedRightly(r)'
<1>1. result \in [Calls -> Answer \cup {None}] /\ r \in Calls
  BY DEF Formed, DataTypeOK, Calls
<1>2. /\ pc[r] = "read" /\ UNCHANGED <<bookings, seat>>
      /\ \/ result'[r] = [code |-> "invalid"] /\ ~OnGrid(seat[r])
         \/ /\ result'[r] = [code |-> "conflict"]
            /\ \E d \in Confirmed(Ask[r].sector) : Conflicting(d, seat[r])
  BY <1>1 DEF ReadLatest, Conclude, data, local
<1>3. seat[r] # None /\ bookings[r] = None
  BY <1>2, NoneIsNoRecord DEF Formed, CallsAreFormed, InLock, SeatsBooked, SeatBooked, Unsaved
<1>4. seat[r].start = Stay(r).start /\ seat[r].end = Stay(r).end
  BY <1>3, EmptyDaySeats DEF SeatsIgnoreBookings, Stay, Gap
<1>5. ~OnGrid(seat[r]) => ~OnGrid(Stay(r))
  BY <1>4 DEF OnGrid
<1>6. CASE result'[r] = [code |-> "invalid"] /\ ~OnGrid(seat[r])
  BY <1>5, <1>6 DEF RefusedRightly, Stay, OnGrid
<1>7. CASE /\ result'[r] = [code |-> "conflict"]
           /\ \E d \in Confirmed(Ask[r].sector) : Conflicting(d, seat[r])
  <2>1. \E b \in Requests \ {r} : bookings[b] # None /\ Conflicting(bookings[b], seat[r])
    BY <1>3, <1>7 DEF Confirmed
  <2> QED BY <1>2, <1>3, <1>7, <2>1 DEF RefusedRightly, Conflicting, Overlaps
<1> QED BY <1>2, <1>6, <1>7

(* A booking in the way stays in the collection, if only as a cancelled    *)
(* one, and keeps its tables and its times.                                *)
LEMMA RefusalsStay ==
  ASSUME Formed, SeatsBooked, CallsRecorded, RefusalsAreTrue, [Next]_vars, NEW r \in Requests,
         result[r] # None, result'[r] = result[r]
  PROVE  RefusedRightly(r)'
<1>1. RefusedRightly(r) /\ pc[r] \in {"release", "done"}
  BY DEF RefusalsAreTrue, CallsRecorded, CallRecorded
<1>2. seat'[r] = seat[r]
  BY <1>1, StepsMove
<1>3. ASSUME NEW b \in Requests, bookings[b] # None
      PROVE  /\ bookings'[b] # None
             /\ bookings'[b].tables = bookings[b].tables
             /\ bookings'[b].start = bookings[b].start
             /\ bookings'[b].end = bookings[b].end
  <2>1. CASE UNCHANGED bookings
    BY <1>3, <2>1
  <2>2. ASSUME NEW x \in Requests, Writes(x) PROVE bookings'[b] = bookings[b]
    <3>1. bookings[x] = None
      BY <2>2 DEF Writes, SeatsBooked, SeatBooked, Unsaved
    <3> QED BY <1>3, <2>2, <3>1, WritesOne
  <2>3. ASSUME NEW x \in Requests, Cancels(x)
        PROVE  /\ bookings'[b] # None
               /\ bookings'[b].tables = bookings[b].tables
               /\ bookings'[b].start = bookings[b].start
               /\ bookings'[b].end = bookings[b].end
    BY <1>3, <2>3, CancelsOne
  <2> QED BY <1>3, <2>1, <2>2, <2>3, StepsWrite
<1>4. ASSUME NEW b \in Requests, bookings[b] # None, Conflicting(bookings[b], seat[r])
      PROVE  bookings'[b] # None /\ Conflicting(bookings'[b], seat'[r])
  BY <1>2, <1>3, <1>4 DEF Conflicting, Overlaps
<1> QED BY <1>1, <1>2, <1>4 DEF RefusedRightly, NoCapacity, Stay

(* What a client is told when its request is refused is so, whatever       *)
(* crashes or fails, and whatever the other calls do in the meantime.      *)
THEOREM RefusalsAreTrueHolds == Spec => []RefusalsAreTrue
<1>1. Init => RefusalsAreTrue
  BY DEF Init, RefusalsAreTrue, Calls
<1>2. Formed /\ SeatsBooked /\ CallsRecorded /\ SeatsIgnoreBookings /\ RefusalsAreTrue
        /\ [Next]_vars => RefusalsAreTrue'
  <2> SUFFICES ASSUME Formed, SeatsBooked, CallsRecorded, SeatsIgnoreBookings, RefusalsAreTrue,
                      [Next]_vars, NEW r \in Requests, result'[r] # None, result'[r] # result[r]
               PROVE  RefusedRightly(r)'
    BY RefusalsStay DEF RefusalsAreTrue
  <2> USE DEF Goto, Conclude
  <2>1. result \in [Calls -> Answer \cup {None}] /\ pc \in [Calls -> Steps] /\ r \in Calls
    BY DEF Formed, DataTypeOK, Calls
  <2>2. \A i \in Instances : ~Arrive(r, i)
    BY DEF Arrive
  <2>3. ASSUME DatabaseFails(r) \/ AcknowledgementLost(r) PROVE RefusedRightly(r)'
    <3>1. result'[r].code = "error"
      BY <2>1, <2>3 DEF DatabaseFails, AcknowledgementLost
    <3> QED BY <3>1 DEF RefusedRightly
  <2>4. ASSUME Create(r) PROVE RefusedRightly(r)'
    <3>1. \/ SelectSeat(r) \/ ReadLatest(r) \/ result'[r].code \in {"created", "replayed"}
      BY <2>1, <2>4 DEF Create, CheckKey, TakeLock, RecheckKey, SaveBooking, SaveKey,
                        PublishCreated, Finish
    <3>2. result'[r].code \in {"created", "replayed"} => RefusedRightly(r)'
      BY DEF RefusedRightly
    <3> QED BY <3>1, <3>2, EarlyRefusals, LateRefusals
  <2> QED BY <2>2, <2>3, <2>4, CallSteps
<1> QED
  BY <1>1, <1>2, FormedInvariant, SeatsBookedInvariant, RecordsInvariant,
     SeatsIgnoreBookingsHolds, PTL DEF Spec

=============================================================================

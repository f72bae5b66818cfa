------------------------------ MODULE Booking ------------------------------
(***************************************************************************)
(* Creating and cancelling bookings:                                       *)
(* application/use-cases/create-booking.use-case.ts and                    *)
(* delete-booking.use-case.ts over mongodb-booking.repository.ts, run by   *)
(* several server instances that share the database but not the lock map.  *)
(*                                                                         *)
(* A step is what happens between two awaits, so the steps of all calls    *)
(* interleave at the database's reads and writes.  A booking's identifier  *)
(* (randomUUID) is the call that creates it: a call creates at most one.   *)
(***************************************************************************)
EXTENDS Seating, Sequences

CONSTANTS
  Requests,    \* calls of POST /woki/bookings
  Deletes,     \* calls of DELETE /woki/bookings/:id
  Instances,   \* server processes
  IdemKeys,    \* values of the Idempotency-Key header
  Restaurants, \* restaurants that exist
  Ask,         \* [Requests -> asks], see Seating; each names its restaurant
  KeyOf,       \* [Requests -> IdemKeys or None]
  MaxCrashes,  \* bound on crashes
  MaxFaults    \* bound on failing database or broker calls

Calls == Requests \cup Deletes

ASSUME BookingAssumption ==
  /\ Requests \cap Deletes = {}
  /\ None \notin Requests \cup Deletes \cup Instances \cup IdemKeys
  /\ \A r \in Requests :
       /\ Ask[r].partySize \in Int
       /\ Ask[r].duration \in Int
       /\ Ask[r].window = None \/ Ask[r].window \in [start : Int, end : Int]
  /\ KeyOf \in [Requests -> IdemKeys \cup {None}]
  /\ MaxCrashes \in Nat
  /\ MaxFaults \in Nat

VARIABLES
  bookings,     \* the bookings collection: id -> document or None
  idempotency,  \* the idempotency collection: key -> booking id or None
  events,       \* what reached the broker, per booking id
  pc,           \* the await each call is at
  at,           \* the instance that serves the call
  seat,         \* selected: the seat a create call tries
  target,       \* bookingId of a delete call
  result,       \* the answer, given when pc is "done"
  crashes,      \* crashes so far
  faults,       \* failed calls so far
  locks, phase, wanted, awaits   \* the lock service, see LockService

data == <<bookings, idempotency, events>>
local == <<seat, target>>
lockVars == <<locks, phase, wanted, awaits>>
vars == <<data, pc, at, local, result, crashes, faults, lockVars>>

(* A lock name within a process: `idempotency:<key>', or generateLockKey:  *)
(* restaurant, sector, sorted tables and start.                            *)
LockNames ==
  [key : IdemKeys]
  \cup [restaurant : Restaurants, sector : Sectors, tables : SUBSET Tables, start : Int]

(* The maps of the processes side by side: a key is a process and a name.  *)
L == INSTANCE LockService
     WITH Callers <- Requests, Keys <- Instances \X LockNames, NoOne <- None

Status == {"CONFIRMED", "CANCELLED"}
Seat == [tables : SUBSET Tables, start : Int, end : Int]
Document == [sector : Sectors, tables : SUBSET Tables, start : Int, end : Int, status : Status]
Answer == [code : {"created", "replayed"}, id : Requests]
          \cup [code : {"cancelled", "not_found", "invalid", "no_capacity", "conflict", "error"}]

ASSUME NoneIsNoRecord == None \notin Document \cup Seat \cup Answer \cup (Instances \X LockNames)

BeforeLock == {"key", "select", "lock"}
InLock == {"recheck", "read", "save", "saveKey", "publish", "release"}
Deleting == {"find", "cancel", "publishCancel"}
Steps == {"start", "done", "dead"} \cup BeforeLock \cup InLock \cup Deleting
InFlight(c) == pc[c] \in BeforeLock \cup InLock \cup Deleting

DataTypeOK ==
  /\ bookings \in [Requests -> Document \cup {None}]
  /\ idempotency \in [IdemKeys -> Requests \cup {None}]
  /\ events \in [Requests -> Seq({"created", "cancelled"})]
  /\ pc \in [Calls -> Steps]
  /\ at \in [Calls -> Instances \cup {None}]
  /\ seat \in [Requests -> Seat \cup {None}]
  /\ target \in [Deletes -> Requests \cup {None}]
  /\ result \in [Calls -> Answer \cup {None}]
  /\ crashes \in 0 .. MaxCrashes
  /\ faults \in 0 .. MaxFaults

TypeOK == DataTypeOK /\ L!TypeOK

Init ==
  /\ bookings = [r \in Requests |-> None]
  /\ idempotency = [k \in IdemKeys |-> None]
  /\ events = [r \in Requests |-> <<>>]
  /\ pc = [c \in Calls |-> "start"]
  /\ at = [c \in Calls |-> None]
  /\ seat = [r \in Requests |-> None]
  /\ target = [d \in Deletes |-> None]
  /\ result = [c \in Calls |-> None]
  /\ crashes = 0
  /\ faults = 0
  /\ L!Init

-----------------------------------------------------------------------------
Goto(c, step) == pc' = [pc EXCEPT ![c] = step]
Conclude(c, answer, step) == result' = [result EXCEPT ![c] = answer] /\ Goto(c, step)

(* findBySectorAndDate: the confirmed bookings of the sector.              *)
Confirmed(sector) ==
  {bookings[b] : b \in {x \in Requests :
     bookings[x] # None /\ bookings[x].sector = sector /\ bookings[x].status = "CONFIRMED"}}

Conflicting(a, b) == a.tables \cap b.tables # {} /\ Overlaps(a, b)

(* The restaurant and the sector are looked up, each by itself: whether    *)
(* the sector belongs to the restaurant is never compared.                 *)
Found(r) == Ask[r].restaurant \in Restaurants /\ Ask[r].sector \in Sectors

(* Variant: the lock is named after the end of the stay.                   *)
LockNameByEnd(r) ==
  IF KeyOf[r] # None
  THEN [key |-> KeyOf[r]]
  ELSE [restaurant |-> Ask[r].restaurant, sector |-> Ask[r].sector,
        tables |-> seat[r].tables, start |-> seat[r].end]

(* The name of the lock a create call takes once it has chosen its seat.   *)
LockName(r) ==
  IF KeyOf[r] # None
  THEN [key |-> KeyOf[r]]
  ELSE [restaurant |-> Ask[r].restaurant, sector |-> Ask[r].sector,
        tables |-> seat[r].tables, start |-> seat[r].start]

(* findByIdempotencyKey finds a booking.                                   *)
Known(k) == idempotency[k] # None /\ bookings[idempotency[k]] # None

(* A load balancer hands the call to any instance.                         *)
Arrive(c, i) ==
  /\ pc[c] = "start"
  /\ at' = [at EXCEPT ![c] = i]
  /\ Goto(c, IF c \in Deletes THEN "find" ELSE IF KeyOf[c] # None THEN "key" ELSE "select")
  /\ IF c \in Deletes
     THEN \E b \in Requests : target' = [target EXCEPT ![c] = b]
     ELSE UNCHANGED target
  /\ UNCHANGED <<data, seat, result, crashes, faults, lockVars>>

(* The first look at the idempotency key, outside the lock.                *)
CheckKey(r) ==
  /\ pc[r] = "key"
  /\ IF Known(KeyOf[r])
     THEN Conclude(r, [code |-> "replayed", id |-> idempotency[KeyOf[r]]], "done")
     ELSE Goto(r, "select") /\ UNCHANGED result
  /\ UNCHANGED <<data, at, local, crashes, faults, lockVars>>

(* Restaurant, sector and tables are read, the bookings of the day, and a  *)
(* seat is chosen from them.                                               *)
SelectSeat(r) ==
  /\ pc[r] = "select"
  /\ LET ask == Ask[r]
         best == BestCandidates(Candidates(ask, Confirmed(ask.sector)), ask.partySize)
     IN \/ /\ ~Found(r)
           /\ Conclude(r, [code |-> "not_found"], "done")
           /\ UNCHANGED seat
        \/ /\ Found(r)
           /\ ~ValidAsk(ask)
           /\ Conclude(r, [code |-> "invalid"], "done")
           /\ UNCHANGED seat
        \/ /\ Found(r)
           /\ ValidAsk(ask)
           /\ best = {}
           /\ Conclude(r, [code |-> "no_capacity"], "done")
           /\ UNCHANGED seat
        \/ /\ Found(r)
           /\ ValidAsk(ask)
           /\ \E c \in best :
                seat' = [seat EXCEPT ![r] = [tables |-> c.tables, start |-> c.start, end |-> c.end]]
           /\ Goto(r, "lock")
           /\ UNCHANGED result
  /\ UNCHANGED <<data, at, target, crashes, faults, lockVars>>

(* Variant: the key is not looked up again once the lock is held.          *)
TakeLockWithoutRecheck(r) ==
  /\ pc[r] = "lock"
  /\ L!Acquire(r, <<at[r], LockName(r)>>) \/ L!Retry(r)
  /\ Goto(r, IF phase'[r] = "inside" THEN "read" ELSE "lock")
  /\ UNCHANGED <<data, at, local, result, crashes, faults>>

(* One test of lockService.acquire's loop.                                 *)
TakeLock(r) ==
  /\ pc[r] = "lock"
  /\ L!Acquire(r, <<at[r], LockName(r)>>) \/ L!Retry(r)
  /\ Goto(r, IF phase'[r] # "inside" THEN "lock"
             ELSE IF KeyOf[r] # None THEN "recheck" ELSE "read")
  /\ UNCHANGED <<data, at, local, result, crashes, faults>>

(* Variant: a replay is answered with the caller's fresh identifier.       *)
RecheckKeyOwnId(r) ==
  /\ pc[r] = "recheck"
  /\ IF Known(KeyOf[r])
     THEN Conclude(r, [code |-> "replayed", id |-> r], "release")
     ELSE Goto(r, "read") /\ UNCHANGED result
  /\ UNCHANGED <<data, at, local, crashes, faults, lockVars>>

(* The second look at the key, inside the lock.                            *)
RecheckKey(r) ==
  /\ pc[r] = "recheck"
  /\ IF Known(KeyOf[r])
     THEN Conclude(r, [code |-> "replayed", id |-> idempotency[KeyOf[r]]], "release")
     ELSE Goto(r, "read") /\ UNCHANGED result
  /\ UNCHANGED <<data, at, local, crashes, faults, lockVars>>

(* Variant: a status the collection does not have.                         *)
NewBookingPending(r) ==
  [sector |-> Ask[r].sector, tables |-> seat[r].tables, start |-> seat[r].start,
   end |-> seat[r].end, status |-> "PENDING"]

NewBooking(r) ==
  [sector |-> Ask[r].sector, tables |-> seat[r].tables, start |-> seat[r].start,
   end |-> seat[r].end, status |-> "CONFIRMED"]

(* Variant: the document is written before the interval is checked.        *)
ReadLatestAfterWrite(r) ==
  /\ pc[r] = "read"
  /\ bookings' = [bookings EXCEPT ![r] = NewBooking(r)]
  /\ IF OnGrid(seat[r])
     THEN Goto(r, "save") /\ UNCHANGED result
     ELSE Conclude(r, [code |-> "invalid"], "release")
  /\ UNCHANGED <<idempotency, events, at, local, crashes, faults, lockVars>>

(* Variant: the seat chosen before the lock is trusted.                    *)
ReadLatestTrusting(r) ==
  /\ pc[r] = "read"
  /\ IF ~OnGrid(seat[r])
     THEN Conclude(r, [code |-> "invalid"], "release")
     ELSE Goto(r, "save") /\ UNCHANGED result
  /\ UNCHANGED <<data, at, local, crashes, faults, lockVars>>

(* The bookings are read again and checked against the chosen seat; an     *)
(* interval off the 15-minute grid is refused by TimeInterval.create.      *)
ReadLatest(r) ==
  /\ pc[r] = "read"
  /\ \/ /\ ~OnGrid(seat[r])
        /\ Conclude(r, [code |-> "invalid"], "release")
     \/ /\ OnGrid(seat[r])
        /\ \E b \in Confirmed(Ask[r].sector) : Conflicting(b, seat[r])
        /\ Conclude(r, [code |-> "conflict"], "release")
     \/ /\ OnGrid(seat[r])
        /\ \A b \in Confirmed(Ask[r].sector) : ~Conflicting(b, seat[r])
        /\ Goto(r, "save")
        /\ UNCHANGED result
  /\ UNCHANGED <<data, at, local, crashes, faults, lockVars>>

(* Variant: with a key, only the key's document is written.                *)
SaveKeyInstead(r) ==
  /\ pc[r] = "save"
  /\ IF KeyOf[r] # None
     THEN idempotency' = [idempotency EXCEPT ![KeyOf[r]] = r] /\ UNCHANGED bookings
     ELSE bookings' = [bookings EXCEPT ![r] = NewBooking(r)] /\ UNCHANGED idempotency
  /\ Goto(r, IF KeyOf[r] # None THEN "saveKey" ELSE "publish")
  /\ UNCHANGED <<events, at, local, result, crashes, faults, lockVars>>

(* save, or the first of the two writes of saveWithIdempotencyKey.         *)
SaveBooking(r) ==
  /\ pc[r] = "save"
  /\ bookings' = [bookings EXCEPT ![r] = NewBooking(r)]
  /\ Goto(r, IF KeyOf[r] # None THEN "saveKey" ELSE "publish")
  /\ UNCHANGED <<idempotency, events, at, local, result, crashes, faults, lockVars>>

(* The second write: the key's document is upserted.                       *)
SaveKey(r) ==
  /\ pc[r] = "saveKey"
  /\ idempotency' = [idempotency EXCEPT ![KeyOf[r]] = r]
  /\ Goto(r, "publish")
  /\ UNCHANGED <<bookings, events, at, local, result, crashes, faults, lockVars>>

(* EventPublisherService.publish never throws: the event may be lost.      *)
Publish(b, event) ==
  \/ events' = [events EXCEPT ![b] = Append(@, event)] /\ UNCHANGED faults
  \/ faults < MaxFaults /\ faults' = faults + 1 /\ UNCHANGED events

PublishCreated(r) ==
  /\ pc[r] = "publish"
  /\ Publish(r, "created")
  /\ Conclude(r, [code |-> "created", id |-> r], "release")
  /\ UNCHANGED <<bookings, idempotency, at, local, crashes, lockVars>>

(* Variant: an error thrown by the booking code skips the release.         *)
FinishUnlessThrown(r) ==
  /\ pc[r] = "release"
  /\ result[r].code \in {"created", "replayed"}
  /\ L!Release(r)
  /\ Goto(r, "done")
  /\ UNCHANGED <<data, at, local, result, crashes, faults>>

(* The finally block of acquire, after which the answer is given.          *)
Finish(r) ==
  /\ pc[r] = "release"
  /\ L!Release(r)
  /\ Goto(r, "done")
  /\ UNCHANGED <<data, at, local, result, crashes, faults>>

-----------------------------------------------------------------------------
(* Variant: the cancellation is announced without waiting for the save.    *)
FindBookingWithoutSave(d) ==
  /\ pc[d] = "find"
  /\ bookings[target[d]] # None
  /\ Goto(d, "publishCancel")
  /\ UNCHANGED <<data, at, local, result, crashes, faults, lockVars>>

(* DeleteBookingUseCase: findById and booking.cancel() on the copy read.   *)
FindBooking(d) ==
  /\ pc[d] = "find"
  /\ LET b == bookings[target[d]]
     IN \/ b = None /\ Conclude(d, [code |-> "not_found"], "done")
        \/ b # None /\ b.status = "CANCELLED" /\ Conclude(d, [code |-> "conflict"], "done")
        \/ b # None /\ b.status = "CONFIRMED" /\ Goto(d, "cancel") /\ UNCHANGED result
  /\ UNCHANGED <<data, at, local, crashes, faults, lockVars>>

(* Variant: the document is removed instead.                               *)
SaveCancelledByRemoving(d) ==
  /\ pc[d] = "cancel"
  /\ bookings' = [bookings EXCEPT ![target[d]] = None]
  /\ Goto(d, "publishCancel")
  /\ UNCHANGED <<idempotency, events, at, local, result, crashes, faults, lockVars>>

(* The cancelled copy is saved over the document.                          *)
SaveCancelled(d) ==
  /\ pc[d] = "cancel"
  /\ bookings' = [bookings EXCEPT ![target[d]].status = "CANCELLED"]
  /\ Goto(d, "publishCancel")
  /\ UNCHANGED <<idempotency, events, at, local, result, crashes, faults, lockVars>>

PublishCancelled(d) ==
  /\ pc[d] = "publishCancel"
  /\ Publish(target[d], "cancelled")
  /\ Conclude(d, [code |-> "cancelled"], "done")
  /\ UNCHANGED <<bookings, idempotency, at, local, crashes, lockVars>>

-----------------------------------------------------------------------------
(* A database call fails without effect and the use case throws: outside   *)
(* the lock the call is answered, inside the finally block runs first.     *)
DatabaseFails(c) ==
  /\ faults < MaxFaults
  /\ faults' = faults + 1
  /\ \/ /\ pc[c] \in {"key", "select", "find", "cancel"}
        /\ Conclude(c, [code |-> "error"], "done")
     \/ /\ pc[c] \in {"recheck", "read", "save", "saveKey"}
        /\ Conclude(c, [code |-> "error"], "release")
  /\ UNCHANGED <<data, at, local, crashes, lockVars>>

(* A write is applied, but its acknowledgement is lost.                    *)
AcknowledgementLost(c) ==
  /\ faults < MaxFaults
  /\ faults' = faults + 1
  /\ \/ /\ pc[c] = "save"
        /\ bookings' = [bookings EXCEPT ![c] = NewBooking(c)]
        /\ Conclude(c, [code |-> "error"], "release")
        /\ UNCHANGED idempotency
     \/ /\ pc[c] = "saveKey"
        /\ idempotency' = [idempotency EXCEPT ![KeyOf[c]] = c]
        /\ Conclude(c, [code |-> "error"], "release")
        /\ UNCHANGED bookings
     \/ /\ pc[c] = "cancel"
        /\ bookings' = [bookings EXCEPT ![target[c]].status = "CANCELLED"]
        /\ Conclude(c, [code |-> "error"], "done")
        /\ UNCHANGED idempotency
  /\ UNCHANGED <<events, at, local, crashes, lockVars>>

(* External: a process dies with the calls it serves and its lock map, and *)
(* is replaced.  A write it had issued was applied before, or never is.    *)
Crash(i) ==
  LET lost == {c \in Calls : at[c] = i /\ InFlight(c)}
  IN /\ crashes < MaxCrashes
     /\ lost # {}
     /\ crashes' = crashes + 1
     /\ pc' = [c \in Calls |-> IF c \in lost THEN "dead" ELSE pc[c]]
     /\ result' = [c \in Calls |-> IF c \in lost THEN None ELSE result[c]]
     /\ L!Abandon(lost \cap Requests)
     /\ UNCHANGED <<data, at, local, faults>>

Create(r) ==
  \/ CheckKey(r) \/ SelectSeat(r) \/ TakeLock(r) \/ RecheckKey(r) \/ ReadLatest(r)
  \/ SaveBooking(r) \/ SaveKey(r) \/ PublishCreated(r) \/ Finish(r)

Cancel(d) == FindBooking(d) \/ SaveCancelled(d) \/ PublishCancelled(d)

(* The steps of the calls that have arrived.                               *)
Serve ==
  \/ \E r \in Requests : Create(r)
  \/ \E d \in Deletes : Cancel(d)
  \/ \E c \in Calls : DatabaseFails(c) \/ AcknowledgementLost(c)
  \/ \E i \in Instances : Crash(i)

Next == (\E c \in Calls, i \in Instances : Arrive(c, i)) \/ Serve

Spec == Init /\ [][Next]_vars

(* Node resumes every call whose await has settled.  Arrivals, failures    *)
(* and crashes need not happen.                                            *)
Fairness ==
  /\ \A r \in Requests : WF_vars(Create(r))
  /\ \A d \in Deletes : WF_vars(Cancel(d))

FairSpec == Spec /\ Fairness

-----------------------------------------------------------------------------
(* No two confirmed bookings share a table at the same time.               *)
NoDoubleBooking ==
  \A a, b \in Requests :
    a # b /\ bookings[a] # None /\ bookings[b] # None
          /\ bookings[a].status = "CONFIRMED" /\ bookings[b].status = "CONFIRMED"
    => ~Conflicting(bookings[a], bookings[b])

(* A table is booked twice for one time only by calls that took different  *)
(* locks: in different processes, or under different names for a key, the  *)
(* restaurant, the tables or the start.  Calls that share a lock never do, *)
(* whatever crashes, fails or is late.                                     *)
DoubleBookingsHaveACause ==
  \A a, b \in Requests :
    /\ a # b /\ bookings[a] # None /\ bookings[b] # None
    /\ bookings[a].status = "CONFIRMED" /\ bookings[b].status = "CONFIRMED"
    /\ Conflicting(bookings[a], bookings[b])
    => at[a] # at[b] \/ LockName(a) # LockName(b)

(* The condition under which the lock protects the tables: calls that try  *)
(* conflicting seats take the same lock of the same process.               *)
LockCoversConflicts ==
  \A a, b \in Requests :
    seat[a] # None /\ seat[b] # None /\ Conflicting(seat[a], seat[b])
    => at[a] = at[b] /\ LockName(a) = LockName(b)

(* Between the check of the latest bookings and the write, the seat stays  *)
(* free: nobody else books it meanwhile (lines 114-145 of create-booking). *)
CheckedSeatStaysFree ==
  \A r \in Requests :
    pc[r] = "save" => \A b \in Confirmed(Ask[r].sector) : ~Conflicting(b, seat[r])

(* Calls of one process are not in their critical sections together when   *)
(* they use the same lock name.                                            *)
OneCallPerLock ==
  \A a, b \in Requests :
    pc[a] \in InLock /\ pc[b] \in InLock /\ at[a] = at[b] /\ LockName(a) = LockName(b)
    => a = b

(* A retry with the same Idempotency-Key never books a second time.        *)
OneBookingPerKey ==
  \A a, b \in Requests :
    bookings[a] # None /\ bookings[b] # None /\ KeyOf[a] # None /\ KeyOf[a] = KeyOf[b]
    => a = b

(* A retry books a second time only when another process serves it, or     *)
(* when one of the two calls has died or ended in an error.                *)
KeyRepeatsHaveACause ==
  \A a, b \in Requests :
    a # b /\ bookings[a] # None /\ bookings[b] # None /\ KeyOf[a] # None /\ KeyOf[a] = KeyOf[b] =>
      \/ at[a] # at[b]
      \/ \E c \in {a, b} :
           pc[c] = "dead" \/ (result[c] # None /\ result[c].code = "error")

(* The key's document always leads to a stored booking made with that key: *)
(* a retry that finds the key can be answered, whatever crashed.           *)
KeysLeadToBookings ==
  \A k \in IdemKeys :
    idempotency[k] # None => bookings[idempotency[k]] # None /\ KeyOf[idempotency[k]] = k

(* A client told about a booking can rely on it: the document is stored,   *)
(* and it is its own or the one made with its key.                         *)
AnswersAreDurable ==
  \A r \in Requests :
    pc[r] = "done" /\ result[r].code \in {"created", "replayed"} =>
      /\ bookings[result[r].id] # None
      /\ result[r].id = r \/ (KeyOf[r] # None /\ KeyOf[result[r].id] = KeyOf[r])

(* A refused call leaves no booking behind.                                *)
RefusalsLeaveNothing ==
  \A r \in Requests :
    pc[r] = "done" /\ result[r].code \in {"not_found", "invalid", "no_capacity", "conflict", "replayed"}
    => bookings[r] = None

(* What is announced has happened: no event precedes its write.            *)
EventsFollowWrites ==
  \A b \in Requests : \A n \in DOMAIN events[b] :
      /\ bookings[b] # None
      /\ events[b][n] = "cancelled" => bookings[b].status = "CANCELLED"

(* Every call a live process serves is answered: no call waits for ever    *)
(* for a lock, a crashed or failed holder included.                        *)
CallsAreAnswered ==
  \A c \in Calls : InFlight(c) ~> pc[c] \in {"done", "dead"}

(* What the collection promises the rest of the system: see Reservations.  *)
Promise == INSTANCE Reservations WITH ledger <- bookings
ImplementsReservations == Promise!Spec

=============================================================================

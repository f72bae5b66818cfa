--------------------------- MODULE DiscoverSeats ---------------------------
(***************************************************************************)
(* application/use-cases/discover-seats.use-case.ts, and the choice of     *)
(* seats that create-booking.use-case.ts makes before it takes a lock, for *)
(* one request against one set of confirmed bookings: what the user is     *)
(* shown, and what a booking would get.                                    *)
(***************************************************************************)
EXTENDS Seating

CONSTANTS
  Asks,         \* requests considered
  DayBookings,  \* bookings that may exist on the requested day
  OpenWindows,  \* restaurant.windows
  Limit         \* the limit parameter of discover

ASSUME DiscoverAssumption ==
  /\ Limit \in Nat \ {0}
  /\ \A a \in Asks : /\ a.partySize \in Int /\ a.duration \in Int
                     /\ a.window = None \/ a.window \in [start : Int, end : Int]
  /\ \A b \in DayBookings : b.start \in Int /\ b.end \in Int

VARIABLES
  ask,       \* the request
  bookings,  \* findBySectorAndDate: the confirmed bookings of the day
  found,     \* what discover answered
  chosen     \* what create would try to book

seatsVars == <<ask, bookings, found, chosen>>

Errors == {"not_found", "no_capacity", "invalid", "outside_window"}
Error(e) == [error |-> e]
IsError(answer) == "error" \in DOMAIN answer

(* A candidate lies in the window and seats the party in its sector.       *)
FitsAsk(c) ==
  /\ c.tables \in TableSets(ask.sector)
  /\ Seats(c.tables, ask.partySize)
  /\ WindowOf(ask).start <= c.start
  /\ c.end <= WindowOf(ask).end
  /\ c.end = c.start + ask.duration

SeatsTypeOK ==
  /\ ask \in Asks
  /\ bookings \subseteq DayBookings
  /\ \A answer \in {found, chosen} \ {None} : IsError(answer) => answer.error \in Errors
  /\ found # None /\ ~IsError(found) =>
       Cardinality(found.seats) \in 1 .. Limit /\ \A c \in found.seats : FitsAsk(c)
  /\ chosen # None /\ ~IsError(chosen) => FitsAsk(chosen.seat)

(* No two bookings of one table overlap: a day that was booked correctly.  *)
SeatsInit ==
  /\ ask \in Asks
  /\ bookings \in {B \in SUBSET DayBookings :
       \A a, b \in B : a # b /\ a.tables \cap b.tables # {} => ~Overlaps(a, b)}
  /\ found = None
  /\ chosen = None

-----------------------------------------------------------------------------
(* bookings of the asked sector.                                           *)
SectorBookings == {b \in bookings : b.sector = ask.sector}

ServiceHoursRefuse ==
  /\ ask.window # None
  /\ OpenWindows # {}
  /\ \A w \in OpenWindows : ~Overlaps(w, ask.window)

(* DiscoverSeatsUseCase.execute, its checks in the order of the code.      *)
Discover ==
  /\ found = None
  /\ LET candidates == Candidates(ask, SectorBookings)
     IN \/ /\ ask.sector \notin Sectors
           /\ found' = Error("not_found")
        \/ /\ ask.sector \in Sectors
           /\ TablesOf(ask.sector) = {}
           /\ found' = Error("no_capacity")
        \/ /\ ask.sector \in Sectors
           /\ TablesOf(ask.sector) # {}
           /\ ~ValidAsk(ask)
           /\ found' = Error("invalid")
        \/ /\ ask.sector \in Sectors
           /\ TablesOf(ask.sector) # {}
           /\ ValidAsk(ask)
           /\ ServiceHoursRefuse
           /\ found' = Error("outside_window")
        \/ /\ ask.sector \in Sectors
           /\ TablesOf(ask.sector) # {}
           /\ ValidAsk(ask)
           /\ ~ServiceHoursRefuse
           /\ IF candidates = {}
              THEN found' = Error("no_capacity")
              ELSE \E L \in Listings(candidates, ask.partySize, Limit) :
                     found' = [seats |-> L]
  /\ UNCHANGED <<ask, bookings, chosen>>

(* CreateBookingUseCase.execute up to the lock: no service hours here.     *)
Choose ==
  /\ chosen = None
  /\ LET best == BestCandidates(Candidates(ask, SectorBookings), ask.partySize)
     IN \/ /\ ask.sector \notin Sectors
           /\ chosen' = Error("not_found")
        \/ /\ ask.sector \in Sectors
           /\ ~ValidAsk(ask)
           /\ chosen' = Error("invalid")
        \/ /\ ask.sector \in Sectors
           /\ ValidAsk(ask)
           /\ IF best = {}
              THEN chosen' = Error("no_capacity")
              ELSE \E c \in best : chosen' = [seat |-> c]
  /\ UNCHANGED <<ask, bookings, found>>

SeatsNext == Discover \/ Choose

SeatsSpec == SeatsInit /\ [][SeatsNext]_seatsVars

-----------------------------------------------------------------------------
IsFree(seat) ==
  \A b \in SectorBookings : seat.tables \cap b.tables = {} \/ ~Overlaps(seat, b)

(* Reference: the seats a reader of the bookings would offer.  A set of    *)
(* one to four tables that seats the party, from a 15-minute step of the   *)
(* window, ending within it, while none of its tables is booked.           *)
FreeSeats ==
  LET w == WindowOf(ask)
      starts == {s \in w.start .. (w.end - ask.duration) : (s - w.start) % SlotMinutes = 0}
      seats == {[tables |-> T, start |-> s, end |-> s + ask.duration] :
                  T \in TableSets(ask.sector), s \in starts}
  IN {seat \in seats : Seats(seat.tables, ask.partySize) /\ IsFree(seat)}

(* A request is told there is no capacity only when no free seat is left:  *)
(* neither use case overlooks a slot or a combination (the generation of   *)
(* candidates in wokibrain-selection.service.ts).                          *)
RefusedOnlyWhenFull ==
  \A answer \in {found, chosen} \ {None} :
    answer = Error("no_capacity") => FreeSeats = {}

(* The choice is determined up to the order of the tables: the candidates  *)
(* that selectBestCandidate can return start at the same time, take the    *)
(* same number of tables and have the same score ("Deterministic           *)
(* Selection", README.md:1086).                                            *)
ChoiceIsDetermined ==
  ask.sector \in Sectors /\ ValidAsk(ask) =>
    \A c, d \in BestCandidates(Candidates(ask, SectorBookings), ask.partySize) :
      /\ c.start = d.start
      /\ Cardinality(c.tables) = Cardinality(d.tables)
      /\ SameScore(c, d, ask.partySize)

(* The two comparators agree: the seat a booking would get scores as high  *)
(* as the best seat the user was shown for the same request.               *)
ShownSeatsIncludeTheBest ==
  (found # None /\ ~IsError(found) /\ chosen # None) =>
    /\ ~IsError(chosen)
    /\ \E c \in found.seats : SameScore(c, chosen.seat, ask.partySize)
    /\ \A c \in found.seats : ~ScoresHigher(c, chosen.seat, ask.partySize)

-----------------------------------------------------------------------------
(* README.md:1116: "Earliest Time - Selects the earliest available slot":  *)
(* the seat a booking tries is not already booked.                         *)
ChosenSeatIsAvailable ==
  chosen # None /\ ~IsError(chosen) => IsFree(chosen.seat)
=============================================================================

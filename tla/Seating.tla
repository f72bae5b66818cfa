------------------------------ MODULE Seating ------------------------------
(***************************************************************************)
(* How a request for seats becomes a candidate: the pure functions of      *)
(* domain/services/gap-discovery.service.ts and                            *)
(* domain/services/wokibrain-selection.service.ts, and the value objects   *)
(* they use.  Times are minutes of the requested day.                      *)
(*                                                                         *)
(*   ask      [sector, partySize, duration, window]; window is None or a   *)
(*            record [start, end]                                          *)
(*   booking  [sector, tables, start, end, status]                         *)
(*   candidate [tables, start, end, max], max being its capacity.max       *)
(***************************************************************************)
EXTENDS Integers, FiniteSets, FiniteSetsExt, Functions

CONSTANTS
  Sectors,   \* sectors that exist
  Tables,    \* tables of all sectors
  SectorOf,  \* Tables -> Sectors
  MinSize,   \* Tables -> party sizes
  MaxSize,   \* Tables -> party sizes
  None

ASSUME SeatingAssumption ==
  /\ SectorOf \in [Tables -> Sectors]
  /\ MinSize \in [Tables -> Nat \ {0}]
  /\ MaxSize \in [Tables -> Nat \ {0}]
  /\ \A t \in Tables : MinSize[t] <= MaxSize[t]
  /\ IsFiniteSet(Tables)

SlotMinutes == 15
EndOfDay == 24 * 60 - 1    \* 23:59:59; on whole minutes, 23:59
MaxComboSize == 4

Gap(s, e) == [start |-> s, end |-> e]

(* TimeInterval.overlaps: half-open intervals.                             *)
Overlaps(a, b) == a.start < b.end /\ b.start < a.end

(* TimeInterval.create accepts only the 15-minute grid of the hour.        *)
OnGrid(i) == i.start % SlotMinutes = 0 /\ i.end % SlotMinutes = 0

(* Duration.create, TimeWindow.create and the positive party size.         *)
ValidAsk(ask) ==
  /\ ask.duration \in 30 .. 180
  /\ ask.duration % SlotMinutes = 0
  /\ ask.window # None => ask.window.start < ask.window.end
  /\ ask.partySize > 0

WindowOf(ask) == IF ask.window = None THEN Gap(0, EndOfDay) ELSE ask.window

TablesOf(sector) == {t \in Tables : SectorOf[t] = sector}

-----------------------------------------------------------------------------
(* findGapsForTable walks a list in which the two sentinels, [.., window   *)
(* start] and [window end, ..], stand BEFORE the bookings sorted by start. *)
(* Its first neighbours are the sentinels, so the whole window is a gap    *)
(* whatever is booked; no gap follows the second sentinel; then come the   *)
(* gaps between neighbouring bookings.  (Bookings of one table with equal  *)
(* starts are sorted as the database returned them: each may be the last.) *)
GapsOfTable(t, bookings, window) ==
  LET confirmed == {b \in bookings : t \in b.tables}
      Neighbours(a, b) == /\ a.start < b.start
                          /\ \A c \in confirmed : c.start <= a.start \/ b.start <= c.start
      between == {Gap(p[1].end, p[2].start) :
                    p \in {q \in confirmed \X confirmed : Neighbours(q[1], q[2])}}
  IN {g \in {Gap(window.start, window.end)} \cup between :
        g.start < g.end /\ window.start <= g.start /\ g.end <= window.end}

(* What one gap of each table share: the latest start, the earliest end.   *)
Cuts(tables, f) ==
  {g \in {Gap(f[p[1]].start, f[p[2]].end) : p \in tables \X tables} :
     \A t \in tables : f[t].start <= g.start /\ g.end <= f[t].end}

(* intersectAllGaps, over every choice of one gap per table.               *)
SharedGaps(tables, gapsOf) ==
  LET choices == {f \in [tables -> UNION {gapsOf[t] : t \in tables}] :
                    \A t \in tables : f[t] \in gapsOf[t]}
  IN {g \in UNION {Cuts(tables, f) : f \in choices} : g.start < g.end}

(* Variant: the slots are not held to the end of the gap.                  *)
SlotsPastTheEnd(gap, duration) ==
  {Gap(gap.start + SlotMinutes * n, gap.start + SlotMinutes * n + duration) :
     n \in 0 .. (gap.end - gap.start) \div SlotMinutes}

(* Variant: the last slot, which ends exactly with the gap, is not tried.  *)
SlotsWithoutLast(gap, duration) ==
  {s \in {Gap(gap.start + SlotMinutes * n, gap.start + SlotMinutes * n + duration) :
            n \in 0 .. (gap.end - gap.start) \div SlotMinutes} : s.end < gap.end}

(* findSlotsInGap: a slot every 15 minutes from the start of the gap.      *)
SlotsIn(gap, duration) ==
  {s \in {Gap(gap.start + SlotMinutes * n, gap.start + SlotMinutes * n + duration) :
            n \in 0 .. (gap.end - gap.start) \div SlotMinutes} : s.end <= gap.end}

(* canAccommodate of the summed capacities (calculateComboCapacity).       *)
CapacityMin(tables) == SumFunctionOnSet(MinSize, tables)
CapacityMax(tables) == SumFunctionOnSet(MaxSize, tables)

Seats(tables, partySize) ==
  /\ CapacityMin(tables) <= partySize
  /\ partySize <= CapacityMax(tables)

(* The single tables and the combinations of two to four tables.           *)
TableSets(sector) ==
  {T \in SUBSET TablesOf(sector) : Cardinality(T) \in 1 .. MaxComboSize}

(* generateCandidates over the gaps of every table of the sector, from the *)
(* sector's confirmed bookings.                                            *)
Candidates(ask, bookings) ==
  LET gapsOf == [t \in TablesOf(ask.sector) |-> GapsOfTable(t, bookings, WindowOf(ask))]
      slotsOf(T) == UNION {SlotsIn(g, ask.duration) : g \in SharedGaps(T, gapsOf)}
  IN UNION {{[tables |-> T, start |-> s.start, end |-> s.end, max |-> CapacityMax(T)] :
               s \in slotsOf(T)} :
            T \in {U \in TableSets(ask.sector) : Seats(U, ask.partySize)}}

-----------------------------------------------------------------------------
IsSingle(c) == Cardinality(c.tables) = 1

(* calculateScore, times capacity.max: (party/max)*50 + 20 for a single    *)
(* table + 30 for a perfect fit.                                           *)
ScaledScore(c, partySize) ==
  50 * partySize
  + (IF IsSingle(c) THEN 20 * c.max ELSE 0)
  + (IF partySize = c.max THEN 30 * c.max ELSE 0)

ScoresHigher(c, d, partySize) ==
  ScaledScore(c, partySize) * d.max > ScaledScore(d, partySize) * c.max

SameScore(c, d, partySize) ==
  ScaledScore(c, partySize) * d.max = ScaledScore(d, partySize) * c.max

(* Variant: the comparator forgets the start times.                        *)
PrecedesWithoutStart(c, d, partySize) ==
  \/ ScoresHigher(c, d, partySize)
  \/ /\ SameScore(c, d, partySize)
     /\ \/ ~IsSingle(c) /\ IsSingle(d)
        \/ /\ IsSingle(c) = IsSingle(d)
           /\ Cardinality(c.tables) < Cardinality(d.tables)

(* The comparator of selectBestCandidate is negative: c is sorted before d *)
(* by score, then by kind (line 31 puts the combination first), then by    *)
(* start, then by the number of tables.                                    *)
Precedes(c, d, partySize) ==
  \/ ScoresHigher(c, d, partySize)
  \/ /\ SameScore(c, d, partySize)
     /\ \/ ~IsSingle(c) /\ IsSingle(d)
        \/ /\ IsSingle(c) = IsSingle(d)
           /\ \/ c.start < d.start
              \/ /\ c.start = d.start
                 /\ Cardinality(c.tables) < Cardinality(d.tables)

(* selectBestCandidate: the head of the sorted list.  Candidates that      *)
(* compare equal keep the order of the tables, which the query of          *)
(* findBySectorId leaves to the database: any of them.                     *)
BestCandidates(candidates, partySize) ==
  {c \in candidates : \A d \in candidates : ~Precedes(d, c, partySize)}

(* Variant: ascending scores.                                              *)
BeforeAscending(c, d, partySize) ==
  \/ ScoresHigher(d, c, partySize)
  \/ SameScore(c, d, partySize) /\ c.start < d.start

(* The list of discover-seats: by score, then by start, cut at limit; the  *)
(* order of equals is again the database's.                                *)
Before(c, d, partySize) ==
  \/ ScoresHigher(c, d, partySize)
  \/ SameScore(c, d, partySize) /\ c.start < d.start

Listings(candidates, partySize, limit) ==
  {L \in kSubset(Min({limit, Cardinality(candidates)}), candidates) :
     \A c \in L, d \in candidates \ L : ~Before(d, c, partySize)}
=============================================================================

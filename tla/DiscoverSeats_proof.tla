------------------------- MODULE DiscoverSeats_proof -------------------------
(***************************************************************************)
(* Which seats are found, shown and tried, for any sectors, tables,        *)
(* capacities, requests and bookings.                                      *)
(***************************************************************************)
EXTENDS DiscoverSeats, Seating_proof

LEMMA AsksAreFormed ==
  /\ \A a \in Asks : WellFormed(a)
  /\ \A B \in SUBSET DayBookings : AllTimed(B)
BY DiscoverAssumption DEF WellFormed, AllTimed, Timed, Times

-----------------------------------------------------------------------------
(* What the two use cases answer.                                          *)

AskCandidates == Candidates(ask, SectorBookings)
AskBest == BestCandidates(AskCandidates, ask.partySize)

FoundIsRight ==
  \/ found = None
  \/ ask.sector \notin Sectors /\ found = Error("not_found")
  \/ found = Error("invalid") \/ found = Error("outside_window")
  \/ /\ TablesOf(ask.sector) = {} \/ (ValidAsk(ask) /\ AskCandidates = {})
     /\ found = Error("no_capacity")
  \/ /\ ask.sector \in Sectors /\ ValidAsk(ask) /\ AskCandidates # {}
     /\ \E L \in Listings(AskCandidates, ask.partySize, Limit) : found = [seats |-> L]

ChosenIsRight ==
  \/ chosen = None
  \/ ask.sector \notin Sectors /\ chosen = Error("not_found")
  \/ ~ValidAsk(ask) /\ chosen = Error("invalid")
  \/ ask.sector \in Sectors /\ ValidAsk(ask) /\ AskBest = {} /\ chosen = Error("no_capacity")
  \/ \E c \in AskBest : chosen = [seat |-> c]

(* The answers are the functions of the request and of the day's bookings  *)
(* that the code computes; neither changes once they are given.            *)
AnswersInv ==
  /\ ask \in Asks
  /\ bookings \in SUBSET DayBookings
  /\ FoundIsRight
  /\ ChosenIsRight

LEMMA AnswersInitInv == SeatsInit => AnswersInv
BY DEF SeatsInit, AnswersInv, FoundIsRight, ChosenIsRight

LEMMA AnswersInductive == AnswersInv /\ [SeatsNext]_seatsVars => AnswersInv'
<1> SUFFICES ASSUME AnswersInv, [SeatsNext]_seatsVars
             PROVE  AnswersInv'
  OBVIOUS
<1>1. CASE Discover
  <2>1. ask' = ask /\ bookings' = bookings /\ chosen' = chosen
    BY <1>1 DEF Discover
  <2>2. AskCandidates' = AskCandidates /\ AskBest' = AskBest
    BY <2>1 DEF AskCandidates, AskBest, SectorBookings
  <2>3. FoundIsRight'
    <3> DEFINE Listed ==
          \E L \in Listings(AskCandidates, ask.partySize, Limit) : found' = [seats |-> L]
    <3>1. \/ ask.sector \notin Sectors /\ found' = Error("not_found")
          \/ found' = Error("invalid") \/ found' = Error("outside_window")
          \/ /\ TablesOf(ask.sector) = {} \/ (ValidAsk(ask) /\ AskCandidates = {})
             /\ found' = Error("no_capacity")
          \/ /\ ask.sector \in Sectors /\ ValidAsk(ask) /\ AskCandidates # {}
             /\ Listed
      <4>1. \/ ask.sector \notin Sectors /\ found' = Error("not_found")
            \/ TablesOf(ask.sector) = {} /\ found' = Error("no_capacity")
            \/ found' = Error("invalid")
            \/ found' = Error("outside_window")
            \/ /\ ask.sector \in Sectors
               /\ ValidAsk(ask)
               /\ IF AskCandidates = {}
                  THEN found' = Error("no_capacity")
                  ELSE Listed
        BY <1>1, Zenon DEF Discover, AskCandidates
      <4> HIDE DEF Listed
      <4> QED
        BY <4>1
    <3> QED
      BY <2>1, <2>2, <3>1, Zenon DEF FoundIsRight
  <2>4. ChosenIsRight'
    BY <2>1, <2>2 DEF AnswersInv, ChosenIsRight
  <2> QED
    BY <2>1, <2>3, <2>4 DEF AnswersInv
<1>2. CASE Choose
  <2>1. ask' = ask /\ bookings' = bookings /\ found' = found
    BY <1>2 DEF Choose
  <2>2. AskCandidates' = AskCandidates /\ AskBest' = AskBest
    BY <2>1 DEF AskCandidates, AskBest, SectorBookings
  <2>3. ChosenIsRight'
    BY <1>2, <2>1, <2>2 DEF Choose, ChosenIsRight, AskBest, AskCandidates
  <2>4. FoundIsRight'
    BY <2>1, <2>2 DEF AnswersInv, FoundIsRight
  <2> QED
    BY <2>1, <2>3, <2>4 DEF AnswersInv
<1>3. CASE UNCHANGED seatsVars
  <2>1. AskCandidates' = AskCandidates /\ AskBest' = AskBest
    BY <1>3 DEF seatsVars, AskCandidates, AskBest, SectorBookings
  <2> QED
    BY <1>3, <2>1 DEF seatsVars, AnswersInv, FoundIsRight, ChosenIsRight
<1> QED
  BY <1>1, <1>2, <1>3 DEF SeatsNext

LEMMA AnswersHold == SeatsSpec => []AnswersInv
BY AnswersInitInv, AnswersInductive, PTL DEF SeatsSpec

(* What the invariant says of the candidates of the request.               *)
LEMMA AskCandidatesFit ==
  ASSUME AnswersInv
  PROVE  /\ ask.partySize \in Int
         /\ IsFiniteSet(AskCandidates)
         /\ \A c \in AskCandidates : Comparable(c) /\ FitsAsk(c)
         /\ AskBest \subseteq AskCandidates
         /\ AskCandidates # {} => AskBest # {}
<1>1. ask \in Asks /\ SectorBookings \in SUBSET DayBookings
  BY DEF AnswersInv, SectorBookings
<1>2. ask.partySize \in Int
  BY <1>1, AsksAreFormed, AskedTimes
<1>3. \A c \in AskCandidates : Comparable(c) /\ FitsAsk(c)
  BY <1>1, AsksAreFormed, CandidatesFit DEF AskCandidates, FitsAsk
<1>4. IsFiniteSet(AskCandidates)
  BY <1>1, AsksAreFormed, CandidatesAreFinite DEF AskCandidates
<1>5. AskBest \subseteq AskCandidates
  BY DEF AskBest, BestCandidates
<1> QED
  BY <1>2, <1>3, <1>4, <1>5, BestExists DEF AskBest

LEMMA AnswersDiffer ==
  /\ \A e : IsError(Error(e)) /\ Error(e).error = e
  /\ \A e, f : Error(e) = Error(f) => e = f
  /\ \A L : ~IsError([seats |-> L])
  /\ \A c : ~IsError([seat |-> c])
BY DEF IsError, Error

-----------------------------------------------------------------------------
(* Type correctness: the seats shown are at most as many as asked for, and *)
(* they and the seat tried fit the request: its sector, party size, stay   *)
(* and window.                                                             *)
THEOREM SeatTyping == SeatsSpec => []SeatsTypeOK
<1>1. ASSUME AnswersInv
      PROVE  SeatsTypeOK
  <2>1. \A answer \in {found, chosen} \ {None} : IsError(answer) => answer.error \in Errors
    BY <1>1, AnswersDiffer DEF AnswersInv, FoundIsRight, ChosenIsRight, Errors
  <2>2. ASSUME found # None, ~IsError(found)
        PROVE  Cardinality(found.seats) \in 1 .. Limit /\ \A c \in found.seats : FitsAsk(c)
    <3>1. AskCandidates # {}
      BY <1>1, <2>2, AnswersDiffer DEF AnswersInv, FoundIsRight
    <3>2. PICK L \in Listings(AskCandidates, ask.partySize, Limit) : found = [seats |-> L]
      BY <1>1, <2>2, AnswersDiffer DEF AnswersInv, FoundIsRight
    <3>3. PICK b \in AskBest : TRUE
      BY <1>1, <3>1, AskCandidatesFit
    <3>4. L \subseteq AskCandidates /\ Cardinality(L) \in 1 .. Limit
      BY <1>1, <3>1, <3>3, AskCandidatesFit, ListingsHoldTheBest, DiscoverAssumption DEF AskBest
    <3> QED
      BY <1>1, <3>2, <3>4, AskCandidatesFit
  <2>3. ASSUME chosen # None, ~IsError(chosen)
        PROVE  FitsAsk(chosen.seat)
    <3>1. PICK c \in AskBest : chosen = [seat |-> c]
      BY <1>1, <2>3, AnswersDiffer DEF AnswersInv, ChosenIsRight
    <3> QED
      BY <1>1, <3>1, AskCandidatesFit
  <2> QED
    BY <1>1, <2>1, <2>2, <2>3 DEF AnswersInv, SeatsTypeOK
<1> QED
  BY <1>1, AnswersHold, PTL

(* wokibrain-selection.service.ts generateCandidates: neither discover nor *)
(* create says "no capacity" while a set of tables that seats the party is *)
(* free for one of the window's 15-minute steps.                           *)
THEOREM RefusedOnlyWhenFullHolds == SeatsSpec => []RefusedOnlyWhenFull
<1>1. ASSUME AnswersInv
      PROVE  RefusedOnlyWhenFull
  <2> SUFFICES ASSUME NEW answer \in {found, chosen} \ {None},
                      answer = Error("no_capacity"), NEW seat \in FreeSeats
               PROVE  FALSE
    BY DEF RefusedOnlyWhenFull
  <2>1. TablesOf(ask.sector) = {} \/ (ValidAsk(ask) /\ AskCandidates = {})
    BY <1>1, AnswersDiffer, AskCandidatesFit DEF AnswersInv, FoundIsRight, ChosenIsRight
  <2>2. PICK T \in TableSets(ask.sector),
             x \in WindowOf(ask).start .. (WindowOf(ask).end - ask.duration) :
          /\ (x - WindowOf(ask).start) % SlotMinutes = 0
          /\ Seats(T, ask.partySize)
    BY DEF FreeSeats
  <2>3. TablesOf(ask.sector) # {}
    BY <2>2, CombinationsAreFinite
  <2>4. ask \in Asks /\ SectorBookings \in SUBSET DayBookings
    BY <1>1 DEF AnswersInv, SectorBookings
  <2>5. AskCandidates # {}
    BY <2>1, <2>2, <2>3, <2>4, AsksAreFormed, EverySlotIsACandidate DEF AskCandidates
  <2> QED
    BY <2>1, <2>3, <2>5
<1> QED
  BY <1>1, AnswersHold, PTL

(* wokibrain-selection.service.ts selectBestCandidate: any two candidates  *)
(* it may return, whatever order the tables come in, start together, take  *)
(* as many tables and score the same.                                      *)
THEOREM ChoiceIsDeterminedHolds == SeatsSpec => []ChoiceIsDetermined
<1>1. ASSUME AnswersInv
      PROVE  ChoiceIsDetermined
  BY <1>1, AskCandidatesFit, BestAreAlike DEF ChoiceIsDetermined, AskCandidates
<1> QED
  BY <1>1, AnswersHold, PTL

(* discover-seats.use-case.ts and create-booking.use-case.ts sort with     *)
(* comparators of their own: still the seat create tries scores as high as *)
(* the best of the seats discover showed.                                  *)
THEOREM ShownSeatsIncludeTheBestHolds == SeatsSpec => []ShownSeatsIncludeTheBest
<1>1. ASSUME AnswersInv
      PROVE  ShownSeatsIncludeTheBest
  <2> SUFFICES ASSUME found # None, ~IsError(found), chosen # None
               PROVE  /\ ~IsError(chosen)
                      /\ \E c \in found.seats : SameScore(c, chosen.seat, ask.partySize)
                      /\ \A c \in found.seats : ~ScoresHigher(c, chosen.seat, ask.partySize)
    BY DEF ShownSeatsIncludeTheBest
  <2>1. ask.sector \in Sectors /\ ValidAsk(ask) /\ AskCandidates # {}
    BY <1>1, AnswersDiffer DEF AnswersInv, FoundIsRight
  <2>2. PICK L \in Listings(AskCandidates, ask.partySize, Limit) : found = [seats |-> L]
    BY <1>1, AnswersDiffer DEF AnswersInv, FoundIsRight
  <2>3. AskBest # {}
    BY <1>1, <2>1, AskCandidatesFit
  <2>4. PICK b \in AskBest : chosen = [seat |-> b]
    BY <1>1, <2>1, <2>3 DEF AnswersInv, ChosenIsRight
  <2>5. /\ \E c \in L : SameScore(c, b, ask.partySize)
        /\ \A c \in L : ~ScoresHigher(c, b, ask.partySize)
    BY <1>1, <2>1, AskCandidatesFit, ListingsHoldTheBest, DiscoverAssumption DEF AskBest
  <2> QED
    BY <2>2, <2>4, <2>5, AnswersDiffer
<1> QED
  BY <1>1, AnswersHold, PTL
=============================================================================

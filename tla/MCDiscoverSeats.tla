-------------------------- MODULE MCDiscoverSeats --------------------------
(* A sector of three tables whose capacities make single tables,           *)
(* combinations and ties between them possible, a sector without tables    *)
(* and a sector that does not exist.                                       *)
EXTENDS DiscoverSeats, TLC

CONSTANTS t1, t2, t3, s1, s2, s3

MCSectorOf == [t \in Tables |-> s1]
MCMinSize == (t1 :> 2) @@ (t2 :> 1) @@ (t3 :> 1)
MCMaxSize == (t1 :> 10) @@ (t2 :> 2) @@ (t3 :> 3)

Ask(s, p, d, w) == [sector |-> s, partySize |-> p, duration |-> d, window |-> w]

(* One hour, one hour off the hour's grid, one that a slot fits exactly or *)
(* not at all, and one outside MCOpenWindows.                              *)
Windows == {Gap(0, 60), Gap(10, 70), Gap(0, 30), Gap(600, 660)}

MCAsks ==
  {Ask(s1, p, d, w) : p \in {2, 4, 5}, d \in {30, 45}, w \in Windows}
  \cup {Ask(s1, 20, 30, Gap(0, 60)), Ask(s1, 4, 20, Gap(0, 60)),
        Ask(s1, 4, 30, Gap(60, 0)), Ask(s2, 4, 30, Gap(0, 60)),
        Ask(s3, 4, 30, Gap(0, 60))}

Booked(T, s, e) ==
  [sector |-> s1, tables |-> T, start |-> s, end |-> e, status |-> "CONFIRMED"]

MCDayBookings ==
  {Booked({t1}, 0, 30), Booked({t1}, 45, 75), Booked({t2}, 0, 60),
   Booked({t2, t3}, 60, 90), Booked({t3}, 15, 45)}

MCOpenWindows == {Gap(0, 120)}
=============================================================================

----------------------------- MODULE MCBooking -----------------------------
(* Requests, tables and keys for the runs of Booking.                      *)
EXTENDS Booking, TLC

CONSTANTS t1, t2, t3, s1, s2, R1, R2, r1, r2, r3, r4, r5, r6, k1, k2

(* Tables for up to four, all in sector s1, or all but one in sector s2.   *)
MCSectorOf == [t \in Tables |-> s1]
CallSectorOf == [t \in Tables |-> IF t = t1 THEN s1 ELSE s2]
MCMinSize == [t \in Tables |-> 2]
MCMaxSize == [t \in Tables |-> 4]

AskAt(rest, s, p, d, w) ==
  [restaurant |-> rest, sector |-> s, partySize |-> p, duration |-> d, window |-> w]
AskFor(p, d, w) == AskAt(R1, s1, p, d, w)
Hour == Gap(0, 60)

(* Parties that want a table from the start of the hour, one for longer.   *)
SlotAsks == (r1 :> AskFor(4, 30, Gap(0, 30))) @@ (r2 :> AskFor(3, 45, Gap(0, 45)))
            @@ (r3 :> AskFor(4, 30, Gap(0, 30)))

(* A request, its retry, and one whose seat is off the grid; and three     *)
(* whose locks differ: one table for half an hour in two restaurants'      *)
(* names, and both tables of the sector from a later start.                *)
CallAsks == (r1 :> AskFor(4, 30, Hour)) @@ (r2 :> AskFor(4, 30, Hour))
            @@ (r3 :> AskFor(4, 30, Gap(10, 60)))
            @@ (r4 :> AskAt(R1, s2, 4, 30, Gap(0, 30)))
            @@ (r5 :> AskAt(R2, s2, 3, 30, Gap(0, 30)))
            @@ (r6 :> AskAt(R1, s2, 6, 30, Gap(15, 45)))

NoKeys == [r \in Requests |-> None]
RetriedKey == [r \in Requests |-> IF r \in {r1, r2} THEN k1 ELSE None]
OwnKeys == (r1 :> k1) @@ (r2 :> k2)

(* The bound of the run with all six: the calls of a behaviour are all of *)
(* one sector, and a cancellation is of a booking of the first.            *)
Elsewhere == {r4, r5, r6}

CallsNext ==
  \/ \E c \in Calls, i \in Instances :
       /\ \A d \in Calls : pc[d] # "start" => (c \in Elsewhere <=> d \in Elsewhere)
       /\ Arrive(c, i)
       /\ c \in Deletes => target'[c] \notin Elsewhere
  \/ Serve

CallsSpec == Init /\ [][CallsNext]_vars
=============================================================================

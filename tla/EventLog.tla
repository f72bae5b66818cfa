------------------------------ MODULE EventLog ------------------------------
(***************************************************************************)
(* What the event store promises: per aggregate a log whose slots are      *)
(* versions 1, 2, ... without gaps, that only grows at its end.  A slot    *)
(* holds the calls that wrote an event of that version; as long as the log *)
(* is not strict two calls may share a slot, and it becomes strict only    *)
(* when no slot is shared.                                                 *)
(***************************************************************************)
EXTENDS Naturals

CONSTANTS Aggregates, Calls

VARIABLES log, strict

slots(a) == DOMAIN log[a]

Init == log = [a \in Aggregates |-> [v \in {} |-> {}]] /\ strict \in BOOLEAN

(* Call c writes version v: the next one, or one that is there.            *)
Write(a, v, c) ==
  /\ v \in Nat
  /\ slots(a) \cup {v} = 1 .. v \/ (~strict /\ v \in slots(a))
  /\ strict => v \notin slots(a)
  /\ log' = [log EXCEPT ![a] =
               [w \in slots(a) \cup {v} |->
                  (IF w \in slots(a) THEN log[a][w] ELSE {}) \cup (IF w = v THEN {c} ELSE {})]]
  /\ UNCHANGED strict

Seal ==
  /\ \A a \in Aggregates : \A v \in slots(a) : \A c, d \in log[a][v] : c = d
  /\ strict' = TRUE
  /\ UNCHANGED log

Next == Seal \/ \E a \in Aggregates, c \in Calls : \E v \in DOMAIN log'[a] : Write(a, v, c)

Spec == Init /\ [][Next]_<<log, strict>>
=============================================================================

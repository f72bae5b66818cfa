------------------------------- MODULE MCRooms -------------------------------
(* The two events of a booking in a restaurant with one sector.            *)
EXTENDS Rooms

CONSTANTS R, S, created, cancelled

(* A creation's payload names its booking's rooms, a cancellation's none.  *)
MCBookingRooms == [e \in Broadcasts |-> {R, S}]
MCPayloadRooms == [e \in Broadcasts |-> IF e = created THEN {R, S} ELSE {}]
=============================================================================

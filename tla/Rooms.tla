-------------------------------- MODULE Rooms --------------------------------
(***************************************************************************)
(* infrastructure/websocket/websocket-server.ts and the worker that hands  *)
(* it events, websocket-event-worker.service.ts.  Each process has its own *)
(* sockets and rooms; an event is consumed by one process (two at a        *)
(* rebalance), which sends it to the rooms its payload names.  Only        *)
(* BookingCreated names any: the payload of BookingCancelled has neither a *)
(* restaurant nor a sector.                                                *)
(***************************************************************************)
EXTENDS Naturals

CONSTANTS
  Hosts,        \* server processes
  Sockets,
  RestaurantRooms,
  SectorRooms,
  Broadcasts,   \* events
  BookingRooms, \* the rooms of each event's booking
  PayloadRooms, \* those of them its payload names
  Nowhere

RoomNames == RestaurantRooms \cup SectorRooms

ASSUME RoomsAssumption ==
  /\ RestaurantRooms \cap SectorRooms = {}
  /\ BookingRooms \in [Broadcasts -> SUBSET RoomNames]
  /\ PayloadRooms \in [Broadcasts -> SUBSET RoomNames]
  /\ \A e \in Broadcasts : PayloadRooms[e] \subseteq BookingRooms[e]
  /\ Nowhere \notin Hosts

VARIABLES
  host,     \* the process a socket is connected to, or Nowhere
  rooms,    \* socket.io: the rooms of each socket
  ack,      \* the subscriptions each socket has been told it has
  heard,    \* how often each socket has received each event
  sentBy    \* the processes that have broadcast each event

roomVars == <<host, rooms, ack, heard, sentBy>>

RoomsTypeOK ==
  /\ host \in [Sockets -> Hosts \cup {Nowhere}]
  /\ rooms \in [Sockets -> SUBSET RoomNames]
  /\ ack \in [Sockets -> SUBSET RoomNames]
  /\ heard \in [Sockets -> [Broadcasts -> Nat]]
  /\ sentBy \in [Broadcasts -> SUBSET Hosts]

RoomsInit ==
  /\ host = [s \in Sockets |-> Nowhere]
  /\ rooms = [s \in Sockets |-> {}]
  /\ ack = [s \in Sockets |-> {}]
  /\ heard = [s \in Sockets |-> [e \in Broadcasts |-> 0]]
  /\ sentBy = [e \in Broadcasts |-> {}]

(* The data of a message: a restaurant, a sector, both or neither.         *)
Data == {R \cup S : R \in {{}} \cup {{r} : r \in RestaurantRooms},
                    S \in {{}} \cup {{s} : s \in SectorRooms}}

ConnectSocket(s, p) ==
  /\ host[s] = Nowhere
  /\ host' = [host EXCEPT ![s] = p]
  /\ UNCHANGED <<rooms, ack, heard, sentBy>>

(* External: socket.io takes a socket that disconnects out of its rooms.   *)
DisconnectSocket(s) ==
  /\ host[s] # Nowhere
  /\ host' = [host EXCEPT ![s] = Nowhere]
  /\ rooms' = [rooms EXCEPT ![s] = {}]
  /\ ack' = [ack EXCEPT ![s] = {}]
  /\ UNCHANGED <<heard, sentBy>>

(* handleSubscribe, with its answer `subscribed'.                          *)
SubscribeRooms(s, data) ==
  /\ host[s] # Nowhere
  /\ rooms' = [rooms EXCEPT ![s] = @ \cup data]
  /\ ack' = [ack EXCEPT ![s] = @ \cup data]
  /\ UNCHANGED <<host, heard, sentBy>>

(* Variant: a restaurant's unsubscription leaves its sectors too.          *)
UnsubscribeAllRooms(s, data) ==
  /\ host[s] # Nowhere
  /\ rooms' = [rooms EXCEPT ![s] = IF data = {} THEN @ ELSE {}]
  /\ ack' = [ack EXCEPT ![s] = @ \ data]
  /\ UNCHANGED <<host, heard, sentBy>>

(* handleUnsubscribe, with its answer `unsubscribed'.                      *)
UnsubscribeRooms(s, data) ==
  /\ host[s] # Nowhere
  /\ rooms' = [rooms EXCEPT ![s] = @ \ data]
  /\ ack' = [ack EXCEPT ![s] = @ \ data]
  /\ UNCHANGED <<host, heard, sentBy>>

(* One emit per room the payload names: a socket in two of them hears the  *)
(* event twice.                                                            *)
Copies(s, e) ==
  (IF rooms[s] \cap PayloadRooms[e] \cap RestaurantRooms # {} THEN 1 ELSE 0)
  + (IF rooms[s] \cap PayloadRooms[e] \cap SectorRooms # {} THEN 1 ELSE 0)

(* handleEvent, broadcastEvent.                                            *)
Broadcast(p, e) ==
  /\ p \notin sentBy[e]
  /\ sentBy' = [sentBy EXCEPT ![e] = @ \cup {p}]
  /\ heard' = [s \in Sockets |->
                 IF host[s] = p THEN [heard[s] EXCEPT ![e] = @ + Copies(s, e)] ELSE heard[s]]
  /\ UNCHANGED <<host, rooms, ack>>

RoomsNext ==
  \/ \E s \in Sockets : \/ \E p \in Hosts : ConnectSocket(s, p)
                        \/ DisconnectSocket(s)
                        \/ \E data \in Data : SubscribeRooms(s, data) \/ UnsubscribeRooms(s, data)
  \/ \E p \in Hosts, e \in Broadcasts : Broadcast(p, e)

RoomsSpec == RoomsInit /\ [][RoomsNext]_roomVars

(* Each event is consumed by some process of the consumer group: which one *)
(* is Kafka's choice, and a second need not.                               *)
RoomsFairness ==
  \A e \in Broadcasts : WF_roomVars(\E p \in Hosts : sentBy[e] = {} /\ Broadcast(p, e))

RoomsFairSpec == RoomsSpec /\ RoomsFairness

-----------------------------------------------------------------------------
(* A broadcast reaches every socket of its process that was told it has a  *)
(* subscription the payload names and has not given it up, and only        *)
(* sockets with a subscription for the event's booking.                    *)
SubscribersHear ==
  [][\A s \in Sockets, p \in Hosts, e \in Broadcasts :
       p \in sentBy'[e] \ sentBy[e] =>
         /\ host[s] = p /\ ack[s] \cap PayloadRooms[e] # {} => heard'[s][e] > heard[s][e]
         /\ heard'[s][e] > heard[s][e] => ack[s] \cap BookingRooms[e] # {}]_roomVars

(* asyncapi.yaml:24: an event is broadcast `to all subscribed WebSocket    *)
(* clients', and :150, `when a booking is created, updated, or cancelled': *)
(* who subscribes to a booking's room before its events are sent, and      *)
(* stays, hears one of them if its own process consumes one.  Either line  *)
(* is enough: by the first it hears the creation, wherever that is         *)
(* consumed, by the second the event its own process consumes.             *)
SubscribersLearnOfBookings ==
  \A s \in Sockets, r \in RoomNames :
    r \in ack[s] /\ (\A e \in Broadcasts : r \in BookingRooms[e] /\ sentBy[e] = {})
      ~> \/ \E e \in Broadcasts : heard[s][e] > 0
         \/ r \notin ack[s]
         \/ \A e \in Broadcasts : sentBy[e] # {} /\ host[s] \notin sentBy[e]
=============================================================================

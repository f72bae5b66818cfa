\* Violated: a booking's creation is consumed elsewhere, and its cancellation names no room.  Every event is sent and the sockets may rest.
CONSTANTS
  R = R
  S = S
  created = created
  cancelled = cancelled
  Hosts = {p1, p2}
  Sockets = {s1}
  RestaurantRooms = {R}
  SectorRooms = {S}
  Broadcasts = {created, cancelled}
  BookingRooms <- MCBookingRooms
  PayloadRooms <- MCPayloadRooms
  Nowhere = Nowhere
SPECIFICATION RoomsFairSpec
PROPERTIES
  SubscribersLearnOfBookings
CHECK_DEADLOCK FALSE

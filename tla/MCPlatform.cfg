\* One behaviour of one part at a time; every part may come to an end.
CONSTANTS
  a1 = a1
  c1 = c1
  c2 = c2
  c3 = c3
  e1 = e1
  e2 = e2
  R = R
  S = S
  Aggregates = {a1}
  Calls = {c1, c2, c3}
  StreamOf <- MCStreamOf
  Size <- MCSize
  Holders = {h1, h2, h3}
  LockKeys = {k1, k2}
  Nobody = Nobody
  FlagServers = {p1, p2}
  MaxChanges = 3
  MaxSent = 2
  Readers = {r1, r2}
  MaxVersions = 4
  Missing = Missing
  Runners = {n1, n2, n3}
  Rollbacks = {b1}
  LastMigration = 3
  HookIds = {w1, w2}
  Urls = {u1, u2}
  HookEvents = {"booking.created"}
  Requests = {q1, q2}
  MaxRequests = 2
  NoHook = NoHook
  Clients = {x1, x2}
  WsClients = {y1}
  Signals = {sigterm, sigint}
  MaxUpsets = 1
  Hosts = {p1, p2}
  Sockets = {s1, s2}
  RestaurantRooms = {R}
  SectorRooms = {S}
  Broadcasts = {e1, e2}
  BookingRooms <- MCBookingRooms
  PayloadRooms <- MCPayloadRooms
  Nowhere = Nowhere
  RestaurantIds = {R1, R2}
  SectorIds = {S1, S2}
  TableIds = {T1, T2}
  Admins = {m1, m2}
  Guests = {g1, g2}
  SeedRestaurant = R1
  SeedSector = S1
  SeedTable = T1
  SeedBooking = B1
  Absent = Absent
SPECIFICATION Spec
INVARIANTS
  TypeOK
  AppendsAreWhole
  OverlapNeedsLostEntry
  StaleEntriesHaveACause
  RecordedAreEffective
  RequestsAreSerial
  CutRequestsHaveACause
  DoubledTablesHaveACause
PROPERTIES
  ImplementsEventLog
  CopiesNeverGoBack
  ShutdownEnds
  SubscribersHear
CHECK_DEADLOCK FALSE

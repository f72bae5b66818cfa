\* Three creates that contend for one lock and a cancellation, with a crash and a failing call; the calls end.
CONSTANTS
  t1 = t1
  t2 = t2
  t3 = t3
  s1 = s1
  s2 = s2
  R1 = R1
  R2 = R2
  r1 = r1
  r2 = r2
  r3 = r3
  r4 = r4
  r5 = r5
  r6 = r6
  k1 = k1
  k2 = k2
  None = None
  Sectors = {s1}
  Tables = {t1}
  SectorOf <- MCSectorOf
  MinSize <- MCMinSize
  MaxSize <- MCMaxSize
  Restaurants = {R1}
  Requests = {r1, r2, r3}
  Deletes = {d1}
  Instances = {i1}
  IdemKeys = {}
  Ask <- SlotAsks
  KeyOf <- NoKeys
  MaxCrashes = 1
  MaxFaults = 1
SPECIFICATION FairSpec
INVARIANTS
  TypeOK
  CheckedSeatStaysFree
  NoDoubleBooking
PROPERTIES
  ImplementsReservations
  CallsAreAnswered
CHECK_DEADLOCK FALSE

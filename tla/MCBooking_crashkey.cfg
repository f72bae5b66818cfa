\* Violated: a crash between the two writes of saveWithIdempotencyKey; the calls end.
CONSTANTS
  t1 = t1
  t2 = t2
  t3 = t3
  s1 = s1
  s2 = s2
  R1 = R1
  R2 = R2
  r1 = r1
  r2 = r2
  r3 = r3
  r4 = r4
  r5 = r5
  r6 = r6
  k1 = k1
  k2 = k2
  None = None
  Sectors = {s1}
  Tables = {t1, t2}
  SectorOf <- MCSectorOf
  MinSize <- MCMinSize
  MaxSize <- MCMaxSize
  Restaurants = {R1}
  Requests = {r1, r2}
  Deletes = {}
  Instances = {i1}
  IdemKeys = {k1}
  Ask <- SlotAsks
  KeyOf <- RetriedKey
  MaxCrashes = 1
  MaxFaults = 0
SPECIFICATION Spec
INVARIANTS
  OneBookingPerKey
CHECK_DEADLOCK FALSE

\* Two processes, a crash and a failing call, and calls of one sector: a create and its retry, a create
\* refused for its seat and a cancellation; or three creates with different locks.  The calls end.
CONSTANTS
  t1 = t1
  t2 = t2
  t3 = t3
  s1 = s1
  s2 = s2
  R1 = R1
  R2 = R2
  r1 = r1
  r2 = r2
  r3 = r3
  r4 = r4
  r5 = r5
  r6 = r6
  k1 = k1
  k2 = k2
  None = None
  Sectors = {s1, s2}
  Tables = {t1, t2, t3}
  SectorOf <- CallSectorOf
  MinSize <- MCMinSize
  MaxSize <- MCMaxSize
  Restaurants = {R1, R2}
  Requests = {r1, r2, r3, r4, r5, r6}
  Deletes = {d1}
  Instances = {i1, i2}
  IdemKeys = {k1}
  Ask <- CallAsks
  KeyOf <- RetriedKey
  MaxCrashes = 1
  MaxFaults = 1
SPECIFICATION CallsSpec
INVARIANTS
  DoubleBookingsHaveACause
  KeyRepeatsHaveACause
  RefusalsLeaveNothing
  KeysLeadToBookings
  AnswersAreDurable
  EventsFollowWrites
CHECK_DEADLOCK FALSE

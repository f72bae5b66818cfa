\* Violated: a booking tries a seat that is already booked.
CONSTANTS
  t1 = t1
  t2 = t2
  t3 = t3
  s1 = s1
  s2 = s2
  s3 = s3
  None = None
  Sectors = {s1, s2}
  Tables = {t1, t2, t3}
  SectorOf <- MCSectorOf
  MinSize <- MCMinSize
  MaxSize <- MCMaxSize
  Asks <- MCAsks
  DayBookings <- MCDayBookings
  OpenWindows <- MCOpenWindows
  Limit = 3
SPECIFICATION SeatsSpec
INVARIANT
  ChosenSeatIsAvailable
CHECK_DEADLOCK FALSE

\* Violated: a projected booking cannot be read; no failures.  The calls end.
CONSTANTS
  None = None
  Keys = {b1}
  Events = {"BookingCreated", "BookingCancelled"}
  Processes = {p1, p2}
  Workers <- MCWorkers
  Startup <- MCStartup
  MaxFailures = 0
  MaxExits = 0
  MaxRebalances = 0
SPECIFICATION Spec
INVARIANTS
  ProjectedBookingsAreShown
CHECK_DEADLOCK FALSE

\* One booking, created and cancelled, two processes, one failure, one end of a
\* process and one rebalance.
CONSTANTS
  None = None
  Keys = {b1}
  Events = {"BookingCreated", "BookingCancelled"}
  Processes = {p1, p2}
  Workers <- MCWorkers
  Startup <- MCStartup
  MaxFailures = 1
  MaxExits = 1
  MaxRebalances = 1
SPECIFICATION FairSpec
INVARIANTS
  TypeOK
  ViewIsNeverAhead
  StaleViewsHaveACause
  TrailHasNoGaps
  CountedOnce
PROPERTIES
  EventsAreConsumed
CHECK_DEADLOCK FALSE

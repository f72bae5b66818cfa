\* One behaviour of one service at a time.  Three calls and two keys: one
\* holder and two waiters on a key, or two keys held at once.  29 requests
\* against every conflict-free set of five bookings, one answer of each use
\* case.  Two webhooks and URLs, one event type, one request, one event to
\* deliver, three posts per delivery, one death.  Answers and deliveries end.
CONSTANTS
  Callers = {c1, c2, c3}
  Keys = {k1, k2}
  NoOne = NoOne
  t1 = t1
  t2 = t2
  t3 = t3
  s1 = s1
  s2 = s2
  s3 = s3
  None = None
  Sectors = {s1, s2}
  Tables = {t1, t2, t3}
  SectorOf <- MCSectorOf
  MinSize <- MCMinSize
  MaxSize <- MCMaxSize
  Asks <- MCAsks
  DayBookings <- MCDayBookings
  OpenWindows <- MCOpenWindows
  Limit = 3
  NoHook = NoHook
  HookIds = {h1, h2}
  Urls = {u1, u2}
  HookEvents = {"booking.created"}
  Requests = {r1}
  MaxRequests = 1
  a1 = a1
  Announcements = {a1}
  EventOf <- MCEventOf
  MaxRetries = 3
  MaxDeaths = 1
SPECIFICATION ServicesSpec
INVARIANTS
  TypeOK
  MutualExclusion
  MapMatchesHolders
  SeatsTypeOK
  RefusedOnlyWhenFull
  ChoiceIsDetermined
  ShownSeatsIncludeTheBest
  RetriesFollowFailures
PROPERTIES
  WaitersAreWoken
  ImplementsMutex
  SubscribersAreServed
CHECK_DEADLOCK FALSE

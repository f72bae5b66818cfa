\* Violated: a delivery is posted again after a 4xx.  The deliveries end.
CONSTANTS
  NoHook = NoHook
  HookIds = {h1, h2}
  Urls = {u1, u2}
  HookEvents = {"booking.created"}
  Requests = {r1}
  MaxRequests = 1
  a1 = a1
  Announcements = {a1}
  EventOf <- MCEventOf
  MaxRetries = 3
  MaxDeaths = 1
SPECIFICATION WebhookSpec
INVARIANTS
  ClientErrorsAreFinal
CHECK_DEADLOCK FALSE

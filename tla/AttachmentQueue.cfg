SPECIFICATION FairSpec
CONSTANTS
  Attachments = {a1, a2}
  Jobs = {j1, j2}
  Workers = {w1, w2}
  Users = {u1}
  None = None
  Unmailable = {a2}
  MaxRetries = 2
  MaxFaults = 1
INVARIANTS AtMostOncePerSchedule NoConcurrentRun PendingHasJob
PROPERTIES PendingIsHandled ImplementsLifecycle

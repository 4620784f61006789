CONSTANTS
  MaxKeys = 3
  MaxGrants = 2
  Requests = {q1, q2}
  Polls = {p1, p2}
  PendingLimit = 1
  Starters = {container, byhand}
  Container = container
  Versions = 2
  Emails = {e1, e2}
  OwnerEmail = e1
  Clients = {"c1", "c2", "c3"}
  Body <- BodyMC
  MaxMailings = 2
  Sources = {s1, s2}
  Gaps = {0, 1, 3}
  MaxAttempts = 2
  MaxEntries = 1
  Window = 2
  MaxCalls = 4
  Topics = {t1, t2}
SPECIFICATION AccessSpec
CHECK_DEADLOCK FALSE
INVARIANTS KeysDescend OneKeyPerGrant StartedOnce OneMailingPerKey LimiterIsExact AcceptedIsReady
PROPERTY ServiceServes

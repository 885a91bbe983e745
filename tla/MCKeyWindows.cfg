\* Limits per minute, per day and per month for two requests that may wait a tick for
\* the mutex after they read the clock, over turns of all three windows, a crash and
\* revocations that fail.
SPECIFICATION Spec
CONSTANTS
  r1 = r1  r2 = r2  r3 = r3  r4 = r4  kd = kd  k1 = k1  s0 = s0  s1 = s1  s2 = s2  s3 = s3
  NoKey = NoKey  NoSecret = NoSecret
  Requests = {r1, r2}
  Keys = {kd, k1}
  Default = kd
  Secrets = {s0, s1}
  DefaultSecrets = {s0}
  Quotas <- WindowQuotas
  Usages <- OneUsage
  Admin = {"create", "revoke"}
  Failing = {"revoke"}
  MinuteLen = 2
  DayLen = 3
  MonthLen = 4
  MonthShift = 3
  MaxLag = 1
  MaxTime = 5
  MaxCrashes = 1
SYMMETRY Symmetric
INVARIANTS
  OvershootBounded
PROPERTIES
  QuotaHonoured
CHECK_DEADLOCK FALSE

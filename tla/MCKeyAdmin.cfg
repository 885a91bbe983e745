\* Three requests while the operator creates, updates, rotates and revokes keys, over
\* a restart that may bring another PLATFORM_API_KEY.
SPECIFICATION Spec
CONSTANTS
  r1 = r1  r2 = r2  r3 = r3  r4 = r4  kd = kd  k1 = k1  s0 = s0  s1 = s1  s2 = s2  s3 = s3
  NoKey = NoKey  NoSecret = NoSecret
  Requests = {r1, r2, r3}
  Keys = {kd, k1}
  Default = kd
  Secrets = {s0, s1, s2, s3}
  DefaultSecrets = {s0, s3}
  Quotas <- PairQuotas
  Usages <- OneUsage
  Admin = {"create", "update", "rotate", "revoke"}
  Failing = {"usage"}
  MinuteLen = 1
  DayLen = 2
  MonthLen = 4
  MonthShift = 1
  MaxLag = 0
  MaxTime = 0
  MaxCrashes = 1
SYMMETRY Symmetric
INVARIANTS
  TypeOK
  KeySlotsConserved
  OneSecretPerKey
  RevokedStaysOut
PROPERTIES
  RotatedStaysDead
CHECK_DEADLOCK FALSE

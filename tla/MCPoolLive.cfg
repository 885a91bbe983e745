\* A session and a plain request compete for the one slot of an account that an operator
\* edits: every request ends, and what was replaced or removed drains.
SPECIFICATION FairSpec
CONSTANTS
  r1 = r1  r2 = r2  r3 = r3  o1 = o1  o2 = o2  o3 = o3  o4 = o4  a = a  b = b
  op = op  s1 = s1  s2 = s2  m1 = m1  m2 = m2
  NoObject = NoObject  NoId = NoId  NoSession = NoSession
  Requests = {r1, r2}
  Objects = {o1, o2}
  AccountIds = {a}
  Operators = {op}
  Sessions = {s1}
  AffinityGroup = {s1}
  Models = {m1}
  Configs <- SingleConfigs
  Initial <- AloneManaged
  SessionOf <- SessionOne
  ModelOf <- SameModel
  Replayable = {r1}
  Cancellable = {}
  Outcomes = {"ok", "error", "cancelled"}
  Hints = {0}
  TPS = 1
  ServerCool = 1
  AuthCool = 2
  PaymentCool = 2
  HintCap = 2
  MaxTime = 0
PROPERTIES
  SlotPoolSpec
  EveryRequestEnds
  RetiredDrains

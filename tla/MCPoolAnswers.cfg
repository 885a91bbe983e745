\* Two requests, every status class, cooldowns that expire, two models, one body
\* that cannot be sent twice.
SPECIFICATION Spec
CONSTANTS
  r1 = r1  r2 = r2  r3 = r3  o1 = o1  o2 = o2  o3 = o3  o4 = o4  a = a  b = b
  op = op  s1 = s1  s2 = s2  m1 = m1  m2 = m2
  NoObject = NoObject  NoId = NoId  NoSession = NoSession
  Requests = {r1, r2}
  Objects = {o1, o2}
  AccountIds = {a, b}
  Operators = {}
  Sessions = {}
  AffinityGroup = {}
  Models = {m1, m2}
  Configs <- ModelConfigs
  Initial <- ByModel
  SessionOf <- NoSessions
  ModelOf <- ModelEach
  Replayable = {r1}
  Cancellable = {r1, r2}
  Outcomes = {"ok", "rejected", "unauthorized", "payment", "limited", "server", "server_other", "error", "cancelled"}
  Hints = {0, 3}
  TPS = 1
  ServerCool = 1
  AuthCool = 2
  PaymentCool = 2
  HintCap = 2
  MaxTime = 2
INVARIANTS
  TypeOK
  LedgerTellsTheTruth
  ChargedOnce

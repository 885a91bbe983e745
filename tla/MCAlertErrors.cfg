\* Requests of a key that end at the same time as others, with a window the operator
\* lengthens, and a crash.
SPECIFICATION Spec
CONSTANTS
  a = a  o1 = o1  o2 = o2  vk = vk  p = p  h1 = h1  h2 = h2
  NoScope = NoScope
  AccountIds = {a}
  Objects = {o1}
  Ident <- Ids
  Initial = {}
  Keys = {vk}
  QuotaKinds <- TokenQuota
  Answers <- NoAnswers
  Levels = {"full"}
  Poller = p
  Handlers = {h1, h2}
  Settings <- TwoWindows
  MayFail = {}
  Silences = {1}
  Minute = 2
  MaxLag = 1
  MaxTime = 3
  CompactAt = 1
  MaxEvents = 3
SYMMETRY Symmetric
INVARIANTS
  WindowHonest
CHECK_DEADLOCK FALSE

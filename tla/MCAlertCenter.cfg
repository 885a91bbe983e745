\* An account that is polled, checked, replaced and removed, with an operator who
\* acknowledges, silences and resolves, and a crash.
SPECIFICATION FairSpec
CONSTANTS
  a = a  o1 = o1  o2 = o2  vk = vk  p = p  h1 = h1  h2 = h2
  NoScope = NoScope
  AccountIds = {a}
  Objects = {o1, o2}
  Ident <- Ids
  Initial = {o1}
  Keys = {}
  QuotaKinds <- NoQuota
  Answers <- BalanceAnswers
  Levels = {}
  Poller = p
  Handlers = {h1}
  Settings <- AllOrCritical
  MayFail <- LowBalanceFails
  Silences = {1}
  Minute = 2
  MaxLag = 0
  MaxTime = 2
  CompactAt = 1
  MaxEvents = 2
INVARIANTS
  TypeOK
  ReceiverKnows
  RowsFollow
PROPERTY
  AccountAlertsSettle
CHECK_DEADLOCK FALSE

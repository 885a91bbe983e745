\* Three sessions compete for a table of two, entries live three ticks, callers may
\* come a tick late.
SPECIFICATION Spec
CONSTANTS
  c1 = c1  c2 = c2  s1 = s1  s2 = s2  s3 = s3  a = a  b = b
  NoAccount = NoAccount  NoSession = NoSession
  Sessions = {s1, s2, s3}
  Accounts = {a, b}
  Callers = {c1, c2}
  TTL = 3
  MaxEntries = 2
  MaxLag = 1
  MaxTime = 5
SYMMETRY Symmetric
INVARIANTS
  TypeOK
  WorkingSetKept
PROPERTIES
  ExpiryHonoured
  SessionTableSpec

\* Two rotations, two writers, two accounts and two virtual keys, backups and a crash.
SPECIFICATION Spec
CONSTANTS
  a1 = a1  a2 = a2  v0 = v0  v1 = v1  m1 = m1  m2 = m2  m3 = m3  w1 = w1  w2 = w2
  NoKey = NoKey  NoRow = NoRow
  Accounts = {a1, a2}
  VirtualKeys = {v0, v1}
  Default = v0
  MasterKeys = {m1, m2, m3}
  Environments <- NoEnvironment
  Writers = {w1, w2}
  MaxCrashes = 1
SYMMETRY Symmetric
INVARIANTS
  TypeOK
  Readable
  BackupRestorable

\* The default key and another, two accounts, two requests under way. The operator
\* may stop, with nothing under way.
SPECIFICATION Spec
CONSTANTS
  default = default  k1 = k1  u1 = u1  u2 = u2
  Keys = {default, k1}
  Default = default
  Accounts = {u1, u2}
  MaxCalls = 2
  MaxActions = 3
  MaxEvents = 1
  None = None
SYMMETRY Symmetric
INVARIANTS
  TypeOK
  TargetIsShown
PROPERTIES
  OnlyWhatWasMeant
CHECK_DEADLOCK FALSE

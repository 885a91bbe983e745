\* Two keys and the configured one, two requests under way, one reload.
SPECIFICATION Spec
CONSTANTS
  k1 = k1  k2 = k2  config = config
  AdminKeys = {k1, k2}
  ConfigKey = config
  NoKey = NoKey
  MaxCalls = 2
  MaxLoads = 2
INVARIANTS
  TypeOK
  OneSetupWins
  BrowserFollowsRotation
PROPERTIES
  SpinnerEnds

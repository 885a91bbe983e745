\* Two alerts, a price rule there is and one to come, two requests under way.
SPECIFICATION Spec
CONSTANTS
  a1 = a1  a2 = a2  r1 = r1  r2 = r2
  Alerts = {a1, a2}
  Rules = {r1, r2}
  Seeded = {r1}
  MaxQuery = 1
  MaxCalls = 2
  MaxActions = 2
  MaxEvents = 1
  None = None
INVARIANTS
  TypeOK
  ToldIsShown
  NoFormStuck
PROPERTIES
  AlertsCatchUp

CONSTANTS
  Calls = {1, 2, 3}
  Products = {p1}
  NaN = NaN
  None = 0
  MaxRestarts = 1
  MaxToggles = 1
SPECIFICATION MCSpec
INVARIANTS TypeOK ReadSeesPosts
PROPERTY EveryCallEnds
CHECK_DEADLOCK FALSE

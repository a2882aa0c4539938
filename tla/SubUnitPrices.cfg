CONSTANTS
  NanosMod = 10
  Int32Half = 21
  MinUnits = 0
  MaxUnits = 1
  MaxLines = 1
  MaxQty = 3
  Bills <- MCBills
SPECIFICATION Spec
INVARIANT MultiplySlowMultiplies
CHECK_DEADLOCK FALSE

CONSTANTS
  Customers = {u1}
  Calls = {1, 2, 3}
  Bodies <- MCBodies
  TextOrder <- MCTextOrder
  Address = Address
  Undefined = Undefined
  None = 0
  MaxRestarts = 1
SPECIFICATION MCSpec
INVARIANTS TypeOK SecondOrderNeedsCause UpdateLossNeedsCause ReadIsCurrent OrderKeepsLines
PROPERTY EveryCallAnswered
CHECK_DEADLOCK FALSE

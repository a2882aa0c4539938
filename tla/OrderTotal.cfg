CONSTANTS
  NanosMod = 10
  Int32Half = 21
  MaxUnits = 2
  MaxLines = 2
  MaxQty = 3
  Data <- MCData
  Orders <- MCOrders
  Bills <- MCBills
  Cards <- MCCards
  Moments <- MCMoments
  MaxTicks = 1
SPECIFICATION MCSpec
INVARIANTS TypeOK TotalExact NoPanic ChargeValid ChargedAtRate ExpiryJudged
CHECK_DEADLOCK FALSE

CONSTANTS
  u1 = u1
  o1 = o1
  o2 = o2
  a1 = a1
  a2 = a2
  a3 = a3
  p1 = p1
  p2 = p2
  NoPrice = NoPrice
  Users = {u1}
  Products = {p1, p2}
  Adds = {a1, a2}
  Orders = {o1, o2}
  CustomerOf <- MCCustomerOf
  ProductOf <- MCProductOf
  Prices = {1, 2}
  ShippingCost = 1
  AtomicAdd = TRUE
SPECIFICATION FairSpec
INVARIANTS TypeOK ReplyTellsTruth ShippedIsPaid SilentLossNeedsLateAdd
PROPERTIES CartKeptUntilShipped EveryOrderReplies
CHECK_DEADLOCK FALSE

CONSTANTS
  Users = {u1}
  Products = {p1, p2}
  Quantities = {1, 2}
  Calls = {c1, c2, c3}
  Patient = {}
  StorageFaults = TRUE
  NoRow = NoRow
SPECIFICATION FairSpec
INVARIANT TypeOK
PROPERTIES Atomic EveryCallReturns
CHECK_DEADLOCK FALSE

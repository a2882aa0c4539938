CONSTANTS
  Users = {u1}
  Products = {p1}
  Quantities = {1}
  Calls = {c1, c2, c3}
  Patient = {u1}
  StorageFaults = FALSE
  NoRow = NoRow
SPECIFICATION Spec
INVARIANT CallsSucceed
CHECK_DEADLOCK FALSE

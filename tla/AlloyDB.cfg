CONSTANTS
  Users = {u1, u2}
  Products = {p1}
  Quantities = {1, 2}
  Calls = {c1, c2, c3, c4}
  Patient = {u1}
  StorageFaults = TRUE
  NoRow = NoRow
SPECIFICATION Spec
SYMMETRY Symmetry
INVARIANTS TypeOK LossNeedsEmptyCart InflationNeedsOverlap
PROPERTY Serialized
CHECK_DEADLOCK FALSE

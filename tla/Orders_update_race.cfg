SPECIFICATION Spec
CONSTANTS
  Order = {1, 2}
  Item = {1}
  Product = {"camera"}
  Asset = {1, 2}
  Request = {r1, r2}
  None = None
  Time = {0, 2}
  ProductOf <- MCProductOf
  KeyRank <- MCKeyRank
  Turnarounds <- OneTurnaround
  Carts <- OneLineCarts
  Ops = {"create", "update", "confirm"}
INVARIANTS NoDoubleBooking
SYMMETRY RequestSymmetry
CHECK_DEADLOCK FALSE

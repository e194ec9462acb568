SPECIFICATION Spec
CONSTANTS
  Order = {o1, o2}
  Item = {1}
  Product = {"camera"}
  Asset = {1}
  Request = {r1, r2}
  None = None
  Time = {0, 1, 2, 3}
  ProductOf <- MCProductOf
  KeyRank <- MCKeyRank
  Turnarounds <- OneTurnaround
  Carts <- OneLineCarts
  Ops = {"create", "assign", "confirm", "cancel"}
INVARIANTS NoDoubleBooking ProtocolInv NoDeadlock
PROPERTIES ImplementsLedger
VIEW Schedule
SYMMETRY OrderSymmetry
CHECK_DEADLOCK FALSE

SPECIFICATION Spec
CONSTANTS
  Order = {o1, o2, o3}
  Item = {1, 2}
  Product = {"camera"}
  Asset = {a1, a2}
  Request = {r1}
  None = None
  Time = {0, 1, 2, 3}
  ProductOf <- MCProductOf
  KeyRank <- MCKeyRank
  Turnarounds <- OneTurnaround
  Carts <- SomeCarts
  Ops = {"create", "assign", "confirm"}
INVARIANTS EveryLineCanBeServed PagesAgreeWithCheck LimitIsSelectable TimelineLeavesRoom
CONSTRAINT AtMostThreeLines
VIEW Schedule
SYMMETRY UnitSymmetry
CHECK_DEADLOCK FALSE

SPECIFICATION FairSpec
CONSTANTS
  Order = {1}
  Item = {1}
  Product = {"camera"}
  Asset = {1}
  Request = {r1, r2}
  None = None
  Time = {0, 2}
  ProductOf <- MCProductOf
  KeyRank <- MCKeyRank
  Turnarounds <- MCTurnarounds
  Carts <- OneLineCarts
  Ops = {"create", "update", "assign", "confirm", "cancel", "delete", "reload"}
INVARIANTS TypeOK LockDiscipline ConfirmedAtMostOnce ClientsSeeEveryBooking
PROPERTIES LockedTransactionsEnd
CHECK_DEADLOCK FALSE

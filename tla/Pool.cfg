SPECIFICATION FairSpec
CONSTANTS
  Request = {r1, r2, r3}
  Conn = {c1, c2, c3}
  Key = {k1, k2}
  Reads = 2
  None = None
INVARIANTS NoStall LocksLiveInTransactions
PROPERTIES EveryRequestEnds

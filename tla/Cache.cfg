SPECIFICATION FairSpec
CONSTANTS
  Request = {r1, r2, r3}
  None = None
  MaxVersion = 3
  Faults = TRUE
PROPERTIES ConfiguredWeekStays SettlesFresh
CHECK_DEADLOCK FALSE

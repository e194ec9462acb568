SPECIFICATION BackOfficeSpec
CONSTANTS
  Part = {"roles", "resets", "throttle", "hours", "totals"}
  Request = {r1, r2}
  User = {an}
  Role = {staff, desk}
  System = {staff}
  Perm = {orders, fleet}
  NoOne = NoOne
  None = None
  Token = {t1, t2, t3}
  TTL = 2
  MaxPassword = 2
  Faults = TRUE
  MaxFailures = 2
  Window = 2
  MaxCount = 3
  MaxNow = 3
  Day = {0, 1, 2}
  Time = {0, 1, 2}
  WeekLists <- MCWeekLists
  MaxUpdates = 3
  Line = {1, 2, 3, 4}
  Cost <- MCCost
  Fee = {1}
  Discount = {4}
SYMMETRY Requests
INVARIANTS TypesOK StaleClientsWillHear TokenInForceExists CountersExpire WeekIsUsable TotalsMatchLines
PROPERTIES UpdateReplacesPermissions DeadLinksStayDead

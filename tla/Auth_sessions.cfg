SPECIFICATION Spec
CONSTANTS
  User = {u1}
  Sid = {s1, s2}
  Request = {r1, r2}
  None = None
  TTL = 2
  MaxNow = 2
  MaxVersion = 1
  Ops = {"login", "refresh", "logout", "change", "reset", "adminReset", "status", "delete", "abort"}
INVARIANTS SessionsAreIndexed SessionOutlivesToken
PROPERTIES OnlyRefreshRevives
SYMMETRY Symmetry
CHECK_DEADLOCK FALSE

SPECIFICATION Spec
CONSTANTS
  Table = {"users", "customers", "assets", "closures", "orders"}
  RowsOf <- MCRowsOf
  Request = {r1, r2}
  None = None
  Absent = Absent
  Value = {v1, v2}
  Product = {p1, p2}
  Status = {s1, s2}
  Date = {0, 1, 2, 3}
  CodeLimit = 2
SYMMETRY Interchangeable
INVARIANTS SearchFindsRow PhonesAreUnshared CodesKeepComing ClosureBlocksItsDays UnitsAnnounced
CHECK_DEADLOCK FALSE

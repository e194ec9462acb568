SPECIFICATION Spec
CONSTANTS
  Table = {"users"}
  RowsOf <- MCRowsOf
  Request = {r1, r2}
  None = None
  Absent = Absent
  Value = {v1, v2}
  Product = {p1}
  Status = {s1}
  Date = {0, 1}
  CodeLimit = 2
INVARIANTS EmailsAreSearchable
CHECK_DEADLOCK FALSE

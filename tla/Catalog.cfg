SPECIFICATION Spec
CONSTANTS
  Request = {r1, r2}
  None = None
  Terms <- MCTerms
  Lists <- MCLists
  MaxWrites = 3
  MaxDays = 4
SYMMETRY Requests
INVARIANTS TiersNeverOverlap LongerNeverCheaper ClientsWillSee

SPECIFICATION Spec
CONSTANTS
  Connection = {c, d}
  Statement = {s, t, u}
  Query = {p, q, r}
  None = None
  MaxRows = 2
  MaxErrors = 2
SYMMETRY Symmetry
INVARIANTS StatementsHaveOneOwner CompletedOnce ConnectionsAreClosed
CHECK_DEADLOCK FALSE

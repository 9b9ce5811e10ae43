SPECIFICATION Spec
CONSTANTS
  Content = {a, b, c}
  None = None
  Roots = {}
  MinChildren = 0
  MaxChildren = 2
  MaxHandles = 2
SYMMETRY Symmetry
INVARIANTS RefcountsExact ParentChildAgree NoCycle NothingLeaks CarefulCallersAreSafe
CHECK_DEADLOCK FALSE

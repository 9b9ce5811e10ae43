SPECIFICATION EitherSpec
CONSTANTS
  Widget = {a, b, c}
  Window = window
  None = None
  Focusable = {a, b, c}
  Nobody = None
  MaxDepth = 3
SYMMETRY Symmetry
INVARIANTS BackendsAreClosed FeltMatchesFocus FocusSettles
PROPERTY ClosesByConsent
CHECK_DEADLOCK FALSE

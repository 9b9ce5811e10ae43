SPECIFICATION EitherSpec
CONSTANTS
  Queues = {q, r}
  Stacks = {s, t}
  v = v
  w = w
  Values <- TwoValues
  Batches <- SomeBatches
  Unspecified = Unspecified
  Addresses = {a, b, c, d}
  Mappings = {m, n}
  Ids = {i, j}
  Keys = {k, l}
  Places = {a, b, c, d}
SYMMETRY Symmetry
INVARIANTS LengthsAndTailsExact KeyIndexExact
PROPERTY ImplementsItems
CHECK_DEADLOCK FALSE

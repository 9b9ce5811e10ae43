SPECIFICATION Spec
CONSTANTS
  Name = {m, n}
  Value = {p, q}
  Video = {x}
  Address = {a, b}
  DbVideo = {v, w}
  NoVideo = NoVideo
  MaxProperty = 3
SYMMETRY Symmetry
INVARIANTS NamesDisjoint ObjectsMatchRows CopiesMatchRows

SPECIFICATION Spec
CONSTANTS
  Path = {p1, p2}
  Subfolders = {{p2}}
  NoPath = NoPath
  MaxId = 4
INVARIANTS
  VanishedRowsRemoved

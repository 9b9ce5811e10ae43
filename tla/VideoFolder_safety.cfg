SPECIFICATION Spec
CONSTANTS
  Path = {p1, p2, p3}
  Subfolders = {{p1, p2}}
  NoPath = NoPath
  MaxId = 6
SYMMETRY Symmetry
INVARIANTS
  MemoryBacked
  IndexesAgree
  ShowsWhatWasFound
  ReportBalances
  LoadFailsOnlyOnMovedFiles
PROPERTIES
  OnlyUnlistedFilesLoseRows
  ImplementsCatalogue

SPECIFICATION Spec
CONSTANTS
  Name = {x, y}
  Dir = {d, e}
  NoDir = NoDir
  MaxLibrary = 2
  MaxFolder = 3
SYMMETRY Symmetry
INVARIANTS FolderPathsUnique KeyPointersLive CachesExact

SPECIFICATION EitherSpec
CONSTANTS
  Path = {p1, p2}
  Subfolders = {{p2}}
  NoPath = NoPath
  MaxId = 5
  LineFeed = LineFeed
  Nul = Nul
  Symbols = {x}
  BufferLength = 3
  PipeSize = 2
  MaxOutput = 5
  MaxFailures = 1
INVARIANT OutputIsWhole
PROPERTIES OrphansGoAway OperationsEnd RunsEnd
CHECK_DEADLOCK FALSE

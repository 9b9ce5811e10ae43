SPECIFICATION EitherSpec
CONSTANTS
  Sep = Sep
  Back = Back
  Dot = Dot
  letter = letter
  Letters <- SomeLetters
  Parents <- SomeParents
  MaxLen = 7
  Newline = Newline
  Space = Space
  ink = ink
  Inks <- SomeInks
  Loops = {i, j}
  MaxFile = 5
  Base = 4
  MaxBytes = 2
  MaxPart = 6
  Empty = Empty
  Word = Word
  Garbage <- SomeGarbage
  Holders = {p, q}
  MaxSize = 7
  MaxInt = 1
INVARIANTS PlacesAreKept NamesRejoin AbsoluteNamesAreDirect
  LinesInOrder QueriesAreBlocks NumbersComeOutRight PositionsExact PositionsOrdered
CHECK_DEADLOCK FALSE

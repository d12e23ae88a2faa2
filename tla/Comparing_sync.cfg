SPECIFICATION Spec
CONSTANTS
  Paths <- SomePaths
  Sides <- AllSides
  Starts <- SyncStarts
  OthersMay <- Moves
  MaxMoves = 1
  MaxFailures = 1
  MaxEntries = 2
  Filtered <- OnlyG
  Unreadable = {}
  TooLarge = {"big"}
  Sizes <- SizeOf
INVARIANT SameSourceForAll

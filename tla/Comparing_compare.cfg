SPECIFICATION FairSpec
CONSTANTS
  Paths <- SomePaths
  Sides <- AllSides
  Starts <- AllStarts
  OthersMay <- Moves
  MaxMoves = 1
  MaxFailures = 1
  MaxEntries = 2
  Filtered <- OnlyG
  Unreadable = {}
  TooLarge = {"big"}
  Sizes <- SizeOf
INVARIANTS ExitZeroMeansMerged AnswerIsTrue SyncIsOfOneSource OneTargetFailsAlone
PROPERTIES OnlyTheReferenceIsOverwritten DeletesOnlyWhatTheSourceLacked HunksGoIntoWhatWasRead CommandEnds

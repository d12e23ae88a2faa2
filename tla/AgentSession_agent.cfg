SPECIFICATION Spec
CONSTANTS
  Agents = {1, 2, 3}
  Paths <- SomePaths
  OthersMay <- Moves
  Starts <- AllStarts
  FrameLimit = 2
INVARIANTS ResultsAreTrue WrittenAsSent NothingIsLeftUnsaid NothingThatAppearsIsOpened

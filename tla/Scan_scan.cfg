SPECIFICATION Spec
CONSTANTS
  RealPaths <- Places
  Names <- SomeNames
  OddNames <- Odd
  Cases <- SomeCases
  Changes <- SomeChanges
  MaxChanges = 2
  MaxDepth = 3
INVARIANTS NothingIsMissed ListedWasThere

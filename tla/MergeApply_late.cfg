SPECIFICATION FairSpec
CONSTANTS
  N = 4
  InDir = {}
  OthersMay <- LateOthers
  OthersDir = {}
  RootMayGo = FALSE
  Kind <- LateKind
  Compared <- LateCompared
  Unreadable = {4}
  CopyMode = "unusable"
  Session = TRUE
  DryRuns = {FALSE}
  Remote = TRUE
  OldAgentOutlives = TRUE
PROPERTIES MergePromised EveryPathIsReported

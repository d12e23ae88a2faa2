SPECIFICATION Spec
CONSTANTS
  N = 2
  InDir = {1}
  OthersMay <- FilesOthers
  OthersDir = {"absent", "foreign", "blocked"}
  RootMayGo = TRUE
  Kind <- FilesKind
  Compared <- FilesCompared
  Unreadable = {}
  CopyMode = "no"
  Session = TRUE
  DryRuns = {FALSE, TRUE}
  Remote = TRUE
  OldAgentOutlives = FALSE
INVARIANTS LaterPathsUntouched ReportIsExact BackedUpBeforeChange
PROPERTIES ChangesOnlyWhatWasCompared

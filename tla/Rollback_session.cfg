SPECIFICATION FairSpec
CONSTANTS
  N = 2
  InDir = {1}
  OthersMay <- TwoOthers
  OthersDir = {"absent"}
  RootMayGo = TRUE
  Sessions <- TwoRecords
  Found <- TwoFound
  FoundDirs = {"foreign", "absent", "blocked", "moved", "loop"}
  DryRuns = {FALSE, TRUE}
  Forces = {FALSE}
  Backups = {FALSE, TRUE}
  Remote = TRUE
  RecordsMayGo = TRUE
INVARIANTS ReportIsTrue SavedFirst ExitZeroMeansRestored
PROPERTIES SessionIsWhereItWas CommandEnds

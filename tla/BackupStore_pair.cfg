SPECIFICATION FairSpec
CONSTANTS
  r1 = r1 r2 = r2 r3 = r3 k1 = k1 k2 = k2 f1 = f1
  Runs = {r1, r2}
  Cleans = {r1, r2}
  Targets = {k1, k2}
  Configured <- PairConfigured
  Changes <- PairChanges
  Retention = 1 Day = 2 LastTime = 3 MaxSeq = 2
  LongRuns = FALSE
  Crashes = {r1}
INVARIANTS IdsAreNeverReused LaterIsNewer SavedIsKept RecordsAreWhole SessionsAreReserved NothingIsLeft
PROPERTIES EveryRunEnds

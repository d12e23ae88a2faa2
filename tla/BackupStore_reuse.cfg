SPECIFICATION Spec
CONSTANTS
  r1 = r1 r2 = r2 r3 = r3 k1 = k1 k2 = k2 f1 = f1
  Runs = {r1, r2, r3}
  Cleans = {r2}
  Targets = {k1}
  Configured <- ThreeConfigured
  Changes <- ThreeChanges
  Retention = 0 Day = 2 LastTime = 1 MaxSeq = 2
  LongRuns = FALSE
  Crashes = {}
INVARIANTS IdsAreNeverReused

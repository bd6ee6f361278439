SPECIFICATION FairSpec
CONSTANTS
  Addr = {a1}
  Master = {m1}
  Check = {k1, k2}
  Periodic = k1
  MaxFaults = 2
INVARIANTS MissesNoWorker
PROPERTIES DeletesOnlyUnreached DeadDeleted LiveKnown

SPECIFICATION Spec
CONSTANTS
  Dirs = {""}
  Files = {"f"}
  Root = ""
  ParentOf <- MCParentOf
  PathOrder <- MCPathOrder
  NoHash = 0
  Replay = {k1, k2}
  Job = {j1, j2}
  Looked = {"f"}
  MaxLookups = 2
INVARIANTS JobSees WorkerCoherent LookupServed
SYMMETRY Symmetry
CHECK_DEADLOCK FALSE

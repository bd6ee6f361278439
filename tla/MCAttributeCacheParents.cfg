SPECIFICATION Spec
CONSTANTS
  Dirs = {"", "d"}
  Files = {"d/f", "g"}
  Root = ""
  ParentOf <- MCParentOf
  PathOrder <- MCPathOrder
  NoHash = NoHash
  Contents = {x, y}
  Reader = {r1, j1, j2}
  Replay = {j1, j2}
  FileSets <- MCFileSets
  Looked = {"d/f", "g"}
  MaxChanges = 2
  MaxRefresh = 0
INVARIANT HaveParents
SYMMETRY Symmetry
CHECK_DEADLOCK FALSE

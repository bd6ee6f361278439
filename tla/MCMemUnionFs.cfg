SPECIFICATION Spec
CONSTANTS
  Path <- MCPath
  Base <- MCBase
  Empty = "empty"
  Values = {"v"}
  Deletion = Deletion
  Updates <- MCUpdates
  MaxOps = 3
  MaxUpdates = 1
INVARIANTS TypeOK ReapFaithful StartsFresh
PROPERTIES ViewIsPlain

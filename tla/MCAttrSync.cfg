CONSTANTS
  Id = {a1}
  Conn = {c1, c2}
  Task = {t1, t2}
  NoConn = NoConn
  MaxFileSets = 2
  MaxItems = 2
SPECIFICATION FairSpec
INVARIANTS DeliveredInOrder SendSynced SyncInv
PROPERTIES SendReturns
CHECK_DEADLOCK FALSE

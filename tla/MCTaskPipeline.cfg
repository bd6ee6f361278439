SPECIFICATION FairSpec
CONSTANTS
  Task = {t1, t2}
  Fs = {f1, f2}
  NoFs = NoFs
  MaxJobCount = 1
  ReapCounts = {1}
  Shutdowns = {"serveRpc", "graceful"}
INVARIANTS Isolated JobCap OutputReaped
PROPERTIES JobSpec TaskReturns ShutdownEnds
CHECK_DEADLOCK FALSE

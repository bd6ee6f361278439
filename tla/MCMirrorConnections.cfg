SPECIFICATION FairSpec
CONSTANTS
  Addr = {a1}
  NoAddr = NoAddr
  Mc = {m1, m2}
  NoMc = NoMc
  Task = {t1, t2, t3}
  Named = {t3}
  Jobs = 2
  wantedMaxJobs = 2
  RetryCount = 1
  MaxRefresh = 1
INVARIANTS TypeOK SlotAccounting
PROPERTIES IdleDropSafe RunReturns IdleClosed
CHECK_DEADLOCK FALSE

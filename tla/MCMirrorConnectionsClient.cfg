SPECIFICATION Spec
CONSTANTS
  Addr = {a1}
  NoAddr = NoAddr
  Mc = {m1, m2, m3}
  NoMc = NoMc
  Task = {t1, t2, t3}
  Named = {}
  Jobs = 2
  wantedMaxJobs = 2
  RetryCount = 1
  MaxRefresh = 2
INVARIANT ClientUnique
CHECK_DEADLOCK FALSE
SYMMETRY Symmetry

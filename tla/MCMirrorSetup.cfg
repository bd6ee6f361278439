SPECIFICATION FairSpec
CONSTANTS
  c1 = c1
  c2 = c2
  m1 = m1
  m2 = m2
  Call = {c1, c2}
  Master = {m1, m2}
  Callers <- MCCallers
  Jobs = 2
  Wanted <- MCWanted
INVARIANTS TypeOK PanicMeansClash OwnConnections SlotsCounted
PROPERTIES SetupReturns ShutdownExits
CHECK_DEADLOCK FALSE

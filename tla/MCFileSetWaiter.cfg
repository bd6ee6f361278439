SPECIFICATION Spec
CONSTANTS
  Task = {t1, t2, t3}
  Faults = {"fetch"}
INVARIANTS OkMeansReplayed
CHECK_DEADLOCK FALSE

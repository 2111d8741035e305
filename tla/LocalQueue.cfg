SPECIFICATION Spec
CONSTANTS
  Task = {t1, t2, t3}
  Runner = {r1, r2, r3}
  None = None
  MaxEntries = 2
  DirectRuns = TRUE
  MaxCrashes = 1
SYMMETRY Symmetric
CHECK_DEADLOCK FALSE
INVARIANTS ExecutionIsExclusive StartsAreGranted RequestIsCurrent

SPECIFICATION FairSpec
CONSTANTS
  Task = {t1, t2}
  Runner = {r1, r2, r3}
  None = None
  MaxEntries = 2
  DirectRuns = FALSE
  MaxCrashes = 0
CHECK_DEADLOCK FALSE
PROPERTIES QueuedIsTaken CancelIsAnswered

SPECIFICATION Spec
CONSTANTS
  None = None
  g1 = g1  g2 = g2  g3 = g3  p1 = p1
  Goal = {g1, g2, g3}
  Project = {p1}
  Owner = {o1}
  Slot = {s1, s2}
  Question = {}
  Feedback = {}
  home <- OneHome
  MaxRuns = 2
  wakeGoal <- TwoWakes
  CycleLimits = {1}
  Allowances = {1}
  Estimates = {}
  Lapses = FALSE
  FolderLost = TRUE
  MaxCrashes = 1
SYMMETRY Symmetric
INVARIANTS ProjectHasOneWriter RunsByConsent NextWakeAwaitsAcceptance

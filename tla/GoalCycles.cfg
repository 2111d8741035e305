SPECIFICATION LiveSpec
CONSTANTS
  None = None
  g1 = g1  g2 = g2  g3 = g3  p1 = p1
  Goal = {g1}
  Project = {p1}
  Owner = {}
  Slot = {s1, s2}
  Question = {q1, q2}
  Feedback = {f1}
  home <- OneHome
  MaxRuns = 0
  wakeGoal <- NoWakes
  CycleLimits = {2}
  Allowances = {1, 3}
  Estimates = {2}
  Lapses = FALSE
  FolderLost = FALSE
  MaxCrashes = 0
INVARIANTS FeedbackIsHeard WaitingMeansAsked RefusedStaysPaused
PROPERTIES PauseIsHonoured StopIsHonoured

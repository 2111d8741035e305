SPECIFICATION Spec
CONSTANTS
  None = None
  p1 = p1  p2 = p2
  Proc = {p1, p2}
  Write = {"w"}
  Check = {"c"}
  Read = {"r"}
  Revision = {0, 1}
  First = 0
  Valid = {1}
  MaxTools = 2
  MaxModels = 2
  MaxTokens = 5
  Estimate = 2
  Actual = {1, 3}
  MaxAttempts = 2
  MaxEdits = 1
  MaxCrashes = 1
SYMMETRY Symmetric
CHECK_DEADLOCK FALSE
INVARIANTS StoppedIsQuiet RunsAreCharged TokensCoverUse
PROPERTIES CompletionIsTested WritesAreJournaled

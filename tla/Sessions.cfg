SPECIFICATION FairSpec
CONSTANTS
  None = None
  ps = ps  pd = pd  pc = pc
  MaxTurns = 2
  Proc = {ps, pd, pc}
  Host <- EachHost
  Outcomes = {"completed"}
  MaxCalls = 2
  MaxInterrupts = 1
  MaxDeaths = 1
CHECK_DEADLOCK FALSE
INVARIANTS EffectsAreApproved QuestionsAreCurrent OneLateEffect CancellationShows SuccessIsCurrent
PROPERTIES TurnEnds

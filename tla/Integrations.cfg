SPECIFICATION FairSpec
CONSTANTS
  Client = {k1, k2}
  Worker = {w1, w2}
  Policies = {"observe", "assisted"}
  MaxActions = 1
  MaxConns = 1
  MaxAttempts = 3
  MaxCrashes = 1
  MaxOverruns = 1
CHECK_DEADLOCK FALSE
INVARIANTS WritesAreApproved EffectsAreAccounted CompletedWasPerformed RevokedUsesWereInFlight
PROPERTIES ApprovedEnds

SPECIFICATION Spec
CONSTANTS
  None = None
  d1 = d1  d2 = d2  p1 = p1  p2 = p2
  Draft = {d1, d2}
  Revision = {"r1", "r2"}
  Sender = {"s1"}
  Proc = {p1, p2}
  Settings <- Options
  MaxLimit = 1
  MaxGrants = 1
SYMMETRY Symmetric
INVARIANTS PostedOnceAsReviewed SuppressedIsSilent DailyCap ConnectionIsCurrent
PROPERTIES PostsAreJournaled

SPECIFICATION Spec
CONSTANTS
  Replies <- AllReplies
INVARIANTS
  PlanCovers
  EvaluationHasItsProbe
  NothingHeld

SPECIFICATION Spec
CONSTANTS
  None = None
  Takes <- SomeTakes
  Marks = {0, 2, 3, 5}
  Weights <- DefaultWeights
  Plans <- SomePlans
  Skills = {0, 5, 12}
  WordCounts = {40, 400, 1200}
  MaxLines = 4
  StartScores = {50, 750}
  MaxRows = 4
CHECK_DEADLOCK FALSE
INVARIANTS
  SectionsHoldTheirLines
  PausesAgree
  RefusedForKindsOnly
  CompositeIsBetween
  BetterNeverLower

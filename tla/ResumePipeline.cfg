SPECIFICATION FairResumeSpec
CONSTANTS
  j1 = j1
  j2 = j2
  Jobs = {j1, j2}
  MaxConcurrent = 1
  MaxFaults = 2
CHECK_DEADLOCK FALSE
INVARIANTS
  ParsedIsUsable
  PollerFindsOutcome
  OutcomeIsTrue
PROPERTIES
  ParsedStays
  NeverRunsTwice
  KeepsLifecycle
  PageSettles
  QueueDrains

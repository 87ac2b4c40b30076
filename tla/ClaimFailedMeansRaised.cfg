SPECIFICATION ResumeSpec
CONSTANTS
  j1 = j1
  j2 = j2
  Jobs = {j1}
  MaxConcurrent = 1
  MaxFaults = 1
CHECK_DEADLOCK FALSE
INVARIANT FailedMeansRaised

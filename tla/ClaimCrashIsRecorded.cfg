SPECIFICATION FairQueueSpec
CONSTANTS
  j1 = j1
  Jobs = {j1}
  MaxConcurrent = 1
  MaxFaults = 1
CHECK_DEADLOCK FALSE
PROPERTY CrashIsRecorded

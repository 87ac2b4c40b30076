SPECIFICATION Spec
CONSTANTS
  None = None
  t1 = t1
  t2 = t2
  silence = silence
  hello = hello
  bye = bye
  Requests = {r1, r2}
  Takes = {t1, t2}
  Texts = {hello, bye}
  TranscriptOf <- MCTranscriptOf
  Plans <- OneQuestion
  MaxAnswers = 3
  MaxUploads = 3
  MaxConcurrent = 2
  MaxFaults = 1
CHECK_DEADLOCK FALSE
INVARIANTS
  ScoreIsCurrent
  IInv
  OneFollowUpEach
  LockHolds
  AudioOnDisk
PROPERTIES
  CompletedIsScored
  EvaluationsAreFinal

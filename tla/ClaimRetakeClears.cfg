SPECIFICATION Spec
CONSTANTS
  None = None
  t1 = t1
  t2 = t2
  silence = silence
  hello = hello
  bye = bye
  Requests = {r1}
  Takes = {t1, t2}
  Texts = {hello, bye}
  TranscriptOf <- MCTranscriptOf
  Plans <- BothKinds
  MaxAnswers = 4
  MaxUploads = 2
  MaxConcurrent = 2
  MaxFaults = 0
CHECK_DEADLOCK FALSE
PROPERTY RetakeClears

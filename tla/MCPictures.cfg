\* Three frames in each of the ways the postprocessor works, one start; three jobs
\* and two sessions created, two jobs with the component at a time.
SPECIFICATION MCSpec
CONSTANTS
  Pics = {1, 2, 3}
  Modes <- Ways
  NumReproc = 1
  MaxStarts = 1
  Jobs = {1, 2, 3}
  Chain <- OneSession
  MaxOngoing = 2
  MaxCreates = 2
  LateErrors = FALSE
  Exit = Exit
  None = None
INVARIANTS FramesAccounted 
PROPERTIES Answered KeepsPromise CallsEnd
CHECK_DEADLOCK FALSE

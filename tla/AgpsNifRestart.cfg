SPECIFICATION Spec
CONSTANTS
  Ids = {a, b}
  Waits = {}
  EnforceSingle = FALSE
  Flushed = TRUE
  MaxFwq = 2
  MaxInbox = 4
  MaxClientBox = 3
  MaxRestarts = 1
INVARIANTS IdleNifIsReleased
CHECK_DEADLOCK FALSE

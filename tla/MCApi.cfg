SPECIFICATION MCSpec
CONSTANTS
  Faulty <- SnapshotFails
  IdleChanges <- NoChange
  BusyChanges <- NoChange
  Longshot = FALSE
  Setups <- AllSetups
  Callers <- AllCallers
  Calls <- AllCalls
  MaxCalls <- UpToFive
  Parts = {"api", "entries", "focus", "rates"}
  None = None
  Threads = {"app", "thermald"}
  MaxUses = 3
  Modes = {"auto", "continuous", "fixed"}
  MaxAsks = 4
  MaxPassive = 1
  Hfr = {0, 60000}
  Levels = {"none", "slight", "big", "max", "shutdown"}
  ThermalModes = {"fps", "frameskip"}
  MaxReports = 5
INVARIANTS AnswersMatch AnswersToCallers PicturesExpected
PROPERTIES Ends CircleEnds
CHECK_DEADLOCK FALSE

SPECIFICATION MCSpec
CONSTANTS
  Faulty = {}
  IdleChanges <- NoChange
  BusyChanges <- NoChange
  Longshot = FALSE
  Setups <- JustSingle
  Callers <- AllCallers
  Calls <- StillCalls
  MaxCalls <- Five
  Parts = {"api"}
  None = None
  Threads = {"app", "thermald"}
  MaxUses = 3
  Modes = {"auto", "continuous", "fixed"}
  MaxAsks = 4
  MaxPassive = 1
  Hfr = {0, 60000}
  Levels = {"none", "slight", "big", "max", "shutdown"}
  ThermalModes = {"fps", "frameskip"}
  MaxReports = 5
PROPERTIES CloseFinishes
CHECK_DEADLOCK FALSE

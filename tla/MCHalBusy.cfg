SPECIFICATION MCSpec
CONSTANTS
  Parts = {"machine"}
  Faulty = {}
  IdleChanges <- AnyChange
  BusyChanges <- AnyChange
  Longshot = FALSE
  Setups <- JustPlain
  Focus <- Focused
  Refusable <- WithRefusals
  Types = {"PREVIEW", "POSTVIEW", "SNAPSHOT", "VIDEO", "RAW", "METADATA", "OFFLINE_PROC"}
  Widths = {0, 28, 176, 196}
  Heights = {0, 36, 146}
  MetaSizes = {0, 1000}
  Mems = {m1, m2}
  MemTypes = {"SNAPSHOT", "OFFLINE_PROC", "VIDEO"}
  Pooled = {"SNAPSHOT", "OFFLINE_PROC"}
  Ions = {1, 2, 3}
  Sizes = {1, 3}
  Page = 2
  MaxCount = 2
  MaxFails = 1
  None = None
  Nothing = Nothing
PROPERTIES RecordingKeepsMode

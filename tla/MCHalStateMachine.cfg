\* The state machine with everything failing and, on two cameras, nothing; requests that set two or three related
\* keys; a buffer of each type, with sizes that are and are not multiples of what
\* they are padded to; two memory objects of two buffers each, and one refusal of ION;
\* three settings changed; two pictures of several frames.
SPECIFICATION MCSpec
CONSTANTS
  Parts = {"machine", "parameters", "buffer", "memory", "counts", "burst"}
  Faulty <- AnythingFails
  IdleChanges <- AnyChange
  BusyChanges <- OneOrBothModes
  Longshot = TRUE
  Setups <- Varied
  Focus <- Focused
  Refusable <- WithRefusals
  Types = {"PREVIEW", "POSTVIEW", "SNAPSHOT", "VIDEO", "RAW", "METADATA", "OFFLINE_PROC"}
  Widths = {0, 28, 176, 196}
  Heights = {0, 36, 146}
  MetaSizes = {0, 1000}
  Mems = {m1, m2}
  MemTypes = {"SNAPSHOT", "OFFLINE_PROC", "VIDEO"}
  Pooled = {"SNAPSHOT", "OFFLINE_PROC"}
  Ions = {1, 2}
  Sizes = {1, 3}
  Page = 2
  MaxCount = 2
  MaxFails = 1
  None = None
  Nothing = Nothing
INVARIANTS VideoRunsWhileRecording LiveSnapshotJoined ChannelsOfState InForceIsSent SettingsApplied
  BuffersFit OneHolder
CHECK_DEADLOCK FALSE

SPECIFICATION Spec
CONSTANTS
  snap = snap
  meta = meta
  s1 = s1
  s2 = s2
  s3 = s3
  s4 = s4
  m1 = m1
  m2 = m2
  m3 = m3
  m4 = m4
  Streams = {snap, meta}
  Meta = meta
  Preview = Nothing
  HasCb = {}
  Linked = {}
  BufsOf <- FourEach
  Mode = "BURST"
  WaterMark = 1
  LookBack = 0
  MaxUnmatched = 1
  PostSkip = 1
  FutureOffset = 2
  SkipCnt = 1
  FirstFrame = 1
  MaxFrame = 4
  MaxEpoch = 1
  Metadata <- PlainMetadata
  Commands <- Requests
  MaxCommands = 1
  MaxCmdq = 2
  Empty = Empty
  Nothing = Nothing
SYMMETRY Symmetry
INVARIANTS ZslOrder
CHECK_DEADLOCK FALSE

\* Two threads of one process, one camera, and memory for one object, so that the
\* object of the next opening is the freed one; a channel of a metadata stream and
\* a linked one that is started twice, two buffers each.
SPECIFICATION MCSpec
CONSTANTS
  Threads = {t1, t2}
  Cells = {o1}
  NumCam = 1
  MaxCh = 2
  W = 3
  Calls <- CameraCalls
  MaxTags = 2
  MaxHandles = 2
  NumSlots = 2
  Meta = 1
  Linked = 2
  Bufs = {1, 2}
  MaxStarts = 2
  MaxFails = 1
  None = None
INVARIANTS CameraSafe ChannelSafe
PROPERTIES CallsReturn ControlEnds
CHECK_DEADLOCK FALSE

\* The channels of each kind of preview, and two pictures with one failure; a stream
\* of each kind of three buffers, two of them from the start, started twice with one
\* failure.
SPECIFICATION MCSpec
CONSTANTS
  Modes = {"photo", "video", "zsl"}
  RawYuv = TRUE
  MaxJobs = 2
  MaxFailures = 1
  MaxTakes = 2
  Kinds = {"preview", "nodisplay", "video", "metadata", "snapshot"}
  NumBufs = 3
  NumFirst = 2
  MinUndequeued = 1
  MaxRuns = 2
  MaxFaults = 1
  NoFrame = NoFrame
  NoJob = NoJob
INVARIANTS DeferredWorkInTime OneOwner
PROPERTIES WaitsEnd ChannelCallsEnd
CHECK_DEADLOCK FALSE

\* Two sensor HALs and a third that may not
\* open, with rings of two events; two timers; a list of four elements, three messages;
\* two daemons that ask twice; adapters
\* that come and go three times; and two codecs with two instances each.
SPECIFICATION MCSpec
CONSTANTS
  None = None
  NULL = NULL
  Capacity = 2
  Reads = {1}
  MaySkip = {2, 3}
  Sloppy = {3}
  Unknown = 9
  t = t
  u = u
  MAX_ADAPTERS = 2
  MaxChanges = 3
  atl = atl
  xtra = xtra
  both = both
  Clients = {enc, dec}
  Codecs = {je, jd}
  MaxInstances = 2
  Faults = {"library", "deinit"}
  MaxSessions = 3
  Timers = {t, u}
  MaxTime = 1
  Elems = {1, 2, 3}
  Data = {a, b, c}
  Daemons = {quipc, gpsone}
  WifiUsers = {quipc}
  MaxAsks = 2
  MaxPipe = 1
  MaxNotices = 1
  MaxFails = 1
INVARIANTS ServicesKept
PROPERTIES ServicesEnd IsFifo
CHECK_DEADLOCK FALSE

\* Two clients of a network interface, with a restart; four calls, a crash of
\* the modem and a fix of a session; six calls and a fix without a crash; three
\* calls and a crash of the settings; two network-initiated requests and a
\* restart; two emergency sessions, a retry, a timer that may fail and a restart.
SPECIFICATION MCSpec
CONSTANTS
  Calls = {"init", "start", "stop", "cleanup", "mute"}
  SettingCalls = {"init", "agps_init", "conf", "server", "network", "delete"}
  Keys = {"k"}
  Values = {1, 2}
  Default = 1
  Aiding = {"e"}
  MaxCalls = 4
  MaxCrashes = 1
  MaxFixes = 1
  Requests = {1, 2}
  MaxRestarts = 1
  MaxResets = 1
  Ids = {a, b}
  Waits = {}
  EnforceSingle = FALSE
  Flushed = TRUE
  MaxFwq = 2
  MaxInbox = 4
  MaxClientBox = 3
  MaxRetries = 1
  TimerFails = TRUE
  None = None
  Unset = Unset
INVARIANTS ListMatchesState GrantedIsHeld NifConsistent EngineAgrees OwnAnswer
PROPERTIES NifAnswers NavigationResumes RequestsEnd EmergencyEnds
CHECK_DEADLOCK FALSE

------------------------------- MODULE MCGps -------------------------------
(* Instances of the AGPS network interfaces (AgpsNif), of the location       *)
(* engine (LocEngine), of network-initiated requests (NiRequests) and of the *)
(* emergency data call (EmergencyCall) for TLC.  A behaviour is one of one   *)
(* of them: `part` says which, the others stay as they began.  The location  *)
(* engine is looked at three times: with the calls of a session and a crash, *)
(* with those of two sessions (`again`), and with those that give it its     *)
(* settings.  The interfaces are looked at twice, agnss_nif and internet_nif *)
(* with the values the cfg gives, and wifi_nif.                              *)
EXTENDS AgpsNif, NiRequests, LocEngine

CONSTANTS SettingCalls, MaxRetries, TimerFails

VARIABLES part, dsState, dsSubs, dsInactive, retries, timers, dsInbox, call, atl, dsClient, leftover,
          stuck, dsRestarts

emergency == <<dsState, dsSubs, dsInactive, retries, timers, dsInbox, call, atl, dsClient,
               leftover, stuck, dsRestarts>>

Wifi == INSTANCE AgpsNif WITH Waits <- Ids, EnforceSingle <- TRUE, Flushed <- FALSE

Again == INSTANCE LocEngine WITH Calls <- Calls \ {"mute"}, MaxCalls <- 6, MaxCrashes <- 0
Settings == INSTANCE LocEngine WITH Calls <- SettingCalls, MaxCalls <- 3
Emergency == INSTANCE EmergencyCall WITH
  state <- dsState, subs <- dsSubs, inactive <- dsInactive, inbox <- dsInbox,
  client <- dsClient, restarts <- dsRestarts

ASSUME LocEngineAssumption /\ Emergency!EmergencyAssumption

MCInit ==
  /\ part \in {"agnss", "wifi", "session", "again", "settings", "requests", "emergency"}
  /\ Init /\ engInit /\ niInit /\ Emergency!Init

MCNext ==
  \/ part = "agnss" /\ Next /\ UNCHANGED <<part, engVars, niVars, emergency>>
  \/ part = "wifi" /\ Wifi!Next /\ UNCHANGED <<part, engVars, niVars, emergency>>
  \/ part = "session" /\ engNext /\ UNCHANGED <<part, vars, niVars, emergency>>
  \/ part = "again" /\ Again!engNext /\ UNCHANGED <<part, vars, niVars, emergency>>
  \/ part = "settings" /\ Settings!engNext /\ UNCHANGED <<part, vars, niVars, emergency>>
  \/ part = "requests" /\ niNext /\ UNCHANGED <<part, vars, engVars, emergency>>
  \/ part = "emergency" /\ Emergency!Next /\ UNCHANGED <<part, vars, engVars, niVars>>

\* A part that stays as it began has nothing under way: fairness asks nothing of it.
\* (Proc and ModemUp are the same in all instances of the location engine.)
MCSpec ==
  /\ MCInit /\ [][MCNext]_<<part, vars, engVars, niVars, emergency>>
  /\ WF_vars(part = "agnss" /\ EngineStep) /\ WF_vars(part = "wifi" /\ Wifi!EngineStep)
  /\ WF_vars(FwStep)
  /\ Fairness /\ niFairness /\ Emergency!Fairness

\* What the sessions, the queued messages and the list of an interface know of each
\* other; wifi_nif has one subscriber; and the requests keep their types.
NifConsistent ==
  /\ IF part = "wifi" THEN Wifi!TypeOK /\ Wifi!SessionsAgree /\ Wifi!SingleSubscriber
     ELSE TypeOK /\ SessionsAgree
  /\ niTypeOK

\* Whoever asks for the connection, or closes it, is answered.
NifAnswers == AskIsAnswered /\ CloseIsAnswered

\* Every emergency request is answered, and the call is given back.
EmergencyEnds == Emergency!RequestsAnswered /\ Emergency!CallGivenBack
=============================================================================

------------------------------ MODULE LocEngine ------------------------------
(***************************************************************************)
(* The location engine of the GPS HAL (loc_eng.cpp, LocEngAdapter.cpp): the *)
(* calls of the framework and the reports of the modem become messages that *)
(* one thread handles, so that whatever the framework asked for reaches the *)
(* modem, also one that has crashed and booted in between.                  *)
(***************************************************************************)
EXTENDS Naturals, FiniteSets, Sequences, SequencesExt

CONSTANTS
  Calls,       \* the framework's calls looked at
  Keys,        \* the settings of gps.conf that go to the modem
  Values,      \* their values, servers, network states; Default among them
  Default,
  Aiding,      \* kinds of aiding data
  MaxCalls, MaxCrashes, MaxFixes,  \* bounds
  Unset

LocEngineAssumption ==
  /\ Default \in Values /\ IsFiniteSet(Keys)
  /\ MaxCalls \in Nat /\ MaxCrashes \in Nat /\ MaxFixes \in Nat

VARIABLES
  \* the HAL
  inited, agps,  \* loc_eng_init, loc_eng_agps_init
  queue,         \* the messages of the adapter's MsgTask
  navigating,    \* mNavigating
  criteria,      \* mFixCriteria
  engine,        \* engine_status
  mute,          \* mute_session_state
  deleting,      \* aiding_data_for_deletion
  conf,          \* gps_conf
  host,          \* supl_host_buf; Unset: not set
  data,          \* agpsStatus
  \* the others
  modem,         \* what the modem has been told since it booted
  app,           \* what the framework has asked for, and the status it was told
  asked, deleted, \* (ghost) the aiding data to be deleted, those deleted
  missed,        \* (ghost) a stop met a start still queued, a last fix was withheld,
                 \* or a fix of the session before met a new start
  unnamed,       \* (ghost) the network state was last given without an APN
  refusal,       \* (ghost) how the modem took the last start: it runs ("none"), or it
                 \* does not and the HAL counts on it ("kept") or not ("dropped")
  calls, crashes, fixes

hal == <<inited, agps, queue, navigating, criteria, engine, mute, deleting, conf, host, data>>
engVars == <<hal, modem, app, asked, deleted, missed, unnamed, refusal, calls, crashes, fixes>>

Invalid == [mode |-> FALSE, once |-> FALSE]
Fresh == [up |-> TRUE, session |-> FALSE, once |-> FALSE, mode |-> FALSE,
          conf |-> [k \in Keys |-> Unset], host |-> Unset, data |-> Unset]

engInit ==
  /\ inited = FALSE /\ agps = FALSE /\ queue = <<>>
  /\ navigating = FALSE /\ criteria = Invalid
  /\ engine = "none" /\ mute = "none" /\ deleting = {}
  /\ conf = [k \in Keys |-> Default] /\ host = Unset /\ data = Default
  /\ modem = Fresh
  /\ app = [wants |-> FALSE, set |-> FALSE, host |-> Unset, told |-> "end"]
  /\ asked = {} /\ deleted = {} /\ missed = FALSE /\ unnamed = FALSE /\ refusal = "none"
  /\ calls = 0 /\ crashes = 0 /\ fixes = 0

Msg(type) == [type |-> type]
Queued(type) == \E i \in 1..Len(queue) : queue[i].type = type

-----------------------------------------------------------------------------
(* The framework's calls; each sends its messages and returns.              *)

Call(c) == c \in Calls /\ calls < MaxCalls /\ calls' = calls + 1
Handled == <<navigating, criteria, engine, mute, deleting>>  \* the message thread's own
World == <<modem, deleted, unnamed, refusal, crashes, fixes>>

\* loc_eng_init: the structure is cleared, what was buffered in it too.
LocInit ==
  /\ Call("init") /\ ~inited
  /\ inited' = TRUE /\ host' = Unset
  /\ queue' = Append(queue, Msg("Init"))
  /\ UNCHANGED <<agps, Handled, conf, data, World, app, asked, missed>>

\* loc_eng_agps_init: a server that is known by now is sent.
AgpsInit ==
  /\ Call("agps_init") /\ inited /\ ~agps
  /\ agps' = TRUE
  /\ queue' = queue \o (IF host = Unset THEN <<>> ELSE <<[type |-> "SetServer", value |-> host]>>)
  /\ UNCHANGED <<inited, Handled, conf, host, data, World, app, asked, missed>>

\* loc_eng_set_position_mode, which the framework calls before it starts.
SetPositionMode(once) ==
  /\ Call("start") /\ inited /\ ~app.wants
  /\ app' = [app EXCEPT !.set = TRUE]
  /\ queue' = Append(queue, [type |-> "PositionMode", once |-> once])
  /\ UNCHANGED <<inited, agps, Handled, conf, host, data, World, asked, missed>>

\* loc_eng_start
Start ==
  /\ Call("start") /\ app.set /\ ~app.wants
  /\ app' = [app EXCEPT !.wants = TRUE, !.set = FALSE]
  /\ queue' = Append(queue, Msg("StartFix"))
  /\ UNCHANGED <<inited, agps, Handled, conf, host, data, World, asked, missed>>

\* loc_eng_stop.  A stop that meets a modem just up again is handled before the
\* start that LocEngUp queues behind it.
Stop ==
  /\ Call("stop") /\ app.wants
  /\ app' = [app EXCEPT !.wants = FALSE]
  /\ queue' = Append(queue, Msg("StopFix"))
  /\ missed' = (missed \/ Queued("Up"))
  /\ UNCHANGED <<inited, agps, Handled, conf, host, data, World, asked>>

\* loc_eng_cleanup looks at mNavigating, which a queued start has not yet set.
Cleanup ==
  /\ Call("cleanup") /\ inited
  /\ app' = [app EXCEPT !.wants = FALSE]
  /\ queue' = IF navigating THEN Append(queue, Msg("StopFix")) ELSE queue
  /\ missed' = (missed \/ Queued("Up") \/ (~navigating /\ Queued("StartFix")))
  /\ UNCHANGED <<inited, agps, Handled, conf, host, data, World, asked>>

\* loc_eng_delete_aiding_data
DeleteAidingData(f) ==
  /\ Call("delete") /\ inited
  /\ asked' = asked \cup f
  /\ queue' = Append(queue, [type |-> "DelAid", value |-> f])
  /\ UNCHANGED <<inited, agps, Handled, conf, host, data, World, app, missed>>

\* loc_eng_configuration_update: what has changed is sent, once there is an adapter.
ConfigurationUpdate(k, v) ==
  /\ Call("conf") /\ v # conf[k]
  /\ conf' = [conf EXCEPT ![k] = v]
  /\ queue' = IF inited THEN Append(queue, [type |-> "Conf", key |-> k, value |-> v]) ELSE queue
  /\ UNCHANGED <<inited, agps, Handled, host, data, World, app, asked, missed>>

\* loc_eng_set_server_proxy
SetServer(v) ==
  /\ Call("server") /\ host' = v
  /\ app' = [app EXCEPT !.host = v]
  /\ queue' = IF inited THEN Append(queue, [type |-> "SetServer", value |-> v]) ELSE queue
  /\ UNCHANGED <<inited, agps, Handled, conf, data, World, asked, missed>>

\* loc_eng_agps_ril_update_network_availability: without an APN the modem is not told.
NetworkAvailability(v, apn) ==
  /\ Call("network") /\ data' = v
  /\ queue' = IF inited /\ apn THEN Append(queue, [type |-> "EnableData", value |-> v]) ELSE queue
  /\ unnamed' = ~apn
  /\ UNCHANGED <<inited, agps, Handled, conf, host, modem, deleted, refusal, crashes, fixes,
                 app, asked, missed>>

\* loc_eng_mute_one_session, of a network-initiated request that must not be seen.
MuteOneSession ==
  /\ Call("mute") /\ inited /\ mute' = "wait"
  /\ UNCHANGED <<inited, agps, queue, navigating, criteria, engine, deleting, conf, host, data, World, app, asked, missed>>

CallSteps ==
  \/ LocInit \/ AgpsInit \/ (\E once \in BOOLEAN : SetPositionMode(once)) \/ Start \/ Stop \/ Cleanup
  \/ \E f \in (SUBSET Aiding) \ {{}} : DeleteAidingData(f)
  \/ \E k \in Keys, v \in Values : ConfigurationUpdate(k, v)
  \/ \E v \in Values : SetServer(v) \/ (\E apn \in BOOLEAN : NetworkAvailability(v, apn))
  \/ MuteOneSession

-----------------------------------------------------------------------------
(* The modem, as LocApi reports it.                                         *)

Report(msgs) == queue' = queue \o msgs
Status(s) == [type |-> "Status", status |-> s]
Rest == <<inited, agps, Handled, conf, host, data, app, asked, deleted, missed, unnamed, refusal, calls>>

ModemDown ==
  /\ modem.up /\ inited /\ crashes < MaxCrashes /\ crashes' = crashes + 1
  /\ modem' = [Fresh EXCEPT !.up = FALSE]
  /\ Report(<<Msg("Down")>>)
  /\ UNCHANGED <<Rest, fixes>>

ModemUp ==
  /\ ~modem.up /\ modem' = [modem EXCEPT !.up = TRUE]
  /\ Report(<<Msg("Up")>>)
  /\ UNCHANGED <<Rest, crashes, fixes>>

\* A fix; a session for one fix ends with its final one.
ModemFix(status, seen) ==
  LET ends == modem.once /\ status = "final" IN
  /\ modem.session /\ fixes < MaxFixes /\ fixes' = fixes + 1
  /\ modem' = [modem EXCEPT !.session = ~ends]
  /\ Report(<<[type |-> "Position", status |-> status, seen |-> seen]>>
            \o (IF ends THEN <<Status("end"), Status("off")>> ELSE <<>>))
  /\ UNCHANGED <<Rest, crashes>>

ModemSteps ==
  \/ ModemDown
  \/ \E status \in {"final", "intermediate"}, seen \in BOOLEAN :
       ModemFix(status, seen)

-----------------------------------------------------------------------------
(* The message thread: one message after the other.                         *)

Head1 == Head(queue)
Receives(type) == queue # <<>> /\ Head1.type = type
Sends(msgs) == queue' = Tail(queue) \o msgs
Given == <<inited, agps, conf, host, data, asked, calls, crashes, fixes>>
Globals == <<Given, unnamed, refusal>>

\* What the modem is told reaches it when it is up.
Tell(field, v) == modem' = IF modem.up THEN [modem EXCEPT ![field] = v] ELSE modem

\* loc_eng_reinit: all settings, in their order, and the network state.
ReinitMsgs ==
  SetToSeq({[type |-> "Conf", key |-> k, value |-> conf[k]] : k \in Keys})
    \o <<[type |-> "EnableData", value |-> data]>>

\* LocEngInit::proc
ProcInit ==
  /\ Receives("Init") /\ Sends(ReinitMsgs) /\ unnamed' = FALSE
  /\ UNCHANGED <<Given, refusal, missed, Handled, modem, app, deleted>>

ProcConf ==
  /\ Receives("Conf") /\ Sends(<<>>)
  /\ Tell("conf", [modem.conf EXCEPT ![Head1.key] = Head1.value])
  /\ UNCHANGED <<Globals, missed, Handled, app, deleted>>

ProcEnableData ==
  /\ Receives("EnableData") /\ Sends(<<>>) /\ Tell("data", Head1.value)
  /\ UNCHANGED <<Globals, missed, Handled, app, deleted>>

ProcSetServer ==
  /\ Receives("SetServer") /\ Sends(<<>>) /\ Tell("host", Head1.value)
  /\ UNCHANGED <<Globals, missed, Handled, app, deleted>>

\* LocEngAdapter::setPositionMode
ProcPositionMode ==
  /\ Receives("PositionMode") /\ Sends(<<>>)
  /\ criteria' = [mode |-> TRUE, once |-> Head1.once]
  /\ UNCHANGED <<Globals, missed, navigating, engine, mute, deleting, modem, app, deleted>>

SetInSession(in) ==
  /\ navigating' = in
  /\ criteria' = IF in THEN criteria ELSE [criteria EXCEPT !.mode = FALSE]

\* A session's begin and end are reported by the modem.
BeginsSession == IF modem.session \/ ~modem.up THEN <<>> ELSE <<Status("on"), Status("begin")>>
EndsSession == IF modem.session THEN <<Status("end"), Status("off")>> ELSE <<>>

\* startFix: the modem begins a session, or is down; ...
StartTaken ==
  /\ Sends(BeginsSession)
  /\ modem' = IF modem.up THEN [modem EXCEPT !.session = TRUE, !.mode = criteria.mode,
                                             !.once = criteria.once] ELSE modem
  /\ SetInSession(TRUE) /\ refusal' = "none"

\* ... or it refuses.
StartRefused ==
  /\ Sends(<<>>) /\ UNCHANGED modem
  /\ \/ refusal' = "kept" /\ SetInSession(TRUE)
     \/ refusal' = "dropped" /\ UNCHANGED <<navigating, criteria>>

\* loc_eng_start_handler: in session also when the modem is down (ERR_ENGINE_DOWN), is
\* offline or has an error of its own; not in session when it refuses otherwise.  A start
\* that meets a modem already up again is repeated by LocEngUp; a fix of the session before
\* that is still queued will be taken for one of this session.
ProcStartFix ==
  /\ Receives("StartFix")
  /\ IF navigating THEN Sends(<<>>) /\ UNCHANGED <<navigating, criteria, modem, refusal>>
     ELSE \/ StartTaken
          \/ modem.up /\ StartRefused
  /\ missed' = (missed \/ (modem.up /\ Queued("Up")) \/ Queued("Position"))
  /\ UNCHANGED <<Given, unnamed, engine, mute, deleting, app, deleted>>

\* loc_eng_stop_handler
ProcStopFix ==
  /\ Receives("StopFix")
  /\ IF ~navigating THEN Sends(<<>>) /\ UNCHANGED <<navigating, criteria, modem>>
     ELSE /\ Sends(EndsSession)
          /\ modem' = [modem EXCEPT !.session = FALSE]
          /\ SetInSession(FALSE)
  /\ UNCHANGED <<Globals, missed, engine, mute, deleting, app, deleted>>

\* LocEngReportPosition::proc: a fix that was reported ends a session for one fix,
\* and stops the modem when the fix was not its final one; one that is muted, or not
\* good enough, does not.
Reported == mute # "muted" /\ Head1.seen
ConcludesAtLast == Reported /\ criteria.once /\ Head1.status = "final"
  \* (mutant: an intermediate fix does not end the session)
Concludes == Reported /\ criteria.once
ProcPosition ==
  /\ Receives("Position")
  /\ IF Concludes /\ Head1.status = "intermediate"
       THEN Sends(EndsSession) /\ modem' = [modem EXCEPT !.session = FALSE]
       ELSE Sends(<<>>) /\ UNCHANGED modem
  /\ IF Concludes THEN SetInSession(FALSE) ELSE UNCHANGED <<navigating, criteria>>
  /\ app' = [app EXCEPT !.wants = @ /\ ~(Reported /\ criteria.once)]
  /\ missed' = (missed \/ (Head1.status = "final" /\ ~Reported) \/ (Concludes /\ Queued("StartFix")))
  /\ UNCHANGED <<Globals, engine, mute, deleting, deleted>>

\* loc_eng_report_status: what the framework is told and what is remembered.
Muted(s) == CASE mute = "wait" /\ s \in {"begin", "on"} -> "muted"
              [] mute = "muted" /\ s \in {"end", "off"} -> "none"
              [] OTHER -> mute
IsTold(s) == ~(s = "end" /\ navigating) /\ ~(s = "begin" /\ ~navigating) /\ Muted(s) # "muted"
ReportStatus(s) ==
  /\ mute' = Muted(s)
  /\ engine' = IF s \in {"on", "off"} THEN s ELSE engine
  /\ app' = IF IsTold(s) /\ s # "on" THEN [app EXCEPT !.told = IF s = "begin" THEN "begin" ELSE "end"] ELSE app

\* update_aiding_data_for_deletion
UpdateAiding(pending, status) ==
  IF status # "on" /\ modem.up THEN deleting' = {} /\ deleted' = deleted \cup pending
  ELSE deleting' = (IF status # "on" THEN {} ELSE pending) /\ UNCHANGED deleted

ProcStatus ==
  /\ Receives("Status") /\ Sends(<<>>)
  /\ ReportStatus(Head1.status) /\ UpdateAiding(deleting, engine')
  /\ UNCHANGED <<Globals, missed, navigating, criteria, modem>>

\* LocEngDelAidData::proc: what was pending is forgotten.
ProcDelAid ==
  /\ Receives("DelAid") /\ Sends(<<>>)
  /\ UpdateAiding(Head1.value, engine)
  /\ UNCHANGED <<Globals, missed, navigating, criteria, engine, mute, modem, app>>

\* loc_eng_handle_engine_down
ProcDown ==
  /\ Receives("Down") /\ Sends(<<>>)
  /\ ReportStatus("off")
  /\ UNCHANGED <<Globals, missed, navigating, criteria, deleting, modem, deleted>>

\* (mutant: the session is still taken to run when it is started anew)
ProcUpInSession ==
  /\ Receives("Up") /\ unnamed' = FALSE
  /\ Sends(ReinitMsgs
           \o (IF agps /\ host # Unset THEN <<[type |-> "SetServer", value |-> host]>> ELSE <<>>)
           \o (IF navigating THEN <<Msg("StartFix")>> ELSE <<>>))
  /\ UNCHANGED <<Given, refusal, missed, navigating, criteria, engine, mute, deleting, modem, app, deleted>>

\* loc_eng_handle_engine_up: the settings, the server, and the session anew.
ProcUp ==
  /\ Receives("Up") /\ unnamed' = FALSE
  /\ Sends(ReinitMsgs
           \o (IF agps /\ host # Unset THEN <<[type |-> "SetServer", value |-> host]>> ELSE <<>>)
           \o (IF navigating THEN <<Msg("StartFix")>> ELSE <<>>))
  /\ IF navigating THEN SetInSession(FALSE) ELSE UNCHANGED <<navigating, criteria>>
  /\ UNCHANGED <<Given, refusal, missed, engine, mute, deleting, modem, app, deleted>>

Proc == \/ ProcInit \/ ProcConf \/ ProcEnableData \/ ProcSetServer \/ ProcPositionMode
        \/ ProcStartFix \/ ProcStopFix \/ ProcPosition \/ ProcStatus \/ ProcDelAid
        \/ ProcDown \/ ProcUp

-----------------------------------------------------------------------------
engNext == CallSteps \/ ModemSteps \/ ModemUp \/ Proc

\* The message thread goes on, and a modem that crashed boots.
Fairness == WF_engVars(Proc) /\ WF_engVars(ModemUp)

engSpec == engInit /\ [][engNext]_engVars /\ Fairness

-----------------------------------------------------------------------------
(* Properties.                                                              *)

engTypeOK ==
  /\ inited \in BOOLEAN /\ agps \in BOOLEAN /\ navigating \in BOOLEAN
  /\ criteria \in [mode : BOOLEAN, once : BOOLEAN]
  /\ engine \in {"none", "on", "off"} /\ mute \in {"none", "wait", "muted"}
  /\ deleting \subseteq Aiding /\ conf \in [Keys -> Values] /\ data \in Values
  /\ host \in Values \cup {Unset} /\ refusal \in {"none", "kept", "dropped"}

AtRest == inited /\ queue = <<>> /\ modem.up

\* Whatever came in between - the modem's restarts, its late reports, a fix that
\* ends the session - the modem navigates exactly while the framework wants it to
\* (a session for one fix ends by itself) and it did not refuse the start, and the HAL
\* knows, but believes in a session that the modem has refused as offline or with an
\* error of its own; all but for a stop that met a queued start (loc_eng_handle_engine_up,
\* loc_eng_cleanup), and for a fix that is taken for one of the next session
\* (LocEngReportPosition::proc).
SessionAgrees ==
  AtRest /\ ~missed =>
    /\ navigating <=> app.wants /\ refusal # "dropped"
    /\ modem.session <=> app.wants /\ refusal = "none"

\* What the framework was told last of the session is true, but for a session
\* that is muted and the race of ProcStartFix.
StatusAgrees ==
  AtRest /\ ~missed =>
    /\ app.told = "begin" => navigating
    /\ modem.session /\ mute = "none" => app.told = "begin"

\* A modem that is up has the settings, the network state and the server that the
\* framework gave last, also after a restart (loc_eng_reinit, loc_eng_agps_reinit); but
\* for a network state without an APN, of which it is told at its next restart only.
ModemKnows ==
  AtRest => modem.conf = conf /\ (unnamed \/ modem.data = data) /\ (agps /\ host # Unset => modem.host = host)

\* Together: what the HAL, the modem and the framework know of each other at rest.
EngineAgrees == engTypeOK /\ SessionAgrees /\ StatusAgrees /\ ModemKnows

\* loc_eng_delete_aiding_data: "If the GPS engine is off, the aiding data will be
\* deleted. Otherwise, the actual action will happen when gps engine is turned off."
\* This fails: a later request replaces one that waits.
Pending == UNION {queue[i].value : i \in {j \in 1..Len(queue) : queue[j].type = "DelAid"}}
DeletionsKept == asked \subseteq deleted \cup deleting \cup Pending

\* A navigation that was asked for runs in the end, over restarts of the modem, unless
\* the modem refuses it.
NavigationResumes == app.wants ~> (modem.session \/ ~app.wants \/ missed \/ refusal # "none")
=============================================================================

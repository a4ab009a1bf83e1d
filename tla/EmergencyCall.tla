---------------------------- MODULE EmergencyCall ----------------------------
(***************************************************************************)
(* The data call of emergency location sessions: DSStateMachine over the    *)
(* states of AgpsStateMachine (loc_eng_agps.cpp), which opens a call through *)
(* the data client (ds_client.c), retries a busy one from a timer and falls *)
(* back to an ordinary connection (ATL) when there is none.                 *)
(***************************************************************************)
EXTENDS Naturals, Sequences, SequencesExt

CONSTANTS
  Ids,         \* connection handles of the modem, each used once
  MaxRetries,  \* MAX_START_DATA_CALL_RETRIES
  TimerFails,  \* may loc_timer_start fail?
  MaxRestarts  \* bound: restarts of the modem

EmergencyAssumption ==
  MaxRetries \in Nat /\ TimerFails \in BOOLEAN /\ MaxRestarts \in Nat

VARIABLES
  state,    \* mStatePtr
  subs,     \* mSubscribers, the newest first
  inactive, \* those with mIsInactive
  retries,  \* mRetries
  timers,   \* retry timers that run
  inbox,    \* messages to the location engine
  call,     \* the data client's call
  atl,      \* handles that have an ordinary connection
  client,   \* the modem's session of each handle
  leftover, \* (ghost) a subscriber stays listed for which no call is under way
  stuck,    \* (ghost) no timer runs, or the machine is Pending without a call
  restarts

vars == <<state, subs, inactive, retries, timers, inbox, call, atl, client, leftover, stuck, restarts>>
machine == <<state, subs, inactive, retries, timers, atl>>
ghosts == <<leftover, stuck, restarts>>

Init ==
  /\ state = "Released" /\ subs = <<>> /\ inactive = {}
  /\ retries = 0 /\ timers = 0 /\ inbox = <<>> /\ call = "none" /\ atl = {}
  /\ client = [i \in Ids |-> "new"]
  /\ leftover = FALSE /\ stuck = FALSE /\ restarts = 0

Listed == ToSet(subs)
ActiveOf(list) == SelectSeq(list, LAMBDA i : i \notin inactive)
Msg(type, i) == [type |-> type, id |-> i]

-----------------------------------------------------------------------------
(* The modem.                                                               *)

\* LocEngAdapter::requestSuplES, releaseATL
Ask(i) ==
  /\ client[i] = "new" /\ client' = [client EXCEPT ![i] = "asked"]
  /\ inbox' = Append(inbox, Msg("SuplEs", i))
  /\ UNCHANGED <<machine, call, ghosts>>

Close(i) ==
  /\ client[i] \in {"asked", "granted", "fallback"}
  /\ client' = [client EXCEPT ![i] = "closing"]
  /\ inbox' = Append(inbox, Msg("ReleaseAtl", i))
  /\ UNCHANGED <<machine, call, ghosts>>

\* loc_eng_handle_engine_up drops the subscribers of the other machines, not of this one.
Restart ==
  /\ restarts < MaxRestarts /\ restarts' = restarts + 1
  /\ client' = [i \in Ids |-> IF client[i] = "new" THEN "new" ELSE "closed"]
  /\ atl' = {}
  /\ leftover' = (leftover \/ \E i \in Ids : client[i] \notin {"new", "closed"})
  /\ UNCHANGED <<state, subs, inactive, retries, timers, inbox, call, stuck>>

-----------------------------------------------------------------------------
(* DSStateMachine.                                                          *)

Takes(type) == inbox # <<>> /\ Head(inbox).type = type
Sends(msgs) == inbox' = Tail(inbox) \o msgs

\* informStatus(): atlOpenStatus, atlCloseStatus; a release only closes the data call.
Told(session, status) ==
  CASE status = "GRANTED" /\ session = "asked" -> "granted"
    [] status = "UNSUBSCRIBE" /\ session = "closing" -> "closed"
    [] OTHER -> session
Inform(who, status) ==
  client' = [i \in Ids |-> IF i \in who THEN Told(client[i], status) ELSE client[i]]

\* informStatus(RSRC_DENIED) sends LocEngRequestATL.
Denials(list) == [k \in 1..Len(list) |-> Msg("RequestAtl", list[k])]

\* sendRsrcRequest(GPS_REQUEST_AGPS_DATA_CONN): a call is opened and started; when that
\* fails for good, the newest active subscriber is denied, and stays on the list.
Results == {"success", "busy", "unsupported"} \cup IF TimerFails THEN {"no timer"} ELSE {}
GivesUp(result) == result = "unsupported" \/ (result # "success" /\ retries >= MaxRetries)
RequestCall(result, list) ==
  /\ call' = IF result = "success" THEN "starting" ELSE call
  /\ retries' = CASE result = "success" -> retries [] GivesUp(result) -> 0 [] OTHER -> retries + 1
  /\ timers' = IF result = "busy" /\ ~GivesUp(result) THEN timers + 1 ELSE timers
  /\ Sends(IF GivesUp(result) THEN Denials(<<list[1]>>) ELSE <<>>)

\* A retry that comes after its session was closed, or denied, lists it again.
Settled(i) == client[i] = "closed" \/ i \in atl \/ Contains(inbox, Msg("RequestAtl", i))

AddSubscriber(i) == subs' = IF i \in Listed THEN subs ELSE <<i>> \o subs

\* AgpsReleasedState: pending only when the call has been started.
SubscribeReleased(i) ==
  /\ state = "Released" /\ AddSubscriber(i)
  /\ \E result \in Results :
       /\ RequestCall(result, ActiveOf(subs'))
       /\ state' = IF result = "success" THEN "Pending" ELSE state
       /\ leftover' = (leftover \/ GivesUp(result) \/ Settled(i))
       /\ stuck' = (stuck \/ (result = "no timer" /\ ~GivesUp(result)))
  /\ UNCHANGED <<inactive, client>>

SubscribeWaiting(i) ==
  /\ state \in {"Pending", "Releasing"} /\ AddSubscriber(i) /\ Sends(<<>>)
  /\ leftover' = (leftover \/ Settled(i))
  /\ UNCHANGED <<state, inactive, retries, timers, call, client, stuck>>

SubscribeAcquired(i) ==
  /\ state = "Acquired" /\ AddSubscriber(i) /\ Inform({i}, "GRANTED") /\ Sends(<<>>)
  /\ leftover' = (leftover \/ Settled(i))
  /\ UNCHANGED <<state, inactive, retries, timers, call, stuck>>

\* LocEngRequestSuplEs::proc
OnSuplEs(i) ==
  /\ Takes("SuplEs") /\ Head(inbox).id = i
  /\ SubscribeReleased(i) \/ SubscribeWaiting(i) \/ SubscribeAcquired(i)
  /\ UNCHANGED <<atl, restarts>>

\* LocEngRequestATL::proc, to the machine of ordinary connections (AgpsNif)
OnRequestAtl(i) ==
  /\ Takes("RequestAtl") /\ Head(inbox).id = i /\ Sends(<<>>)
  /\ atl' = atl \cup {i}
  /\ client' = [client EXCEPT ![i] = IF @ = "asked" THEN "fallback" ELSE @]
  /\ UNCHANGED <<state, subs, inactive, retries, timers, call, ghosts>>

\* The last active subscriber has gone: the call is stopped.
Releases == Listed \subseteq inactive'

\* LocEngReleaseATL::proc: an ordinary connection is looked for first; a subscriber is
\* set inactive, and told at once that it is closed.
OnReleaseAtl(i) ==
  /\ Takes("ReleaseAtl") /\ Head(inbox).id = i /\ Sends(<<>>)
  /\ Inform({i}, "UNSUBSCRIBE") /\ atl' = atl \ {i}
  /\ IF i \notin atl /\ i \in Listed /\ state # "Released"
       THEN /\ inactive' = inactive \cup {i}
            /\ IF state \in {"Pending", "Acquired"} /\ Releases
                 THEN state' = "Releasing" /\ call' = IF call = "none" THEN "none" ELSE "stopping"
                 ELSE UNCHANGED <<state, call>>
       ELSE UNCHANGED <<state, inactive, call>>
  /\ leftover' = (leftover \/ (i \in Listed /\ state = "Released"))
  /\ UNCHANGED <<subs, retries, timers, stuck, restarts>>

\* LocEngSuplEsOpened::proc
OnOpened ==
  /\ Takes("Opened") /\ Sends(<<>>)
  /\ IF state = "Pending" THEN state' = "Acquired" /\ Inform(Listed \ inactive, "GRANTED")
     ELSE UNCHANGED <<state, client>>
  /\ UNCHANGED <<subs, inactive, retries, timers, call, atl, ghosts>>

\* LocEngSuplEsClosed::proc.  (mutant: no "Switching event to RSRC_DENIED")
ClosedPendingIgnored ==
  /\ state = "Pending" /\ Sends(<<>>)
  /\ UNCHANGED <<state, subs, inactive, retries, timers, call, client, leftover, stuck>>
ClosedPending ==
  /\ state = "Pending" /\ state' = "Released"
  /\ Sends(Denials(subs)) /\ subs' = <<>> /\ inactive' = {} /\ retries' = 0
  /\ UNCHANGED <<timers, call, client, leftover, stuck>>

\* The sessions are not told that their connection has gone.
ClosedAcquired ==
  /\ state = "Acquired" /\ state' = "Released" /\ Sends(<<>>)
  /\ subs' = <<>> /\ inactive' = {}
  /\ UNCHANGED <<retries, timers, call, client, leftover, stuck>>

\* A call is asked for again for those that came meanwhile; pending also when that fails.
ClosedReleasing ==
  /\ state = "Releasing" /\ subs' = ActiveOf(subs) /\ inactive' = {}
  /\ IF subs' = <<>>
       THEN state' = "Released" /\ Sends(<<>>) /\ UNCHANGED <<retries, timers, call, stuck>>
       ELSE /\ state' = "Pending"
            /\ \E result \in Results :
                 /\ RequestCall(result, subs')
                 /\ stuck' = (stuck \/ result # "success")
  /\ UNCHANGED <<client, leftover>>

ClosedReleased ==
  /\ state = "Released" /\ Sends(<<>>)
  /\ UNCHANGED <<state, subs, inactive, retries, timers, call, client, leftover, stuck>>

OnClosed ==
  /\ Takes("Closed")
  /\ ClosedPending \/ ClosedAcquired \/ ClosedReleasing \/ ClosedReleased
  /\ UNCHANGED <<atl, restarts>>

Engine ==
  \/ \E i \in Ids : OnSuplEs(i) \/ OnRequestAtl(i) \/ OnReleaseAtl(i)
  \/ OnOpened \/ OnClosed

\* delay_callback on the timer's thread: the newest active subscriber asks again, also
\* one whose close is still queued.
RetryCallback ==
  LET list == ActiveOf(subs) IN
  /\ timers > 0 /\ timers' = timers - 1
  /\ inbox' = IF list = <<>> THEN inbox ELSE Append(inbox, Msg("SuplEs", list[1]))
  /\ UNCHANGED <<state, subs, inactive, retries, call, atl, client, ghosts>>

-----------------------------------------------------------------------------
(* The data client: net_ev_cb reports the call's events.                    *)

CallEvent(type, next) ==
  /\ call' = next /\ inbox' = Append(inbox, [type |-> type])
  /\ UNCHANGED <<machine, client, ghosts>>
CallOpens == call = "starting" /\ CallEvent("Opened", "up")
CallCloses == call \in {"starting", "stopping"} /\ CallEvent("Closed", "none")
CallDrops == call = "up" /\ CallEvent("Closed", "none")
DataCall == CallOpens \/ CallCloses

Next ==
  \/ \E i \in Ids : Ask(i) \/ Close(i)
  \/ Restart \/ Engine \/ RetryCallback \/ DataCall \/ CallDrops

\* The message thread and the timers go on, and the modem ends what it has begun.
Fairness == WF_vars(Engine) /\ WF_vars(RetryCallback) /\ WF_vars(DataCall)

Spec == Init /\ [][Next]_vars /\ Fairness

-----------------------------------------------------------------------------
(* Properties.                                                              *)

TypeOK ==
  /\ state \in {"Released", "Pending", "Acquired", "Releasing"}
  /\ Listed \subseteq Ids /\ inactive \subseteq Listed /\ atl \subseteq Ids
  /\ retries \in 0..MaxRetries /\ timers \in Nat
  /\ call \in {"none", "starting", "up", "stopping"}
  /\ client \in [Ids -> {"new", "asked", "granted", "fallback", "closing", "closed"}]

\* Every emergency request is answered, with the call or with a connection in its place,
\* over busy calls, retries, and calls that fail to come up; but where the machine waits for
\* a call nobody started or a timer that does not run, and after a refusal, which reaches only
\* the newest of those that wait.
RequestsAnswered == \A i \in Ids : client[i] = "asked" ~> (client[i] # "asked" \/ stuck \/ leftover)

\* When all sessions are closed the call is given back, unless a subscriber was left on the
\* list by a refusal, by a close before the retry, or by a restart of the modem.
Over == \A i \in Ids : client[i] = "closed"
CallGivenBack == Over ~> (call = "none" \/ leftover)
=============================================================================

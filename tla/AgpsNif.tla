------------------------------ MODULE AgpsNif ------------------------------
(***************************************************************************)
(* One network interface (NIF) of the GPS location engine: the              *)
(* AgpsStateMachine of loc_eng_agps.cpp, its list of subscribers, the       *)
(* clients that subscribe (ATL clients of the modem, the BIT daemon, the    *)
(* Wi-Fi helpers) and the Android framework that opens and closes the data  *)
(* connection on the machine's behalf.                                      *)
(*                                                                          *)
(* Everything the machine does runs on the engine's message thread: clients *)
(* and the framework only post messages (inbox), the machine answers a      *)
(* client by calling it back and asks the framework through a callback      *)
(* whose answer is posted later (fwq).  So one message is one step, and     *)
(* the hazards are the orders in which messages of several parties meet.    *)
(*                                                                          *)
(* Instances: agnss_nif and internet_nif have clients that leave the list   *)
(* at once (Waits = {}), wifi_nif has clients that wait for the close to    *)
(* complete (Waits = Ids), admits one subscriber (EnforceSingle) and keeps  *)
(* its list when the modem restarts (~Flushed).                             *)
(***************************************************************************)
EXTENDS Naturals, Sequences, FiniteSets

CONSTANTS
  Ids,            \* the clients that may subscribe
  Waits,          \* the clients whose waitForCloseComplete() is true
  EnforceSingle,  \* mEnforceSingleSubscriber
  Flushed,        \* dropAllSubscribers() is called when the modem is back
  MaxFwq,         \* bound: requests the framework has not looked at yet
  MaxInbox,       \* bound: messages queued for the engine's thread
  MaxClientBox,   \* bound: clients post only to a queue shorter than this
  MaxRestarts     \* bound: modem restarts in a behaviour

ASSUME NifAssumption ==
  /\ Waits \subseteq Ids
  /\ EnforceSingle \in BOOLEAN /\ Flushed \in BOOLEAN
  /\ MaxFwq \in Nat /\ MaxInbox \in Nat /\ MaxRestarts \in Nat
  /\ MaxClientBox \in Nat /\ MaxClientBox < MaxInbox

VARIABLES
  state,     \* mStatePtr
  subs,      \* mSubscribers
  inactive,  \* the subscribers whose mIsInactive is set
  client,    \* what each client has asked for and been told
  inbox,     \* messages for the engine's thread (MsgTask's queue)
  fwq,       \* requests handed to the framework's callback
  conn,      \* the framework's data connection
  modemUp,   \* FALSE from a modem restart until LocEngUp is processed
  restarts   \* modem restarts so far (bounded by MaxRestarts)

vars == <<state, subs, inactive, client, inbox, fwq, conn, modemUp, restarts>>

States   == {"Released", "Pending", "Acquired", "Releasing"}
Sessions == {"idle", "asked", "granted", "closing"}
FwEvents == {"GRANTED", "RELEASED", "DENIED"}
Message  == [event : {"SUBSCRIBE", "UNSUBSCRIBE"}, id : Ids]
              \cup [event : FwEvents \cup {"ENGINE_UP"}]

Active == subs \ inactive

Init ==
  /\ state = "Released"
  /\ subs = {} /\ inactive = {}
  /\ client = [i \in Ids |-> "idle"]
  /\ inbox = <<>> /\ fwq = <<>>
  /\ conn = "idle"
  /\ modemUp = TRUE /\ restarts = 0

-----------------------------------------------------------------------------
(* Clients (the modem's ATL and BIT clients, the Wi-Fi helpers).            *)

(* A client asks again only when the engine has handled all it sent before: *)
(* the answers carry no request number, so a client that hurries could not   *)
(* tell them apart.                                                         *)
From(i, m) == m.event \in {"SUBSCRIBE", "UNSUBSCRIBE"} /\ m.id = i
InFlight(i) == \E k \in DOMAIN inbox : From(i, inbox[k])

Ask(i) ==
  /\ client[i] = "idle" /\ ~InFlight(i) /\ modemUp /\ Len(fwq) < MaxFwq /\ Len(inbox) < MaxClientBox
  /\ client' = [client EXCEPT ![i] = "asked"]
  /\ inbox' = Append(inbox, [event |-> "SUBSCRIBE", id |-> i])
  /\ UNCHANGED <<state, subs, inactive, fwq, conn, modemUp, restarts>>

Close(i) ==
  /\ client[i] \in {"asked", "granted"} /\ modemUp /\ Len(inbox) < MaxClientBox
  /\ client' = [client EXCEPT ![i] = "closing"]
  /\ inbox' = Append(inbox, [event |-> "UNSUBSCRIBE", id |-> i])
  /\ UNCHANGED <<state, subs, inactive, fwq, conn, modemUp, restarts>>

(* What a notification of the machine makes of a client's session.  A       *)
(* grant that meets a client already closing is not used.                   *)
Told(session, event) ==
  IF event = "GRANTED"
  THEN IF session = "asked" THEN "granted" ELSE session
  ELSE "idle"

(* notifySubscribers(): the subscribers the notification is for are told.   *)
(* While the modem is down nobody hears.                                    *)
Notify(who, event) ==
  client' = [i \in Ids |-> IF i \in who /\ modemUp THEN Told(client[i], event)
                                                   ELSE client[i]]

-----------------------------------------------------------------------------
(* The state machine: one action per state and event.                       *)

Receive(event) ==
  /\ inbox # <<>>
  /\ Head(inbox).event = event
  /\ inbox' = Tail(inbox)

(* sendRsrcRequest(): a request needs an active subscriber to speak for, a   *)
(* release needs that there is none; otherwise nothing is sent.              *)
SendRsrcRequest(action, active) ==
  fwq' = IF (active = {}) = (action = "RELEASE") THEN Append(fwq, action) ELSE fwq

Engine == UNCHANGED <<conn, modemUp, restarts>>

(* subscribeRsrc() with mEnforceSingleSubscriber: a second one is denied.   *)
SubscribeRefused(i) ==
  /\ EnforceSingle /\ subs # {}
  /\ Notify({i}, "DENIED")
  /\ UNCHANGED <<state, subs, inactive, fwq>>

SubscribeReleased(i) ==
  /\ state = "Released"
  /\ subs' = subs \cup {i}
  /\ SendRsrcRequest("REQUEST", subs' \ inactive)
  /\ state' = "Pending"
  /\ UNCHANGED <<inactive, client>>

(* addSubscriber() leaves an equal subscriber of the list as it is.         *)
SubscribeWaiting(i) ==
  /\ state \in {"Pending", "Releasing"}
  /\ subs' = subs \cup {i}
  /\ UNCHANGED <<state, inactive, client, fwq>>

(* Mutant: told of the grant, not put on the list.                          *)
SubscribeUnlisted(i) ==
  /\ state = "Acquired" /\ Notify({i}, "GRANTED")
  /\ UNCHANGED <<state, subs, inactive, fwq>>

SubscribeAcquired(i) ==
  /\ state = "Acquired"
  /\ Notify({i}, "GRANTED")
  /\ subs' = subs \cup {i}
  /\ UNCHANGED <<state, inactive, fwq>>

(* Mutant: mEnforceSingleSubscriber is not looked at.                       *)
SubscribeAny(i) == SubscribeReleased(i) \/ SubscribeWaiting(i) \/ SubscribeAcquired(i)

SubscribeRsrc(i) ==
  IF EnforceSingle /\ subs # {} THEN SubscribeRefused(i)
  ELSE SubscribeReleased(i) \/ SubscribeWaiting(i) \/ SubscribeAcquired(i)

OnSubscribe(i) ==
  /\ Receive("SUBSCRIBE") /\ Head(inbox).id = i
  /\ SubscribeRsrc(i)
  /\ Engine

(* A client that waits for the close stays listed, inactive; any other is   *)
(* told it is unsubscribed and leaves the list.                             *)
DropOrDeactivate(i) ==
  IF i \in Waits
  THEN /\ inactive' = inactive \cup {i}
       /\ UNCHANGED <<subs, client>>
  ELSE /\ subs' = subs \ {i}
       /\ inactive' = inactive \ {i}
       /\ Notify({i}, "UNSUBSCRIBE")

(* The list is searched first; the machine sees nothing of an unknown id.   *)
(* LocEngReleaseATL tells its client that there was nothing to close,       *)
(* LocEngReqRelWifi tells nobody.  A Released machine lists nobody           *)
(* (ListMatchesState), so its own UNSUBSCRIBE branch is never entered.       *)
UnsubscribeUnknown(i) ==
  /\ i \notin subs
  /\ UNCHANGED <<state, subs, inactive, fwq>>
  /\ client' = [client EXCEPT ![i] = IF @ = "closing" /\ modemUp /\ i \notin Waits
                                                 THEN "idle" ELSE @]

UnsubscribeHolding(i) ==
  /\ i \in subs /\ state \in {"Pending", "Acquired"}
  /\ DropOrDeactivate(i)
  /\ \/ /\ subs' = {}
        /\ state' = "Released"
        /\ SendRsrcRequest("RELEASE", {})
     \/ /\ subs' # {} /\ subs' \ inactive' = {}
        /\ state' = "Releasing"
        /\ SendRsrcRequest("RELEASE", {})
     \/ /\ subs' \ inactive' # {}
        /\ UNCHANGED <<state, fwq>>

UnsubscribeReleasing(i) ==
  /\ i \in subs /\ state = "Releasing"
  /\ DropOrDeactivate(i)
  /\ state' = IF subs' = {} THEN "Released" ELSE state
  /\ UNCHANGED fwq

OnUnsubscribe(i) ==
  /\ Receive("UNSUBSCRIBE") /\ Head(inbox).id = i
  /\ \/ UnsubscribeUnknown(i)
     \/ UnsubscribeHolding(i)
     \/ UnsubscribeReleasing(i)
  /\ Engine

(* Events of the framework.  An event a state does not expect is dropped.   *)
Ignore == UNCHANGED <<state, subs, inactive, client, fwq>>

(* Mutants: a grant is dropped; a denial leaves the list as it is.          *)
GrantedDropped == Receive("GRANTED") /\ Ignore /\ Engine
ReleaseUntold(event) ==
  /\ state' = "Released" /\ UNCHANGED <<subs, inactive, client, fwq>>

OnGranted ==
  /\ Receive("GRANTED")
  /\ \/ /\ state = "Pending"
        /\ state' = "Acquired"
        /\ Notify(Active, "GRANTED")
        /\ UNCHANGED <<subs, inactive, fwq>>
     \/ state # "Pending" /\ Ignore
  /\ Engine

TellAllAndRelease(event) ==
  /\ state' = "Released"
  /\ Notify(subs, event)
  /\ subs' = {} /\ inactive' = {}
  /\ UNCHANGED fwq

(* Releasing: the inactive ones are told and dropped; whoever subscribed    *)
(* meanwhile makes the machine ask for the connection again.                *)
ReleaseDone(event) ==
  /\ state = "Releasing"
  /\ Notify(subs \cap inactive, event)
  /\ subs' = Active /\ inactive' = {}
  /\ IF Active # {}
     THEN state' = "Pending" /\ SendRsrcRequest("REQUEST", Active)
     ELSE state' = "Released" /\ UNCHANGED fwq

OnReleased ==
  /\ Receive("RELEASED")
  /\ \/ state = "Acquired" /\ TellAllAndRelease("RELEASED")
     \/ ReleaseDone("RELEASED")
     \/ state \in {"Released", "Pending"} /\ Ignore
  /\ Engine

OnDenied ==
  /\ Receive("DENIED")
  /\ \/ state = "Pending" /\ TellAllAndRelease("DENIED")
     \/ ReleaseDone("DENIED")
     \/ state \in {"Released", "Acquired"} /\ Ignore
  /\ Engine

(* loc_eng_handle_engine_up(): the list is flushed, the state kept; wifi_nif *)
(* keeps its list too.                                                      *)
OnEngineUp ==
  /\ Receive("ENGINE_UP")
  /\ IF Flushed THEN subs' = {} /\ inactive' = {} ELSE UNCHANGED <<subs, inactive>>
  /\ modemUp' = TRUE
  /\ UNCHANGED <<state, client, fwq, conn, restarts>>

-----------------------------------------------------------------------------
(* The framework's connectivity service and the modem.                      *)

Post(event) == inbox' = Append(inbox, [event |-> event])

FwRequest ==
  /\ fwq # <<>> /\ Head(fwq) = "REQUEST" /\ Len(inbox) < MaxInbox
  /\ fwq' = Tail(fwq)
  /\ \/ conn = "open" /\ Post("GRANTED") /\ UNCHANGED conn
     \/ conn # "open" /\ conn' = "opening" /\ UNCHANGED inbox
  /\ UNCHANGED <<state, subs, inactive, client, modemUp, restarts>>

FwRelease ==
  /\ fwq # <<>> /\ Head(fwq) = "RELEASE" /\ Len(inbox) < MaxInbox
  /\ fwq' = Tail(fwq)
  /\ conn' = "idle"
  /\ \E event \in {"RELEASED", "DENIED"} :
       Post(event) /\ (event = "DENIED" => conn = "opening")
  /\ UNCHANGED <<state, subs, inactive, client, modemUp, restarts>>

FwAnswer ==
  /\ conn = "opening" /\ Len(inbox) < MaxInbox
  /\ \/ conn' = "open" /\ Post("GRANTED")
     \/ conn' = "idle" /\ Post("DENIED")
  /\ UNCHANGED <<state, subs, inactive, client, fwq, modemUp, restarts>>

(* The connection is lost: the framework reports it closed.                 *)
FwLose ==
  /\ conn = "open" /\ Len(inbox) < MaxInbox
  /\ conn' = "idle" /\ Post("RELEASED")
  /\ UNCHANGED <<state, subs, inactive, client, fwq, modemUp, restarts>>

ModemRestart ==
  /\ modemUp /\ restarts < MaxRestarts /\ Len(inbox) < MaxInbox
  /\ modemUp' = FALSE /\ restarts' = restarts + 1
  /\ client' = [i \in Ids |-> "idle"]
  /\ inbox' = Append(inbox, [event |-> "ENGINE_UP"])
  /\ UNCHANGED <<state, subs, inactive, fwq, conn>>

-----------------------------------------------------------------------------
EngineStep ==
  \/ \E i \in Ids : OnSubscribe(i) \/ OnUnsubscribe(i)
  \/ OnGranted \/ OnReleased \/ OnDenied \/ OnEngineUp

FwStep == FwRequest \/ FwRelease \/ FwAnswer

Next ==
  \/ \E i \in Ids : Ask(i) \/ Close(i)
  \/ EngineStep
  \/ FwStep
  \/ FwLose
  \/ ModemRestart

(* The engine's thread drains its queue and the framework answers what it   *)
(* is asked; clients, losses and restarts are never obliged to happen.      *)
Spec == Init /\ [][Next]_vars /\ WF_vars(EngineStep) /\ WF_vars(FwStep)

-----------------------------------------------------------------------------
(* Types, and: only a client that waits for the close to complete is ever   *)
(* marked inactive, and only while it is on the list (setInactive()).       *)
TypeOK ==
  /\ state \in States
  /\ subs \subseteq Ids /\ inactive \subseteq subs \cap Waits
  /\ client \in [Ids -> Sessions]
  /\ inbox \in Seq(Message)
  /\ fwq \in Seq({"REQUEST", "RELEASE"})
  /\ conn \in {"idle", "opening", "open"}
  /\ modemUp \in BOOLEAN
  /\ restarts \in 0 .. MaxRestarts

(* The list agrees with the state: "Released" means an empty list (the code *)
(* logs an error otherwise), a holder's list has somebody active, and only  *)
(* a machine that is releasing waits for inactive ones.                     *)
ListMatchesState ==
  /\ state = "Released" => subs = {}
  /\ restarts = 0 =>
       /\ state \in {"Pending", "Acquired"} => Active # {}
       /\ state = "Releasing" => inactive # {}

(* A client that was granted the connection and has not given it up is on   *)
(* the list, active, and the machine is holding the connection: no client   *)
(* is dropped without being told.                                           *)
GrantedIsHeld ==
  \A i \in Ids : client[i] = "granted" => state = "Acquired" /\ i \in Active

(* Why GrantedIsHeld holds: what the clients' sessions, the messages still   *)
(* queued and the list know of each other.  A modem that is down hears and  *)
(* holds nothing, and what it asked before is queued ahead of ENGINE_UP;     *)
(* one client's messages are queued as ask, then close; and on a NIF that   *)
(* is flushed and shared, the list never holds a client that is idle, marks *)
(* only clients that are closing, and is not what a queued ask is about.     *)
DownIsIdle == ~modemUp => \A i \in Ids : client[i] = "idle"
EngineUpIsLast ==
  /\ modemUp => \A k \in DOMAIN inbox : inbox[k].event # "ENGINE_UP"
  /\ \A j, k \in DOMAIN inbox :
       j < k /\ inbox[j].event = "ENGINE_UP" => inbox[k].event \in FwEvents
CloseIsMeant ==
  \A i \in Ids : \A k \in DOMAIN inbox :
    From(i, inbox[k]) /\ inbox[k].event = "UNSUBSCRIBE" => client[i] \in {"closing", "idle"}
AskIsFirst ==
  \A i \in Ids : \A j, k \in DOMAIN inbox :
    j < k /\ From(i, inbox[j]) /\ From(i, inbox[k]) => inbox[k].event = "UNSUBSCRIBE"
ListIsMeant ==
  Flushed /\ ~EnforceSingle /\ modemUp =>
    \A i \in Ids :
      /\ i \in inactive => client[i] = "closing"
      /\ i \in subs => client[i] # "idle"
      /\ \A k \in DOMAIN inbox :
           From(i, inbox[k]) /\ inbox[k].event = "SUBSCRIBE" =>
             i \notin subs /\ client[i] \in {"asked", "closing"}
SessionsAgree ==
  DownIsIdle /\ EngineUpIsLast /\ CloseIsMeant /\ AskIsFirst /\ ListIsMeant

(* Before the first restart no modem has come back.                         *)
NoEarlyEngineUp ==
  restarts = 0 => \A k \in DOMAIN inbox : inbox[k].event # "ENGINE_UP"

(* mEnforceSingleSubscriber: never two subscribers on such a NIF.           *)
SingleSubscriber == EnforceSingle => Cardinality(subs) <= 1

(* "no more subscribers, move to RELEASED state": a NIF nobody subscribes   *)
(* to is not held.                                                          *)
IdleNifIsReleased == subs = {} => state = "Released"

(* Whoever asks for the connection is answered, or gives up.                *)
AskIsAnswered == \A i \in Ids : client[i] = "asked" ~> client[i] # "asked"

(* Whoever closes is answered.                                              *)
CloseIsAnswered == \A i \in Ids : client[i] = "closing" ~> client[i] # "closing"
=============================================================================

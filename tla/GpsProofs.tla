----------------------------- MODULE GpsProofs -----------------------------
(***************************************************************************)
(* Theorems about one network interface of the location engine (AgpsNif)    *)
(* and, after them, about the network-initiated requests (NiRequests).      *)
(***************************************************************************)
EXTENDS AgpsNif, NiRequests, FiniteSetTheorems, TLAPS

-----------------------------------------------------------------------------
(* What the three shared effects of an action do to the types.              *)

(* Taking a message from the engine's queue leaves a queue of messages.     *)
LEMMA ReceiveType ==
  ASSUME TypeOK, NEW e, Receive(e) PROVE inbox' \in Seq(Message)
BY DEF TypeOK, Receive

(* A notification leaves every client with a session state.                 *)
LEMMA NotifyType ==
  ASSUME TypeOK, NEW who, NEW e, Notify(who, e)
  PROVE  client' \in [Ids -> Sessions]
BY DEF TypeOK, Notify, Told, Sessions

(* What the machine may send to the framework is a request or a release.    *)
LEMMA SendType ==
  ASSUME TypeOK, NEW a \in {"REQUEST", "RELEASE"}, NEW active, SendRsrcRequest(a, active)
  PROVE  fwq' \in Seq({"REQUEST", "RELEASE"})
BY DEF TypeOK, SendRsrcRequest

(* A message posted to the engine's queue leaves a queue of messages.       *)
LEMMA AppendType ==
  ASSUME TypeOK, NEW m \in Message, inbox' = Append(inbox, m)
  PROVE  inbox' \in Seq(Message)
BY DEF TypeOK

LEMMA PostType ==
  ASSUME TypeOK, NEW e \in FwEvents \cup {"ENGINE_UP"}, Post(e)
  PROVE  inbox' \in Seq(Message)
<1>1. [event |-> e] \in Message
  BY DEF Message
<1>. QED
  BY <1>1, AppendType DEF Post

-----------------------------------------------------------------------------
LEMMA InitTypeOK == Init => TypeOK
BY NifAssumption DEF Init, TypeOK, States, Sessions

LEMMA NextTypeOK == TypeOK /\ [Next]_vars => TypeOK'
<1>. SUFFICES ASSUME TypeOK, [Next]_vars PROVE TypeOK'
  OBVIOUS
<1>1. ASSUME NEW i \in Ids, Ask(i) PROVE TypeOK'
  <2>1. [event |-> "SUBSCRIBE", id |-> i] \in Message
    BY DEF Message
  <2>2. inbox' \in Seq(Message)
    BY <1>1, <2>1, AppendType DEF Ask
  <2>. QED
    BY <1>1, <2>2 DEF Ask, TypeOK, Sessions
<1>2. ASSUME NEW i \in Ids, Close(i) PROVE TypeOK'
  <2>1. [event |-> "UNSUBSCRIBE", id |-> i] \in Message
    BY DEF Message
  <2>2. inbox' \in Seq(Message)
    BY <1>2, <2>1, AppendType DEF Close
  <2>. QED
    BY <1>2, <2>2 DEF Close, TypeOK, Sessions
<1>3. ASSUME NEW i \in Ids, OnSubscribe(i) PROVE TypeOK'
  <2>1. inbox' \in Seq(Message) /\ SubscribeRsrc(i) /\ Engine
    BY <1>3, ReceiveType DEF OnSubscribe
  <2>2. client' \in [Ids -> Sessions]
    <3>1. UNCHANGED client \/ \E e : Notify({i}, e)
      BY <2>1 DEF SubscribeRsrc, SubscribeRefused, SubscribeReleased,
                  SubscribeWaiting, SubscribeAcquired
    <3>. QED
      BY <3>1, NotifyType DEF TypeOK
  <2>3. fwq' \in Seq({"REQUEST", "RELEASE"})
    <3>1. UNCHANGED fwq \/ \E active : SendRsrcRequest("REQUEST", active)
      BY <2>1 DEF SubscribeRsrc, SubscribeRefused, SubscribeReleased,
                  SubscribeWaiting, SubscribeAcquired
    <3>. QED
      BY <3>1, SendType DEF TypeOK
  <2>. QED
    BY <2>1, <2>2, <2>3 DEF TypeOK, Engine, SubscribeRsrc, SubscribeRefused,
       SubscribeReleased, SubscribeWaiting, SubscribeAcquired, States
<1>4. ASSUME NEW i \in Ids, OnUnsubscribe(i) PROVE TypeOK'
  <2>1. inbox' \in Seq(Message) /\ Engine
    BY <1>4, ReceiveType DEF OnUnsubscribe
  <2>2. CASE UnsubscribeUnknown(i)
    <3>1. client' \in [Ids -> Sessions]
      BY <2>2 DEF UnsubscribeUnknown, TypeOK, Sessions
    <3>. QED
      BY <2>1, <2>2, <3>1 DEF UnsubscribeUnknown, TypeOK, Engine
  <2>3. ASSUME DropOrDeactivate(i), i \in subs
        PROVE  /\ subs' \subseteq Ids /\ inactive' \subseteq subs' \cap Waits
               /\ client' \in [Ids -> Sessions]
    <3>1. UNCHANGED client \/ \E e : Notify({i}, e)
      BY <2>3 DEF DropOrDeactivate
    <3>2. client' \in [Ids -> Sessions]
      BY <3>1, NotifyType DEF TypeOK
    <3>. QED
      BY <2>3, <3>2 DEF DropOrDeactivate, TypeOK
  <2>4. CASE UnsubscribeHolding(i)
    <3>1. fwq' \in Seq({"REQUEST", "RELEASE"})
      BY <2>4, SendType DEF UnsubscribeHolding, TypeOK
    <3>. QED
      BY <2>1, <2>3, <2>4, <3>1 DEF UnsubscribeHolding, TypeOK, States, Engine
  <2>5. CASE UnsubscribeReleasing(i)
    BY <2>1, <2>3, <2>5 DEF UnsubscribeReleasing, TypeOK, States, Engine
  <2>. QED
    BY <1>4, <2>2, <2>4, <2>5 DEF OnUnsubscribe
<1>5. ASSUME NEW e \in {"RELEASED", "DENIED"}, TellAllAndRelease(e) \/ ReleaseDone(e) \/ Ignore
      PROVE  /\ state' \in States
             /\ subs' \subseteq Ids /\ inactive' \subseteq subs' \cap Waits
             /\ client' \in [Ids -> Sessions]
             /\ fwq' \in Seq({"REQUEST", "RELEASE"})
  <2>1. UNCHANGED client \/ \E who : Notify(who, e)
    BY <1>5 DEF TellAllAndRelease, ReleaseDone, Ignore
  <2>2. client' \in [Ids -> Sessions]
    BY <2>1, NotifyType DEF TypeOK
  <2>3. UNCHANGED fwq \/ SendRsrcRequest("REQUEST", Active)
    BY <1>5 DEF TellAllAndRelease, ReleaseDone, Ignore
  <2>4. fwq' \in Seq({"REQUEST", "RELEASE"})
    BY <2>3, SendType DEF TypeOK
  <2>. QED
    BY <1>5, <2>2, <2>4 DEF TellAllAndRelease, ReleaseDone, Ignore, TypeOK, Active, States
<1>6. CASE OnGranted
  <2>1. inbox' \in Seq(Message)
    BY <1>6, ReceiveType DEF OnGranted
  <2>2. client' \in [Ids -> Sessions]
    BY <1>6, NotifyType DEF OnGranted, Ignore, TypeOK
  <2>. QED
    BY <1>6, <2>1, <2>2 DEF OnGranted, Ignore, TypeOK, States, Engine
<1>7. CASE OnReleased
  BY <1>5, <1>7, ReceiveType DEF OnReleased, TypeOK, Engine
<1>8. CASE OnDenied
  BY <1>5, <1>8, ReceiveType DEF OnDenied, TypeOK, Engine
<1>9. CASE OnEngineUp
  BY <1>9, ReceiveType DEF OnEngineUp, TypeOK
<1>10. CASE FwRequest
  <2>1. inbox' \in Seq(Message)
    BY <1>10, PostType DEF FwRequest, TypeOK, FwEvents
  <2>. QED
    BY <1>10, <2>1 DEF FwRequest, TypeOK
<1>11. CASE FwRelease
  <2>1. inbox' \in Seq(Message)
    BY <1>11, PostType DEF FwRelease, FwEvents
  <2>. QED
    BY <1>11, <2>1 DEF FwRelease, TypeOK
<1>12. CASE FwAnswer \/ FwLose
  <2>1. \E e \in FwEvents : Post(e)
    BY <1>12 DEF FwAnswer, FwLose, FwEvents
  <2>2. inbox' \in Seq(Message)
    BY <2>1, PostType
  <2>. QED
    BY <1>12, <2>2 DEF FwAnswer, FwLose, TypeOK
<1>13. CASE ModemRestart
  <2>1. inbox' \in Seq(Message)
    BY <1>13, PostType DEF ModemRestart, Post, FwEvents
  <2>2. restarts' \in 0 .. MaxRestarts
    BY <1>13, NifAssumption DEF ModemRestart, TypeOK
  <2>3. client' \in [Ids -> Sessions]
    BY <1>13 DEF ModemRestart, Sessions
  <2>. QED
    BY <1>13, <2>1, <2>2, <2>3 DEF ModemRestart, TypeOK
<1>14. CASE UNCHANGED vars
  BY <1>14 DEF vars, TypeOK
<1>. QED
  BY <1>1, <1>2, <1>3, <1>4, <1>6, <1>7, <1>8, <1>9, <1>10, <1>11, <1>12, <1>13, <1>14
  DEF Next, EngineStep, FwStep

(* The machine's list, marks, queues and sessions keep their types in every *)
(* behaviour, and only clients that wait for the close, while listed, are   *)
(* marked inactive.                                                         *)
THEOREM TypeCorrect == Spec => []TypeOK
BY InitTypeOK, NextTypeOK, PTL DEF Spec

-----------------------------------------------------------------------------
(* The list and the state.  A modem that never restarted left no ENGINE_UP   *)
(* in the queue, and nothing else empties the list behind the machine's     *)
(* back.                                                                    *)
LEMMA ReceiveQueue ==
  ASSUME TypeOK, NEW e, Receive(e)
  PROVE  /\ 1 \in DOMAIN inbox /\ Head(inbox) = inbox[1] /\ inbox[1].event = e
         /\ \A k \in DOMAIN inbox' :
              k \in Nat \ {0} /\ k + 1 \in DOMAIN inbox /\ inbox'[k] = inbox[k + 1]
BY DEF TypeOK, Receive

LEMMA AppendQueue ==
  ASSUME TypeOK, NEW m, inbox' = Append(inbox, m)
  PROVE  /\ \A k \in DOMAIN inbox : k \in Nat /\ k < Len(inbox) + 1
         /\ \A k \in DOMAIN inbox' :
              \/ k \in DOMAIN inbox /\ inbox'[k] = inbox[k]
              \/ k = Len(inbox) + 1 /\ inbox'[k] = m
BY DEF TypeOK

ListInv == TypeOK /\ NoEarlyEngineUp /\ ListMatchesState

LEMMA InitListInv == Init => ListInv
BY InitTypeOK DEF Init, ListInv, NoEarlyEngineUp, ListMatchesState

(* A step that posts anything but ENGINE_UP.                                *)
LEMMA PostKeepsEarly ==
  ASSUME TypeOK, NoEarlyEngineUp, NEW m, inbox' = Append(inbox, m), m.event # "ENGINE_UP",
         UNCHANGED restarts
  PROVE  NoEarlyEngineUp'
BY AppendQueue DEF NoEarlyEngineUp

LEMMA ReceiveKeepsEarly ==
  ASSUME TypeOK, NoEarlyEngineUp, NEW e, Receive(e), UNCHANGED restarts
  PROVE  NoEarlyEngineUp' /\ (e = "ENGINE_UP" => restarts # 0)
BY ReceiveQueue DEF NoEarlyEngineUp

LEMMA NextListInv == ListInv /\ [Next]_vars => ListInv'
<1>. SUFFICES ASSUME TypeOK, NoEarlyEngineUp, ListMatchesState, [Next]_vars
              PROVE  NoEarlyEngineUp' /\ ListMatchesState'
  BY NextTypeOK DEF ListInv
<1>1. ASSUME NEW i \in Ids, Ask(i) \/ Close(i) PROVE NoEarlyEngineUp' /\ ListMatchesState'
  <2>1. PICK m \in Message : inbox' = Append(inbox, m) /\ m.event # "ENGINE_UP"
    BY <1>1 DEF Ask, Close, Message
  <2>2. NoEarlyEngineUp'
    BY <1>1, <2>1, PostKeepsEarly DEF Ask, Close
  <2>. QED
    BY <1>1, <2>2 DEF Ask, Close, ListMatchesState, Active
<1>2. ASSUME NEW i \in Ids, OnSubscribe(i) PROVE NoEarlyEngineUp' /\ ListMatchesState'
  <2>1. NoEarlyEngineUp'
    BY <1>2, ReceiveKeepsEarly DEF OnSubscribe, Engine
  <2>. QED
    BY <1>2, <2>1 DEF OnSubscribe, Engine, SubscribeRsrc, SubscribeRefused, SubscribeReleased,
       SubscribeWaiting, SubscribeAcquired, ListMatchesState, Active, TypeOK, States
<1>3. ASSUME NEW i \in Ids, OnUnsubscribe(i) PROVE NoEarlyEngineUp' /\ ListMatchesState'
  <2>1. NoEarlyEngineUp' /\ UNCHANGED restarts
    BY <1>3, ReceiveKeepsEarly DEF OnUnsubscribe, Engine
  <2>2. CASE UnsubscribeUnknown(i)
    BY <2>1, <2>2 DEF UnsubscribeUnknown, ListMatchesState, Active
  <2>3. CASE UnsubscribeHolding(i)
    BY <2>1, <2>3 DEF UnsubscribeHolding, ListMatchesState, Active
  <2>4. CASE UnsubscribeReleasing(i)
    <3>1. i \in Waits => inactive' # {}
      BY <2>4 DEF UnsubscribeReleasing, DropOrDeactivate
    <3>2. i \notin Waits => inactive' = inactive
      BY <2>4 DEF UnsubscribeReleasing, DropOrDeactivate, TypeOK
    <3>. QED
      BY <2>1, <2>4, <3>1, <3>2 DEF UnsubscribeReleasing, ListMatchesState, Active
  <2>. QED
    BY <1>3, <2>2, <2>3, <2>4 DEF OnUnsubscribe
<1>4. ASSUME NEW e \in FwEvents, Receive(e), Engine,
             \/ state = "Pending" /\ state' = "Acquired" /\ UNCHANGED <<subs, inactive>>
             \/ TellAllAndRelease(e) \/ ReleaseDone(e) \/ Ignore
      PROVE  NoEarlyEngineUp' /\ ListMatchesState'
  <2>1. NoEarlyEngineUp' /\ UNCHANGED restarts
    BY <1>4, ReceiveKeepsEarly DEF Engine
  <2>. QED
    BY <1>4, <2>1 DEF TellAllAndRelease, ReleaseDone, Ignore, ListMatchesState, Active
<1>5. CASE OnGranted \/ OnReleased \/ OnDenied
  BY <1>4, <1>5 DEF OnGranted, OnReleased, OnDenied, FwEvents
<1>6. CASE OnEngineUp
  <2>1. NoEarlyEngineUp' /\ restarts' # 0
    BY <1>6, ReceiveKeepsEarly DEF OnEngineUp
  <2>. QED
    BY <1>6, <2>1 DEF OnEngineUp, ListMatchesState
<1>7. CASE FwRequest \/ FwRelease \/ FwAnswer \/ FwLose
  <2>1. UNCHANGED <<state, subs, inactive, restarts>> /\ (UNCHANGED inbox \/ \E e \in FwEvents : Post(e))
    BY <1>7 DEF FwRequest, FwRelease, FwAnswer, FwLose, FwEvents
  <2>2. NoEarlyEngineUp'
    <3>1. CASE UNCHANGED inbox
      BY <2>1, <3>1 DEF NoEarlyEngineUp
    <3>2. ASSUME NEW e \in FwEvents, Post(e) PROVE NoEarlyEngineUp'
      <4>1. [event |-> e].event # "ENGINE_UP"
        BY <3>2 DEF FwEvents
      <4>. QED
        BY <2>1, <3>2, <4>1, PostKeepsEarly DEF Post
    <3>. QED
      BY <2>1, <3>1, <3>2
  <2>. QED
    BY <2>1, <2>2 DEF ListMatchesState, Active
<1>8. CASE ModemRestart
  BY <1>8 DEF ModemRestart, NoEarlyEngineUp, ListMatchesState, Active, TypeOK
<1>9. CASE UNCHANGED vars
  BY <1>9 DEF vars, NoEarlyEngineUp, ListMatchesState, Active
<1>. QED
  BY <1>1, <1>2, <1>3, <1>5, <1>6, <1>7, <1>8, <1>9 DEF Next, EngineStep, FwStep

(* The list always agrees with the machine's state: a Released machine       *)
(* lists nobody and, until a modem restart empties the list behind its back, *)
(* a holding one has an active subscriber and a releasing one waits for an   *)
(* inactive one.                                                            *)
THEOREM ListAndStateAgree == Spec => []ListMatchesState
BY InitListInv, NextListInv, PTL DEF Spec, ListInv

-----------------------------------------------------------------------------
(* Sessions.  The three kinds of step a message can be part of: the engine   *)
(* takes one, the framework posts one, a client posts one.                  *)
SessionsInv == TypeOK /\ SessionsAgree /\ GrantedIsHeld

LEMMA InitSessionsInv == Init => SessionsInv
BY InitTypeOK DEF Init, SessionsInv, SessionsAgree, DownIsIdle, EngineUpIsLast,
   CloseIsMeant, AskIsFirst, ListIsMeant, GrantedIsHeld

(* What the queue promises survives the head being taken.                   *)
LEMMA ReceiveKeepsOrder ==
  ASSUME TypeOK, EngineUpIsLast, AskIsFirst, NEW e, Receive(e)
  PROVE  /\ UNCHANGED modemUp => EngineUpIsLast'
         /\ AskIsFirst'
         /\ e = "ENGINE_UP" => /\ ~modemUp
                               /\ \A k \in DOMAIN inbox' : inbox'[k].event \in FwEvents
<1>1. \A k \in DOMAIN inbox' :
        k \in Nat \ {0} /\ k + 1 \in DOMAIN inbox /\ inbox'[k] = inbox[k + 1]
  BY ReceiveQueue
<1>2. \A j, k \in DOMAIN inbox' : j < k => j + 1 < k + 1
  BY <1>1
<1>3. UNCHANGED modemUp => EngineUpIsLast'
  BY <1>1, <1>2 DEF EngineUpIsLast
<1>4. AskIsFirst'
  BY <1>1, <1>2 DEF AskIsFirst, From
<1>5. ASSUME e = "ENGINE_UP"
      PROVE  ~modemUp /\ \A k \in DOMAIN inbox' : inbox'[k].event \in FwEvents
  <2>1. 1 \in DOMAIN inbox /\ inbox[1].event = "ENGINE_UP"
    BY <1>5, ReceiveQueue
  <2>2. \A k \in DOMAIN inbox' : 1 < k + 1
    BY <1>1
  <2>. QED
    BY <1>1, <2>1, <2>2 DEF EngineUpIsLast
<1>. QED
  BY <1>3, <1>4, <1>5

(* A message handled by the machine: sessions that were over or closing stay *)
(* so, and nobody hears while the modem is down.                            *)
LEMMA EngineKeeps ==
  ASSUME TypeOK, DownIsIdle, EngineUpIsLast, CloseIsMeant, AskIsFirst,
         NEW e, Receive(e), UNCHANGED modemUp,
         \A i \in Ids : /\ client[i] \in {"closing", "idle"} => client'[i] \in {"closing", "idle"}
                        /\ ~modemUp => client'[i] = client[i]
  PROVE  DownIsIdle' /\ EngineUpIsLast' /\ CloseIsMeant' /\ AskIsFirst'
<1>1. EngineUpIsLast' /\ AskIsFirst'
  BY ReceiveKeepsOrder
<1>2. CloseIsMeant'
  BY ReceiveQueue DEF CloseIsMeant, From
<1>. QED
  BY <1>1, <1>2 DEF DownIsIdle

LEMMA NotifyKeeps ==
  ASSUME NEW who, NEW e, Notify(who, e), NEW i \in Ids
  PROVE  /\ client[i] \in {"closing", "idle"} => client'[i] \in {"closing", "idle"}
         /\ ~modemUp => client'[i] = client[i]
         /\ i \notin who => client'[i] = client[i]
         /\ i \in who /\ modemUp => client'[i] = Told(client[i], e)
BY DEF Notify, Told

(* The framework's events say nothing about sessions.                       *)
LEMMA PostKeepsSessions ==
  ASSUME TypeOK, SessionsAgree, NEW e \in FwEvents, Post(e),
         UNCHANGED <<subs, inactive, client, modemUp>>
  PROVE  SessionsAgree'
<1>1. /\ \A k \in DOMAIN inbox : k \in Nat /\ k < Len(inbox) + 1
      /\ \A k \in DOMAIN inbox' :
           \/ k \in DOMAIN inbox /\ inbox'[k] = inbox[k]
           \/ k = Len(inbox) + 1 /\ inbox'[k].event = e
  BY AppendQueue DEF Post
<1>2. e \notin {"SUBSCRIBE", "UNSUBSCRIBE", "ENGINE_UP"}
  BY DEF FwEvents
<1>3. Len(inbox) \in Nat
  BY DEF TypeOK
<1>4. EngineUpIsLast'
  BY <1>1, <1>2, <1>3 DEF SessionsAgree, EngineUpIsLast
<1>5. CloseIsMeant' /\ AskIsFirst'
  BY <1>1, <1>2, <1>3 DEF SessionsAgree, CloseIsMeant, AskIsFirst, From
<1>6. ListIsMeant'
  BY <1>1, <1>2 DEF SessionsAgree, ListIsMeant, From
<1>. QED
  BY <1>4, <1>5, <1>6 DEF SessionsAgree, DownIsIdle

(* A client posts m, its ask or its close; no one else's session moves.     *)
LEMMA ClientPostKeepsQueue ==
  ASSUME TypeOK, EngineUpIsLast, AskIsFirst, modemUp, modemUp', NEW i \in Ids,
         NEW m \in Message, m.event \in {"SUBSCRIBE", "UNSUBSCRIBE"}, m.id = i,
         m.event = "SUBSCRIBE" => ~InFlight(i), inbox' = Append(inbox, m)
  PROVE  EngineUpIsLast' /\ AskIsFirst'
<1>1. /\ \A k \in DOMAIN inbox : k \in Nat /\ k < Len(inbox) + 1
      /\ \A k \in DOMAIN inbox' :
           \/ k \in DOMAIN inbox /\ inbox'[k] = inbox[k]
           \/ k = Len(inbox) + 1 /\ inbox'[k] = m
      /\ Len(inbox) \in Nat
  BY AppendQueue DEF TypeOK
<1>2. EngineUpIsLast'
  BY <1>1 DEF EngineUpIsLast
<1>3. AskIsFirst'
  BY <1>1 DEF AskIsFirst, From, InFlight
<1>. QED
  BY <1>2, <1>3

LEMMA AskKeeps ==
  ASSUME SessionsInv, NEW i \in Ids, Ask(i) PROVE SessionsAgree' /\ GrantedIsHeld'
<1>. DEFINE m == [event |-> "SUBSCRIBE", id |-> i]
<1>1. m \in Message /\ m.event = "SUBSCRIBE" /\ m.id = i
  BY DEF Message
<1>2. EngineUpIsLast' /\ AskIsFirst'
  BY <1>1, ClientPostKeepsQueue DEF Ask, SessionsInv, SessionsAgree
<1>3. /\ \A k \in DOMAIN inbox' : (k \in DOMAIN inbox /\ inbox'[k] = inbox[k]) \/ inbox'[k] = m
      /\ client[i] = "idle" /\ client'[i] = "asked" /\ ~InFlight(i)
      /\ \A j \in Ids \ {i} : client'[j] = client[j]
      /\ modemUp /\ UNCHANGED <<state, subs, inactive, modemUp>>
  BY AppendQueue, <1>1 DEF Ask, SessionsInv, TypeOK
<1>4. CloseIsMeant'
  BY <1>1, <1>3 DEF SessionsInv, SessionsAgree, CloseIsMeant, From, InFlight
<1>5. ListIsMeant'
  BY <1>1, <1>3 DEF SessionsInv, SessionsAgree, ListIsMeant, From, InFlight, TypeOK
<1>6. GrantedIsHeld'
  BY <1>3 DEF SessionsInv, GrantedIsHeld, Active
<1>. QED
  BY <1>2, <1>3, <1>4, <1>5, <1>6 DEF SessionsAgree, DownIsIdle

LEMMA CloseKeeps ==
  ASSUME SessionsInv, NEW i \in Ids, Close(i) PROVE SessionsAgree' /\ GrantedIsHeld'
<1>. DEFINE m == [event |-> "UNSUBSCRIBE", id |-> i]
<1>1. m \in Message /\ m.event = "UNSUBSCRIBE" /\ m.id = i
  BY DEF Message
<1>2. EngineUpIsLast' /\ AskIsFirst'
  BY <1>1, ClientPostKeepsQueue DEF Close, SessionsInv, SessionsAgree
<1>3. /\ \A k \in DOMAIN inbox' : (k \in DOMAIN inbox /\ inbox'[k] = inbox[k]) \/ inbox'[k] = m
      /\ client'[i] = "closing"
      /\ \A j \in Ids \ {i} : client'[j] = client[j]
      /\ modemUp /\ UNCHANGED <<state, subs, inactive, modemUp>>
  BY AppendQueue, <1>1 DEF Close, SessionsInv, TypeOK
<1>4. CloseIsMeant'
  BY <1>1, <1>3 DEF SessionsInv, SessionsAgree, CloseIsMeant, From
<1>5. ListIsMeant'
  BY <1>1, <1>3 DEF SessionsInv, SessionsAgree, ListIsMeant, From
<1>6. GrantedIsHeld'
  BY <1>3 DEF SessionsInv, GrantedIsHeld, Active
<1>. QED
  BY <1>2, <1>3, <1>4, <1>5, <1>6 DEF SessionsAgree, DownIsIdle

(* The ask that is handled is the only one of its client in the queue.      *)
LEMMA SubscribeKeeps ==
  ASSUME SessionsInv, Flushed \/ EnforceSingle, NEW i \in Ids, OnSubscribe(i)
  PROVE  SessionsAgree' /\ GrantedIsHeld'
<1>1. /\ 1 \in DOMAIN inbox /\ From(i, inbox[1]) /\ inbox[1].event = "SUBSCRIBE"
      /\ \A k \in DOMAIN inbox' :
           k \in Nat \ {0} /\ k + 1 \in DOMAIN inbox /\ inbox'[k] = inbox[k + 1]
  BY ReceiveQueue DEF OnSubscribe, SessionsInv, From
<1>2. \A k \in DOMAIN inbox' : 1 < k + 1
  BY <1>1
<1>3. \A k \in DOMAIN inbox' : From(i, inbox'[k]) => inbox'[k].event = "UNSUBSCRIBE"
  BY <1>1, <1>2 DEF SessionsInv, SessionsAgree, AskIsFirst
<1>4. UNCHANGED client \/ \E e : Notify({i}, e)
  BY DEF OnSubscribe, SubscribeRsrc, SubscribeRefused, SubscribeReleased,
         SubscribeWaiting, SubscribeAcquired
<1>5. /\ DownIsIdle' /\ EngineUpIsLast' /\ CloseIsMeant' /\ AskIsFirst'
      /\ UNCHANGED modemUp
      /\ \A j \in Ids \ {i} : client'[j] = client[j]
  BY <1>4, EngineKeeps, NotifyKeeps DEF OnSubscribe, Engine, SessionsInv, SessionsAgree
<1>6. ASSUME SubscribeAcquired(i)
      PROVE  /\ client'[i] \in {client[i], "granted"}
             /\ client'[i] = "granted" /\ client[i] # "granted" => client[i] = "asked" /\ modemUp
  BY <1>6 DEF SubscribeAcquired, Notify, Told
<1>7. ListIsMeant'
  <2>1. SUFFICES ASSUME Flushed, ~EnforceSingle, modemUp' PROVE ListIsMeant'
    BY DEF ListIsMeant
  <2>2. i \notin subs /\ client[i] \in {"asked", "closing"}
    BY <1>1, <1>5, <2>1 DEF SessionsInv, SessionsAgree, ListIsMeant
  <2>3. /\ subs' = subs \cup {i} /\ UNCHANGED inactive /\ i \notin inactive
        /\ client'[i] # "idle"
    BY <1>6, <2>1, <2>2 DEF OnSubscribe, SubscribeRsrc, SubscribeReleased,
       SubscribeWaiting, SubscribeAcquired, SessionsInv, TypeOK
  <2>. QED
    BY <1>1, <1>3, <1>5, <2>1, <2>2, <2>3 DEF SessionsInv, SessionsAgree, ListIsMeant, From
<1>8. GrantedIsHeld'
  <2>1. CASE SubscribeRefused(i)
    BY <1>5, <2>1 DEF SubscribeRefused, Notify, Told, SessionsInv, GrantedIsHeld, Active
  <2>2. CASE SubscribeReleased(i) \/ SubscribeWaiting(i)
    BY <1>5, <2>2 DEF SubscribeReleased, SubscribeWaiting, SessionsInv, GrantedIsHeld, Active
  <2>3. CASE SubscribeAcquired(i) /\ ~(EnforceSingle /\ subs # {})
    <3>1. client[i] = "asked" /\ modemUp => i \notin inactive
      BY <2>3 DEF SessionsInv, SessionsAgree, ListIsMeant, TypeOK
    <3>. QED
      BY <1>5, <1>6, <2>3, <3>1 DEF SubscribeAcquired, SessionsInv, GrantedIsHeld, Active
  <2>. QED
    BY <2>1, <2>2, <2>3 DEF OnSubscribe, SubscribeRsrc
<1>. QED
  BY <1>5, <1>7, <1>8 DEF SessionsAgree

(* The close that is handled is meant: its client is closing or gone.       *)
LEMMA UnsubscribeKeeps ==
  ASSUME SessionsInv, NEW i \in Ids, OnUnsubscribe(i)
  PROVE  SessionsAgree' /\ GrantedIsHeld'
<1>1. /\ 1 \in DOMAIN inbox /\ From(i, inbox[1]) /\ inbox[1].event = "UNSUBSCRIBE"
      /\ \A k \in DOMAIN inbox' :
           k \in Nat \ {0} /\ k + 1 \in DOMAIN inbox /\ inbox'[k] = inbox[k + 1]
  BY ReceiveQueue DEF OnUnsubscribe, SessionsInv, From
<1>2. \A k \in DOMAIN inbox' : 1 < k + 1
  BY <1>1
<1>3. \A k \in DOMAIN inbox' : From(i, inbox'[k]) => inbox'[k].event = "UNSUBSCRIBE"
  BY <1>1, <1>2 DEF SessionsInv, SessionsAgree, AskIsFirst
<1>4. client[i] \in {"closing", "idle"}
  BY <1>1 DEF SessionsInv, SessionsAgree, CloseIsMeant
<1>5. /\ \A j \in Ids \ {i} : client'[j] = client[j]
      /\ client'[i] \in {"closing", "idle"}
      /\ ~modemUp => client'[i] = client[i]
  <2>1. CASE UnsubscribeUnknown(i)
    BY <1>4, <2>1 DEF UnsubscribeUnknown, SessionsInv, TypeOK
  <2>2. CASE UNCHANGED client \/ \E e : Notify({i}, e)
    BY <1>4, <2>2, NotifyKeeps
  <2>. QED
    BY <2>1, <2>2 DEF OnUnsubscribe, UnsubscribeHolding, UnsubscribeReleasing, DropOrDeactivate
<1>6. DownIsIdle' /\ EngineUpIsLast' /\ CloseIsMeant' /\ AskIsFirst' /\ UNCHANGED modemUp
  BY <1>4, <1>5, EngineKeeps DEF OnUnsubscribe, Engine, SessionsInv, SessionsAgree
<1>7. \A j \in Ids \ {i} : (j \in subs' <=> j \in subs) /\ (j \in inactive' <=> j \in inactive)
  BY DEF OnUnsubscribe, UnsubscribeUnknown, UnsubscribeHolding, UnsubscribeReleasing,
         DropOrDeactivate
<1>8. ListIsMeant'
  <2>1. SUFFICES ASSUME Flushed, ~EnforceSingle, modemUp' PROVE ListIsMeant'
    BY DEF ListIsMeant
  <2>2. /\ i \in inactive' => client'[i] = "closing"
        /\ i \in subs' => client'[i] # "idle"
    <3>1. CASE i \notin subs
      BY <3>1 DEF OnUnsubscribe, UnsubscribeUnknown, UnsubscribeHolding,
                  UnsubscribeReleasing, SessionsInv, TypeOK
    <3>2. CASE i \in subs
      <4>1. client[i] = "closing"
        BY <1>4, <1>6, <2>1, <3>2 DEF SessionsInv, SessionsAgree, ListIsMeant
      <4>2. DropOrDeactivate(i)
        BY <3>2 DEF OnUnsubscribe, UnsubscribeUnknown, UnsubscribeHolding, UnsubscribeReleasing
      <4>. QED
        BY <4>1, <4>2 DEF DropOrDeactivate
    <3>. QED
      BY <3>1, <3>2
  <2>. QED
    BY <1>1, <1>3, <1>5, <1>6, <1>7, <2>1, <2>2
    DEF SessionsInv, SessionsAgree, ListIsMeant, From
<1>9. GrantedIsHeld'
  <2>1. SUFFICES ASSUME NEW j \in Ids, client'[j] = "granted"
                 PROVE  state' = "Acquired" /\ j \in subs' \ inactive'
    BY DEF GrantedIsHeld, Active
  <2>2. j # i /\ state = "Acquired" /\ j \in subs' \ inactive'
    BY <1>5, <1>7, <2>1 DEF SessionsInv, GrantedIsHeld, Active
  <2>. QED
    BY <2>2 DEF OnUnsubscribe, UnsubscribeUnknown, UnsubscribeHolding, UnsubscribeReleasing
<1>. QED
  BY <1>6, <1>8, <1>9 DEF SessionsAgree

(* Whatever the framework's event makes of the list, those it is taken from  *)
(* are told.                                                                *)
LEMMA EventKeeps ==
  ASSUME SessionsInv, OnGranted \/ OnReleased \/ OnDenied
  PROVE  SessionsAgree' /\ GrantedIsHeld'
<1>1. PICK e \in FwEvents : Receive(e)
  BY DEF OnGranted, OnReleased, OnDenied, FwEvents
<1>2. /\ \A k \in DOMAIN inbox' :
           k \in Nat \ {0} /\ k + 1 \in DOMAIN inbox /\ inbox'[k] = inbox[k + 1]
      /\ UNCHANGED modemUp
  BY <1>1, ReceiveQueue DEF SessionsInv, OnGranted, OnReleased, OnDenied, Engine
<1>3. \/ state = "Pending" /\ state' = "Acquired" /\ Notify(Active, "GRANTED")
         /\ UNCHANGED <<subs, inactive>>
      \/ \E f \in {"RELEASED", "DENIED"} : TellAllAndRelease(f) \/ ReleaseDone(f)
      \/ Ignore
  BY DEF OnGranted, OnReleased, OnDenied
<1>4. UNCHANGED client \/ \E who, f : Notify(who, f)
  BY <1>3 DEF TellAllAndRelease, ReleaseDone, Ignore
<1>5. DownIsIdle' /\ EngineUpIsLast' /\ CloseIsMeant' /\ AskIsFirst'
  BY <1>1, <1>2, <1>4, EngineKeeps, NotifyKeeps DEF SessionsInv, SessionsAgree
<1>6. CASE /\ state = "Pending" /\ state' = "Acquired" /\ Notify(Active, "GRANTED")
           /\ UNCHANGED <<subs, inactive>>
  <2>1. ListIsMeant'
    BY <1>2, <1>6, NotifyKeeps
    DEF Told, SessionsInv, SessionsAgree, ListIsMeant, From, Active
  <2>2. GrantedIsHeld'
    BY <1>6, NotifyKeeps DEF SessionsInv, GrantedIsHeld, Active
  <2>. QED
    BY <1>5, <2>1, <2>2 DEF SessionsAgree
<1>7. ASSUME NEW f \in {"RELEASED", "DENIED"}, TellAllAndRelease(f)
      PROVE  SessionsAgree' /\ GrantedIsHeld'
  <2>1. /\ subs' = {} /\ inactive' = {} /\ Notify(subs, f)
        /\ \A i \in Ids \ subs : client'[i] = client[i]
    BY <1>7, NotifyKeeps DEF TellAllAndRelease
  <2>2. ListIsMeant'
    BY <1>2, <2>1 DEF SessionsInv, SessionsAgree, ListIsMeant, From, TypeOK
  <2>3. \A i \in Ids : client'[i] # "granted"
    BY <2>1 DEF Notify, Told, SessionsInv, SessionsAgree, DownIsIdle, GrantedIsHeld, Active
  <2>. QED
    BY <1>5, <2>2, <2>3 DEF SessionsAgree, GrantedIsHeld
<1>8. ASSUME NEW f \in {"RELEASED", "DENIED"}, ReleaseDone(f)
      PROVE  SessionsAgree' /\ GrantedIsHeld'
  <2>1. /\ subs' = Active /\ inactive' = {} /\ Notify(subs \cap inactive, f)
        /\ \A i \in Ids \ (subs \cap inactive) : client'[i] = client[i]
    BY <1>8, NotifyKeeps DEF ReleaseDone
  <2>2. ListIsMeant'
    BY <1>2, <2>1 DEF SessionsInv, SessionsAgree, ListIsMeant, From, Active
  <2>3. \A i \in Ids : client'[i] # "granted"
    BY <1>8, <2>1 DEF ReleaseDone, Notify, Told, SessionsInv, GrantedIsHeld
  <2>. QED
    BY <1>5, <2>2, <2>3 DEF SessionsAgree, GrantedIsHeld
<1>9. CASE Ignore
  <2>1. ListIsMeant'
    BY <1>2, <1>9 DEF Ignore, SessionsInv, SessionsAgree, ListIsMeant, From
  <2>. QED
    BY <1>5, <1>9, <2>1 DEF Ignore, SessionsAgree, SessionsInv, GrantedIsHeld, Active
<1>. QED
  BY <1>3, <1>6, <1>7, <1>8, <1>9

(* The modem goes, with its sessions, and comes back behind its old asks.   *)
LEMMA EngineUpKeeps ==
  ASSUME SessionsInv, OnEngineUp PROVE SessionsAgree' /\ GrantedIsHeld'
<1>1. /\ ~modemUp /\ AskIsFirst'
      /\ \A k \in DOMAIN inbox' : inbox'[k].event \in FwEvents
  BY ReceiveKeepsOrder DEF OnEngineUp, SessionsInv, SessionsAgree
<1>2. DownIsIdle' /\ EngineUpIsLast' /\ CloseIsMeant'
  BY <1>1 DEF OnEngineUp, DownIsIdle, EngineUpIsLast, CloseIsMeant, From, FwEvents
<1>3. ListIsMeant'
  BY <1>1 DEF OnEngineUp, ListIsMeant, From, FwEvents
<1>4. GrantedIsHeld'
  BY <1>1 DEF OnEngineUp, SessionsInv, SessionsAgree, DownIsIdle, GrantedIsHeld
<1>. QED
  BY <1>1, <1>2, <1>3, <1>4 DEF SessionsAgree

LEMMA RestartKeeps ==
  ASSUME SessionsInv, ModemRestart PROVE SessionsAgree' /\ GrantedIsHeld'
<1>. DEFINE m == [event |-> "ENGINE_UP"]
<1>1. /\ \A k \in DOMAIN inbox : k \in Nat /\ k < Len(inbox) + 1
      /\ \A k \in DOMAIN inbox' :
           \/ k \in DOMAIN inbox /\ inbox'[k] = inbox[k]
           \/ k = Len(inbox) + 1 /\ inbox'[k] = m
      /\ Len(inbox) \in Nat /\ m.event = "ENGINE_UP"
  BY AppendQueue DEF ModemRestart, SessionsInv, TypeOK
<1>2. modemUp /\ modemUp' = FALSE /\ \A i \in Ids : client'[i] = "idle"
  BY DEF ModemRestart
<1>3. EngineUpIsLast'
  BY <1>1, <1>2 DEF SessionsInv, SessionsAgree, EngineUpIsLast
<1>4. AskIsFirst'
  BY <1>1 DEF SessionsInv, SessionsAgree, AskIsFirst, From
<1>. QED
  BY <1>2, <1>3, <1>4 DEF SessionsAgree, DownIsIdle, CloseIsMeant, ListIsMeant, GrantedIsHeld

LEMMA NextSessionsInv ==
  ASSUME Flushed \/ EnforceSingle
  PROVE  SessionsInv /\ [Next]_vars => SessionsInv'
<1>. SUFFICES ASSUME SessionsInv, [Next]_vars PROVE SessionsAgree' /\ GrantedIsHeld'
  BY NextTypeOK DEF SessionsInv
<1>1. CASE FwRequest \/ FwRelease \/ FwAnswer \/ FwLose
  <2>1. /\ UNCHANGED <<state, subs, inactive, client, modemUp>>
        /\ UNCHANGED inbox \/ \E e \in FwEvents : Post(e)
    BY <1>1 DEF FwRequest, FwRelease, FwAnswer, FwLose, FwEvents
  <2>2. SessionsAgree'
    <3>1. CASE UNCHANGED inbox
      BY <2>1, <3>1 DEF SessionsInv, SessionsAgree, DownIsIdle, EngineUpIsLast,
                        CloseIsMeant, AskIsFirst, ListIsMeant
    <3>. QED
      BY <2>1, <3>1, PostKeepsSessions DEF SessionsInv
  <2>. QED
    BY <2>1, <2>2 DEF SessionsInv, GrantedIsHeld, Active
<1>2. CASE UNCHANGED vars
  BY <1>2 DEF vars, SessionsInv, SessionsAgree, DownIsIdle, EngineUpIsLast,
              CloseIsMeant, AskIsFirst, ListIsMeant, GrantedIsHeld, Active
<1>. QED
  BY <1>1, <1>2, AskKeeps, CloseKeeps, SubscribeKeeps, UnsubscribeKeeps, EventKeeps,
     EngineUpKeeps, RestartKeeps DEF Next, EngineStep, FwStep

(* On a NIF that is flushed when the modem comes back or admits a single     *)
(* subscriber (every NIF of the engine is one of the two), a client that     *)
(* was granted the connection and keeps it is an active subscriber of a      *)
(* machine that holds it, whatever the order of asks, closes, the           *)
(* framework's events and modem restarts.                                   *)
THEOREM GrantsAreHeld ==
  ASSUME Flushed \/ EnforceSingle PROVE Spec => []GrantedIsHeld
<1>1. SessionsInv /\ [Next]_vars => SessionsInv'
  BY NextSessionsInv
<1>. QED
  BY <1>1, InitSessionsInv, PTL DEF Spec, SessionsInv

(* And what each side takes for granted of the other holds: a modem that is  *)
(* down holds nothing and what it asked is queued ahead of ENGINE_UP, a       *)
(* client's ask is queued ahead of its close, and the list of a NIF that is   *)
(* flushed and shared has nobody idle and marks only who is closing.          *)
THEOREM SidesAgree ==
  ASSUME Flushed \/ EnforceSingle PROVE Spec => []SessionsAgree
<1>1. SessionsInv /\ [Next]_vars => SessionsInv'
  BY NextSessionsInv
<1>. QED
  BY <1>1, InitSessionsInv, PTL DEF Spec, SessionsInv

-----------------------------------------------------------------------------
(* Single subscribers: what is not counted is that the list, when not empty, *)
(* is one client.                                                           *)
AtMostOne == EnforceSingle => subs = {} \/ \E i \in Ids : subs = {i}

LEMMA NextAtMostOne == AtMostOne /\ [Next]_vars => AtMostOne'
<1>. SUFFICES ASSUME AtMostOne, [Next]_vars, EnforceSingle
              PROVE  subs' = {} \/ \E i \in Ids : subs' = {i}
  BY DEF AtMostOne
<1>1. CASE \E i \in Ids : OnSubscribe(i)
  BY <1>1 DEF AtMostOne, OnSubscribe, SubscribeRsrc, SubscribeRefused, SubscribeReleased,
              SubscribeWaiting, SubscribeAcquired
<1>2. ASSUME subs' \subseteq subs PROVE subs' = {} \/ \E i \in Ids : subs' = {i}
  BY <1>2 DEF AtMostOne
<1>3. CASE \E i \in Ids : OnUnsubscribe(i)
  BY <1>2, <1>3 DEF OnUnsubscribe, UnsubscribeUnknown, UnsubscribeHolding,
                    UnsubscribeReleasing, DropOrDeactivate
<1>4. CASE OnGranted \/ OnReleased \/ OnDenied \/ OnEngineUp
  BY <1>2, <1>4 DEF OnGranted, OnReleased, OnDenied, OnEngineUp, TellAllAndRelease,
                    ReleaseDone, Ignore, Active
<1>5. CASE \/ \E i \in Ids : Ask(i) \/ Close(i)
           \/ FwStep \/ FwLose \/ ModemRestart \/ UNCHANGED vars
  BY <1>2, <1>5 DEF Ask, Close, FwStep, FwRequest, FwRelease, FwAnswer, FwLose,
                    ModemRestart, vars
<1>. QED
  BY <1>1, <1>3, <1>4, <1>5 DEF Next, EngineStep

(* A NIF created with mEnforceSingleSubscriber never lists two subscribers.  *)
THEOREM OneSubscriber == Spec => []SingleSubscriber
<1>1. Init => AtMostOne
  BY DEF Init, AtMostOne
<1>2. AtMostOne => SingleSubscriber
  BY FS_EmptySet, FS_Singleton DEF AtMostOne, SingleSubscriber
<1>. QED
  BY <1>1, <1>2, NextAtMostOne, PTL DEF Spec

(* What the clients, the queued messages and the list of an interface know  *)
(* of each other, all at once.                                              *)
NifConsistent == TypeOK /\ SessionsAgree /\ SingleSubscriber

(* For any clients and bounds, and however asks, closes, the framework's    *)
(* events and restarts of the modem interleave, an interface that is        *)
(* flushed (agnss_nif, internet_nif) or has one subscriber (wifi_nif) is    *)
(* consistent: types, sessions, queues and list.                            *)
THEOREM NifIsConsistent ==
  ASSUME Flushed \/ EnforceSingle PROVE Spec => []NifConsistent
<1>1. TypeOK /\ SessionsAgree /\ SingleSubscriber => NifConsistent
  BY DEF NifConsistent
<1>. QED
  BY <1>1, TypeCorrect, SidesAgree, OneSubscriber, PTL

-----------------------------------------------------------------------------
(* The network-initiated requests: the modem is told of a request what the  *)
(* user said of that very request, and once.  The invariant says who can    *)
(* still give a payload away: the one thread of its session that is on its  *)
(* way, or the handler that finds it in `raw`.                              *)

Waiting == {"starting", "waiting"}
Underway == Waiting \cup {"leaving"}
Replies == {"unset", "noresp"} \cup Responses

-----------------------------------------------------------------------------
(* The inductive invariant.                                                 *)

Shape ==
  /\ raw \in [NiSessions -> Requests \cup {None}]
  /\ reqID \in [NiSessions -> Requests \cup {None}]
  /\ resp \in [NiSessions -> {"ignore"} \cup Replies]
  /\ recvd \in [NiSessions -> BOOLEAN]
  /\ thread \in [Requests -> {"none", "done"} \cup Underway]
  /\ message \in [Requests -> {None} \cup [request : Requests, response : Replies]]
  /\ kind \in [Requests -> NiSessions \cup {None}]
  /\ responding \in {None} \cup [session : NiSessions, request : Requests,
                                 response : Responses, ignore : BOOLEAN]
  /\ reset \in {None} \cup [session : NiSessions, request : Requests \cup {None}, wake : BOOLEAN]
  /\ reset # None /\ reset.wake => reset.request = None /\ raw[reset.session] = None
  /\ answer \in [Requests -> {"none", "freed"} \cup Replies]
  /\ said \in [Requests -> SUBSET Responses]
  /\ twice \in BOOLEAN /\ late \in BOOLEAN
  /\ \A r \in Requests : kind[r] = None => thread[r] = "none"

\* A stored request has its thread waiting for it, and its payload.
StoredIsAwaited ==
  \A s \in NiSessions : raw[s] # None =>
    kind[raw[s]] = s /\ thread[raw[s]] \in Waiting /\ answer[raw[s]] = "none"

\* A session has one thread.
OneThread ==
  \A q, r \in Requests :
    kind[q] = kind[r] /\ thread[q] \in Underway /\ thread[r] \in Underway => q = r

\* A thread makes its message when it stops waiting: about its own request, whose payload
\* is still there until it sends it.
MessageIsOwn ==
  \A r \in Requests : message[r] # None =>
    /\ thread[r] \in {"leaving", "done"}
    /\ thread[r] = "leaving" =>
         /\ message[r].request = r /\ answer[r] = "none"
         /\ message[r].response \in Responses => message[r].response \in said[r]

\* A response is noticed by a thread that waits, and is about the stored request.
NoticeIsAwaited ==
  \A s \in NiSessions : recvd[s] => \E r \in Requests : kind[r] = s /\ thread[r] \in Waiting
NoticeIsOwn ==
  \A s \in NiSessions :
    recvd[s] /\ raw[s] # None /\ resp[s] \in Responses => resp[s] \in said[raw[s]]

\* A request that has not come has no answer.
UncomeIsFresh == \A r \in Requests : kind[r] = None => answer[r] = "none"

AnswerIsSaid == \A r \in Requests : answer[r] \in Responses => answer[r] \in said[r]
ResponseIsSaid == responding # None => responding.response \in said[responding.request]

Own ==
  /\ ~twice /\ StoredIsAwaited /\ OneThread /\ MessageIsOwn
  /\ NoticeIsAwaited /\ NoticeIsOwn /\ UncomeIsFresh
  /\ AnswerIsSaid /\ ResponseIsSaid

NiInv == Shape /\ (~late => Own)

-----------------------------------------------------------------------------
(* Every action keeps it.                                                   *)

\* Nothing has come yet.
LEMMA InvStarts == niInit => NiInv
<1> SUFFICES ASSUME niInit PROVE NiInv
  OBVIOUS
<1> USE DEF niInit
<1>1. Shape
  BY DEF Shape, Replies
<1>2. StoredIsAwaited /\ OneThread /\ MessageIsOwn
  BY DEF StoredIsAwaited, OneThread, MessageIsOwn, Underway, Waiting
<1>3. NoticeIsAwaited /\ NoticeIsOwn /\ UncomeIsFresh /\ AnswerIsSaid /\ ResponseIsSaid
  BY DEF NoticeIsAwaited, NoticeIsOwn, UncomeIsFresh, AnswerIsSaid, ResponseIsSaid, Responses
<1> QED
  BY <1>1, <1>2, <1>3 DEF NiInv, Own

\* A payload that is given away changes only what became of it.
LEMMA LeaveKeepsTypes ==
  ASSUME Shape, NEW r \in Requests, NEW how \in {"freed"} \cup Replies, Leave(r, how)
  PROVE  /\ answer' \in [Requests -> {"none", "freed"} \cup Replies] /\ twice' \in BOOLEAN
         /\ \A q \in Requests : q # r => answer'[q] = answer[q]
         /\ answer[r] = "none" => answer'[r] = how /\ twice' = twice
BY DEF Shape, Leave

\* loc_eng_ni_request_handler stores a request in a session that has no thread left, or
\* frees it.
LEMMA RequestKeeps ==
  ASSUME NiInv, NEW r \in Requests, NEW s \in NiSessions, Request(r, s)
  PROVE  NiInv'
<1> USE DEF NiInv, Request, Underway, Waiting
<1>1. Shape'
  <2>1. answer' \in [Requests -> {"none", "freed"} \cup Replies] /\ twice' \in BOOLEAN
    BY LeaveKeepsTypes DEF Shape
  <2>2. /\ raw' \in [NiSessions -> Requests \cup {None}]
        /\ reqID' \in [NiSessions -> Requests \cup {None}]
        /\ thread' \in [Requests -> {"none", "done"} \cup Underway]
        /\ kind' \in [Requests -> NiSessions \cup {None}]
    BY DEF Shape
  <2>3. \A q \in Requests : kind'[q] = None => thread'[q] = "none"
    BY NiAssumption DEF Shape
  <2>4. late' \in BOOLEAN
    BY DEF Shape
  <2> QED
    BY <2>1, <2>2, <2>3, <2>4 DEF Shape
<1>2. ASSUME ~late' PROVE Own'
  <2>1. ~late /\ Own
    BY <1>2 DEF Shape
  <2>2. kind[r] = None /\ thread[r] = "none" /\ answer[r] = "none"
    BY <2>1 DEF Own, UncomeIsFresh, Shape
  <2>3. \A q \in Requests : q # r => kind'[q] = kind[q] /\ thread'[q] = thread[q] /\ answer'[q] = answer[q]
    BY DEF Shape, Leave
  <2>4. kind'[r] = s
    BY DEF Shape
  <2>5. CASE Accepts(s)
    <3>1. /\ raw' = [raw EXCEPT ![s] = r] /\ thread'[r] = "starting" /\ answer' = answer
          /\ raw'[s] = r /\ twice' = twice
      BY <2>5 DEF Shape
    <3>2. \A q \in Requests : kind[q] = s => thread[q] \in {"none", "done"}
      BY <1>2, <2>5 DEF Threads, Shape
    <3>3. ~recvd[s]
      BY <2>1, <3>2 DEF Own, NoticeIsAwaited
    <3>4. \A p \in NiSessions : p # s => raw'[p] = raw[p] /\ (raw[p] # None => raw[p] # r)
      BY <3>1, <2>1, <2>2, NiAssumption DEF Shape, Own, StoredIsAwaited
    <3>5. StoredIsAwaited'
      BY <3>1, <3>4, <2>1, <2>2, <2>3, <2>4 DEF Shape, Own, StoredIsAwaited
    <3>6. OneThread'
      BY <3>1, <3>2, <2>1, <2>3, <2>4 DEF Own, OneThread
    <3>7. MessageIsOwn'
      BY <3>1, <2>1, <2>2, <2>3 DEF Own, MessageIsOwn
    <3>8. NoticeIsAwaited'
      <4>1. ASSUME NEW p \in NiSessions, recvd'[p]
            PROVE  \E q \in Requests : kind'[q] = p /\ thread'[q] \in Waiting
        <5>1. PICK q \in Requests : kind[q] = p /\ thread[q] \in Waiting
          BY <4>1, <2>1 DEF Own, NoticeIsAwaited
        <5>2. q # r
          BY <5>1, <2>2
        <5> QED
          BY <5>1, <5>2, <2>3
      <4> QED
        BY <4>1 DEF NoticeIsAwaited
    <3>9. NoticeIsOwn'
      BY <3>3, <3>4, <2>1 DEF Own, NoticeIsOwn
    <3>10. UncomeIsFresh' /\ AnswerIsSaid' /\ ResponseIsSaid'
      BY <3>1, <2>1, <2>3, <2>4, NiAssumption
         DEF Own, UncomeIsFresh, AnswerIsSaid, ResponseIsSaid
    <3> QED
      BY <3>1, <3>5, <3>6, <3>7, <3>8, <3>9, <3>10, <2>1 DEF Own
  <2>6. CASE ~Accepts(s)
    <3>1. raw' = raw /\ thread' = thread /\ answer'[r] = "freed" /\ twice' = FALSE
      BY <2>6, <2>1, <2>2 DEF Shape, Leave, Own
    <3>2. \A p \in NiSessions : raw[p] # None => raw[p] # r
      BY <2>1, <2>2, NiAssumption DEF Shape, Own, StoredIsAwaited
    <3>3. StoredIsAwaited'
      BY <3>1, <3>2, <2>1, <2>3 DEF Shape, Own, StoredIsAwaited
    <3>4. OneThread'
      BY <3>1, <2>1, <2>2, <2>3 DEF Own, OneThread
    <3>5. MessageIsOwn'
      BY <3>1, <2>1, <2>2, <2>3 DEF Own, MessageIsOwn
    <3>6. NoticeIsAwaited'
      BY <3>1, <2>1, <2>2, <2>3 DEF Own, NoticeIsAwaited
    <3>7. NoticeIsOwn'
      BY <3>1, <2>1 DEF Own, NoticeIsOwn
    <3>8. UncomeIsFresh' /\ AnswerIsSaid' /\ ResponseIsSaid'
      BY <3>1, <2>1, <2>3, <2>4, NiAssumption
         DEF Own, UncomeIsFresh, AnswerIsSaid, ResponseIsSaid, Responses
    <3> QED
      BY <3>1, <3>3, <3>4, <3>5, <3>6, <3>7, <3>8 DEF Own
  <2> QED
    BY <2>5, <2>6
<1> QED
  BY <1>1, <1>2

\* Looking at a session changes nothing the answers depend on.
LEMMA ResetLooksKeeps ==
  ASSUME NiInv, (\E s \in NiSessions : ResetLooks(s)) \/ ResetEnds
  PROVE  NiInv'
<1>1. Shape'
  <2>1. CASE \E s \in NiSessions : ResetLooks(s)
    <3>1. PICK s \in NiSessions : ResetLooks(s)
      BY <2>1
    <3>2. reset' \in [session : NiSessions, request : Requests \cup {None}, wake : BOOLEAN]
          /\ ~reset'.wake
      BY <3>1 DEF NiInv, Shape, ResetLooks
    <3> QED
      BY <3>1, <3>2 DEF NiInv, Shape, ResetLooks, niGhosts
  <2>2. CASE ResetEnds
    BY <2>2 DEF NiInv, Shape, ResetEnds, niGhosts
  <2> QED
    BY <2>1, <2>2
<1>2. Own => Own'
  BY DEF ResetLooks, ResetEnds, niGhosts, Own, StoredIsAwaited, OneThread, MessageIsOwn,
         NoticeIsAwaited, NoticeIsOwn, UncomeIsFresh, AnswerIsSaid, ResponseIsSaid
<1>3. late' = late
  BY DEF ResetLooks, ResetEnds, niGhosts
<1> QED
  BY <1>1, <1>2, <1>3 DEF NiInv

\* A restart wakes the thread of the request it has freed, which finds nothing; when
\* that thread is gone the answers are not vouched for any more.
LEMMA ResetWakesKeeps ==
  ASSUME NiInv, ResetWakes
  PROVE  NiInv'
<1> DEFINE s == reset.session
<1> USE DEF NiInv, ResetWakes
<1>0. s \in NiSessions /\ raw[s] = None
  BY DEF Shape
<1>1. Shape'
  BY <1>0 DEF Shape
<1>2. ASSUME ~late' PROVE Own'
  <2>1. ~late /\ Own
    BY <1>2 DEF Shape
  <2>2. PICK r \in Requests : kind[r] = s /\ thread[r] \in Waiting
    BY <1>2 DEF Shape, Threads, Underway, Waiting
  <2>3. recvd'[s] /\ \A p \in NiSessions : p # s => recvd'[p] = recvd[p]
    BY <1>0 DEF Shape
  <2>4. NoticeIsAwaited'
    BY <2>1, <2>2, <2>3 DEF Own, NoticeIsAwaited
  <2>5. NoticeIsOwn'
    BY <2>1, <2>3, <1>0 DEF Own, NoticeIsOwn
  <2>6. StoredIsAwaited' /\ OneThread' /\ UncomeIsFresh' /\ AnswerIsSaid' /\ MessageIsOwn'
    BY <2>1 DEF Own, StoredIsAwaited, OneThread, UncomeIsFresh, AnswerIsSaid, MessageIsOwn
  <2> QED
    BY <2>1, <2>4, <2>5, <2>6 DEF Own, ResponseIsSaid
<1> QED
  BY <1>1, <1>2

\* A restart frees the stored request.
LEMMA ResetFreesKeeps ==
  ASSUME NiInv, ResetFrees
  PROVE  NiInv'
<1> DEFINE s == reset.session
           r == reset.request
<1> USE DEF NiInv, ResetFrees, Underway, Waiting
<1>0. s \in NiSessions /\ r \in Requests
  BY DEF Shape
<1>1. Shape'
  BY <1>0 DEF Shape, Leave, Replies
<1>2. ASSUME ~late' PROVE Own'
  <2>1. ~late /\ Own /\ raw[s] = r
    BY <1>2, <1>0 DEF Shape
  <2>2. kind[r] = s /\ thread[r] \in Waiting /\ answer[r] = "none"
    BY <2>1, <1>0 DEF Own, StoredIsAwaited
  <2>3. /\ answer'[r] = "freed" /\ twice' = FALSE
        /\ \A q \in Requests : q # r => answer'[q] = answer[q]
    BY <2>1, <2>2, <1>0 DEF Shape, Leave, Own
  <2>4. /\ raw'[s] = None
        /\ \A p \in NiSessions : p # s => raw'[p] = raw[p]
    BY <1>0 DEF Shape
  <2>5. StoredIsAwaited'
    <3>1. ASSUME NEW p \in NiSessions, raw'[p] # None
          PROVE  kind[raw'[p]] = p /\ thread[raw'[p]] \in Waiting /\ answer'[raw'[p]] = "none"
      <4>1. p # s /\ raw'[p] = raw[p]
        BY <3>1, <2>4
      <4>2. raw[p] \in Requests /\ kind[raw[p]] = p /\ thread[raw[p]] \in Waiting
            /\ answer[raw[p]] = "none"
        BY <3>1, <4>1, <2>1 DEF Shape, Own, StoredIsAwaited
      <4> QED
        BY <4>1, <4>2, <2>2, <2>3
    <3> QED
      BY <3>1 DEF StoredIsAwaited
  <2>6. OneThread'
    BY <2>1 DEF Own, OneThread
  <2>7. MessageIsOwn'
    BY <2>1, <2>2, <2>3 DEF Own, MessageIsOwn
  <2>8. NoticeIsAwaited'
    BY <2>1, <2>2, <2>4, <1>0 DEF Own, NoticeIsAwaited
  <2>9. NoticeIsOwn'
    BY <2>1, <2>4 DEF Own, NoticeIsOwn
  <2>10. UncomeIsFresh' /\ AnswerIsSaid' /\ ResponseIsSaid'
    BY <2>1, <2>2, <2>3, <1>0, NiAssumption
       DEF Own, UncomeIsFresh, AnswerIsSaid, ResponseIsSaid, Responses
  <2> QED
    BY <2>3, <2>5, <2>6, <2>7, <2>8, <2>9, <2>10 DEF Own
<1> QED
  BY <1>1, <1>2

\* loc_eng_ni_respond begins: the user has spoken of a request nobody has responded to.
LEMMA RespondKeeps ==
  ASSUME NiInv, NEW r \in Requests, NEW a \in Responses, Respond(r, a)
  PROVE  NiInv'
<1> USE DEF NiInv, Respond
<1>1. Shape'
  BY NiAssumption DEF Shape, NiSessions
<1>2. ASSUME ~late' PROVE Own'
  <2>1. ~late /\ Own
    BY <1>2
  <2>2. /\ said'[r] = {a} /\ said[r] = {}
        /\ \A q \in Requests : said[q] \subseteq said'[q]
    BY DEF Shape
  <2>3. responding'.request = r /\ responding'.response = a
    OBVIOUS
  <2>4. MessageIsOwn'
    BY <2>1, <2>2 DEF Own, MessageIsOwn, Shape
  <2>5. NoticeIsOwn'
    BY <2>1, <2>2 DEF Own, NoticeIsOwn, Shape
  <2>6. StoredIsAwaited' /\ OneThread' /\ NoticeIsAwaited' /\ UncomeIsFresh'
    BY <2>1 DEF Own, StoredIsAwaited, OneThread, NoticeIsAwaited, UncomeIsFresh
  <2>7. AnswerIsSaid' /\ ResponseIsSaid'
    BY <2>1, <2>2, <2>3 DEF Own, AnswerIsSaid, ResponseIsSaid
  <2> QED
    BY <2>1, <2>4, <2>5, <2>6, <2>7 DEF Own
<1> QED
  BY <1>1, <1>2

\* The other session's thread is told to drop its request.
LEMMA RespondIgnoresKeeps ==
  ASSUME NiInv, RespondIgnores
  PROVE  NiInv'
<1> USE DEF NiInv, RespondIgnores
<1>1. Shape'
  BY DEF Shape, NiSessions
<1>2. ASSUME ~late' PROVE Own'
  <2>1. ~late /\ Own /\ raw["normal"] # None
    BY <1>2 DEF Shape
  <2>2. /\ resp'["normal"] = "ignore" /\ recvd'["normal"]
        /\ \A p \in NiSessions : p # "normal" => resp'[p] = resp[p] /\ recvd'[p] = recvd[p]
    BY DEF Shape, NiSessions
  <2>3. NoticeIsAwaited'
    <3>1. raw["normal"] \in Requests /\ kind[raw["normal"]] = "normal"
          /\ thread[raw["normal"]] \in Waiting
      BY <2>1 DEF Shape, Own, StoredIsAwaited, NiSessions
    <3> QED
      BY <2>1, <2>2, <3>1 DEF Own, NoticeIsAwaited
  <2>4. NoticeIsOwn'
    BY <2>1, <2>2 DEF Own, NoticeIsOwn, Responses
  <2>5. StoredIsAwaited' /\ OneThread' /\ UncomeIsFresh' /\ AnswerIsSaid' /\ MessageIsOwn'
    BY <2>1 DEF Own, StoredIsAwaited, OneThread, UncomeIsFresh, AnswerIsSaid, MessageIsOwn
  <2>6. ResponseIsSaid'
    <3>1. responding'.response = responding.response /\ responding'.request = responding.request
      BY DEF Shape
    <3> QED
      BY <2>1, <3>1 DEF Own, ResponseIsSaid
  <2> QED
    BY <2>1, <2>3, <2>4, <2>5, <2>6 DEF Own
<1> QED
  BY <1>1, <1>2

\* The response is noted in the session the request is still stored in.
LEMMA RespondSetsKeeps ==
  ASSUME NiInv, RespondSets
  PROVE  NiInv'
<1> DEFINE s == responding.session
           r == responding.request
<1> USE DEF NiInv, RespondSets
<1>0. s \in NiSessions /\ r \in Requests /\ responding.response \in Responses
  BY DEF Shape
<1>1. Shape'
  BY <1>0 DEF Shape, Replies
<1>2. ASSUME ~late' PROVE Own'
  <2>1. ~late /\ Own /\ raw[s] = r
    BY <1>2 DEF Shape
  <2>2. /\ resp'[s] = responding.response /\ recvd'[s]
        /\ \A p \in NiSessions : p # s => resp'[p] = resp[p] /\ recvd'[p] = recvd[p]
    BY <1>0 DEF Shape
  <2>3. r # None
    BY <1>0, NiAssumption
  <2>4. kind[r] = s /\ thread[r] \in Waiting
    BY <1>0, <2>1, <2>3 DEF Own, StoredIsAwaited
  <2>5. NoticeIsAwaited'
    BY <1>0, <2>1, <2>2, <2>4 DEF Own, NoticeIsAwaited
  <2>6. NoticeIsOwn'
    BY <2>1, <2>2 DEF Own, NoticeIsOwn, ResponseIsSaid
  <2>7. StoredIsAwaited' /\ OneThread' /\ UncomeIsFresh' /\ AnswerIsSaid' /\ MessageIsOwn'
    BY <2>1 DEF Own, StoredIsAwaited, OneThread, UncomeIsFresh, AnswerIsSaid, MessageIsOwn
  <2> QED
    BY <2>1, <2>5, <2>6, <2>7 DEF Own, ResponseIsSaid
<1> QED
  BY <1>1, <1>2

\* ni_thread_proc takes what its session stores: its own request, or nothing after a
\* restart.
LEMMA TakesKeeps ==
  ASSUME NiInv, NEW r \in Requests, NEW a \in {"ignore"} \cup Replies, Takes(r, a),
         thread[r] \in Waiting, kind[r] \in NiSessions,
         ~late => (raw[kind[r]] # None /\ a \in Responses => a \in said[raw[kind[r]]])
  PROVE  NiInv'
<1> DEFINE s == kind[r]
<1> USE DEF NiInv, Takes, Taken, Ignored
<1>1. Shape'
  <2>1. answer' \in [Requests -> {"none", "freed"} \cup Replies] /\ twice' \in BOOLEAN
    BY LeaveKeepsTypes DEF Shape
  <2>2. message' \in [Requests -> {None} \cup [request : Requests, response : Replies]]
    BY DEF Shape
  <2>3. /\ raw' \in [NiSessions -> Requests \cup {None}]
        /\ resp' \in [NiSessions -> {"ignore"} \cup Replies]
        /\ recvd' \in [NiSessions -> BOOLEAN]
        /\ thread' \in [Requests -> {"none", "done"} \cup Underway]
    BY DEF Shape, Underway
  <2>4. \A q \in Requests : kind'[q] = None => thread'[q] = "none"
    BY NiAssumption DEF Shape
  <2> QED
    BY <2>1, <2>2, <2>3, <2>4 DEF Shape
<1>2. ASSUME ~late' PROVE Own'
  <2>1. ~late /\ Own
    BY <1>2
  <2>2. /\ raw'[s] = None /\ recvd'[s] = FALSE
        /\ \A p \in NiSessions : p # s => /\ raw'[p] = raw[p] /\ recvd'[p] = recvd[p]
                                          /\ resp'[p] = resp[p]
    BY DEF Shape
  <2>3. /\ thread'[r] = "leaving"
        /\ \A q \in Requests : q # r => thread'[q] = thread[q]
    BY DEF Shape, Underway
  <2>4. raw[s] = None \/ (raw[s] = r /\ answer[r] = "none" /\ r # None)
    BY <2>1, NiAssumption DEF Shape, Own, StoredIsAwaited, OneThread, Underway
  <2>5. message[r] = None
    BY <2>1 DEF Own, MessageIsOwn, Waiting
  <2>6. \A q \in Requests : q # r => message'[q] = message[q] /\ answer'[q] = answer[q]
    BY <2>4 DEF Shape, Leave
  <2>7. ~twice' /\ answer'[r] \in {answer[r], "freed"}
    BY <2>1, <2>4 DEF Shape, Leave, Own
  <2>8. message'[r] # None =>
          /\ message'[r].request = r /\ answer'[r] = "none"
          /\ message'[r].response = a /\ raw[s] = r
    BY <2>4, <2>5 DEF Shape
  <2>9. StoredIsAwaited'
    <3>1. ASSUME NEW p \in NiSessions, raw'[p] # None
          PROVE  kind[raw'[p]] = p /\ thread'[raw'[p]] \in Waiting /\ answer'[raw'[p]] = "none"
      <4>1. p # s /\ raw'[p] = raw[p]
        BY <3>1, <2>2
      <4>2. raw[p] \in Requests /\ kind[raw[p]] = p /\ thread[raw[p]] \in Waiting
            /\ answer[raw[p]] = "none"
        BY <3>1, <4>1, <2>1 DEF Shape, Own, StoredIsAwaited
      <4> QED
        BY <4>1, <4>2, <2>3, <2>6
    <3>2. kind' = kind
      OBVIOUS
    <3> QED
      BY <3>1, <3>2 DEF StoredIsAwaited
  <2>10. OneThread'
    <3>1. \A q \in Requests : thread'[q] \in Underway => thread[q] \in Underway
      BY <2>3 DEF Underway
    <3> QED
      BY <2>1, <3>1 DEF Own, OneThread
  <2>11. MessageIsOwn'
    <3>1. ASSUME message'[r] # None, message'[r].response \in Responses
          PROVE  message'[r].response \in said'[r]
      <4>1. raw[s] = r /\ r # None /\ a \in Responses
        BY <3>1, <2>8, NiAssumption
      <4> QED
        BY <3>1, <4>1, <2>1, <2>8
    <3>2. \A q \in Requests : q # r /\ message'[q] # None =>
            /\ thread'[q] \in {"leaving", "done"}
            /\ thread'[q] = "leaving" =>
                 /\ message'[q].request = q /\ answer'[q] = "none"
                 /\ message'[q].response \in Responses => message'[q].response \in said'[q]
      BY <2>1, <2>3, <2>6 DEF Own, MessageIsOwn
    <3> QED
      BY <2>3, <2>8, <3>1, <3>2 DEF MessageIsOwn
  <2>12. NoticeIsAwaited'
    <3>1. ASSUME NEW p \in NiSessions, recvd'[p]
          PROVE  \E q \in Requests : kind'[q] = p /\ thread'[q] \in Waiting
      <4>1. p # s /\ recvd[p]
        BY <3>1, <2>2
      <4>2. PICK q \in Requests : kind[q] = p /\ thread[q] \in Waiting
        BY <4>1, <2>1 DEF Own, NoticeIsAwaited
      <4>3. q # r /\ kind' = kind
        BY <4>1, <4>2
      <4> QED
        BY <4>2, <4>3, <2>3
    <3> QED
      BY <3>1 DEF NoticeIsAwaited
  <2>13. NoticeIsOwn'
    BY <2>1, <2>2 DEF Own, NoticeIsOwn
  <2>14. UncomeIsFresh'
    BY <2>1, <2>3, <2>6, NiAssumption DEF Own, UncomeIsFresh
  <2>15. AnswerIsSaid'
    BY <2>1, <2>6, <2>7 DEF Own, AnswerIsSaid, Responses
  <2>16. ResponseIsSaid'
    BY <2>1 DEF Own, ResponseIsSaid
  <2> QED
    BY <2>7, <2>9, <2>10, <2>11, <2>12, <2>13, <2>14, <2>15, <2>16 DEF Own
<1> QED
  BY <1>1, <1>2

\* The message goes to the modem, and its payload with it.
LEMMA ThreadLeavesKeeps ==
  ASSUME NiInv, NEW r \in Requests, ThreadLeaves(r)
  PROVE  NiInv'
<1> USE DEF NiInv, ThreadLeaves
<1>1. Shape'
  <2>1. answer' \in [Requests -> {"none", "freed"} \cup Replies] /\ twice' \in BOOLEAN
    <3>1. ASSUME message[r] # None
          PROVE  message[r].request \in Requests /\ message[r].response \in Replies
      BY <3>1 DEF Shape
    <3> QED
      BY <3>1, LeaveKeepsTypes DEF Shape
  <2>2. /\ thread' \in [Requests -> {"none", "done"} \cup Underway]
        /\ reqID' \in [NiSessions -> Requests \cup {None}]
    BY DEF Shape
  <2>3. \A q \in Requests : kind'[q] = None => thread'[q] = "none"
    BY DEF Shape
  <2> QED
    BY <2>1, <2>2, <2>3 DEF Shape
<1>2. ASSUME ~late' PROVE Own'
  <2>1. ~late /\ Own
    BY <1>2
  <2>2. /\ thread'[r] = "done"
        /\ \A q \in Requests : q # r => thread'[q] = thread[q]
    BY DEF Shape, Underway
  <2>3. message[r] # None => message[r].request = r /\ answer[r] = "none"
    BY <2>1 DEF Own, MessageIsOwn
  <2>4. \A q \in Requests : q # r => answer'[q] = answer[q]
    BY <2>3 DEF Shape, Leave
  <2>5. ~twice' /\ (answer'[r] = answer[r] \/ (message[r] # None /\ answer'[r] = message[r].response))
    BY <2>1, <2>3 DEF Shape, Leave, Own
  <2>6. StoredIsAwaited'
    <3>1. \A p \in NiSessions : raw[p] # None => raw[p] \in Requests /\ raw[p] # r
      BY <2>1 DEF Shape, Own, StoredIsAwaited, Waiting
    <3> QED
      BY <2>1, <2>2, <2>4, <3>1 DEF Own, StoredIsAwaited
  <2>7. OneThread'
    BY <2>1, <2>2 DEF Own, OneThread, Underway, Waiting
  <2>8. MessageIsOwn'
    BY <2>1, <2>2, <2>4 DEF Own, MessageIsOwn
  <2>9. NoticeIsAwaited'
    <3>1. \A q \in Requests : thread[q] \in Waiting => thread'[q] = thread[q]
      BY <2>2 DEF Waiting
    <3> QED
      BY <2>1, <3>1 DEF Own, NoticeIsAwaited
  <2>10. NoticeIsOwn' /\ ResponseIsSaid'
    BY <2>1 DEF Own, NoticeIsOwn, ResponseIsSaid
  <2>11. UncomeIsFresh'
    BY <2>1, <2>4, NiAssumption DEF Own, UncomeIsFresh, Shape
  <2>12. AnswerIsSaid'
    <3>1. message[r] # None /\ message[r].response \in Responses => message[r].response \in said[r]
      BY <2>1 DEF Own, MessageIsOwn
    <3> QED
      BY <2>1, <2>4, <2>5, <3>1 DEF Own, AnswerIsSaid
  <2> QED
    BY <2>5, <2>6, <2>7, <2>8, <2>9, <2>10, <2>11, <2>12 DEF Own
<1> QED
  BY <1>1, <1>2

\* The steps of a request's thread.
LEMMA ThreadKeeps ==
  ASSUME NiInv, NEW r \in Requests, Thread(r)
  PROVE  NiInv'
<1>1. CASE ThreadWaits(r)
  <2> USE DEF NiInv, ThreadWaits, niGhosts
  <2>1. Shape'
    BY <1>1 DEF Shape, Underway, Waiting
  <2>2. /\ thread'[r] = "waiting" /\ thread[r] = "starting"
        /\ \A q \in Requests : q # r => thread'[q] = thread[q]
    BY <1>1 DEF Shape, Underway, Waiting
  <2>3. /\ \A q \in Requests : thread'[q] \in Waiting <=> thread[q] \in Waiting
        /\ \A q \in Requests : thread'[q] \in Underway <=> thread[q] \in Underway
        /\ \A q \in Requests : thread'[q] \in {"leaving", "done"} => thread'[q] = thread[q]
        /\ \A q \in Requests : thread[q] \in {"leaving", "done", "none"} => thread'[q] = thread[q]
    BY <2>2 DEF Underway, Waiting
  <2>4. ASSUME ~late' PROVE Own'
    <3>1. Own
      BY <1>1, <2>4
    <3>2. StoredIsAwaited'
      BY <1>1, <2>3, <3>1 DEF Shape, Own, StoredIsAwaited
    <3>3. OneThread' /\ NoticeIsAwaited'
      BY <1>1, <2>3, <3>1 DEF Own, OneThread, NoticeIsAwaited
    <3>4. MessageIsOwn' /\ UncomeIsFresh'
      BY <1>1, <2>3, <3>1 DEF Own, MessageIsOwn, UncomeIsFresh
    <3>5. NoticeIsOwn' /\ AnswerIsSaid' /\ ResponseIsSaid' /\ ~twice'
      BY <1>1, <3>1 DEF Own, NoticeIsOwn, AnswerIsSaid, ResponseIsSaid
    <3> QED
      BY <3>2, <3>3, <3>4, <3>5 DEF Own
  <2> QED
    BY <2>1, <2>4
<1>2. CASE ThreadWakes(r)
  <2>1. resp[kind[r]] \in {"ignore"} \cup Replies /\ kind[r] \in NiSessions
    BY <1>2 DEF ThreadWakes, NiInv, Shape
  <2> QED
    BY <1>2, <2>1, TakesKeeps DEF ThreadWakes, Waiting, NiInv, Own, NoticeIsOwn
<1>3. CASE ThreadTimesOut(r)
  <2>1. kind[r] \in NiSessions
    BY <1>3 DEF ThreadTimesOut, NiInv, Shape
  <2> QED
    BY <1>3, <2>1, TakesKeeps DEF ThreadTimesOut, Waiting, Replies, Responses
<1>4. CASE ThreadLeaves(r)
  BY <1>4, ThreadLeavesKeeps
<1> QED
  BY <1>1, <1>2, <1>3, <1>4 DEF Thread

\* Every step, or none, keeps the invariant.
LEMMA NextKeeps ==
  ASSUME NiInv, [niNext]_niVars
  PROVE  NiInv'
<1>1. CASE UNCHANGED niVars
  BY <1>1 DEF niVars, NiInv, Shape, Own, StoredIsAwaited, OneThread, MessageIsOwn,
              NoticeIsAwaited, NoticeIsOwn, UncomeIsFresh, AnswerIsSaid, ResponseIsSaid
<1>2. CASE niNext
  BY <1>2, RequestKeeps, ResetLooksKeeps, ResetFreesKeeps, ResetWakesKeeps, RespondKeeps, RespondIgnoresKeeps,
     RespondSetsKeeps, ThreadKeeps DEF niNext, Reset
<1> QED
  BY <1>1, <1>2

\* The invariant holds in every behaviour of the requests and their threads.
THEOREM NiInvariant == niSpec => []NiInv
  BY InvStarts, NextKeeps, PTL DEF niSpec

-----------------------------------------------------------------------------
(* What it shows.                                                           *)

\* The sessions, threads and answers keep their types, whatever races the threads.
THEOREM NiTypeCorrect == niSpec => []niTypeOK
<1>1. NiInv => niTypeOK
  BY DEF NiInv, Shape, niTypeOK, Underway, Waiting, Replies
<1> QED
  BY <1>1, NiInvariant, PTL

\* ni_thread_proc, loc_eng_ni_respond: as long as nothing meets a thread on its way out,
\* the modem is told what the user said of that very request, or that he said nothing,
\* and every payload is given away at most once.
THEOREM AnswersAreOwn == niSpec => []OwnAnswer
<1>1. NiInv => OwnAnswer
  BY DEF NiInv, Own, OwnAnswer, AnswerIsSaid
<1> QED
  BY <1>1, NiInvariant, PTL
=============================================================================

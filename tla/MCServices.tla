----------------------------- MODULE MCServices -----------------------------
(* Instances for TLC of the sensor HAL (MultiHal), of what the location      *)
(* engine runs on: timers (LocTimers), lists (LinkedList), the message task  *)
(* (MsgTask), the connection of its daemons (DaemonConn) and the engine's    *)
(* interfaces (LocApi), and of the codecs' core (QomxCore).  A behaviour is  *)
(* one of one of them: `part` says which, the others stay as they began.     *)
EXTENDS Naturals, Sequences, SequencesExt, FiniteSets, TLC

CONSTANTS None, NULL,
          Capacity, Reads, MaySkip, Sloppy, Unknown,
          Timers, MaxTime,
          Elems, Data,
          Daemons, WifiUsers, MaxAsks, MaxPipe, MaxNotices, MaxFails,
          MAX_ADAPTERS, MaxChanges,
          Clients, Codecs, MaxInstances, Faults, MaxSessions,
          t, u, atl, xtra, both

VARIABLES part,
          devs, versions, handles, state, active, flushes, made, ring, writer, reader, turn, seen,
          now, tree, msgs, armed, polled, pollThread, running, popped, client, draining, starts, ended,
          list, model,
          q, unblocked, task, joinable, runnable, ref, thread, cur, owner, missed, fate,
          launcher, ready, exit, server, pipes, api, resp, engine, asks, handled,
          telling, wifi, notices, fails,
          apis, mInjectContext, injected, mLocAdapters, mEvtMask, messages, opened, reported, changes,
          g_omxcore, g_omxcore_cnt, comp, init, sessions, unloaded, asked

sensors == <<devs, versions, handles, state, active, flushes, made, ring, writer, reader, turn, seen>>
timers == <<now, tree, msgs, armed, polled, pollThread, running, popped, client, draining, starts, ended>>
lists == <<list, model>>
tasks == <<q, unblocked, task, joinable, runnable, ref, thread, cur, owner, missed, fate>>
daemon == <<launcher, ready, exit, server, pipes, api, resp, engine, asks, handled,
            telling, wifi, notices, fails>>
adapters == <<apis, mInjectContext, injected, mLocAdapters, mEvtMask, messages, opened, reported, changes>>
codecs == <<g_omxcore, g_omxcore_cnt, comp, init, sessions, unloaded, asked>>

\* Two modules with a sensor each, and one without between them, which may not open.
SensorsOf == << <<1>>, <<>>, <<1>> >>
Versions == <<0, 1, 1>>
EventsOf == <<4, 0, 1>>
Hal == INSTANCE MultiHal WITH Sensors <- SensorsOf, Version <- Versions, MaxEvents <- EventsOf

StartsOf == (t :> 2) @@ (u :> 1)
Clock == INSTANCE LocTimers WITH MaxStarts <- StartsOf, poll <- pollThread
Task == INSTANCE MsgTask
Conn == INSTANCE DaemonConn

\* Two adapters in front and one behind, of two places each; a device with the first
\* interface, and one whose second lacks a function.
ContextOf == (atl :> "fg") @@ (xtra :> "fg") @@ (both :> "bg")
Wants == (atl :> {"pos"}) @@ (xtra :> {"sv"}) @@ (both :> {"pos", "sv"})
Takes == (atl :> {"atl"}) @@ (xtra :> {"atl", "xtra"}) @@ (both :> {})
Loc == INSTANCE LocApi WITH Adapters <- {atl, xtra, both}, Bits <- {"pos", "sv"},
                            Requests <- {"atl", "xtra"}, BgExclMask <- {"pos"},
                            Devices <- {{"lbs"}, {"v02", "rpc", "rpc getter"}},
                            api <- apis, engine <- opened
Qomx == INSTANCE QomxCore

-----------------------------------------------------------------------------
(* Any sequence of calls on one list of LinkedList, next to the sequence of  *)
(* data it stands for.                                                       *)
List == INSTANCE LinkedList

DoAdd ==
  /\ Len(model) < Cardinality(Elems)
  /\ \E d \in Data : list' = List!ListAdd(list, d) /\ model' = Append(model, d)
DoRemove == list.tail # NULL /\ list' = List!ListRemove(list) /\ model' = Tail(model)
DoFlush == model # <<>> /\ list' = List!ListFlush(list) /\ model' = <<>>

\* The youngest of equal data is found first.
DoSearch ==
  \E d \in Data : LET e == List!ListFind(list, list.head, d) IN
    /\ e # NULL /\ list' = List!ListUnlink(list, e)
    /\ model' = Reverse(LET back == Reverse(model) IN RemoveAt(back, CHOOSE i \in 1..Len(back) :
                 back[i] = d /\ \A j \in 1..i - 1 : back[j] # d))

ListNext == DoAdd \/ DoRemove \/ DoFlush \/ DoSearch

\* After any calls the list reads the same from both ends, holds what was put in and
\* not taken out in the order it came, ends where it ends, and leaks no element: a link
\* forgotten in one of the four functions shows only calls later.
ListIsModel ==
  /\ List!Forward(list) = model /\ List!Backward(list) = Reverse(model)
  /\ Cardinality(List!Allocated(list)) = Len(model)
  /\ model # <<>> => list.elem[list.tail].next = NULL /\ list.elem[list.head].prev = NULL

-----------------------------------------------------------------------------
ASSUME Hal!MultiHalAssumption /\ Clock!TimersAssumption
ASSUME Task!MsgTaskAssumption /\ Conn!DaemonAssumption
ASSUME Loc!LocApiAssumption /\ Qomx!QomxAssumption

MCInit ==
  /\ part \in {"sensors", "timers", "list", "task", "daemon", "adapters", "codecs"}
  /\ Hal!Init /\ Clock!Init /\ list = List!Empty /\ model = <<>> /\ Task!Init /\ Conn!Init
  /\ Loc!apiInit /\ Qomx!qomxInit
  /\ part # "task" => thread = "off"
  /\ part # "daemon" => wifi = FALSE

MCNext ==
  \/ part = "sensors" /\ Hal!Next /\ UNCHANGED <<part, timers, lists, tasks, daemon, adapters, codecs>>
  \/ part = "timers" /\ Clock!Next /\ UNCHANGED <<part, sensors, lists, tasks, daemon, adapters, codecs>>
  \/ part = "list" /\ ListNext /\ UNCHANGED <<part, sensors, timers, tasks, daemon, adapters, codecs>>
  \/ part = "task" /\ Task!Next /\ UNCHANGED <<part, sensors, timers, lists, daemon, adapters, codecs>>
  \/ part = "daemon" /\ Conn!Next /\ UNCHANGED <<part, sensors, timers, lists, tasks, adapters, codecs>>
  \/ part = "adapters" /\ Loc!apiNext /\ UNCHANGED <<part, sensors, timers, lists, tasks, daemon, codecs>>
  \/ part = "codecs" /\ Qomx!qomxNext /\ UNCHANGED <<part, sensors, timers, lists, tasks, daemon, adapters>>

\* A part that stays as it began has nothing under way, but for the clock: fairness asks
\* nothing of it.
MCSpec ==
  /\ MCInit /\ [][MCNext]_<<part, sensors, timers, lists, tasks, daemon, adapters, codecs>>
  /\ Hal!Fairness /\ Task!Fairness /\ Conn!Fairness
  /\ WF_timers(Clock!TaskStep) /\ WF_timers(Clock!PollStep) /\ WF_timers(part = "timers" /\ Clock!Tick)

(* The rings of events lose nothing, and an event bears its sensor's handle;  *)
(* a timer is in the heap until it ends, and ends once; a task and its queue  *)
(* go with the last who uses them; each daemon's request is handled once, in  *)
(* order; a report reaches every adapter that lives; and a codec runs while   *)
(* it is loaded.                                                              *)
ServicesKept ==
  /\ part = "sensors" => Hal!TypeOK /\ Hal!RingInOrder /\ Hal!HandlesRight
  /\ part = "timers" => Clock!HeapHasRunning /\ Clock!EndsOnce
  /\ part = "list" => ListIsModel
  /\ part = "task" => Task!TaskWhole
  /\ part = "daemon" => Conn!PassedOn
  /\ part = "adapters" => Loc!ReportsReach /\ Loc!InjectedFirst
  /\ part = "codecs" => Qomx!CodecsLoaded

(* The events, the timers, the messages and the daemons' requests end, and an *)
(* engine whose task is idle reports all that its adapters registered for.    *)
ServicesEnd ==
  /\ Hal!EventsArrive /\ Clock!TimerEnds
  /\ Task!SentEnds /\ Task!DestroyEnds /\ Conn!LaunchEnds /\ Conn!AsksEnd
  /\ Loc!Registered

(* A message task is a queue that handles its messages in order.              *)
IsFifo == Task!IsFifo
=============================================================================

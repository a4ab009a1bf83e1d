----------------------------- MODULE DaemonConn -----------------------------
(* The connection of the location engine to the daemons beside it            *)
(* (loc_eng_dmn_conn.cpp and its helpers): a thread is launched that makes   *)
(* the named pipes, reads requests for a data connection from one pipe and   *)
(* sends them on to the engine's message thread; the engine tells them of    *)
(* their connection through a pipe of each daemon.  The launcher waits until the thread has made the  *)
(* pipes.  A read that fails ends the thread, which then closes and removes  *)
(* the pipes.  Nobody unblocks or joins the thread (loc_eng_cleanup leaves   *)
(* that out).                                                                *)
EXTENDS Integers, Sequences, SequencesExt, FiniteSets

CONSTANTS
  Daemons,   \* those that ask: QUIPC, MSAPM and MSAPU for WIFI, GPSONE_DAEMON for any
  WifiUsers, \* the first three
  MaxAsks,   \* a daemon asks at most this often
  MaxPipe,   \* a pipe holds so many messages
  MaxNotices, \* so many words of the framework or the modem
  MaxFails   \* so many reads fail

DaemonAssumption ==
  /\ WifiUsers \subseteq Daemons
  /\ MaxAsks \in Nat /\ MaxPipe \in Nat \ {0} /\ MaxNotices \in Nat /\ MaxFails \in Nat

VARIABLES
  launcher,  \* loc_eng_dmn_conn_launch_thelper: idle, made, waiting, woken, done
  ready,     \* thread_ready
  exit,      \* thread_exit
  server,    \* thelper_main: off, init, ready, pre, proc, failed, test, post, gone
  pipes,     \* the pipes: none, open, closed (the ids are kept)
  api,       \* what waits in the pipe to the server
  resp,      \* daemon -> how many words wait in its pipe
  engine,    \* the messages the engine's thread has to handle
  asks,      \* what the daemons have asked, as it was written
  handled,   \* what the engine has handled
  telling,   \* the daemons that the engine's thread has yet to write to
  wifi,      \* whether wifi_nif was made
  notices, fails

vars == <<launcher, ready, exit, server, pipes, api, resp, engine, asks, handled,
          telling, wifi, notices, fails>>
conn == <<api, resp, engine, asks, handled, telling, wifi, notices>>

Init ==
  /\ launcher = "idle" /\ ready = FALSE /\ exit = FALSE /\ server = "off" /\ pipes = "none"
  /\ api = <<>> /\ resp = [d \in Daemons |-> 0] /\ engine = <<>>
  /\ asks = <<>> /\ handled = <<>> /\ notices = 0 /\ fails = 0 /\ wifi \in BOOLEAN
  /\ telling = {}

(***************************************************************************)
(* Launching.                                                               *)
(***************************************************************************)
Launch ==
  /\ launcher = "idle" /\ launcher' = "made" /\ server' = "init" /\ ready' = FALSE /\ exit' = FALSE
  /\ UNCHANGED <<pipes, conn, fails>>

\* thelper_signal_wait: under the mutex, and only when the thread is neither ready nor out.
SignalWait ==
  /\ launcher = "made"
  /\ launcher' = (IF ready \/ exit THEN "done" ELSE "waiting")
  /\ UNCHANGED <<ready, exit, server, pipes, conn, fails>>

SignalReady ==
  /\ ready' = TRUE /\ launcher' = IF launcher = "waiting" THEN "done" ELSE launcher

(***************************************************************************)
(* The server's thread: thelper_main with loc_api_server_proc*.             *)
(***************************************************************************)
Server(from, to) == server = from /\ server' = to

\* loc_api_server_proc_init: a pipe that cannot be made is noticed by nobody but the
\* reads that fail on it.
ProcInit ==
  /\ Server("init", "ready") /\ pipes' \in {"open", "none"}
  /\ (pipes' = "none" => fails < MaxFails)
  /\ UNCHANGED <<launcher, ready, exit, conn, fails>>

Ready ==
  /\ Server("ready", "proc") /\ SignalReady
  /\ UNCHANGED <<exit, pipes, conn, fails>>

\* What a message asks for is passed on to the engine, with the interface it names.
\* loc_api_server_if_request_handler and ..._release_handler.
Forward(m) == engine' = Append(engine, m)

\* loc_api_server_proc waits for a message, of which the pipe gives the size first.
Proc ==
  /\ server = "proc" /\ pipes = "open" /\ api # <<>>
  /\ api' = Tail(api) /\ Forward(Head(api)) /\ server' = "test"
  /\ UNCHANGED <<launcher, ready, exit, pipes, resp, asks, handled, telling, wifi, notices, fails>>

\* A read that fails, or is interrupted: "retry later".
ProcFails ==
  /\ Server("proc", "failed")
  /\ IF pipes = "none" THEN UNCHANGED fails ELSE fails < MaxFails /\ fails' = fails + 1
  /\ UNCHANGED <<launcher, ready, exit, pipes, conn>>

\* The helper takes a negative result for the end.
ProcReturns ==
  /\ Server("failed", "test") /\ exit' = TRUE
  /\ UNCHANGED <<launcher, ready, pipes, conn, fails>>

Test ==
  /\ server = "test" /\ server' = (IF exit THEN "post" ELSE "proc")
  /\ UNCHANGED <<launcher, ready, exit, pipes, conn, fails>>

\* loc_api_server_proc_post closes and removes the pipes, its own with what it held.
ProcPost ==
  /\ Server("post", "gone") /\ pipes' = "closed" /\ api' = <<>>
  /\ UNCHANGED <<launcher, ready, exit, resp, engine, asks, handled, telling, wifi, notices, fails>>

(***************************************************************************)
(* The message thread of the engine: LocEngReqRelWifi::proc,                *)
(* LocEngReqRelBIT::proc, and the notifications of the AGPS state machines, *)
(* whose states are AgpsNif's.  A request may be answered later or never (a  *)
(* modem's restart drops the subscribers), a release of a WIFI user is not,  *)
(* and the end of a connection is told to all of them.                       *)
(***************************************************************************)
Asked == {asks[i].from : i \in 1..Len(asks)}
Users == {d \in Asked : d \in WifiUsers => wifi}

EngineProc ==
  /\ telling = {} /\ engine # <<>> /\ engine' = Tail(engine)
  /\ handled' = Append(handled, Head(engine))
  /\ telling' \in SUBSET ({Head(engine).from} \cap Users)
  /\ UNCHANGED <<launcher, ready, exit, server, pipes, api, resp, asks, wifi, notices, fails>>

\* Subscriber::notifyRsrcStatus for all who are meant, of what the framework or the modem
\* said to a state machine.
Notify ==
  /\ telling = {} /\ notices < MaxNotices /\ notices' = notices + 1
  /\ telling' \in (SUBSET Users) \ {{}}
  /\ UNCHANGED <<launcher, ready, exit, server, pipes, api, resp, engine, asks, handled, wifi, fails>>

\* The write waits for room in the daemon's pipe; on a closed pipe it fails.
DataConn(d) ==
  /\ d \in telling /\ telling' = telling \ {d}
  /\ IF pipes = "open" THEN resp[d] < MaxPipe /\ resp' = [resp EXCEPT ![d] = @ + 1] ELSE UNCHANGED resp
  /\ UNCHANGED <<launcher, ready, exit, server, pipes, api, engine, asks, handled, wifi, notices, fails>>

(***************************************************************************)
(* A daemon: it asks through the pipe when it exists, and reads what comes. *)
(***************************************************************************)
Ask(d) ==
  /\ pipes = "open" /\ Len(api) < MaxPipe
  /\ LET n == Cardinality({i \in 1..Len(asks) : asks[i].from = d})
         m == [from |-> d, number |-> n + 1]
     IN n < MaxAsks /\ api' = Append(api, m) /\ asks' = Append(asks, m)
  /\ UNCHANGED <<launcher, ready, exit, server, pipes, resp, engine, handled, telling, wifi, notices, fails>>

ReadAnswer(d) ==
  /\ resp[d] > 0 /\ resp' = [resp EXCEPT ![d] = @ - 1]
  /\ UNCHANGED <<launcher, ready, exit, server, pipes, api, engine, asks, handled, telling, wifi, notices, fails>>

ServerStep == ProcInit \/ Ready \/ Proc \/ ProcReturns \/ Test \/ ProcPost
EngineStep == EngineProc \/ \E d \in Daemons : DataConn(d)

Next ==
  \/ Launch \/ SignalWait \/ ServerStep \/ ProcFails \/ EngineStep \/ Notify
  \/ \E d \in Daemons : Ask(d) \/ ReadAnswer(d)

Fairness ==
  /\ WF_vars(SignalWait) /\ WF_vars(ServerStep) /\ WF_vars(EngineStep)
  /\ \A d \in Daemons : WF_vars(ReadAnswer(d))

Spec == Init /\ [][Next]_vars /\ Fairness

(***************************************************************************)
(* Properties.                                                              *)
(***************************************************************************)
\* Through the pipe and the engine's queue, and two threads, every ask is handled once and
\* in the order the daemons wrote them, but for those that lie in the pipe when a read
\* that failed ends the server.
PassedOn ==
  LET come == handled \o engine \o api IN
    IsPrefix(come, asks) /\ (pipes # "closed" => come = asks)

\* The launch returns, whenever the thread signals that it is ready.
LaunchEnds == launcher # "idle" ~> launcher = "done"

\* Every ask is handled while the server lives: no full pipe of a daemon, in whose write
\* the engine's thread waits, keeps those of the others for ever - while all daemons read.
AsksEnd == handled # asks ~> handled = asks \/ server = "gone"

\* loc_api_server_proc: "fail receiving msg from gpsone_daemon, retry later".  The
\* thread does not: this fails as soon as a message cannot be received.
RetriesLater == server = "failed" ~> server = "proc"
=============================================================================

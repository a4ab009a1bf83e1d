------------------------------ MODULE MmChannel ------------------------------
(***************************************************************************)
(* Starting and stopping a channel of mm-camera-interface                   *)
(* (mm_camera_channel.c, mm_camera_stream.c, mm_camera_thread.c): the       *)
(* states of its streams, what each step of a start may leave behind when   *)
(* it fails, the poll thread that is told of its file descriptors through a *)
(* pipe, the stream's own thread, and the application that gives frames     *)
(* back without the channel's lock.                                         *)
(*                                                                          *)
(* The control thread (under ch_lock) works through a list of steps; a step *)
(* on a stream is one event to its state machine, cut where it waits for    *)
(* another thread.  Matching frames into super buffers is in SuperBuf.      *)
(***************************************************************************)
EXTENDS Integers, Sequences, FiniteSets, SequencesExt

CONSTANTS
  NumSlots,  \* streams of the channel (at most MAX_STREAM_NUM_IN_BUNDLE)
  Meta,      \* the slot of the metadata stream
  Linked,    \* the slot of a stream linked from another channel; 0: none
  Bufs,      \* buffers of a stream
  MaxStarts, \* bound: starts of the channel
  MaxFails   \* bound: failing system calls

ChannelAssumption ==
  /\ NumSlots \in Nat \ {0} /\ Meta \in 1..NumSlots /\ Linked \in 0..NumSlots
  /\ Meta # Linked /\ MaxStarts \in Nat /\ MaxFails \in Nat

VARIABLES
  str,    \* the channel's own streams
  link,   \* the linked stream: "none", "set" (mm_channel_link_stream), "on"
  bundle, \* superbuf_queue and its two threads: "off", "on"
  chan,   \* the channel's state
  ctl,    \* the steps the thread that holds ch_lock has before it
  poll,   \* the poll thread: what it is doing, and its pipe
  app,    \* what the application holds, and its call of mm_camera_qbuf
  used    \* starts and failures so far (bounds)

vars == <<str, link, bundle, chan, ctl, poll, app, used>>

Slots == 1..NumSlots
Own == Slots \ {Linked}

-----------------------------------------------------------------------------
(* The order of the streams, and the steps of an operation.                 *)

Swapped(i, j) == [s \in Slots |-> IF s = i THEN j ELSE IF s = j THEN i ELSE s]

StartOrder == Swapped(1, Meta)        \* metadata first
StopOrder == Swapped(NumSlots, Meta)  \* metadata last

Steps(order, Of(_)) == FlattenSeq([i \in 1..Len(order) |-> Of(order[i])])

StartSteps ==
  LET Of(s) == IF s = Linked THEN <<<<"link", s>>>>
               ELSE <<<<"get", s>>, <<"reg", s>>, <<"launch", s>>, <<"streamon", s>>>>
  IN Steps(StartOrder, Of) \o <<<<"active", 0>>>>

\* The streams up to and with the one that failed are undone.
UndoSteps(i) ==
  LET Of(s) == IF s = Linked THEN <<<<"unlink", s>>>>
               ELSE <<<<"stop", s>>, <<"unreg", s>>, <<"put", s>>>>
  IN Steps(SubSeq(StartOrder, 1, i), Of) \o <<<<"release", 0>>, <<"failed", 0>>>>

StopSteps ==
  LET Off(s) == IF s = Linked THEN <<<<"unlink", s>>>> ELSE <<<<"stop", s>>, <<"unreg", s>>>>
      Put(s) == IF s = Linked THEN <<>> ELSE <<<<"put", s>>>>
  IN Steps(StopOrder, Off) \o <<<<"release", 0>>>> \o Steps(StopOrder, Put)
       \o <<<<"stopped", 0>>>>

\* mm_stream_streamoff and the end of the stream's thread.
StreamOffSteps(s) ==
  <<<<"delfd", s>>, <<"wait", s>>, <<"streamoff", s>>, <<"join", s>>>>

-----------------------------------------------------------------------------

\* The events each state of a stream takes; any other it ignores, and answers
\* with success.
InitedTakes == {"acquire"}
AcquiredTakes == {"set_fmt", "release"}
CfgTakes == {"set_fmt", "release", "get"}
BuffedTakes == {"put", "reg"}
RegTakes == {"unreg", "start"}
ActiveTakes == {"qbuf", "stop"}

Takes(st, evt) ==
  evt \in CASE st = "INITED" -> InitedTakes [] st = "ACQUIRED" -> AcquiredTakes
            [] st = "CFG" -> CfgTakes [] st = "BUFFED" -> BuffedTakes
            [] st = "REG" -> RegTakes [] st = "ACTIVE" -> ActiveTakes
            [] OTHER -> {}

NewStream ==
  [st |-> "NOTUSED",
   n |-> 0,               \* queued_buffer_count
   ker |-> {},            \* buffers the driver has
   ref |-> [b \in Bufs |-> 0],
   on |-> FALSE,          \* STREAMON
   entry |-> FALSE,       \* poll_entries: the stream is to be watched
   fd |-> FALSE,          \* poll_fds: the poll thread watches it
   thread |-> FALSE,      \* the thread that calls the application
   q |-> {},              \* its queue
   stale |-> FALSE,       \* an entry made while it was being stopped
   half |-> FALSE]        \* its registration failed with some buffers queued

Init ==
  /\ str = [s \in Own |-> NewStream]
  /\ link = IF Linked = 0 THEN "none" ELSE "set"
  /\ bundle = "off"
  /\ chan = "STOPPED"
  /\ ctl = <<>>
  /\ poll = [pc |-> "poll", s |-> 0, b |-> 0, pipe |-> <<>>, done |-> FALSE]
  /\ app = [has |-> {}, call |-> <<>>]
  /\ used = [starts |-> 0, fails |-> 0]

Step(name) == ctl # <<>> /\ Head(ctl)[1] = name
S == Head(ctl)[2]
Next1 == ctl' = Tail(ctl)

Fail ==
  /\ used.fails < MaxFails
  /\ used' = [used EXCEPT !.fails = @ + 1]
  /\ LET i == CHOOSE k \in Slots : StartOrder[k] = S IN ctl' = UndoSteps(i)

\* mm_channel_add_stream, with the ACQUIRE of the new stream: it opens the
\* device, or leaves no stream.
AddStream(s) ==
  /\ chan = "STOPPED" /\ ctl = <<>> /\ str[s].st = "NOTUSED"
  /\ Takes("INITED", "acquire")
  /\ str' = [str EXCEPT ![s] = [NewStream EXCEPT !.st = "ACQUIRED", !.stale = str[s].stale]]
  /\ UNCHANGED <<link, bundle, chan, ctl, poll, app, used>>

\* mm_channel_config_stream: the stream counts as configured also when the
\* format was refused.
ConfigStream(s) ==
  /\ chan = "STOPPED" /\ ctl = <<>> /\ Takes(str[s].st, "set_fmt")
  /\ str' = [str EXCEPT ![s].st = "CFG"]
  /\ UNCHANGED <<link, bundle, chan, ctl, poll, app, used>>

\* mm_channel_del_stream.
DelStream(s) ==
  /\ chan \in {"STOPPED", "FAILED"} /\ ctl = <<>>
  /\ str[s].st \notin {"NOTUSED", "ACQUIRED"}
  /\ str' = IF Takes(str[s].st, "release") THEN [str EXCEPT ![s].st = "NOTUSED"] ELSE str
  /\ UNCHANGED <<link, bundle, chan, ctl, poll, app, used>>

\* mm_channel_fsm_fn_stopped: START, after mm_channel_start has made the queue
\* and the two threads of the bundle.
Start ==
  /\ chan = "STOPPED" /\ ctl = <<>> /\ used.starts < MaxStarts
  /\ \A s \in Own : str[s].st = "CFG"
  /\ used' = [used EXCEPT !.starts = @ + 1]
  /\ bundle' = "on"
  /\ ctl' = StartSteps
  /\ UNCHANGED <<str, link, chan, poll, app>>

Stop ==
  /\ chan = "ACTIVE" /\ ctl = <<>>
  /\ ctl' = StopSteps
  /\ UNCHANGED <<str, link, bundle, chan, poll, app, used>>

\* GET_BUF in CFG: mm_stream_init_bufs.
GetBuf ==
  /\ Step("get")
  /\ \/ /\ str' = [str EXCEPT ![S].st = "BUFFED"] /\ Next1 /\ UNCHANGED used
     \/ Fail /\ UNCHANGED str
  /\ UNCHANGED <<link, bundle, chan, poll, app>>

\* The pipe commands: entries updated, with and without an answer, and commit.
Signal(cmd) == [poll EXCEPT !.pipe = Append(@, cmd)]
SignalAndWait(cmd) == [poll EXCEPT !.pipe = Append(@, cmd), !.done = FALSE]

\* REG_BUF in BUFFED: every buffer is queued, the first of them starts the
\* watch; REQBUFS may fail, or a QBUF with some buffers queued before it.
RegBuf ==
  /\ Step("reg")
  /\ \/ /\ str' = [str EXCEPT ![S] = [@ EXCEPT !.st = "REG", !.n = Cardinality(Bufs),
                                              !.ker = Bufs, !.entry = TRUE,
                                              !.ref = [b \in Bufs |-> 0]]]
        /\ poll' = Signal("async")
        /\ Next1 /\ UNCHANGED used
     \/ Fail /\ UNCHANGED <<str, poll>>
     \/ /\ Fail
        /\ \E queued \in SUBSET Bufs \ {Bufs, {}} :
             str' = [str EXCEPT ![S] = [@ EXCEPT !.n = Cardinality(queued), !.ker = queued,
                                                 !.entry = TRUE, !.half = TRUE]]
        /\ poll' = Signal("async")
  /\ UNCHANGED <<link, bundle, chan, app>>

\* START in REG: the thread, and ACTIVE before STREAMON.
Launch ==
  /\ Step("launch")
  /\ str' = [str EXCEPT ![S] = [@ EXCEPT !.thread = TRUE, !.st = "ACTIVE"]]
  /\ Next1
  /\ UNCHANGED <<link, bundle, chan, poll, app, used>>

StreamOn ==
  /\ Step("streamon")
  /\ \/ /\ str' = [str EXCEPT ![S].on = TRUE] /\ Next1 /\ UNCHANGED <<used, poll>>
     \/ /\ Fail
        /\ str' = [str EXCEPT ![S].entry = FALSE]
        /\ poll' = SignalAndWait("update")
  /\ UNCHANGED <<link, bundle, chan, app>>

\* A linked stream only begins to send its frames here, too.
LinkOn ==
  /\ Step("link")
  /\ link' = IF link = "set" THEN "on" ELSE link
  /\ Next1
  /\ UNCHANGED <<str, bundle, chan, poll, app, used>>

\* The link is taken off, and the slot is forgotten.
Unlink ==
  /\ Step("unlink")
  /\ link' = "none"
  /\ Next1
  /\ UNCHANGED <<str, bundle, chan, poll, app, used>>

Active ==
  /\ Step("active")
  /\ chan' = "ACTIVE" /\ Next1
  /\ UNCHANGED <<str, link, bundle, poll, app, used>>

\* STOP is for an active stream; any other state ignores it.
StopStream ==
  /\ Step("stop")
  /\ ctl' = IF Takes(str[S].st, "stop") THEN StreamOffSteps(S) \o Tail(ctl) ELSE Tail(ctl)
  /\ UNCHANGED <<str, link, bundle, chan, poll, app, used>>

\* The stream's entry goes, or, when it is gone, a commit goes through the pipe.
DelPollFd ==
  /\ Step("delfd")
  /\ str' = [str EXCEPT ![S].entry = FALSE]
  /\ poll' = SignalAndWait(IF str[S].entry THEN "update" ELSE "commit")
  /\ Next1
  /\ UNCHANGED <<link, bundle, chan, app, used>>

\* mm_camera_poll_sig: the wait for mm_camera_poll_sig_done.
WaitPoll ==
  /\ Step("wait") /\ poll.done
  /\ Next1
  /\ UNCHANGED <<str, link, bundle, chan, poll, app, used>>

\* STREAMOFF: the driver drops what it has.
StreamOff ==
  /\ Step("streamoff")
  /\ str' = [str EXCEPT ![S] = [@ EXCEPT !.on = FALSE, !.ker = {}]]
  /\ Next1
  /\ UNCHANGED <<link, bundle, chan, poll, app, used>>

\* mm_camera_cmd_thread_release: the thread handles its whole queue first.
JoinThread ==
  /\ Step("join") /\ str[S].q = {}
  /\ str' = [str EXCEPT ![S] = [@ EXCEPT !.thread = FALSE, !.st = "REG"]]
  /\ Next1
  /\ UNCHANGED <<link, bundle, chan, poll, app, used>>

\* UNREG_BUF in REG: no buffer is the driver's or anybody's.
UnregBuf ==
  /\ Step("unreg")
  /\ str' = IF ~Takes(str[S].st, "unreg") THEN str
            ELSE [str EXCEPT ![S] = [@ EXCEPT !.st = "BUFFED", !.ker = {},
                                              !.ref = [b \in Bufs |-> 0]]]
  /\ Next1
  /\ UNCHANGED <<link, bundle, chan, poll, app, used>>

\* PUT_BUF in BUFFED: the buffers and their table are freed, and the client
\* gives none of them back any more.
PutBuf ==
  /\ Step("put")
  /\ str' = IF Takes(str[S].st, "put") THEN [str EXCEPT ![S].st = "CFG"] ELSE str
  /\ app' = [app EXCEPT !.has = {x \in @ : x[1] # S}]
  /\ Next1
  /\ UNCHANGED <<link, bundle, chan, poll, used>>

ReleaseBundle ==
  /\ Step("release")
  /\ bundle' = "off" /\ Next1
  /\ UNCHANGED <<str, link, chan, poll, app, used>>

\* A channel whose start failed has lost its callback: it is deleted.
Done ==
  /\ ctl # <<>> /\ Head(ctl)[1] \in {"stopped", "failed"}
  /\ chan' = IF Step("stopped") THEN "STOPPED" ELSE "FAILED"
  /\ Next1
  /\ UNCHANGED <<str, link, bundle, poll, app, used>>

\* mm_channel_release: its streams have been deleted.
Delete ==
  /\ chan \in {"STOPPED", "FAILED"} /\ ctl = <<>> /\ used.starts > 0
  /\ \A s \in Own : str[s].st = "NOTUSED"
  /\ link' = "none"
  /\ chan' = "NOTUSED"
  /\ poll' = [poll EXCEPT !.pipe = Append(@, "exit")]
  /\ UNCHANGED <<str, bundle, ctl, app, used>>

Control ==
  \/ GetBuf \/ RegBuf \/ Launch \/ StreamOn \/ LinkOn \/ Unlink \/ Active
  \/ StopStream \/ DelPollFd \/ WaitPoll \/ StreamOff \/ JoinThread
  \/ UnregBuf \/ PutBuf \/ ReleaseBundle \/ Done

-----------------------------------------------------------------------------
(* The poll thread: the pipe before the streams.                            *)

ReadPipe ==
  /\ poll.pc = "poll" /\ poll.pipe # <<>>
  /\ LET cmd == Head(poll.pipe) IN
       /\ poll' = [poll EXCEPT !.pipe = Tail(@), !.done = @ \/ cmd # "async",
                               !.pc = IF cmd = "exit" THEN "gone" ELSE "poll"]
       /\ str' = IF cmd \in {"update", "async"}
                   THEN [s \in Own |-> [str[s] EXCEPT !.fd = str[s].entry]] ELSE str
  /\ UNCHANGED <<link, bundle, chan, ctl, app, used>>

\* A frame is ready: mm_stream_data_notify looks at the stream's state.
DataNotify(s) ==
  /\ poll.pc = "poll" /\ poll.pipe = <<>>
  /\ str[s].fd /\ str[s].entry /\ str[s].on /\ str[s].ker # {} /\ str[s].st = "ACTIVE"
  /\ poll' = [poll EXCEPT !.pc = "read", !.s = s]
  /\ UNCHANGED <<str, link, bundle, chan, ctl, app, used>>

\* A read whose end of the watch waits for the poll thread.
ReadFrameSync ==
  /\ poll.pc = "read"
  /\ LET s == poll.s IN
       IF ~str[s].on \/ str[s].ker = {}
         THEN poll' = [poll EXCEPT !.pc = "poll", !.s = 0] /\ UNCHANGED str
         ELSE \E b \in str[s].ker :
                LET last == str[s].n = 1 IN
                /\ str' = [str EXCEPT ![s] = [@ EXCEPT !.n = @ - 1, !.ker = @ \ {b},
                                                     !.entry = @ /\ ~last]]
                /\ poll' = [poll EXCEPT !.pc = IF last THEN "wait" ELSE "count", !.b = b,
                                        !.pipe = IF last THEN Append(@, "update") ELSE @]
  /\ UNCHANGED <<link, bundle, chan, ctl, app, used>>

\* mm_stream_read_msm_frame: with the last buffer the watch ends, and the poll
\* thread does not wait for itself.
ReadFrame ==
  /\ poll.pc = "read"
  /\ LET s == poll.s IN
       IF ~str[s].on \/ str[s].ker = {}
         THEN poll' = [poll EXCEPT !.pc = "poll", !.s = 0] /\ UNCHANGED str
         ELSE \E b \in str[s].ker :
                LET last == str[s].n = 1 IN
                /\ str' = [str EXCEPT ![s] = [@ EXCEPT !.n = @ - 1, !.ker = @ \ {b},
                                                     !.entry = @ /\ ~last]]
                /\ poll' = [poll EXCEPT !.pc = "count", !.b = b,
                                        !.pipe = IF last THEN Append(@, "async") ELSE @]
  /\ UNCHANGED <<link, bundle, chan, ctl, app, used>>

\* The frame is counted, and queued for the stream's thread if it runs.
HandleRcvdBuf ==
  /\ poll.pc = "count"
  /\ str' = [str EXCEPT ![poll.s] =
               [@ EXCEPT !.ref[poll.b] = @ + 1,
                         !.q = IF str[poll.s].thread THEN @ \cup {poll.b} ELSE @]]
  /\ poll' = [poll EXCEPT !.pc = "poll", !.s = 0, !.b = 0]
  /\ UNCHANGED <<link, bundle, chan, ctl, app, used>>

\* The stream's thread: the application has the frame.
DispatchAppData(s) ==
  /\ str[s].thread /\ str[s].q # {}
  /\ \E b \in str[s].q :
       /\ str' = [str EXCEPT ![s].q = @ \ {b}]
       /\ app' = [app EXCEPT !.has = @ \cup {<<s, b>>}]
  /\ UNCHANGED <<link, bundle, chan, ctl, poll, used>>

-----------------------------------------------------------------------------
(* The application gives a frame back, under no lock of the channel: the    *)
(* state is read first, and the rest is done under the stream's buf_lock.   *)

QBuf(s, b) ==
  /\ app.call = <<>> /\ <<s, b>> \in app.has
  /\ app' = [has |-> app.has \ {<<s, b>>},
             call |-> IF Takes(str[s].st, "qbuf") THEN <<s, b>> ELSE <<>>]
  /\ UNCHANGED <<str, link, bundle, chan, ctl, poll, used>>

\* Is the control thread between the end of the watch and the end of the stop?
Stopping(s) ==
  \E i \in 1..Len(ctl) : ctl[i] \in {<<"wait", s>>, <<"streamoff", s>>, <<"join", s>>}

\* A watch that starts with the second buffer.
RewatchedLate(c) == c.n = 1

\* mm_stream_qbuf: the first buffer starts the watch.
Rewatched(c) == c.n = 0

Queued(s, b) ==
  LET c == str[s] IN
    /\ c.st # "BUFFED"
    /\ str' = [str EXCEPT ![s] =
         [@ EXCEPT !.ref[b] = 0, !.n = @ + 1, !.ker = @ \cup {b},
                   !.entry = @ \/ Rewatched(c),
                   !.stale = @ \/ (Rewatched(c) /\ (Stopping(s) \/ c.st = "REG"))]]
    /\ poll' = IF Rewatched(c) THEN Signal("async") ELSE poll
    /\ UNCHANGED used

\* The driver refuses it, as it does when it has no buffers registered.
Refused(s, b) ==
  LET c == str[s] IN
    /\ c.st = "BUFFED" \/ used.fails < MaxFails
    /\ str' = [str EXCEPT ![s] = [@ EXCEPT !.ref[b] = 0, !.entry = @ /\ c.n # 0]]
    /\ poll' = IF c.n # 0 THEN poll ELSE [poll EXCEPT !.pipe = @ \o <<"async", "async">>]
    /\ used' = IF c.st = "BUFFED" THEN used ELSE [used EXCEPT !.fails = @ + 1]

\* mm_stream_buf_done; without a reference, or with the table gone, nothing
\* the model follows changes.
BufDone ==
  /\ app.call # <<>>
  /\ LET s == app.call[1]  b == app.call[2] IN
       IF str[s].st \in {"REG", "ACTIVE", "BUFFED"} /\ str[s].ref[b] = 1
         THEN Queued(s, b) \/ Refused(s, b)
         ELSE UNCHANGED <<str, poll, used>>
  /\ app' = [app EXCEPT !.call = <<>>]
  /\ UNCHANGED <<link, bundle, chan, ctl>>

PollThread == ReadPipe \/ ReadFrame \/ HandleRcvdBuf \/ \E s \in Own : DataNotify(s)

Next ==
  \/ Start \/ Stop \/ Delete \/ Control \/ PollThread \/ BufDone
  \/ \E s \in Own : AddStream(s) \/ ConfigStream(s) \/ DelStream(s)
  \/ \E s \in Own : DispatchAppData(s) \/ \E b \in Bufs : QBuf(s, b)

\* The threads run; nobody has to give a frame back.
Fairness ==
  /\ WF_vars(Control) /\ WF_vars(PollThread) /\ WF_vars(BufDone)
  /\ \A s \in Own : WF_vars(DispatchAppData(s))

Spec == Init /\ [][Next]_vars /\ Fairness

-----------------------------------------------------------------------------

TypeOK ==
  /\ \A s \in Own : /\ str[s].st \in {"NOTUSED", "ACQUIRED", "CFG", "BUFFED", "REG", "ACTIVE"}
                    /\ str[s].n \in Int
                    /\ str[s].ker \subseteq Bufs
  /\ link \in {"none", "set", "on"} /\ bundle \in {"off", "on"}
  /\ chan \in {"STOPPED", "ACTIVE", "FAILED", "NOTUSED"}
  /\ poll.pc \in {"poll", "read", "count", "gone"}

\* The buffers of a stream that runs are counted, and while the driver has one
\* the poll thread watches the stream or is about to be told to, however the
\* asynchronous updates of the two threads interleave.
QueuedArePolled ==
  \A s \in Own :
    str[s].st = "ACTIVE" /\ str[s].on /\ ~Stopping(s) /\ ~str[s].stale =>
      /\ str[s].n = Cardinality(str[s].ker)
      /\ str[s].n > 0 => /\ str[s].entry
                         /\ str[s].fd \/ "async" \in ToSet(poll.pipe)

\* While the poll thread works on a frame of a stream, the stream's buffers are
\* not freed: the stop waited for the thread's round to end.
NoFrameOfFreed ==
  poll.pc \in {"read", "count"} =>
    str[poll.s].stale \/ str[poll.s].st = "ACTIVE"

\* A linked stream sends its frames only to a channel whose thread takes them,
\* and a start that failed leaves what a stop leaves: no stream runs or holds
\* buffers, no thread, no link, and nothing for the poll thread to watch - but
\* for the entry of the one stream whose registration failed with some buffers
\* queued, which mm_stream_reg_buf does not take back.  It is the only trace of
\* that failure: such a stream was never switched on, and never will be, so that
\* NoFrameOfFreed holds of it without an exception.
NothingLeftBehind ==
  /\ link = "on" => bundle = "on"
  /\ ctl = <<>> /\ chan \in {"STOPPED", "FAILED"} =>
       /\ \A s \in Own : /\ str[s].st \in {"NOTUSED", "ACQUIRED", "CFG"}
                         /\ ~str[s].on /\ ~str[s].thread /\ str[s].q = {}
                         /\ str[s].entry => str[s].stale \/ str[s].half
       /\ \A s, t \in Own : str[s].half /\ str[t].half => s = t
       /\ chan = "STOPPED" => \A s \in Own : ~str[s].half
       /\ bundle = "off" /\ link # "on"


\* A stop, and a start, come to their end.
ControlEnds == ctl # <<>> ~> ctl = <<>>

=============================================================================

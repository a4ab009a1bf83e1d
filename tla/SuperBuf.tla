------------------------------ MODULE SuperBuf ------------------------------
(***************************************************************************)
(* A started channel of mm-camera-interface whose streams are bundled: the  *)
(* life of a frame buffer from the driver to the HAL and back, and the      *)
(* super-buffer queue that matches the frames of several streams by frame   *)
(* index (mm_camera_channel.c, mm_camera_stream.c).                         *)
(*                                                                          *)
(* Threads: a data poll thread takes a filled buffer from the driver and    *)
(* hands it to the channel and to the stream's own callback (Notify,        *)
(* Forward).  The streams of another channel that are linked to this one,   *)
(* as the preview's metadata is for a live snapshot, have that channel's    *)
(* poll thread.  The channel's command thread matches frames and serves     *)
(* requests (Process); its callback thread hands super buffers to the HAL   *)
(* (DispatchSuperBuf); each stream's thread calls the HAL back with single  *)
(* frames (AppCallback, AppDone); the HAL returns buffers from any thread   *)
(* (QBuf) and posts commands (Post).  They share the reference counts of    *)
(* the buffers, guarded by each stream's buf_lock; the queue itself is      *)
(* touched by the command thread alone, so that one command is one step.    *)
(***************************************************************************)
EXTENDS Naturals, SequencesExt

CONSTANTS
  Streams,       \* the bundled streams, each of a type of its own
  Meta,          \* the stream of type CAM_STREAM_TYPE_METADATA
  Preview,       \* the stream of type CAM_STREAM_TYPE_PREVIEW
  HasCb,         \* the streams with a data callback
  Linked,        \* the streams of another channel that are linked to this one
  BufsOf,        \* the buffers of each stream
  Mode,          \* attr.notify_mode at start
  WaterMark, LookBack, MaxUnmatched, PostSkip,   \* the channel's attributes
  FutureOffset,  \* max_future_frame_offset
  SkipCnt,       \* MM_CAMERA_POST_FLASH_PREVIEW_SKIP_CNT
  FirstFrame,    \* the number the driver gives the first frame
  MaxFrame,      \* bound: the last frame of a numbering
  MaxEpoch,      \* bound: how often the numbering starts again
  Metadata,      \* what a metadata frame may say
  Commands,      \* what the HAL may post
  MaxCommands,   \* bound: commands posted
  MaxCmdq,       \* bound: the length up to which the channel's queue is filled
  Empty, Nothing \* an empty slot; no buffer in hand

\* What a metadata frame may say, and what the HAL may post.
SaysType == [reset : BOOLEAN, invalid : BOOLEAN, crop1x : BOOLEAN,
             prep : {"none", "need_future", "ready"}, range : {<<>>} \cup (Nat \X Nat)]
CommandType ==
  [cmd : {"REQUEST"}, n : Nat] \cup [cmd : {"START_ZSL", "STOP_ZSL"}]
  \cup [cmd : {"NOTIFY"}, mode : {"BURST", "CONTINUOUS"}]
  \cup [cmd : {"GENERAL"}, type : {"BRACKETING", "FLASH", "ZOOM_1X"}, start : BOOLEAN]
  \cup [cmd : {"FLUSH"}, frame : Nat, types : SUBSET Streams]

Bufs == UNION {BufsOf[s] : s \in Streams}
Slot == [buf : Bufs, epoch : 0..MaxEpoch]   \* epoch is of the model only

ASSUME SuperBufAssumption ==
  /\ IsFiniteSet(Streams) /\ Meta \in Streams /\ HasCb \subseteq Streams
  /\ Linked \subseteq HasCb \ {Preview}
  /\ Preview \in Streams => Preview \in HasCb
  /\ \A s \in Streams : IsFiniteSet(BufsOf[s]) /\ Nothing \notin BufsOf[s]
  /\ \A s, t \in Streams : s # t => BufsOf[s] \cap BufsOf[t] = {}
  /\ Mode \in {"BURST", "CONTINUOUS"}
  /\ {WaterMark, LookBack, MaxUnmatched, PostSkip, FutureOffset} \subseteq Nat
  /\ {SkipCnt, FirstFrame, MaxFrame, MaxEpoch, MaxCommands, MaxCmdq} \subseteq Nat
  /\ Empty \notin Slot
  /\ \A m \in Metadata : m \in SaysType
  /\ \A c \in Commands : c \in CommandType

VARIABLES
  kernel,   \* the buffers each stream has queued to the driver (in_kernel)
  refcnt,   \* buf_status[].buf_refcnt
  next,     \* the least number the driver may give the next frame of a stream
  epoch,    \* how often the numbering has started again
  fresh,    \* the first metadata frame of the numbering is still to come
  polled,   \* the buffer of each stream that is to be handed to its callback
  appq,     \* each stream's cmd_thread.cmd_queue
  calling,  \* the buffer each stream's thread calls the HAL with
  cmdq,     \* the channel's cmd_thread.cmd_queue
  queue,    \* bundle.superbuf_queue
  chan,     \* the other fields of the channel
  cbq,      \* the channel's cb_thread.cmd_queue
  held,     \* how often the HAL holds each buffer
  flushing, \* a caller waits for the sync_sem of a flush
  posted    \* commands posted so far (bounded by MaxCommands)

bufVars  == <<kernel, refcnt>>
sensor   == <<next, epoch, fresh>>
stream   == <<polled, appq, calling>>
channel  == <<queue, chan, cbq>>
vars == <<kernel, refcnt, next, epoch, fresh, polled, appq, calling,
          cmdq, queue, chan, cbq, held, flushing, posted>>

\* A metadata frame that says nothing about matching.
Plain == [reset |-> FALSE, invalid |-> FALSE, prep |-> "none", range |-> <<>>,
          crop1x |-> FALSE]

Node == [frame : Nat, slot : [Streams -> Slot \cup {Empty}], matched : BOOLEAN]
Frame == [cmd : {"DATA"}, stream : Streams, frame : Nat, slot : Slot, meta : SaysType]

----------------------------------------------------------------------------
(* Buffers: what a super buffer holds, and mm_stream_buf_done *)

Slots(n) == {n.slot[s].buf : s \in {t \in Streams : n.slot[t] # Empty}}
SlotsIn(ns) == UNION {Slots(ns[i]) : i \in DOMAIN ns}

\* The enqueue path takes a frame number of 0 for an empty slot.
Filled(n) == IF n.frame = 0 THEN {} ELSE Slots(n)

\* A mutant: a buffer goes back to the driver while others look at it.
BufDoneAlways(rel) ==
  /\ refcnt' = [b \in Bufs |-> IF b \in rel /\ refcnt[b] > 0 THEN refcnt[b] - 1
                                                            ELSE refcnt[b]]
  /\ kernel' = kernel \cup rel

\* Drop one reference of every buffer in rel; the last one queues it again.
BufDone(rel) ==
  /\ refcnt' = [b \in Bufs |-> IF b \in rel /\ refcnt[b] > 0 THEN refcnt[b] - 1
                                                            ELSE refcnt[b]]
  /\ kernel' = kernel \cup {b \in rel : refcnt[b] = 1}

----------------------------------------------------------------------------
(* The queue.  The operators take and return what a command works on:      *)
(* [q : the queue, ch : the channel, rel : buffers given up, out : super    *)
(* buffers for the callback thread].                                        *)

Unmatched(ns) == {i \in DOMAIN ns : ~ns[i].matched}
MatchedPrefix(ns) == Max({k \in 0..Len(ns) : \A i \in 1..k : ns[i].matched})
Leading(ns, k) == SubSeq(ns, 1, k)
After(ns, k)  == SubSeq(ns, k + 1, Len(ns))

\* mm_channel_superbuf_dequeue_internal(queue, TRUE), k times.
Dequeue(w, k) == [w EXCEPT !.q.nodes = After(@, k), !.q.match_cnt = @ - k]

Discard(w, k) ==
  [Dequeue(w, k) EXCEPT !.rel = @ \cup SlotsIn(Leading(w.q.nodes, k))]

\* mm_channel_superbuf_bufdone_overflow and _skip: their loops go on until
\* match_cnt is down to the mark, whatever the head of the queue is.
TrimTo(w, mark) ==
  IF w.ch.mode = "CONTINUOUS" \/ w.q.match_cnt <= mark THEN w
  ELSE Discard(w, Min({w.q.match_cnt - mark, MatchedPrefix(w.q.nodes)}))

\* mm_channel_superbuf_flush: all nodes go, the buffers of the given types are
\* released.
Flush(w, types) ==
  [w EXCEPT !.q.nodes = <<>>,
            !.q.match_cnt = @ - Cardinality(DOMAIN w.q.nodes \ Unmatched(w.q.nodes)),
            !.rel = @ \cup {b \in SlotsIn(w.q.nodes) :
                             \E t \in types : b \in BufsOf[t]}]

FlushMatched(w) == Discard(w, MatchedPrefix(w.q.nodes))

\* mm_channel_handle_metadata
Rejected(m) == m.invalid \/ (m.prep # "none" /\ m.range # <<>>)

Renumbered(w) == [Flush(w, Streams) EXCEPT !.q.expected = 1]

HandleMetadata(w0, f, m) ==
  LET w == IF m.reset THEN Renumbered(w0) ELSE w0
      later == [w EXCEPT !.q.expected = @ + FutureOffset]
  IN CASE Rejected(m) -> w
       [] ~Rejected(m) /\ w.ch.zoom1x ->
            IF m.crop1x THEN [w EXCEPT !.ch.zoom1x = FALSE, !.q.expected = f + 1]
                        ELSE FlushMatched(later)
       [] ~Rejected(m) /\ ~w.ch.zoom1x /\ m.prep = "need_future" ->
            [Flush(later, Streams) EXCEPT !.ch.needLED = TRUE]
       [] ~Rejected(m) /\ ~w.ch.zoom1x /\ m.prep = "ready" ->
            [w EXCEPT !.ch.needLED = FALSE]
       [] ~Rejected(m) /\ ~w.ch.zoom1x /\ m.prep = "none" /\ m.range # <<>> ->
            IF w.ch.flash
            THEN [w EXCEPT !.q.expected = m.range[1], !.q.noLed = m.range[2]]
            ELSE [w EXCEPT !.q.expected = m.range[1], !.ch.bracketing = "ACTIVE"]
       [] OTHER -> IF w.ch.bracketing = "WAIT" THEN FlushMatched(later) ELSE w

\* mm_channel_superbuf_comp_and_enqueue: the node at i takes the frame.  A
\* complete one drops the unmatched nodes before it that are older.
Join(w, i, s, slot) ==
  LET ns    == w.q.nodes
      n     == [ns[i] EXCEPT !.slot[s] = slot]
      older == {k \in Unmatched(ns) : k < i /\ ns[k].frame < n.frame}
      first == IF older = {} THEN i ELSE Min(older)
      full  == \A t \in Streams : n.frame # 0 /\ n.slot[t] # Empty
  IN IF ~full THEN [w EXCEPT !.q.nodes[i] = n]
     ELSE [w EXCEPT
       !.q.nodes = Leading(ns, first - 1) \o <<[n EXCEPT !.matched = TRUE]>> \o After(ns, i),
       !.q.match_cnt = @ + 1,
       !.q.expected = IF w.ch.flash THEN w.q.noLed ELSE n.frame + PostSkip,
       !.ch.flash = FALSE,
       !.rel = @ \cup UNION {Filled(ns[k]) : k \in first..(i - 1)}]

PlaceLast(ns, f) == Len(ns) + 1

Crowded(ns) == MaxUnmatched < Cardinality(Unmatched(ns))
Place(ns, f) ==
  LET newer == {k \in Unmatched(ns) : ns[k].frame > f}
  IN IF newer = {} THEN Len(ns) + 1 ELSE Min(newer)

\* ... or no node has its frame: it gets one, in the place of the oldest when
\* there are too many, before the first newer one.
Insert(w, s, slot, f) ==
  LET ns      == w.q.nodes
      older   == {k \in Unmatched(ns) : ns[k].frame < f}
      at      == Place(ns, f)
      alone   == Streams = {s}
      n       == [frame |-> f, matched |-> alone,
                  slot |-> [t \in Streams |-> IF t = s THEN slot ELSE Empty]]
      longer  == InsertAt(ns, at, n)
      oldest  == Min(older)
      added   == IF alone THEN [w EXCEPT !.q.match_cnt = @ + 1,
                                         !.q.expected = f + PostSkip] ELSE w
  IN IF Crowded(ns) /\ older = {} THEN [w EXCEPT !.rel = @ \cup {slot.buf}]
     ELSE IF Crowded(ns)
     THEN [added EXCEPT
       !.q.nodes = RemoveAt(longer, IF oldest < at THEN oldest ELSE oldest + 1),
       !.rel = @ \cup Filled(ns[oldest])]
     ELSE [added EXCEPT !.q.nodes = longer]

CompAndEnqueue(w0, c) ==
  LET w    == IF c.stream = Meta THEN HandleMetadata(w0, c.frame, c.meta) ELSE w0
      same == {i \in Unmatched(w.q.nodes) : w.q.nodes[i].frame = c.frame}
  IN IF \/ c.stream = Meta /\ Rejected(c.meta)
        \/ c.frame < w.q.expected
     THEN [w EXCEPT !.rel = @ \cup {c.slot.buf}]
     ELSE IF same # {} THEN Join(w, Min(same), c.stream, c.slot)
     ELSE Insert(w, c.stream, c.slot, c.frame)

----------------------------------------------------------------------------
(* mm_channel_process_stream_buf *)

\* A request for n super buffers; 0 cancels.
Request(w0, n) ==
  LET w == TrimTo([w0 EXCEPT !.ch.pending = n], LookBack)
  IN IF /\ n > 0 /\ ~w.ch.manual /\ ~w.ch.started
        /\ w.ch.needLED \/ w.ch.bracketing # "OFF"
     THEN [w EXCEPT !.ch.started = TRUE, !.ch.needLED = FALSE, !.ch.skip = 0]
     ELSE IF n = 0 /\ w.ch.started /\ ~w.ch.manual
     THEN [w EXCEPT !.ch.started = FALSE, !.ch.needLED = FALSE,
                    !.ch.bracketing = "OFF"]
     ELSE w

\* MM_CAMERA_CMD_TYPE_GENERAL
General(w, type, start) ==
  CASE type = "BRACKETING" -> [Flush(w, Streams) EXCEPT
                                 !.ch.bracketing = IF start THEN "WAIT" ELSE "OFF"]
    [] type = "FLASH"      -> [w EXCEPT !.ch.flash = start]
    [] type = "ZOOM_1X"    -> [w EXCEPT !.ch.zoom1x = start]

\* The loop that sends complete super buffers to the callback thread.
Dispatch(w) ==
  LET ready == MatchedPrefix(w.q.nodes)
      burst == w.ch.mode = "BURST"
      k     == IF burst THEN Min({w.ch.pending, ready}) ELSE ready
      left  == IF burst THEN w.ch.pending - k ELSE w.ch.pending
      done  == burst /\ k > 0 /\ left = 0 /\ w.ch.started /\ ~w.ch.manual
      sent  == [Dequeue(w, k) EXCEPT !.out = Leading(w.q.nodes, k), !.ch.pending = left]
  IN IF ~done THEN sent
     ELSE [sent EXCEPT !.ch.skip = SkipCnt, !.ch.started = FALSE,
                       !.ch.bracketing = "OFF"]

Handle(w, c) ==
  CASE c.cmd = "DATA"      -> CompAndEnqueue(w, c)
    [] c.cmd = "REQUEST"   -> Request(w, c.n)
    [] c.cmd = "START_ZSL" -> [w EXCEPT !.ch.manual = TRUE]
    [] c.cmd = "STOP_ZSL"  -> [w EXCEPT !.ch.manual = FALSE]
    [] c.cmd = "NOTIFY"    -> [w EXCEPT !.ch.mode = c.mode]
    [] c.cmd = "GENERAL"   -> General(w, c.type, c.start)
    [] c.cmd = "FLUSH"     -> Flush([w EXCEPT !.q.expected = c.frame], c.types)

\* A mutant: requests are served when a frame comes.
OutcomeOnData(c) ==
  LET w == Handle([q |-> queue, ch |-> chan, rel |-> {}, out |-> <<>>], c)
  IN IF c.cmd # "DATA" THEN w ELSE Dispatch(TrimTo(w, WaterMark))

\* After a command the queue is trimmed and requests are served; a flush
\* returns before that.
Outcome(c) ==
  LET w == Handle([q |-> queue, ch |-> chan, rel |-> {}, out |-> <<>>], c)
  IN IF c.cmd = "FLUSH" THEN w ELSE Dispatch(TrimTo(w, WaterMark))

\* The trimming loop had no way out: the thread spins with the queue's lock.
\* (MatchedFirst and ServedAtOnce show that this is never so.)
Spinning == chan.mode = "BURST" /\ queue.match_cnt > WaterMark

Process ==
  /\ cmdq # <<>> /\ ~Spinning
  /\ LET c == Head(cmdq)
         w == Outcome(c)
     IN /\ queue' = w.q /\ chan' = w.ch /\ cbq' = cbq \o w.out
        /\ BufDone(w.rel)
        /\ flushing' = (flushing /\ c.cmd # "FLUSH")
  /\ cmdq' = Tail(cmdq)
  /\ UNCHANGED <<sensor, stream, held, posted>>

----------------------------------------------------------------------------
(* The other threads *)

\* mm_stream_data_notify: the poll thread takes a filled buffer, counts a
\* reference for the channel and one for the callback, and tells the channel:
\* its own when the stream is bundled, the one the stream is linked to when it
\* is linked.  The linked channel's reference is counted a moment later, but
\* under buf_lock with the telling, and nobody has the buffer before.
\* Frames may be lost; a numbering that starts again shows in metadata first.
References(s) == IF s \in HasCb THEN 2 ELSE 1

\* The poll thread of a channel works on one frame at a time.
Polls(s) == {t \in Streams : (t \in Linked) = (s \in Linked)}

Notify(s) ==
  /\ \A t \in Polls(s) : polled[t] = Nothing
  /\ Len(cmdq) < MaxCmdq
  /\ fresh => s = Meta
  /\ \E b \in kernel \cap BufsOf[s], f \in next[s]..MaxFrame,
        m \in IF s = Meta THEN Metadata ELSE {Plain} :
       /\ kernel' = kernel \ {b}
       /\ refcnt' = [refcnt EXCEPT ![b] = @ + References(s)]
       /\ next' = [next EXCEPT ![s] = f + 1]
       /\ cmdq' = Append(cmdq,
            [cmd |-> "DATA", stream |-> s, frame |-> f,
             slot |-> [buf |-> b, epoch |-> epoch],
             meta |-> IF fresh THEN [m EXCEPT !.reset = TRUE] ELSE m])
       /\ polled' = [polled EXCEPT ![s] = IF s \in HasCb THEN b ELSE Nothing]
  /\ fresh' = FALSE
  /\ UNCHANGED <<epoch, appq, calling, channel, held, flushing, posted>>

\* mm_stream_handle_rcvd_buf, its second half: skip the preview frames after
\* a flash, hand the others to the stream's thread.
Forward(s) ==
  /\ polled[s] # Nothing
  /\ \/ /\ s = Preview /\ chan.skip > 0
        /\ chan' = [chan EXCEPT !.skip = @ - 1]
        /\ BufDone({polled[s]})
        /\ UNCHANGED appq
     \/ /\ s # Preview \/ chan.skip = 0
        /\ appq' = [appq EXCEPT ![s] = Append(@, polled[s])]
        /\ UNCHANGED <<chan, bufVars>>
  /\ polled' = [polled EXCEPT ![s] = Nothing]
  /\ UNCHANGED <<sensor, calling, cmdq, queue, cbq, held, flushing, posted>>

\* mm_stream_dispatch_app_data: a reference for the HAL, the callback ...
AppCallback(s) ==
  /\ calling[s] = Nothing /\ appq[s] # <<>>
  /\ LET b == Head(appq[s])
     IN /\ refcnt' = [refcnt EXCEPT ![b] = @ + 1]
        /\ held' = [held EXCEPT ![b] = @ + 1]
        /\ calling' = [calling EXCEPT ![s] = b]
  /\ appq' = [appq EXCEPT ![s] = Tail(@)]
  /\ UNCHANGED <<kernel, sensor, polled, cmdq, channel, flushing, posted>>

\* ... and, when it returns, the end of the reference mm_stream_data_notify took.
AppDone(s) ==
  /\ calling[s] # Nothing
  /\ BufDone({calling[s]})
  /\ calling' = [calling EXCEPT ![s] = Nothing]
  /\ UNCHANGED <<sensor, polled, appq, cmdq, channel, held, flushing, posted>>

\* mm_channel_dispatch_super_buf: the callback thread hands one to the HAL.
DispatchSuperBuf ==
  /\ cbq # <<>>
  /\ held' = [b \in Bufs |-> held[b] + (IF b \in Slots(Head(cbq)) THEN 1 ELSE 0)]
  /\ cbq' = Tail(cbq)
  /\ UNCHANGED <<bufVars, sensor, stream, cmdq, queue, chan, flushing, posted>>

\* mm_channel_qbuf: the HAL returns a buffer, of a linked stream too: the
\* channel passes it on to the stream it stands for, whose counts these are.
QBuf(b) ==
  /\ held[b] > 0
  /\ held' = [held EXCEPT ![b] = @ - 1]
  /\ BufDone({b})
  /\ UNCHANGED <<sensor, stream, cmdq, channel, flushing, posted>>

\* The HAL posts a command; a flush keeps its caller, who holds the channel's
\* lock, waiting for the command thread.
Post ==
  /\ posted < MaxCommands /\ ~flushing /\ Len(cmdq) < MaxCmdq
  /\ \E c \in Commands : /\ cmdq' = Append(cmdq, c)
                         /\ flushing' = (c.cmd = "FLUSH")
  /\ posted' = posted + 1
  /\ UNCHANGED <<bufVars, sensor, stream, channel, held>>

\* The sensor starts again, the frames it has not delivered are lost.
Renumber ==
  /\ epoch < MaxEpoch /\ \A s \in Streams : polled[s] = Nothing
  /\ epoch' = epoch + 1 /\ fresh' = TRUE
  /\ next' = [s \in Streams |-> FirstFrame]
  /\ UNCHANGED <<bufVars, stream, cmdq, channel, held, flushing, posted>>

----------------------------------------------------------------------------
Init ==
  /\ kernel = Bufs
  /\ refcnt = [b \in Bufs |-> 0]
  /\ next = [s \in Streams |-> FirstFrame]
  /\ epoch = 0 /\ fresh = FALSE
  /\ polled = [s \in Streams |-> Nothing]
  /\ appq = [s \in Streams |-> <<>>]
  /\ calling = [s \in Streams |-> Nothing]
  /\ cmdq = <<>> /\ cbq = <<>>
  /\ queue = [nodes |-> <<>>, match_cnt |-> 0, expected |-> 0, noLed |-> 0]
  /\ chan = [pending |-> 0, mode |-> Mode, needLED |-> FALSE, bracketing |-> "OFF",
             flash |-> FALSE, zoom1x |-> FALSE, started |-> FALSE,
             manual |-> FALSE, skip |-> 0]
  /\ held = [b \in Bufs |-> 0]
  /\ flushing = FALSE /\ posted = 0

Next ==
  \/ \E s \in Streams : Notify(s) \/ Forward(s) \/ AppCallback(s) \/ AppDone(s)
  \/ Process \/ DispatchSuperBuf \/ Post \/ Renumber
  \/ \E b \in Bufs : QBuf(b)

Spec == Init /\ [][Next]_vars
----------------------------------------------------------------------------
(* Properties *)

\* The shape of the state.
TypeOK ==
  /\ kernel \subseteq Bufs
  /\ refcnt \in [Bufs -> Nat] /\ held \in [Bufs -> Nat]
  /\ next \in [Streams -> Nat] /\ epoch \in 0..MaxEpoch /\ fresh \in BOOLEAN
  /\ polled \in [Streams -> Bufs \cup {Nothing}]
  /\ \A s \in Streams : polled[s] \in BufsOf[s] \cup {Nothing}
  /\ appq \in [Streams -> Seq(Bufs)] /\ calling \in [Streams -> Bufs \cup {Nothing}]
  /\ cmdq \in Seq(Frame \cup Commands)
  /\ queue \in [nodes : Seq(Node), match_cnt : Nat, expected : Nat, noLed : Nat]
  /\ chan \in [pending : Nat, mode : {"BURST", "CONTINUOUS"}, needLED : BOOLEAN,
               bracketing : {"OFF", "WAIT", "ACTIVE"}, flash : BOOLEAN,
               zoom1x : BOOLEAN, started : BOOLEAN, manual : BOOLEAN, skip : Nat]
  /\ cbq \in Seq(Node) /\ flushing \in BOOLEAN /\ posted \in 0..MaxCommands

\* The complete super buffers are the first match_cnt of the queue and the
\* others follow in the order of their frames.  Enqueuing, eviction and the
\* dropping of older nodes walk the list by this, and the loops of
\* mm_channel_superbuf_bufdone_overflow and _skip end only because of it: they
\* repeat until match_cnt is small, and only a matched head makes it smaller.
MatchedFirst ==
  LET ns == queue.nodes IN
  /\ queue.match_cnt \in 0..Len(ns)
  /\ \A i \in DOMAIN ns : ns[i].matched <=> i <= queue.match_cnt
  /\ \A i, j \in Unmatched(ns) : i < j => ns[i].frame < ns[j].frame

\* Nothing is left undone between two commands: in burst mode no request waits
\* while a complete super buffer is in the queue, and the queue keeps no more
\* of them than the water mark; in continuous mode it keeps none.
ServedAtOnce ==
  IF chan.mode = "BURST"
  THEN /\ queue.match_cnt <= WaterMark
       /\ chan.pending > 0 => queue.match_cnt = 0
  ELSE queue.match_cnt = 0

\* Who holds a reference of a buffer.
Holders(b) ==
  LET in(ns) == Cardinality({i \in DOMAIN ns : b \in Slots(ns[i])})
  IN Cardinality({i \in DOMAIN cmdq : cmdq[i].cmd = "DATA" /\ cmdq[i].slot.buf = b})
     + in(queue.nodes) + in(cbq) + held[b] + Cardinality({s \in Streams : polled[s] = b})
     + Cardinality({s \in Streams : calling[s] = b})
     + Cardinality({s \in Streams : b \in ToSet(appq[s])})

\* A buffer's count is the number of its holders, and it is with the driver
\* exactly when there is none: no frame is overwritten while somebody looks at
\* it and no buffer is lost, whichever thread lets go of it last.
RefsAreHolders ==
  \A b \in Bufs : /\ refcnt[b] = Holders(b)
                  /\ b \in kernel <=> refcnt[b] = 0

\* What the HAL is handed is complete, of one exposure, and in the order of
\* the exposures, though every stream delivers at its own pace, metadata may
\* move the expected frame back and the numbering may start again.
Exposure(n) == n.slot[Meta].epoch * (MaxFrame + 1) + n.frame

WholeAndInOrder ==
  LET ready == cbq \o Leading(queue.nodes, MatchedPrefix(queue.nodes)) IN
  /\ \A i \in DOMAIN ready : \A s \in Streams :
       /\ ready[i].slot[s] # Empty
       /\ ready[i].slot[s].epoch = ready[i].slot[Meta].epoch
  /\ \A i, j \in DOMAIN ready : i < j => Exposure(ready[i]) < Exposure(ready[j])

\* In burst mode the queue never has all the buffers of a stream, however many
\* frames lose their partners, so that the driver can go on filling some: what
\* getBufNumRequired counts on when it sizes the streams from the water mark
\* and the number of unmatched frames.
QueueLeavesBuffers ==
  chan.mode = "BURST" =>
    \A s \in Streams : \E b \in BufsOf[s] : b \notin SlotsIn(queue.nodes)

\* What the HAL is handed is complete, of one exposure and in order, from a
\* queue whose complete super buffers come first and which leaves the driver
\* some buffers.
ZslOrder == MatchedFirst /\ WholeAndInOrder /\ QueueLeavesBuffers /\ RefsAreHolders

\* Whatever is asked in whatever order, what can be served is.
AnyServed == TypeOK /\ ServedAtOnce
=============================================================================

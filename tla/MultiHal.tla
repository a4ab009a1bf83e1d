------------------------------ MODULE MultiHal ------------------------------
(* The sensor HAL that makes one HAL of several (multihal.cpp): each sub-HAL *)
(* that opens gets a thread that polls it straight into a ring of events     *)
(* (SensorEventQueue), without the lock while it polls, and poll() takes the *)
(* events of the rings in turn, each renamed from the sub-HAL's handle to    *)
(* the one handed out for the pair of module and handle.                     *)
EXTENDS Integers, Sequences, SequencesExt, FiniteSets

CONSTANTS Sensors,    \* for each module, the handles of its sensors
          Version,    \* for each module, the minor version of its API
          Capacity,   \* events in a ring
          Reads,      \* how many events poll may be asked for
          MaxEvents,  \* bound: events each module's device makes
          MaySkip,    \* modules whose open may fail
          Sloppy,     \* modules whose device may report a handle it does not list
          Unknown     \* a local handle that no module lists

Modules == DOMAIN Sensors
Locals == UNION {Range(Sensors[m]) : m \in Modules}
MultiHalAssumption ==
  /\ Capacity \in Nat \ {0} /\ Reads \subseteq Nat \ {0} /\ MaxEvents \in [Modules -> Nat]
  /\ MaySkip \subseteq Modules /\ Unknown \in Nat \ Locals

VARIABLES devs,     \* sub_hw_devices: the module each was opened from
          versions, \* sub_hw_versions: the modules in it, or NoVersions
          handles,  \* the module and local handle of each global handle
          state,    \* of the service: "closed", "open", "aborted"
          active,   \* external: the sensors each device was told to run
          flushes,  \* external: the sensors each device was told to flush
          made,     \* external: how many events each device has made
          ring,     \* the SensorEventQueue of each device
          writer,   \* writerTask of each device
          reader,   \* poll(): where it stands, what it has, how much it may
          turn,     \* nextReadIndex
          seen      \* ghost: how many events of each device were taken

vars == <<devs, versions, handles, state, active, flushes, made, ring, writer, reader, turn, seen>>
hvars == <<devs, versions, handles, state>>

Devices == DOMAIN devs
NoVersions == {0}
NoEvent == [local |-> Unknown, meta |-> FALSE, n |-> 0]
EmptyRing == [data |-> [k \in 0..Capacity - 1 |-> NoEvent], start |-> 0, size |-> 0]

TypeOK ==
  /\ devs \in Seq(Modules) /\ versions \in SUBSET (Modules \cup {0})
  /\ handles \in Seq(Modules \X Locals) /\ state \in {"closed", "open", "aborted"}
  /\ \A d \in Devices : ring[d].start \in 0..Capacity - 1 /\ ring[d].size \in 0..Capacity
  /\ reader.pc \in {"idle", "reading", "waiting", "woken"}

Init ==
  /\ devs = <<>> /\ versions = NoVersions /\ handles = <<>> /\ state = "closed"
  /\ active = <<>> /\ flushes = <<>> /\ made = <<>> /\ ring = <<>> /\ writer = <<>> /\ seen = <<>> /\ turn = 1
  /\ reader = [pc |-> "idle", empties |-> 0, got |-> <<>>, max |-> 1]

-----------------------------------------------------------------------------
(* Opening, and the handles.                                                 *)

\* open_sensors, with addSubHwDevice for each sub-HAL that opens.
open_sensors ==
  /\ state = "closed"
  /\ \E skip \in SUBSET MaySkip :
       devs' = SelectSeq([m \in Modules |-> m], LAMBDA m : m \notin skip)
  /\ versions' = Range(devs') /\ state' = "open"
  /\ ring' = [d \in DOMAIN devs' |-> EmptyRing]
  /\ writer' = [d \in DOMAIN devs' |-> [pc |-> "space", first |-> 0, len |-> 0]]
  /\ active' = [d \in DOMAIN devs' |-> {}] /\ flushes' = active'
  /\ made' = [d \in DOMAIN devs' |-> 0] /\ seen' = [d \in DOMAIN devs' |-> 0]
  /\ UNCHANGED <<handles, reader, turn>>

Listed == handles # <<>>
\* lazy_init_sensors_list: at() throws for a module that did not open.
AssignHandles == FoldLeft(LAMBDA s, m : s \o [k \in DOMAIN Sensors[m] |-> <<m, Sensors[m][k]>>], <<>>,
                         [m \in Modules |-> m])
get_sensors_list ==
  /\ state = "open" /\ ~Listed
  /\ IF \A m \in Modules : Sensors[m] # <<>> => m \in versions
     THEN handles' = AssignHandles /\ versions' = NoVersions /\ UNCHANGED state
     ELSE state' = "aborted" /\ UNCHANGED <<handles, versions>>
  /\ UNCHANGED <<devs, active, flushes, made, ring, writer, reader, turn, seen>>

get_module_index(g) == handles[g][1]
get_local_handle(g) == handles[g][2]
get_global_handle(m, l) == IF \E g \in DOMAIN handles : handles[g] = <<m, l>>
                           THEN CHOOSE g \in DOMAIN handles : handles[g] = <<m, l>> ELSE -1
\* The device a handle's call goes to: the index is the module's, not the device's.
DeviceOf(g) == get_module_index(g)
HasDevice(g) == DeviceOf(g) \in Devices

activate(g, enabled) ==
  /\ state = "open" /\ g \in DOMAIN handles
  /\ active' = IF ~HasDevice(g) THEN active
               ELSE LET l == get_local_handle(g)
                    IN [active EXCEPT ![DeviceOf(g)] = IF enabled THEN @ \cup {l} ELSE @ \ {l}]
  /\ UNCHANGED <<hvars, flushes, made, ring, writer, reader, turn, seen>>

\* flush, for an API of 1.1 or later.
halIsAPILevelCompliant(g, level) == HasDevice(g) /\ Version[devs[DeviceOf(g)]] >= level
flush(g) ==
  /\ state = "open" /\ g \in DOMAIN handles
  /\ flushes' = IF halIsAPILevelCompliant(g, 1) THEN [flushes EXCEPT ![DeviceOf(g)] = @ \cup {get_local_handle(g)}]
                ELSE flushes
  /\ UNCHANGED <<hvars, active, made, ring, writer, reader, turn, seen>>

-----------------------------------------------------------------------------
(* The writers.                                                              *)
Locked == reader.pc = "reading"   \* queue_mutex

\* SensorEventQueue::getWritableRegion: contiguous, and not into the readable part.
WholeRing(q) == [first |-> (q.start + q.size) % Capacity, len |-> Capacity - ((q.start + q.size) % Capacity)]
getWritableRegion(q) ==
  LET first == (q.start + q.size) % Capacity
      last == IF first < q.start THEN q.start - 1 ELSE Capacity - 1
  IN [first |-> first, len |-> last - first + 1]

\* waitForSpace: without space the thread sleeps until dequeue signals.
TakeRegion(d) ==
  /\ state # "aborted" /\ ~Locked /\ writer[d].pc = "space"
  /\ writer' = IF ring[d].size = Capacity THEN [writer EXCEPT ![d].pc = "asleep"]
               ELSE LET r == getWritableRegion(ring[d])
                    IN [writer EXCEPT ![d] = [pc |-> "poll", first |-> r.first, len |-> r.len]]
  /\ UNCHANGED <<hvars, active, flushes, made, ring, reader, turn, seen>>

\* External: the device writes into the region, with nobody's lock held, events of a running
\* sensor or of one it does not list, ...
Written(q, d, k, l, meta) ==
  [q EXCEPT !.data = [x \in DOMAIN @ |->
     IF x \in writer[d].first..writer[d].first + k - 1
     THEN [local |-> l, meta |-> meta, n |-> made[d] + 1 + x - writer[d].first] ELSE @[x]]]
Polled(d, k, l, meta) ==
  /\ state # "aborted" /\ writer[d].pc = "poll" /\ made[d] + k <= MaxEvents[devs[d]]
  /\ ring' = [ring EXCEPT ![d] = Written(@, d, k, l, meta)]
  /\ made' = [made EXCEPT ![d] = @ + k]
  /\ writer' = [writer EXCEPT ![d].pc = "mark", ![d].len = k]
  /\ UNCHANGED <<hvars, active, reader, turn, seen>>
SubHalPolls(d) ==
  /\ active[d] # {}
  /\ \E k \in 1..writer[d].len, l \in active[d] \cup (IF devs[d] \in Sloppy THEN {Unknown} ELSE {}) :
       Polled(d, k, l, FALSE)
  /\ UNCHANGED flushes
\* ... or the meta event that ends a flush.
SubHalFlushed(d) ==
  \E l \in flushes[d] :
    Polled(d, 1, l, TRUE) /\ flushes' = [flushes EXCEPT ![d] = @ \ {l}]
\* Nothing, or an error: the thread polls again.
SubHalFails(d) ==
  /\ state # "aborted" /\ writer[d].pc = "poll"
  /\ writer' = [writer EXCEPT ![d] = [pc |-> "space", first |-> 0, len |-> 0]]
  /\ UNCHANGED <<hvars, active, flushes, made, ring, reader, turn, seen>>

\* markAsWritten, and the broadcast to a waiting reader.
Told == IF reader.pc = "waiting" THEN [reader EXCEPT !.pc = "woken"] ELSE reader
MarkAsWritten(d) ==
  /\ state # "aborted" /\ ~Locked /\ writer[d].pc = "mark"
  /\ ring' = [ring EXCEPT ![d].size = @ + writer[d].len]
  /\ writer' = [writer EXCEPT ![d] = [pc |-> "space", first |-> 0, len |-> 0]]
  /\ UNCHANGED <<hvars, active, flushes, made, turn, seen>>
  /\ reader' = Told

-----------------------------------------------------------------------------
(* The reader.                                                               *)
poll(max) ==
  /\ state = "open" /\ reader.pc = "idle" /\ devs # <<>>
  /\ reader' = [pc |-> "reading", empties |-> 0, got |-> <<>>, max |-> max]
  /\ UNCHANGED <<hvars, active, flushes, made, ring, writer, turn, seen>>

\* copy_event_remap_handle; what the app gets, and by the ghost whose it is.
Renamed(d) == LET e == ring[d].data[ring[d].start]
              IN [sensor |-> get_global_handle(d, e.local), meta |-> e.meta, from |-> devs[d],
                  local |-> e.local]
\* An event of an unknown handle is dropped; a meta event's own sensor is 0, never -1.
Dropped(d) == LET e == Renamed(d) IN e.sensor = -1 /\ ~e.meta
\* dequeue (what a read slot keeps does not matter), with the signal to a writer that found the ring full.
Dequeue(d) ==
  /\ ring' = [ring EXCEPT ![d].size = @ - 1, ![d].start = (@ + 1) % Capacity,
                               ![d].data[ring[d].start] = NoEvent]
  /\ writer' = IF ring[d].size = Capacity /\ writer[d].pc = "asleep"
               THEN [writer EXCEPT ![d].pc = "space"] ELSE writer
  /\ seen' = [seen EXCEPT ![d] = @ + 1]
Pass == reader.pc = "reading" /\ reader.empties < Len(devs) /\ Len(reader.got) < reader.max
\* The next ring in turn: its oldest event, ...
ReadEvent ==
  /\ Pass /\ ring[turn].size > 0
  /\ reader' = [reader EXCEPT !.empties = 0, !.got = IF Dropped(turn) THEN @ ELSE Append(@, Renamed(turn))]
  /\ Dequeue(turn) /\ turn' = (turn % Len(devs)) + 1
  /\ UNCHANGED <<hvars, active, flushes, made>>
\* ... or none.
ReadEmpty ==
  /\ Pass /\ ring[turn].size = 0
  /\ reader' = [reader EXCEPT !.empties = @ + 1] /\ turn' = (turn % Len(devs)) + 1
  /\ UNCHANGED <<hvars, active, flushes, made, ring, writer, seen>>
\* With nothing read the reader waits, and gives up the lock; else poll returns.
EndPass ==
  /\ reader.pc = "reading" /\ ~Pass
  /\ reader' = [reader EXCEPT !.pc = IF reader.got = <<>> THEN "waiting" ELSE "idle"]
  /\ UNCHANGED <<hvars, active, flushes, made, ring, writer, turn, seen>>
Wake ==
  /\ reader.pc = "woken"
  /\ reader' = [reader EXCEPT !.pc = "reading", !.empties = 0]
  /\ UNCHANGED <<hvars, active, flushes, made, ring, writer, turn, seen>>

Read == ReadEvent \/ ReadEmpty \/ EndPass \/ Wake
Write(d) == TakeRegion(d) \/ SubHalPolls(d) \/ SubHalFlushed(d) \/ SubHalFails(d) \/ MarkAsWritten(d)
Next ==
  \/ open_sensors \/ get_sensors_list \/ Read
  \/ \E g \in DOMAIN handles, on \in BOOLEAN : activate(g, on)
  \/ \E g \in DOMAIN handles : flush(g)
  \/ \E max \in Reads : poll(max)
  \/ \E d \in Devices : Write(d)

\* The threads run, and the framework polls again and again.
Fairness ==
  /\ WF_vars(Read) /\ WF_vars(\E max \in Reads : poll(max))
  /\ \A d \in Modules : WF_vars(d \in Devices /\ (TakeRegion(d) \/ MarkAsWritten(d)))
Spec == Init /\ [][Next]_vars /\ Fairness

-----------------------------------------------------------------------------
(* The oldest event of a ring is the one after the last that was taken: none *)
(* is lost, repeated or written over while the device writes unlocked.       *)
RingInOrder == \A d \in Devices : ring[d].size > 0 => ring[d].data[ring[d].start].n = seen[d] + 1

(* An event bears the handle of the sensor that made it, in whatever order   *)
(* the rings were read; a skipped module shifts the devices and is excepted. *)
Parallel == \A d \in Devices : devs[d] = d
HandlesRight ==
  Parallel => \A k \in DOMAIN reader.got : LET e == reader.got[k]
    IN e.sensor # -1 => handles[e.sensor] = <<e.from, e.local>>

(* An event that a device made reaches the framework or is dropped.          *)
EventsArrive ==
  \A d \in Modules : (d \in Devices /\ made[d] > seen[d]) ~> (d \in Devices /\ made[d] = seen[d])
=============================================================================

------------------------------- MODULE HalApi -------------------------------
(***************************************************************************)
(* The threads around the camera HAL's state machine: callers that post an *)
(* API and sleep until its answer is in the result list, the machine's     *)
(* thread with its two queues (an API always goes first), the callback     *)
(* notifier, the postprocessor that delivers pictures to it, the live      *)
(* snapshot thread, and the destructor that joins them.                    *)
(*                                                                         *)
(* A picture ends in a circle through three of these threads: the machine  *)
(* tells the notifier that snapshots START (ahead of everything queued),   *)
(* the postprocessor queues the pictures, the notifier posts SNAPSHOT_DONE *)
(* and sleeps until the machine has handled it, and handling it tells the  *)
(* notifier to STOP.                                                       *)
(***************************************************************************)
EXTENDS HalStateMachine

CONSTANTS
    Callers,        \* threads that call the HAL; "backend" is Int_Pic_thread
    Calls,          \* the requests each makes, for each setup of the camera
    MaxCalls        \* bound: requests one caller makes, for each setup

ASSUME ApiAssumption ==
    /\ Calls \in [Setups -> [Callers -> SUBSET (Apis \cup Notices)]]
    /\ MaxCalls \in [Setups -> [Callers -> Nat]]
    /\ "none" \notin Callers

VARIABLES
    api_queue,      \* requests for the machine: [api, by], or Exit
    evt_queue,      \* events for it: [evt, fresh], fresh while its picture goes on
    call,           \* the request each caller waits for, or "none"
    budget,         \* requests each caller may still make
    results,        \* m_apiResultList: [api, by]
    asker,          \* who waits for the hardware to prepare a snapshot
    intPic,         \* Int_Pic_thread: a picture the backend asked for itself
    cb,             \* QCameraCbNotifier, see CbType
    pp,             \* the postprocessor: pictures to deliver, capture stopped
    life            \* how far the destructor is

vars == <<m_state, hw, answer, api_queue, evt_queue, call, budget, results, asker,
          intPic, cb, pp, life>>

(* numOfSnapshotsExpected() *)
Snapshots == hw.setup.snapshots
Exit == [api |-> "EXIT", by |-> "none"]
Requests == [api : Apis \cup Notices, by : Callers \cup {"none"}]
CbType ==
    [cmds   : Seq({"START", "STOP", "JOB", "EXIT"}),   \* mProcTh's queue
     jobs   : Seq({"picture"}),    \* mDataQ, the snapshot callbacks in it
     active : BOOLEAN,     \* isSnapshotActive
     long   : BOOLEAN,     \* longShotEnabled
     got    : Nat,         \* numOfSnapshotRcvd
     sync   : {"none", "wait", "done"},   \* in processSyncEvt
     reversed : BOOLEAN]   \* the last START was put in front of a STOP

Told(e) == \E i \in DOMAIN hw'.notified : hw'.notified[i] = e
(* Both are sent with priority, so the later one ends up in front. *)
Pushed(cmds, told) ==
    IF told = <<>> THEN cmds
    ELSE IF Len(told) = 1 THEN told \o cmds
    ELSE <<told[2], told[1]>> \o cmds
(* A START in front of an earlier STOP is undone by it.                    *)
Reverses(cmds) ==
    \E i, j \in DOMAIN cmds : i < j /\ cmds[i] = "START" /\ cmds[j] = "STOP"
(* The pictures of a stopped postprocessor are void, and so are the events *)
(* still queued for them.                                                  *)
Staled(q) == [i \in DOMAIN q |-> [q[i] EXCEPT !.fresh = @ /\ ~Told("STOP")]]

-----------------------------------------------------------------------------
(* The callers. *)

Call(c, a) ==
    /\ life = "open" /\ call[c] = "none" /\ budget[c] > 0
    /\ c = "backend" => intPic = "idle"
    /\ call' = [call EXCEPT ![c] = a]
    /\ budget' = [budget EXCEPT ![c] = @ - 1]
    /\ api_queue' = Append(api_queue, [api |-> a, by |-> c])
    /\ UNCHANGED <<smVars, evt_queue, results, asker, intPic, cb, pp, life>>

(* Mutant: the result stays in the list. *)
ReturnKeeping(c) ==
    /\ \E i \in DOMAIN results : results[i].api = call[c]
    /\ call' = [call EXCEPT ![c] = "none"]
    /\ UNCHANGED <<smVars, api_queue, evt_queue, budget, results, asker, intPic, cb, pp, life>>
(* waitAPIResult takes the first result of its request, whoever made it. *)
Return(c) ==
    \E i \in DOMAIN results :
        /\ results[i].api = call[c]
        /\ \A j \in 1..(i - 1) : results[j].api # call[c]
        /\ results' = SubSeq(results, 1, i - 1) \o SubSeq(results, i + 1, Len(results))
        /\ call' = [call EXCEPT ![c] = "none"]
        /\ intPic' = IF c = "backend" THEN "waiting" ELSE intPic
        /\ UNCHANGED <<smVars, api_queue, evt_queue, budget, asker, cb, pp, life>>

(* The backend's picture has been taken, or the wait for it timed out.     *)
(* What checkIntPicPending posts, it does not wait for.                    *)
Post(a) ==
    /\ api_queue' = IF life = "open" THEN Append(api_queue, [api |-> a, by |-> "none"])
                    ELSE api_queue
    /\ UNCHANGED <<smVars, evt_queue, call, budget, results, asker, cb, pp, life>>
checkIntPicPending ==
    \/ intPic = "waiting" /\ intPic' = "idle" /\ UNCHANGED <<smVars, api_queue, evt_queue,
           call, budget, results, asker, cb, pp, life>>
    \/ intPic = "waiting" /\ intPic' = (IF hw.zsl THEN "idle" ELSE "restart")
       /\ Post("SNAPSHOT_DONE")
    \/ intPic = "restart" /\ intPic' = "idle" /\ Post("START_PREVIEW")

-----------------------------------------------------------------------------
(* The machine's thread. *)

(* PREP_SNAPSHOT_DONE brings the answer PREPARE_SNAPSHOT waits for. *)
signalAPIResult(e, by) ==
    results' =
        IF answer' # "API" THEN results
        ELSE IF e = "PREP_SNAPSHOT_DONE"
        THEN Append(results, [api |-> "PREPARE_SNAPSHOT", by |-> asker])
        ELSE Append(results, [api |-> e, by |-> by])
(* Mutant: the handled event is not signalled. *)
NotifiedUnsignalled == cb' = [cb EXCEPT !.cmds = Pushed(@, hw'.notified)]
(* signalEvtResult wakes whoever waits in processSyncEvt. *)
Notified ==
    cb' = [cb EXCEPT !.cmds = Pushed(@, hw'.notified),
                     !.reversed = IF Told("START") THEN Reverses(Pushed(cb.cmds, hw'.notified))
                                  ELSE @,
                     !.sync = IF answer' = "EVT" /\ @ = "wait" THEN "done" ELSE @]
Pictures(e) ==
    pp' = IF Told("STOP") THEN [todo |-> 0, captured |-> FALSE]
          ELSE IF e = "TAKE_PICTURE" /\ hw'.ok /\ m_state' \in {"PIC_TAKING", "PREVIEW_PIC_TAKING"}
          THEN [todo |-> Snapshots, captured |-> FALSE]
          ELSE pp

Handle(e, by, events) ==
    /\ stateMachine(e)
    /\ signalAPIResult(e, by)
    /\ asker' = IF m_state = "PREVIEWING" /\ m_state' = "PREPARE_SNAPSHOT" THEN by
                ELSE asker
    /\ evt_queue' = Staled(events)
                    \o IF hw'.posted THEN <<[evt |-> "SNAPSHOT_DONE", fresh |-> FALSE]>>
                       ELSE <<>>
    /\ Notified
    /\ Pictures(e)
    /\ UNCHANGED <<call, budget, intPic, life>>

SmRuns == life \in {"open", "closing"}
SmApi ==
    /\ SmRuns /\ api_queue # <<>> /\ Head(api_queue) # Exit
    /\ Handle(Head(api_queue).api, Head(api_queue).by, evt_queue)
    /\ api_queue' = Tail(api_queue)
SmEvt ==
    /\ SmRuns /\ api_queue = <<>> /\ evt_queue # <<>>
    /\ Handle(Head(evt_queue).evt, "none", Tail(evt_queue))
    /\ UNCHANGED api_queue
SmExit ==
    /\ SmRuns /\ api_queue # <<>> /\ Head(api_queue) = Exit
    /\ api_queue' = Tail(api_queue)
    /\ life' = "smExited"
    /\ UNCHANGED <<smVars, evt_queue, call, budget, results, asker, intPic, cb, pp>>
smEvtProcRoutine == SmApi \/ SmEvt \/ SmExit

(* Mutant: a failure is not posted. *)
Live_Snapshot_thread_Unposted ==
    /\ LiveSnapshotThread
    /\ Notified
    /\ pp' = IF hw'.ok THEN [todo |-> Snapshots, captured |-> FALSE] ELSE pp
    /\ UNCHANGED <<api_queue, evt_queue, call, budget, results, asker, intPic, life>>
(* The live snapshot thread; when it fails it posts CANCEL_PICTURE and     *)
(* does not wait for the answer.                                           *)
Live_Snapshot_thread ==
    /\ LiveSnapshotThread
    /\ api_queue' = IF hw'.ok \/ life # "open" THEN api_queue
                    ELSE Append(api_queue, [api |-> "CANCEL_PICTURE", by |-> "none"])
    /\ Notified
    /\ pp' = IF hw'.ok THEN [todo |-> Snapshots, captured |-> FALSE] ELSE pp
    /\ UNCHANGED <<evt_queue, call, budget, results, asker, intPic, life>>

-----------------------------------------------------------------------------
(* The lower layers. *)

(* The metadata stream says that the flash is ready. *)
PrepSnapshotDone ==
    /\ m_state = "PREPARE_SNAPSHOT"
    /\ \A i \in DOMAIN evt_queue : evt_queue[i].evt # "PREP_SNAPSHOT_DONE"
    /\ evt_queue' = Append(evt_queue, [evt |-> "PREP_SNAPSHOT_DONE", fresh |-> TRUE])
    /\ UNCHANGED <<smVars, api_queue, call, budget, results, asker, intPic, cb, pp, life>>

(* A regular capture that needs reprocessing stops its channel as soon as  *)
(* the reprocessing has begun.                                             *)
stopCapture ==
    /\ pp.todo > 0 /\ ~pp.captured /\ life = "open"
    /\ ~hw.zsl /\ ~hw.longshot /\ Snapshots = 1 /\ m_state = "PIC_TAKING"
    /\ api_queue' = Append(api_queue, [api |-> "STOP_CAPTURE_CHANNEL", by |-> "none"])
    /\ pp' = [pp EXCEPT !.captured = TRUE]
    /\ UNCHANGED <<smVars, evt_queue, call, budget, results, asker, intPic, cb, life>>

(* sendDataNotify: one picture is ready for the app. *)
sendDataNotify ==
    /\ pp.todo > 0 /\ life \in {"open", "closing", "smExited"}
    /\ pp' = [pp EXCEPT !.todo = @ - 1]
    /\ cb' = [cb EXCEPT !.jobs = Append(@, "picture"), !.cmds = Append(@, "JOB")]
    /\ UNCHANGED <<smVars, api_queue, evt_queue, call, budget, results, asker, intPic, life>>

-----------------------------------------------------------------------------
(* The callback notifier's thread. *)

NextCmd(cmd) == cb.sync = "none" /\ cb.cmds # <<>> /\ Head(cb.cmds) = cmd
Notifier(next) ==
    /\ cb' = [next EXCEPT !.cmds = Tail(@)]
    /\ UNCHANGED <<smVars, api_queue, call, budget, results, asker, intPic, pp>>

(* The longshot flag is read when the command is handled, not when sent. *)
CbStart ==
    /\ NextCmd("START")
    /\ Notifier([cb EXCEPT !.active = TRUE, !.long = hw.longshot, !.got = 0])
    /\ UNCHANGED <<evt_queue, life>>
CbStop ==
    /\ NextCmd("STOP")
    /\ Notifier([cb EXCEPT !.active = FALSE, !.got = 0, !.jobs = <<>>])
    /\ UNCHANGED <<evt_queue, life>>
(* A picture that comes while snapshots are off is dropped. *)
numOfSnapshotRcvd == IF cb.active /\ ~cb.long /\ cb.jobs # <<>> THEN cb.got + 1 ELSE cb.got
(* Mutant: every picture is the last. *)
AnyRcvd == numOfSnapshotRcvd > cb.got
LastRcvd == numOfSnapshotRcvd > cb.got /\ numOfSnapshotRcvd = Snapshots
(* The last picture expected posts SNAPSHOT_DONE and waits (processSyncEvt). *)
CbJob ==
    /\ NextCmd("JOB")
    /\ Notifier([cb EXCEPT !.jobs = IF @ = <<>> THEN @ ELSE Tail(@),
                           !.got = numOfSnapshotRcvd,
                           !.sync = IF LastRcvd THEN "wait" ELSE @])
    /\ evt_queue' = IF LastRcvd
                    THEN Append(evt_queue, [evt |-> "SNAPSHOT_DONE", fresh |-> isCaptureRunning])
                    ELSE evt_queue
    /\ UNCHANGED life
CbReturn ==
    /\ cb.sync = "done"
    /\ cb' = [cb EXCEPT !.sync = "none"]
    /\ UNCHANGED <<smVars, api_queue, evt_queue, call, budget, results, asker, intPic, pp, life>>
(* The join in closeCamera returns, which then stops the postprocessor and *)
(* deletes the channels.                                                   *)
CbExit ==
    /\ NextCmd("EXIT")
    /\ life' = "closed"
    /\ cb' = [cb EXCEPT !.cmds = Tail(@), !.jobs = <<>>]
    /\ hw' = release(H)
    /\ pp' = [pp EXCEPT !.todo = 0]
    /\ results' = <<>>
    /\ UNCHANGED <<m_state, answer, api_queue, evt_queue, call, budget, asker, intPic>>
cbNotifyRoutine == CbStart \/ CbStop \/ CbJob \/ CbReturn \/ CbExit

-----------------------------------------------------------------------------
(* The destructor, when the app has stopped the preview and its calls have *)
(* returned: it ends the machine's thread first, then the notifier's.      *)
Close ==
    /\ life = "open" /\ m_state = "PREVIEW_STOPPED"
    /\ intPic = "idle" /\ \A c \in Callers : call[c] = "none"
    /\ life' = "closing"
    /\ api_queue' = Append(api_queue, Exit)
    /\ UNCHANGED <<smVars, evt_queue, call, budget, results, asker, intPic, cb, pp>>
closeCamera ==
    /\ life = "smExited"
    /\ life' = "joining"
    /\ cb' = [cb EXCEPT !.cmds = <<"EXIT">> \o @]
    /\ UNCHANGED <<smVars, api_queue, evt_queue, call, budget, results, asker, intPic, pp>>

Init ==
    /\ smInit
    /\ api_queue = <<>> /\ evt_queue = <<>> /\ results = <<>>
    /\ call = [c \in Callers |-> "none"]
    /\ budget = MaxCalls[hw.setup]
    /\ asker = "none" /\ intPic = "idle"
    /\ cb = [cmds |-> <<>>, jobs |-> <<>>, active |-> FALSE, long |-> FALSE, got |-> 0,
             sync |-> "none", reversed |-> FALSE]
    /\ pp = [todo |-> 0, captured |-> FALSE]
    /\ life = "open"

Next ==
    \/ \E c \in Callers : Return(c) \/ \E a \in Calls[hw.setup][c] : Call(c, a)
    \/ checkIntPicPending
    \/ smEvtProcRoutine
    \/ Live_Snapshot_thread
    \/ PrepSnapshotDone \/ stopCapture \/ sendDataNotify
    \/ cbNotifyRoutine
    \/ Close \/ closeCamera

(* Every thread that can run does; the lower layers deliver the picture    *)
(* they were asked for and the metadata they were told to wait for.  Apps  *)
(* need not call or close.                                                 *)
Fairness ==
    /\ \A c \in Callers : WF_vars(Return(c))
    /\ WF_vars(checkIntPicPending)
    /\ WF_vars(smEvtProcRoutine) /\ WF_vars(Live_Snapshot_thread)
    /\ WF_vars(PrepSnapshotDone) /\ WF_vars(sendDataNotify)
    /\ WF_vars(cbNotifyRoutine) /\ WF_vars(closeCamera)

Spec == Init /\ [][Next]_vars /\ Fairness

-----------------------------------------------------------------------------
(* The callers, queues and threads around the machine have their types.    *)
TypeOK ==
    /\ smTypeOK
    /\ api_queue \in Seq(Requests \cup {Exit})
    /\ evt_queue \in Seq([evt : Notices, fresh : BOOLEAN])
    /\ call \in [Callers -> Apis \cup Notices \cup {"none"}]
    /\ \A c \in Callers : budget[c] \in 0..MaxCalls[hw.setup][c]
    /\ results \in Seq([api : Apis, by : Callers \cup {"none"}])
    /\ intPic \in {"idle", "waiting", "restart"}
    /\ asker \in Callers \cup {"none"}
    /\ cb \in CbType
    /\ pp \in [todo : 0..Snapshots, captured : BOOLEAN]
    /\ life \in {"open", "closing", "smExited", "joining", "closed"}

(* The result list hands every caller the answer to its own call: an       *)
(* answer made for caller c is there only while c waits for it.            *)
OwnAnswer ==
    \A i \in DOMAIN results :
        results[i].by \in Callers => call[results[i].by] = results[i].api

(* The threads that post a request without waiting for its answer leave it  *)
(* behind: the backend's picture, and a live snapshot that failed.          *)
Leftovers(s) ==
    (IF "backend" \in Callers /\ Calls[s]["backend"] # {} THEN {"START_PREVIEW"} ELSE {})
    \cup (IF \E c \in Callers : "START_RECORDING" \in Calls[s][c] THEN {"CANCEL_PICTURE"}
          ELSE {})
(* No two callers ask for the same, nor for what is left behind.            *)
Unshared(s) ==
    /\ \A c, d \in Callers : c # d => Calls[s][c] \cap Calls[s][d] = {}
    /\ \A c \in Callers : Calls[s][c] \cap Leftovers(s) = {}

(* waitAPIResult tells answers apart by their request only: as long as no   *)
(* two callers share one, each takes the answer made for it, however the    *)
(* machine, its events and the other callers interleave.                    *)
AnswersToCallers == Unshared(hw.setup) => OwnAnswer

(* An API is "in a way [a] sync call": every caller gets its answer.       *)
AnswersArrive == \A c \in Callers : []<>(call[c] = "none")

(* A picture that was taken ends: the machine does not stay in a picture   *)
(* state for ever, though nobody cancels it, a live snapshot fails or the  *)
(* next one follows at once.  Not so when the next one's START was put in   *)
(* front of a STOP, which then turns its pictures away (`reversed`); nor    *)
(* when the backend asks for pictures: the SNAPSHOT_DONE its thread posts   *)
(* may end a picture of the app.                                            *)
BackendAsks == "backend" \in Callers /\ Calls[hw.setup]["backend"] # {}
PictureEnds == []<>(~isCaptureRunning \/ cb.reversed \/ BackendAsks)

(* A snapshot is done when its last picture is: while a SNAPSHOT_DONE about *)
(* the picture in progress is queued, none is left to deliver or to count,  *)
(* however many pictures were cancelled before.                             *)
DoneIsLast ==
    (\E i \in DOMAIN evt_queue : evt_queue[i].evt = "SNAPSHOT_DONE" /\ evt_queue[i].fresh)
        => pp.todo = 0 /\ cb.jobs = <<>>

(* Once the notifier has handled what it was sent, it expects pictures      *)
(* whenever the postprocessor still has one to deliver, so none is dropped, *)
(* unless a START was put in front of a STOP.                               *)
PictureIsExpected == pp.todo > 0 /\ cb.cmds = <<>> => cb.active \/ cb.reversed

(* The notifier waits in processSyncEvt for the machine, which may wait for *)
(* nobody: as long as nobody closes the camera it comes back.               *)
NotifierReturns == cb.sync = "wait" ~> cb.sync # "wait" \/ life # "open"

(* A destructor that has begun finishes, but for one wait: the machine's    *)
(* thread has gone and the notifier is still in processSyncEvt.             *)
OneWaitAtClose == life = "closing" ~> life = "closed" \/ (life = "joining" /\ cb.sync = "wait")

(* A destructor that has begun finishes: neither join waits for a thread   *)
(* that waits for the other.                                               *)
CloseFinishes == life = "closing" ~> life = "closed"
=============================================================================

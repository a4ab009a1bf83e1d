------------------------------ MODULE PostProc ------------------------------
(***************************************************************************)
(* The postprocessor of the camera HAL (QCameraPostProc.cpp): frames come   *)
(* from the capture or ZSL channel, are reprocessed or not, encoded by the  *)
(* jpeg interface or passed on raw, and go back to their channel.           *)
(*                                                                          *)
(* Six threads meet in its queues: the two channels' callback threads, the  *)
(* data processing thread, the save thread, the encoder's, and the thread   *)
(* of the state machine, which starts and stops it and handles the jpeg     *)
(* events.                                                                  *)
(***************************************************************************)
EXTENDS Naturals, Sequences, FiniteSets, SequencesExt

CONSTANTS
  Pics,       \* bound: the frames of a behaviour, by their numbers
  Modes,      \* the ways of working that are looked at
  NumReproc,  \* buffers of the reprocess stream
  MaxStarts,  \* bound: starts
  None

\* reproc: needReprocess; raw: NV16/NV21 pictures; offline: isRegularCapture;
\* zsl: isZSLMode; longshot; save: mUseSaveProc.
Mode == [reproc : BOOLEAN, raw : BOOLEAN, offline : BOOLEAN, zsl : BOOLEAN,
         longshot : BOOLEAN, save : BOOLEAN]

PostProcAssumption ==
  /\ \A m \in Modes : m \in Mode /\ (m.offline => ~m.zsl /\ ~m.longshot) /\ (m.save => m.longshot)
  /\ NumReproc \in Nat \ {0} /\ MaxStarts \in Nat
  /\ Pics \subseteq Nat /\ None \notin Pics

VARIABLES
  mode,
  src,     \* each source frame: "camera", "held" here, "back", or "freed" unreturned
  rep,     \* each reprocessed frame, likewise
  told,    \* what the app was told of each picture
  inPP, onPP, inJpeg, onJpeg, inRaw, inSave, \* the queues
  engine,  \* frames the reprocess channel works on
  reproc,  \* m_pReprocChannel exists
  enc,     \* jobs the jpeg interface has
  events,  \* jpeg events for the state machine
  notif,   \* frames that wait for the notifier to release them
  cmdQ,    \* commands of the data processing thread
  saveQ,   \* commands of the save thread
  dp,      \* the data processing thread
  sm,      \* the state machine's thread
  srcOn,   \* the source channel delivers
  quiet,   \* frames the app is told nothing about, by decision
  orphans, \* frames whose ongoing job no answer finds
  starts   \* (bound)

vars == <<mode, src, rep, told, inPP, onPP, inJpeg, onJpeg, inRaw, inSave, engine,
          reproc, enc, events, notif, cmdQ, saveQ, dp, sm, srcOn, quiet, orphans, starts>>
frames == <<src, rep, told>>
ghosts == <<quiet, orphans>>
queues == <<inPP, onPP, inJpeg, onJpeg, inRaw, inSave>>

Init ==
  /\ mode \in Modes
  /\ src = [p \in Pics |-> "camera"] /\ rep = [p \in Pics |-> "none"]
  /\ told = [p \in Pics |-> {}]
  /\ inPP = <<>> /\ onPP = <<>> /\ inJpeg = <<>> /\ onJpeg = <<>> /\ inRaw = <<>> /\ inSave = <<>>
  /\ engine = <<>> /\ reproc = FALSE /\ enc = {} /\ events = <<>> /\ notif = {}
  /\ cmdQ = <<>> /\ saveQ = <<>>
  /\ dp = [pc |-> "idle", cur |-> None, active |-> FALSE]
  /\ sm = "off"
  /\ srcOn = FALSE /\ quiet = {} /\ orphans = {} /\ starts = 0

Ids(q) == {q[k].p : k \in DOMAIN q}

\* releaseSuperBuf and releaseJpegJobData: a source frame goes back to its channel
\* unless it was reprocessed offline (reproc_frame_release): then its channel is
\* being stopped.
SrcBack(S) ==
  [p \in Pics |-> IF p \in S /\ src[p] = "held"
                    THEN IF mode.offline THEN "freed" ELSE "back" ELSE src[p]]
RepBack(S) == [p \in Pics |-> IF p \in S /\ rep[p] = "held" THEN "back" ELSE rep[p]]
ToldOf(S, what) == [p \in Pics |-> IF p \in S THEN told[p] \cup {what} ELSE told[p]]

ReleaseJpegJobs(S) == src' = SrcBack(S) /\ rep' = RepBack(S)

-----------------------------------------------------------------------------
(* start and stop, on the state machine's thread.                           *)

\* The reprocess channel is made and started first; if that fails it is deleted
\* and the picture with it.  When the second one (needDualReprocess) fails the
\* first is left started.
Start ==
  /\ sm \in {"off", "failed"} /\ ~srcOn /\ starts < MaxStarts
  /\ starts' = starts + 1
  /\ \/ /\ reproc' = mode.reproc
        /\ cmdQ' = Append(cmdQ, "START")
        /\ sm' = "starting"
     \/ mode.reproc /\ reproc' \in BOOLEAN /\ sm' = "failed" /\ UNCHANGED cmdQ
  /\ UNCHANGED <<mode, ghosts, frames, queues, engine, enc, events, notif, saveQ, dp, srcOn>>

\* The data processing thread has started; a session of its own, for a picture that
\* is neither of the ZSL queue nor of a long shot, may be refused: the thread is
\* left active, and the source channel is not started.
StartEnds ==
  /\ sm = "started"
  /\ \/ sm' = "on" /\ srcOn' = TRUE
     \/ ~mode.zsl /\ ~mode.longshot /\ sm' = "failed" /\ UNCHANGED srcOn
  /\ UNCHANGED <<mode, ghosts, frames, queues, engine, reproc, enc, events, notif, cmdQ, saveQ, dp, starts>>

\* STOP goes before whatever the thread has still to do.
Stop ==
  /\ sm \in {"on", "failed"}
  /\ cmdQ' = <<"STOP">> \o cmdQ
  /\ sm' = "stopping"
  /\ UNCHANGED <<mode, ghosts, frames, queues, engine, reproc, enc, events, notif, saveQ, dp, srcOn, starts>>

\* After the stop the HAL stops the source channel.
ChannelStops ==
  /\ sm = "off" /\ srcOn /\ srcOn' = FALSE
  /\ UNCHANGED <<mode, ghosts, frames, queues, engine, reproc, enc, events, notif, cmdQ, saveQ, dp, sm, starts>>

-----------------------------------------------------------------------------
(* The channels' callbacks.                                                 *)

\* (mutant: a command that still waits is thought to be enough)
Next1Once == cmdQ' = IF cmdQ # <<>> THEN cmdQ ELSE <<"NEXT">>

\* m_dataProcTh.sendCmd(CAMERA_CMD_TYPE_DO_NEXT_JOB, FALSE, FALSE)
Next1 == cmdQ' = Append(cmdQ, "NEXT")

\* processData, for the next frame the source channel delivers.
ProcessData(p) ==
  /\ srcOn /\ src[p] = "camera" /\ \A q \in Pics : q < p => src[q] # "camera"
  /\ src' = [src EXCEPT ![p] = "held"]
  /\ IF mode.reproc THEN inPP' = Append(inPP, p) /\ UNCHANGED <<inRaw, inJpeg>>
     ELSE IF mode.raw THEN inRaw' = Append(inRaw, p) /\ UNCHANGED <<inPP, inJpeg>>
     ELSE inJpeg' = Append(inJpeg, p) /\ UNCHANGED <<inPP, inRaw>>
  /\ Next1
  /\ UNCHANGED <<mode, ghosts, rep, told, onPP, onJpeg, inSave, engine, reproc, enc, events, notif,
                 saveQ, dp, sm, srcOn, starts>>

NumQueuedBuf == NumReproc - Cardinality({p \in Pics : rep[p] = "held"})

\* processPPData: the reprocess channel has a result; it belongs to the oldest
\* ongoing job.  Without a job the frame is not released.
ProcessPPData ==
  /\ reproc /\ engine # <<>> /\ NumQueuedBuf > 0
  /\ engine' = Tail(engine)
  /\ rep' = [rep EXCEPT ![Head(engine)] = "held"]
  /\ IF onPP = <<>>
       THEN UNCHANGED <<src, onPP, inRaw, inJpeg, cmdQ>>
       ELSE /\ onPP' = Tail(onPP)
            /\ Next1
            /\ IF mode.raw
                 THEN /\ inRaw' = Append(inRaw, Head(onPP))
                      /\ src' = [src EXCEPT ![Head(onPP)] = "back"]
                      /\ UNCHANGED inJpeg
                 ELSE inJpeg' = Append(inJpeg, Head(onPP)) /\ UNCHANGED <<inRaw, src>>
  /\ UNCHANGED <<mode, ghosts, told, inPP, onJpeg, inSave, reproc, enc, events, notif, saveQ, dp, sm, srcOn, starts>>

\* The encoder's callback posts an event.
JpegCallback(p) ==
  /\ p \in enc /\ enc' = enc \ {p}
  /\ \E status \in {"DONE", "ERROR"} : events' = Append(events, [p |-> p, status |-> status])
  /\ UNCHANGED <<mode, ghosts, frames, queues, engine, reproc, notif, cmdQ, saveQ, dp, sm, srcOn, starts>>

-----------------------------------------------------------------------------
(* processJpegEvt, on the state machine's thread.                           *)

\* flushNodes(matchJobId): a job whose id is not known yet does not match, and is
\* found by nobody afterwards.
Matching(p) == {p} \cap {e.p : e \in {onJpeg[k] : k \in {k \in DOMAIN onJpeg : onJpeg[k].job}}}
WithoutPics(q, S) == SelectSeq(q, LAMBDA e : e.p \notin S)
Flush(p) ==
  /\ onJpeg' = WithoutPics(onJpeg, Matching(p))
  /\ ReleaseJpegJobs(Matching(p))
  /\ orphans' = orphans \cup ({p} \ Matching(p))

\* What the app is told: nothing when it did not ask for pictures, or the picture
\* is a stage on the way to another (refocus); an error also for want of memory.
Tell(e) ==
  \/ e.status = "DONE" /\ told' = ToldOf({e.p}, "JPEG") /\ UNCHANGED quiet
  \/ told' = ToldOf({e.p}, "ERROR") /\ UNCHANGED quiet
  \/ quiet' = quiet \cup {e.p} /\ UNCHANGED told

ProcessJpegEvt ==
  /\ sm \in {"off", "failed", "on"} /\ events # <<>>
  /\ LET e == Head(events) IN
       IF mode.save /\ mode.longshot
         THEN /\ inSave' = Append(inSave, e.p) /\ saveQ' = Append(saveQ, "NEXT")
              /\ Next1
              /\ UNCHANGED <<onJpeg, src, rep, told, ghosts>>
         ELSE /\ Flush(e.p)
              /\ Tell(e)
              /\ cmdQ' = cmdQ \o (IF inPP # <<>> THEN <<"NEXT", "NEXT">> ELSE <<"NEXT">>)
              /\ UNCHANGED <<inSave, saveQ>>
  /\ events' = Tail(events)
  /\ UNCHANGED <<mode, inPP, onPP, inJpeg, inRaw, engine, reproc, enc, notif, dp, sm, srcOn, starts>>

\* dataSaveRoutine: the job is released, the picture written and its name told,
\* if there is memory for it.
SaveNext ==
  /\ saveQ # <<>> /\ Head(saveQ) = "NEXT"
  /\ saveQ' = Tail(saveQ)
  /\ IF inSave = <<>> THEN UNCHANGED <<inSave, onJpeg, src, rep, told, ghosts>>
     ELSE /\ inSave' = Tail(inSave)
          /\ Flush(Head(inSave))
          /\ Tell([p |-> Head(inSave), status |-> "DONE"])
  /\ UNCHANGED <<mode, inPP, onPP, inJpeg, inRaw, engine, reproc, enc, events, notif, cmdQ, dp, sm, srcOn, starts>>

\* The notifier has delivered the picture, or not, and releases its frame.
ReleaseNotifyData(p) ==
  /\ p \in notif /\ notif' = notif \ {p}
  /\ src' = SrcBack({p})
  /\ UNCHANGED <<mode, ghosts, rep, told, queues, engine, reproc, enc, events, cmdQ, saveQ, dp, sm, srcOn, starts>>

-----------------------------------------------------------------------------
(* dataProcessRoutine.                                                      *)

DpIdle == dp.pc = "idle" /\ cmdQ # <<>>
DpGoes(pc, p) == dp' = [dp EXCEPT !.pc = pc, !.cur = p]

DoStart ==
  /\ DpIdle /\ Head(cmdQ) = "START" /\ cmdQ' = Tail(cmdQ)
  /\ dp' = [dp EXCEPT !.active = TRUE]
  /\ sm' = "started"
  /\ UNCHANGED <<mode, ghosts, frames, queues, engine, reproc, enc, events, notif, saveQ, srcOn, starts>>

\* STOP: the save queue is flushed; the encoder's jobs are aborted - after which
\* it does not call back - and their frames released; ...
StopJobs ==
  /\ DpIdle /\ Head(cmdQ) = "STOP" /\ cmdQ' = Tail(cmdQ)
  /\ dp' = [dp EXCEPT !.pc = "stop_reproc", !.active = FALSE]
  /\ inSave' = <<>> /\ saveQ' = <<>>
  /\ onJpeg' = <<>> /\ enc' = {}
  /\ ReleaseJpegJobs(Ids(onJpeg))
  /\ UNCHANGED <<mode, ghosts, told, inPP, onPP, inJpeg, inRaw, engine, reproc, events, notif, sm, srcOn, starts>>

\* ... the reprocess channels are stopped and deleted, ...
StopReproc ==
  /\ dp.pc = "stop_reproc" /\ DpGoes("stop_flush", None)
  /\ reproc' = FALSE /\ engine' = <<>>
  /\ UNCHANGED <<mode, ghosts, frames, queues, enc, events, notif, cmdQ, saveQ, sm, srcOn, starts>>

Waiting == {onPP[k] : k \in DOMAIN onPP} \cup {inJpeg[k] : k \in DOMAIN inJpeg}
             \cup {inPP[k] : k \in DOMAIN inPP} \cup {inRaw[k] : k \in DOMAIN inRaw}

\* ... and every queue is flushed, now that nobody fills it from there.
StopFlush ==
  /\ dp.pc = "stop_flush" /\ DpGoes("idle", None)
  /\ ReleaseJpegJobs(Waiting)
  /\ onPP' = <<>> /\ inJpeg' = <<>> /\ inPP' = <<>> /\ inRaw' = <<>>
  /\ sm' = "off"
  /\ UNCHANGED <<mode, ghosts, told, onJpeg, inSave, engine, reproc, enc, events, notif, cmdQ, saveQ, srcOn, starts>>

\* Not active: one frame of each queue is dropped.
NextInactive ==
  /\ DpIdle /\ Head(cmdQ) = "NEXT" /\ ~dp.active /\ cmdQ' = Tail(cmdQ)
  /\ LET H(q) == IF q = <<>> THEN {} ELSE {Head(q)}
         T(q) == IF q = <<>> THEN q ELSE Tail(q) IN
       /\ ReleaseJpegJobs(H(inJpeg) \cup H(inRaw) \cup H(inPP))
       /\ inJpeg' = T(inJpeg) /\ inRaw' = T(inRaw) /\ inPP' = T(inPP)
  /\ UNCHANGED <<mode, ghosts, told, onPP, onJpeg, inSave, engine, reproc, enc, events, notif, saveQ,
                 dp, sm, srcOn, starts>>

\* Active: the oldest jpeg job first, ...
NextJpeg ==
  /\ DpIdle /\ Head(cmdQ) = "NEXT" /\ dp.active /\ cmdQ' = Tail(cmdQ)
  /\ IF inJpeg = <<>>
       THEN DpGoes("raw", None) /\ UNCHANGED <<inJpeg, onJpeg>>
       ELSE /\ inJpeg' = Tail(inJpeg)
            /\ onJpeg' = Append(onJpeg, [p |-> Head(inJpeg), job |-> FALSE])
            /\ DpGoes("encode", Head(inJpeg))
  /\ UNCHANGED <<mode, ghosts, frames, inPP, onPP, inRaw, inSave, engine, reproc, enc, events, notif,
                 saveQ, sm, srcOn, starts>>

\* encodeData: no snapshot frame, no session, no memory, or a job refused.
EncodeFails ==
  /\ dp.pc = "encode" /\ DpGoes("raw", None)
  /\ onJpeg' = Front(onJpeg)
  /\ ReleaseJpegJobs({dp.cur})
  /\ told' = ToldOf({dp.cur}, "ERROR")
  /\ UNCHANGED <<mode, ghosts, inPP, onPP, inJpeg, inRaw, inSave, engine, reproc, enc, events, notif,
                 cmdQ, saveQ, sm, srcOn, starts>>

\* encodeData: a depth map is not encoded.  That counts as done: the frame stays
\* among the ongoing jobs, without an id.
KeepDepthMap ==
  /\ dp.pc = "encode" /\ DpGoes("raw", None)
  /\ quiet' = quiet \cup {dp.cur} /\ orphans' = orphans \cup {dp.cur}
  /\ UNCHANGED <<mode, frames, queues, engine, reproc, enc, events, notif, cmdQ, saveQ, sm, srcOn, starts>>

\* encodeData: start_job, and then the job's id for the queue.
StartJob ==
  /\ dp.pc = "encode" /\ DpGoes("jobid", dp.cur)
  /\ enc' = enc \cup {dp.cur}
  /\ UNCHANGED <<mode, ghosts, frames, queues, engine, reproc, events, notif, cmdQ, saveQ, sm, srcOn, starts>>

SetJobId ==
  /\ dp.pc = "jobid" /\ DpGoes("raw", None)
  /\ onJpeg' = [k \in DOMAIN onJpeg |-> IF onJpeg[k].p = dp.cur THEN [onJpeg[k] EXCEPT !.job = TRUE]
                                        ELSE onJpeg[k]]
  /\ UNCHANGED <<mode, ghosts, frames, inPP, onPP, inJpeg, inRaw, inSave, engine, reproc, enc, events,
                 notif, cmdQ, saveQ, sm, srcOn, starts>>

\* ... then a raw frame (processRawImageImpl): one of the ZSL channel is released
\* when the app was told; of another channel the memory is shared, and the frame
\* not given back; ...
NextRaw ==
  /\ dp.pc = "raw" /\ DpGoes("pp", None)
  /\ IF inRaw = <<>> THEN UNCHANGED <<frames, inRaw, notif>>
     ELSE LET p == Head(inRaw) IN
            /\ inRaw' = Tail(inRaw)
            /\ \/ /\ told' = ToldOf({p}, "RAW")
                  /\ IF mode.reproc THEN rep' = [rep EXCEPT ![p] = "freed"] /\ UNCHANGED <<src, notif>>
                     ELSE IF mode.zsl THEN notif' = notif \cup {p} /\ UNCHANGED <<src, rep>>
                     ELSE src' = [src EXCEPT ![p] = "freed"] /\ UNCHANGED <<rep, notif>>
               \/ /\ told' = ToldOf({p}, "ERROR")
                  /\ ReleaseJpegJobs({p}) /\ UNCHANGED notif
  /\ UNCHANGED <<mode, ghosts, inPP, onPP, inJpeg, onJpeg, inSave, engine, reproc, enc, events, cmdQ,
                 saveQ, sm, srcOn, starts>>

\* A long shot does not give the reprocess stream more than it has buffers for.
MayReprocess == inPP # <<>> /\ (~mode.longshot \/ Len(onPP) < NumQueuedBuf)

\* ... then a frame to reprocess: it is ongoing before the channel has it.
NextPP ==
  /\ dp.pc = "pp"
  /\ IF ~MayReprocess THEN DpGoes("idle", None) /\ UNCHANGED <<inPP, onPP>>
     ELSE /\ inPP' = Tail(inPP)
          /\ onPP' = Append(onPP, Head(inPP))
          /\ DpGoes("reprocess", Head(inPP))
  /\ UNCHANGED <<mode, ghosts, frames, inJpeg, onJpeg, inRaw, inSave, engine, reproc, enc, events, notif,
                 cmdQ, saveQ, sm, srcOn, starts>>

\* (mutant: the oldest ongoing job is taken back, not the youngest)
ReprocessOldest ==
  /\ dp.pc = "reprocess" /\ DpGoes("idle", None)
  /\ \/ engine' = Append(engine, dp.cur) /\ UNCHANGED <<onPP, src, told>>
     \/ /\ onPP' = Tail(onPP)
        /\ src' = [src EXCEPT ![dp.cur] = "back"]
        /\ told' = ToldOf({dp.cur}, "ERROR")
        /\ UNCHANGED engine
  /\ UNCHANGED <<mode, ghosts, rep, inPP, inJpeg, onJpeg, inRaw, inSave, reproc, enc, events, notif, cmdQ,
                 saveQ, sm, srcOn, starts>>

\* reprocess: the channel takes the frame; or it fails, the youngest ongoing job
\* is taken back and its frame released.
Reprocess ==
  /\ dp.pc = "reprocess" /\ DpGoes("idle", None)
  /\ \/ engine' = Append(engine, dp.cur) /\ UNCHANGED <<onPP, src, told>>
     \/ /\ onPP' = Front(onPP)
        /\ src' = [src EXCEPT ![dp.cur] = "back"]
        /\ told' = ToldOf({dp.cur}, "ERROR")
        /\ UNCHANGED engine
  /\ UNCHANGED <<mode, ghosts, rep, inPP, inJpeg, onJpeg, inRaw, inSave, reproc, enc, events, notif, cmdQ,
                 saveQ, sm, srcOn, starts>>

DataProc ==
  DoStart \/ StopJobs \/ StopReproc \/ StopFlush \/ NextInactive \/ NextJpeg \/ EncodeFails
    \/ KeepDepthMap \/ StartJob \/ SetJobId \/ NextRaw \/ NextPP \/ Reprocess

-----------------------------------------------------------------------------

Next ==
  \/ Start \/ StartEnds \/ Stop \/ ChannelStops \/ ProcessJpegEvt \/ SaveNext \/ ProcessPPData \/ DataProc
  \/ \E p \in Pics : ProcessData(p) \/ JpegCallback(p) \/ ReleaseNotifyData(p)

\* Every thread goes on with what is in its queue.
Fairness ==
  /\ WF_vars(DataProc) /\ WF_vars(StartEnds) /\ WF_vars(ProcessJpegEvt) /\ WF_vars(SaveNext) /\ WF_vars(ProcessPPData)
  /\ \A p \in Pics : WF_vars(JpegCallback(p)) /\ WF_vars(ReleaseNotifyData(p))

Spec == Init /\ [][Next]_vars /\ Fairness

TypeOK ==
  /\ mode \in Modes
  /\ \A p \in Pics : /\ src[p] \in {"camera", "held", "back", "freed"}
                     /\ rep[p] \in {"none", "held", "back", "freed"}
                     /\ told[p] \subseteq {"JPEG", "RAW", "ERROR"}
  /\ dp.pc \in {"idle", "stop_reproc", "stop_flush", "encode", "jobid", "raw", "pp", "reprocess"}
  /\ sm \in {"off", "starting", "started", "failed", "on", "stopping"}
  /\ quiet \subseteq Pics /\ orphans \subseteq Pics

(***************************************************************************)
(* Properties.                                                              *)
(***************************************************************************)

Count(q, p) == Cardinality({k \in DOMAIN q : q[k] = p})
Places(p) ==
  Count(inPP, p) + Count(onPP, p) + Count(inJpeg, p) + Count(inRaw, p)
    + Cardinality({k \in DOMAIN onJpeg : onJpeg[k].p = p}) + (IF p \in notif THEN 1 ELSE 0)

(* A frame that is held is in one queue: none is forgotten on the way from  *)
(* thread to thread, and none that has gone back is still queued somewhere  *)
(* and would go back twice.                                                 *)
OnePlace ==
  \A p \in Pics :
    Places(p) = IF src[p] = "held" \/ rep[p] = "held" THEN 1 ELSE 0

(* A stop leaves nothing behind: when the postprocessor and the source      *)
(* channel are stopped and the threads have done what they had to do, no    *)
(* frame is held, however the stop and the callbacks met.                   *)
StopLeavesNothing ==
  sm = "off" /\ ~srcOn /\ cmdQ = <<>> /\ dp.pc = "idle" /\ notif = {} =>
    \A p \in Pics : src[p] # "held" /\ rep[p] # "held"

(* processJpegEvt: "Release jpeg job data" - when the app has its picture   *)
(* the job's frames are with their channels again; unless the encoder's     *)
(* answer overtook the job's own number (encodeData keeps it only after     *)
(* start_job has returned): such a job is released by the stop.             *)
ToldIsReleased ==
  \A p \in Pics : "JPEG" \in told[p] => p \in orphans \/ (src[p] # "held" /\ rep[p] # "held")

(* Every picture is answered: a frame that is delivered becomes a picture   *)
(* or an error, unless the postprocessor is stopped first or the app is     *)
(* told nothing by decision (quiet) - also in a long shot, where frames     *)
(* wait until the reprocess stream has a free buffer.  Three cases are left *)
(* out.  When pictures are saved to files the save thread releases the      *)
(* buffer and wakes nobody; in a long shot a reprocess or an encode that    *)
(* fails frees a place and sends no NEXT (QCameraPostProc.cpp 2413-2425,    *)
(* 2352-2358): the frame that waited for it stays until another comes; and  *)
(* a job no answer finds keeps its buffer of the reprocess stream until the *)
(* stop, so the frames after it may wait as long.                           *)
Refused == mode.longshot /\ \E q \in Pics : "ERROR" \in told[q]
BufferKept == \E q \in orphans : rep[q] = "held"
Answered ==
  \A p \in Pics :
    (src[p] = "held" /\ ~mode.save) ~>
      (told[p] # {} \/ p \in quiet \/ sm # "on" \/ Refused \/ BufferKept)
=============================================================================

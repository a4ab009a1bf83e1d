------------------------------- MODULE MmJpeg -------------------------------
(***************************************************************************)
(* The jpeg interface (mm_jpeg_interface.c, mm_jpeg.c, mm_jpeg_queue.c): a  *)
(* client opens it, creates an encoding session, starts jobs, aborts them,  *)
(* destroys the session and closes.  A job waits in job_queue until the     *)
(* manager thread, woken by a semaphore, finds a session that encodes       *)
(* nothing; the OMX component then calls back with the picture or an error. *)
(*                                                                          *)
(* The client calls under g_intf_lock, so its calls come one at a time; it  *)
(* gives up the way the postprocessor does: it aborts the jobs it still     *)
(* waits for, then destroys the session.  The component is external.        *)
(***************************************************************************)
EXTENDS Naturals, Sequences, FiniteSets, SequencesExt

CONSTANTS
  Jobs,       \* bound: the jobs of a behaviour, in the order they are started
  Chain,      \* a session's OMX sessions (MM_JPEG_CONCURRENT_SESSIONS_COUNT)
  MaxOngoing, \* NUM_MAX_JPEG_CNCURRENT_JOBS
  MaxCreates, \* bound: sessions created
  LateErrors, \* the component may report an error when an aborted session is destroyed
  Exit,       \* MM_JPEG_CMD_TYPE_EXIT
  None

Sessions == {Chain[k] : k \in DOMAIN Chain}

\* What stands in the place of None: who has the job lock, a client's call, a state of OMX.
Marks == {"mgr", "client", "create_session", "abort_job", "destroy_session", "close",
          "Loaded", "Idle", "Executing"}

JpegAssumption ==
  /\ MaxOngoing \in Nat \ {0} /\ MaxCreates \in Nat /\ LateErrors \in BOOLEAN
  /\ Chain \in Seq(Sessions) /\ Chain # <<>> /\ \A a, b \in DOMAIN Chain : Chain[a] = Chain[b] => a = b
  /\ Jobs \subseteq Nat /\ Exit \notin Jobs
  /\ None \notin Jobs /\ None \notin Sessions /\ None \notin Marks

VARIABLES
  jobQ,      \* job_mgr.job_queue
  ongoing,   \* ongoing_job_q
  tokens,    \* job_mgr.job_sem
  jobLock,   \* job_lock: "mgr", "client" or None
  mgr,       \* the manager thread
  ses,       \* the OMX sessions
  idleQ,     \* session_handle_q
  cl,        \* the client
  fate,      \* of each job: "new", "asked", "dropped" (accepted, not queued), "aborted"
  answers,   \* callbacks for each job
  creates,   \* sessions created so far (bound)
  contrary   \* the component refused the buffer of a job it had reported an error for

vars == <<jobQ, ongoing, tokens, jobLock, mgr, ses, idleQ, cl, fate, answers, creates,
          contrary>>

\* omx: what the component does with the job's buffers; state: the OMX state it
\* is in; cmd: the state it was told to go to; pending: state_change_pending;
\* err: error_flag.
NoSession == [abort |-> "NONE", encoding |-> FALSE, job |-> None, omx |-> "idle",
              state |-> "none", cmd |-> None, pending |-> FALSE, err |-> FALSE, config |-> FALSE]

NoCall == [pc |-> "closed", job |-> None, op |-> None, at |-> 0, todo |-> <<>>]
MgrWaits == [pc |-> "wait", s |-> None]

Init ==
  /\ jobQ = <<>> /\ ongoing = <<>> /\ tokens = 0 /\ jobLock = None
  /\ mgr = [pc |-> "off", s |-> None]
  /\ ses = [s \in Sessions |-> NoSession]
  /\ idleQ = <<>>
  /\ cl = NoCall
  /\ fate = [j \in Jobs |-> "new"]
  /\ answers = [j \in Jobs |-> 0]
  /\ creates = 0 /\ contrary = FALSE

Holds(q, j) == \E k \in DOMAIN q : q[k] = j
\* The first that matches is taken off.
Without(q, j) == IF Holds(q, j) THEN RemoveAt(q, Min({k \in DOMAIN q : q[k] = j})) ELSE q

-----------------------------------------------------------------------------
(* The client's calls.                                                      *)

ClGoes(pc) == cl' = [cl EXCEPT !.pc = pc]

\* jpeg_open: the manager thread is launched.
Open ==
  /\ cl.pc = "closed" /\ mgr.pc = "off" /\ creates < MaxCreates
  /\ ClGoes("open")
  /\ mgr' = MgrWaits
  /\ UNCHANGED <<jobQ, ongoing, tokens, jobLock, ses, idleQ, fate, answers, creates, contrary>>

\* The session has a handle of the component (it is active).
Active == ses[Chain[1]].state # "none"

\* A handle of the component; without one the call returns success all the same,
\* and no session (error2 with rc still 0; the session's number is 0).
CreateSession ==
  /\ cl.pc = "open" /\ creates < MaxCreates
  /\ creates' = creates + 1
  /\ \/ /\ cl' = [NoCall EXCEPT !.pc = "change", !.op = "create_session", !.at = 1,
                               !.todo = <<"Idle", "Executing">>]
        /\ ses' = [ses EXCEPT ![Chain[1]] = [NoSession EXCEPT !.state = "Loaded"]]
        /\ idleQ' = <<Chain[1]>>
     \/ /\ ClGoes("ready") /\ idleQ' = <<>>
        /\ ses' = [ses EXCEPT ![Chain[1]] = NoSession]
  /\ UNCHANGED <<jobQ, ongoing, tokens, jobLock, mgr, fate, answers, contrary>>

-----------------------------------------------------------------------------
(* mm_jpeg_session_change_state, for the session at cl.at.                  *)

Here == Chain[cl.at]

\* The next session of the chain, or the end of the call: also when there is no
\* handle for the next one.  A creation that failed has its handle and stays for
\* the client to destroy.
NextOf(ok) ==
  LET made == IF ok THEN [ses EXCEPT ![Here].config = TRUE] ELSE ses IN
    \/ /\ ok /\ cl.at < Len(Chain)
       /\ cl' = [cl EXCEPT !.at = @ + 1, !.pc = "change", !.todo = <<"Idle", "Executing">>]
       /\ ses' = [made EXCEPT ![Chain[cl.at + 1]] = [NoSession EXCEPT !.state = "Loaded"]]
       /\ idleQ' = Append(idleQ, Chain[cl.at + 1])
    \/ /\ cl' = [NoCall EXCEPT !.pc = IF ok THEN "ready" ELSE "stopping"]
       /\ ses' = made /\ UNCHANGED idleQ

\* The rest of a session's way after one transition: creating, a failure ends
\* the call; destroying, nothing does.
Transits(ok) ==
  LET rest == Tail(cl.todo) IN
    IF cl.op = "destroy_session" \/ (ok /\ rest # <<>>)
      THEN cl' = [cl EXCEPT !.pc = "change", !.todo = rest] /\ UNCHANGED <<ses, idleQ>>
      ELSE NextOf(ok)

\* Destroying, only a session that is Executing goes to Idle, and only one that
\* is Idle goes to Loaded.
Wanted == cl.op = "create_session" \/ ses[Here].state = (IF Head(cl.todo) = "Idle" THEN "Executing" ELSE "Idle")

\* The change is pending before the component is told; it may refuse.
SendCommand ==
  /\ cl.pc = "change" /\ cl.todo # <<>> /\ Wanted
  /\ \/ /\ ses' = [ses EXCEPT ![Here].pending = TRUE, ![Here].cmd = Head(cl.todo)]
        /\ ClGoes("sent") /\ UNCHANGED idleQ
     \/ Transits(FALSE)
  /\ UNCHANGED <<jobQ, ongoing, tokens, jobLock, mgr, fate, answers, creates, contrary>>

\* The component refuses one of the session's parameters (config_main).
ConfigRefused ==
  /\ cl.pc = "change" /\ cl.op = "create_session" /\ Head(cl.todo) = "Idle"
  /\ Transits(FALSE)
  /\ UNCHANGED <<jobQ, ongoing, tokens, jobLock, mgr, fate, answers, creates, contrary>>

NotWanted ==
  /\ cl.pc = "change" /\ cl.todo # <<>> /\ ~Wanted
  /\ cl' = [cl EXCEPT !.todo = Tail(@)]
  /\ UNCHANGED <<jobQ, ongoing, tokens, jobLock, mgr, ses, idleQ, fate, answers, creates, contrary>>

\* An error the component ever reported ends every later change at once; the
\* session's buffers, sent between the two states, may be refused.
AwaitChange ==
  /\ cl.pc = "sent"
  /\ \/ ses[Here].err /\ Transits(FALSE)
     \/ ~ses[Here].err /\ ses[Here].pending /\ ClGoes("await") /\ UNCHANGED <<ses, idleQ>>
     \/ ~ses[Here].err /\ ~ses[Here].pending /\ Transits(TRUE)
     \/ cl.op = "create_session" /\ Head(cl.todo) = "Idle" /\ Transits(FALSE)
  /\ UNCHANGED <<jobQ, ongoing, tokens, jobLock, mgr, fate, answers, creates, contrary>>

\* Woken once, by whatever event, the change counts as made.
ChangeSignalled ==
  /\ cl.pc = "woken"
  /\ Transits(TRUE)
  /\ UNCHANGED <<jobQ, ongoing, tokens, jobLock, mgr, fate, answers, creates, contrary>>

-----------------------------------------------------------------------------
(* Jobs, and how a client gives up.                                         *)

New(j) == fate[j] = "new" /\ \A i \in Jobs : i < j => fate[i] # "new"

StartJob(j) ==
  /\ cl.pc = "ready" /\ New(j) /\ Active
  /\ fate' = [fate EXCEPT ![j] = "asked"]
  /\ jobQ' = Append(jobQ, j)
  /\ tokens' = tokens + 1
  /\ UNCHANGED <<ongoing, jobLock, mgr, ses, idleQ, cl, answers, creates, contrary>>

\* Without a session, or with an index of a buffer there is not, start_job returns
\* what the work buffers left in rc: mostly success, and the job is in no queue.
DropJob(j) ==
  /\ cl.pc = "ready" /\ New(j)
  /\ fate' = [fate EXCEPT ![j] = "dropped"]
  /\ UNCHANGED <<jobQ, ongoing, tokens, jobLock, mgr, ses, idleQ, cl, answers, creates, contrary>>

\* The client has no more use for the pictures: no job is started from now on.  It
\* destroys a session whose number is not 0.
GiveUp ==
  /\ cl.pc = "ready" /\ ClGoes(IF Active THEN "stopping" ELSE "open")
  /\ UNCHANGED <<jobQ, ongoing, tokens, jobLock, mgr, ses, idleQ, fate, answers, creates, contrary>>

Aborted(j) == [fate EXCEPT ![j] = "aborted"]

\* abort_job takes job_lock: a job that waits is removed, a job that is being
\* encoded is removed and its session aborted; any other job is not found.
AbortJob(j) ==
  /\ cl.pc = "stopping" /\ fate[j] = "asked" /\ jobLock = None
  /\ IF ~Holds(jobQ, j) /\ Holds(ongoing, j)
       THEN /\ ongoing' = Without(ongoing, j)
            /\ jobLock' = "client"
            /\ cl' = [NoCall EXCEPT !.pc = "abort", !.job = j, !.op = "abort_job", !.at = 1]
            /\ UNCHANGED <<jobQ, fate>>
       ELSE /\ jobQ' = Without(jobQ, j)
            /\ fate' = Aborted(j)
            /\ UNCHANGED <<ongoing, jobLock, cl>>
  /\ UNCHANGED <<tokens, mgr, ses, idleQ, answers, creates, contrary>>

\* destroy_session and close forget every job of the session, then abort it.
BeginDestroy(op) ==
  /\ cl.pc = "stopping" /\ jobLock = None
  /\ op = "destroy_session" =>
       \A j \in Jobs : fate[j] = "asked" => answers[j] > 0
  /\ jobQ' = <<>> /\ ongoing' = <<>>
  /\ jobLock' = "client"
  /\ cl' = [NoCall EXCEPT !.pc = "abort", !.op = op, !.at = 1]
  /\ UNCHANGED <<tokens, mgr, ses, idleQ, fate, answers, creates, contrary>>

\* A session that was aborted before, by an event or by an earlier call, is
\* left alone together with all that follow it in the chain.
SessionAbort ==
  /\ cl.pc = "abort"
  /\ LET s == Chain[cl.at] IN
       IF ses[s].abort # "NONE"
         THEN ClGoes("aborted") /\ UNCHANGED ses
         ELSE /\ ses' = [ses EXCEPT ![s].abort = IF ses[s].encoding THEN "INIT" ELSE "DONE",
                                     ![s].pending = @ \/ ses[s].encoding]
              /\ cl' = IF ses[s].encoding THEN [cl EXCEPT !.pc = "wait"]
                       ELSE IF cl.at < Len(Chain) THEN [cl EXCEPT !.at = @ + 1]
                       ELSE [cl EXCEPT !.pc = "aborted"]
  /\ UNCHANGED <<jobQ, ongoing, tokens, jobLock, mgr, idleQ, fate, answers, creates, contrary>>

\* The component has taken note.
AbortSignalled ==
  /\ cl.pc = "wait" /\ ses[Chain[cl.at]].abort = "DONE"
  /\ cl' = IF cl.at < Len(Chain) THEN [cl EXCEPT !.pc = "abort", !.at = @ + 1]
           ELSE [cl EXCEPT !.pc = "aborted"]
  /\ UNCHANGED <<jobQ, ongoing, tokens, jobLock, mgr, ses, idleQ, fate, answers, creates, contrary>>

AbortJobReturns ==
  /\ cl.pc = "aborted" /\ cl.op = "abort_job"
  /\ fate' = Aborted(cl.job)
  /\ jobLock' = None
  /\ cl' = [NoCall EXCEPT !.pc = "stopping"]
  /\ UNCHANGED <<jobQ, ongoing, tokens, mgr, ses, idleQ, answers, creates, contrary>>

AllAborted == [j \in Jobs |-> IF fate[j] = "asked" THEN "aborted" ELSE fate[j]]

\* destroy_session: each handle is brought to Loaded and freed, ...
DestroyHandles ==
  /\ \/ cl.pc = "aborted" /\ cl.op = "destroy_session"
        /\ cl' = [cl EXCEPT !.pc = "change", !.at = 1, !.todo = <<"Idle", "Loaded">>]
        /\ UNCHANGED ses
     \/ cl.pc = "change" /\ cl.op = "destroy_session" /\ cl.todo = <<>>
        /\ ses' = [ses EXCEPT ![Here] = NoSession]
        /\ cl' = IF cl.at < Len(Chain)
                   THEN [cl EXCEPT !.at = @ + 1, !.todo = <<"Idle", "Loaded">>]
                   ELSE [cl EXCEPT !.pc = "freed"]
  /\ UNCHANGED <<jobQ, ongoing, tokens, jobLock, mgr, idleQ, fate, answers, creates, contrary>>

\* ... then the queue of sessions goes, and the manager is woken for the jobs
\* of others.
DestroySession ==
  /\ cl.pc = "freed"
  /\ jobLock' = None
  /\ idleQ' = <<>>
  /\ tokens' = tokens + 1
  /\ fate' = AllAborted
  /\ cl' = [NoCall EXCEPT !.pc = "open"]
  /\ UNCHANGED <<jobQ, ongoing, mgr, ses, answers, creates, contrary>>

\* close ends the sessions without freeing their OMX handles; the last client
\* sends the manager away and waits until it is gone.
CloseOrEnd ==
  /\ \/ cl.pc = "open" /\ UNCHANGED <<jobLock, ses, idleQ, fate>>
     \/ /\ cl.pc = "aborted" /\ cl.op = "close"
        /\ jobLock' = None /\ fate' = AllAborted
        /\ ses' = [s \in Sessions |-> NoSession] /\ idleQ' = <<>>
  /\ jobQ' = Append(jobQ, Exit)
  /\ tokens' = tokens + 1
  /\ cl' = [NoCall EXCEPT !.pc = "join"]
  /\ UNCHANGED <<ongoing, mgr, answers, creates, contrary>>

Joined ==
  /\ cl.pc = "join" /\ mgr.pc = "dead"
  /\ mgr' = [pc |-> "off", s |-> None]
  /\ jobQ' = <<>> /\ tokens' = 0
  /\ ClGoes("closed")
  /\ UNCHANGED <<ongoing, jobLock, ses, idleQ, fate, answers, creates, contrary>>

Client ==
  \/ Open \/ CreateSession \/ GiveUp \/ SessionAbort \/ AbortSignalled
  \/ AbortJobReturns \/ DestroyHandles \/ DestroySession \/ CloseOrEnd \/ Joined
  \/ ConfigRefused \/ SendCommand \/ NotWanted \/ AwaitChange \/ ChangeSignalled
  \/ BeginDestroy("destroy_session") \/ BeginDestroy("close")
  \/ \E j \in Jobs : StartJob(j) \/ DropJob(j) \/ AbortJob(j)

-----------------------------------------------------------------------------
(* The end of a job, in the thread that noticed it: the job is no longer    *)
(* ongoing, its session is free, the manager is woken.                      *)

\* A job's end that forgets to wake the manager.
JobDoneSilently(s) ==
  /\ ongoing' = Without(ongoing, ses[s].job)
  /\ idleQ' = Append(idleQ, s)
  /\ UNCHANGED tokens

\* mm_jpegenc_job_done; the session's own fields are set by its callers.
JobDone(s) ==
  /\ ongoing' = Without(ongoing, ses[s].job)
  /\ idleQ' = Append(idleQ, s)
  /\ tokens' = tokens + 1

Called(s) == [answers EXCEPT ![ses[s].job] = @ + 1]

-----------------------------------------------------------------------------
(* The manager thread.                                                      *)

\* The semaphore's token is spent before the number of ongoing jobs is known.
MgrWakes ==
  /\ mgr.pc = "wait" /\ tokens > 0
  /\ tokens' = tokens - 1
  /\ mgr' = IF Len(ongoing) >= MaxOngoing THEN mgr ELSE [mgr EXCEPT !.pc = "look"]
  /\ UNCHANGED <<jobQ, ongoing, jobLock, ses, idleQ, cl, fate, answers, creates, contrary>>

\* A job for which no session is free is taken off the queue all the same.
MgrTakesDropping ==
  /\ mgr.pc = "look" /\ jobLock = None
  /\ IF jobQ = <<>>
       THEN mgr' = MgrWaits /\ UNCHANGED <<jobQ, ongoing, idleQ, ses, jobLock>>
       ELSE /\ jobQ' = Tail(jobQ)
            /\ IF Head(jobQ) = Exit
                 THEN mgr' = [pc |-> "dead", s |-> None] /\ UNCHANGED <<ongoing, idleQ, ses, jobLock>>
                 ELSE IF idleQ = <<>>
                   THEN mgr' = MgrWaits /\ UNCHANGED <<ongoing, idleQ, ses, jobLock>>
                   ELSE /\ idleQ' = Tail(idleQ)
                        /\ ongoing' = Append(ongoing, Head(jobQ))
                        /\ ses' = [ses EXCEPT ![Head(idleQ)] =
                                     [@ EXCEPT !.abort = "NONE", !.job = Head(jobQ)]]
                        /\ mgr' = [pc |-> "feed", s |-> Head(idleQ)]
                        /\ jobLock' = "mgr"
  /\ UNCHANGED <<tokens, cl, fate, answers, creates, contrary>>

\* A job for which no session is free goes back to the head of the queue; the
\* lock is kept while the job is handed to the component.
MgrTakes ==
  /\ mgr.pc = "look" /\ jobLock = None
  /\ IF jobQ = <<>> \/ (Head(jobQ) # Exit /\ idleQ = <<>>)
       THEN mgr' = MgrWaits /\ UNCHANGED <<jobQ, ongoing, idleQ, ses, jobLock>>
       ELSE IF Head(jobQ) = Exit
         THEN /\ mgr' = [pc |-> "dead", s |-> None]
              /\ jobQ' = Tail(jobQ)
              /\ UNCHANGED <<ongoing, idleQ, ses, jobLock>>
         ELSE /\ jobQ' = Tail(jobQ) /\ idleQ' = Tail(idleQ)
              /\ ongoing' = Append(ongoing, Head(jobQ))
              /\ ses' = [ses EXCEPT ![Head(idleQ)] =
                           [@ EXCEPT !.abort = "NONE", !.encoding = FALSE,
                                     !.job = Head(jobQ)]]
              /\ mgr' = [pc |-> "feed", s |-> Head(idleQ)]
              /\ jobLock' = "mgr"
  /\ UNCHANGED <<tokens, cl, fate, answers, creates, contrary>>

\* The job's parameters and then its input buffers are given to the component.
MgrFeeds ==
  /\ mgr.pc = "feed"
  /\ ses' = [ses EXCEPT ![mgr.s].encoding = TRUE, ![mgr.s].omx = "fed"]
  /\ mgr' = [mgr EXCEPT !.pc = "fill"]
  /\ UNCHANGED <<jobQ, ongoing, tokens, jobLock, idleQ, cl, fate, answers, creates, contrary>>

\* The output buffer.  A component that has already raised an error takes the
\* buffer and forgets it.
MgrFills ==
  /\ mgr.pc = "fill"
  /\ ses' = [ses EXCEPT ![mgr.s].omx = IF @ = "fed" THEN "filling" ELSE @]
  /\ mgr' = MgrWaits /\ jobLock' = None
  /\ UNCHANGED <<jobQ, ongoing, tokens, idleQ, cl, fate, answers, creates, contrary>>

\* Rotation, crop, quality, thumbnail, work buffer, metadata: one is refused.
ParamsRefused == mgr.pc = "feed"

\* The component refuses a parameter or a buffer: the manager tells the client;
\* a second time, when an error event came before the buffer was refused, and the
\* session is queued twice: from then on nothing is claimed (contrary).
MgrFails ==
  /\ ParamsRefused \/ mgr.pc = "fill"
  /\ contrary' = (contrary \/ (mgr.pc = "fill" /\ ses[mgr.s].omx # "fed"))
  /\ answers' = Called(mgr.s)
  /\ JobDone(mgr.s)
  /\ ses' = [ses EXCEPT ![mgr.s].encoding = FALSE, ![mgr.s].omx = "idle"]
  /\ mgr' = MgrWaits /\ jobLock' = None
  /\ UNCHANGED <<jobQ, cl, fate, creates>>

Manager == MgrWakes \/ MgrTakes \/ MgrFeeds \/ MgrFills \/ MgrFails

-----------------------------------------------------------------------------
(* The component's callbacks, each under the session's lock.                *)

\* A picture for an aborted session, dropped without telling who waits.
FillBufferDoneQuiet(s) ==
  /\ ses[s].omx = "filling"
  /\ ses' = [ses EXCEPT ![s].encoding = @ /\ ses[s].abort # "NONE", ![s].omx = "idle"]
  /\ IF ses[s].abort # "NONE"
       THEN UNCHANGED <<answers, ongoing, idleQ, tokens>>
       ELSE answers' = Called(s) /\ JobDone(s)
  /\ UNCHANGED <<jobQ, jobLock, mgr, cl, fate, creates, contrary>>

\* mm_jpeg_fbd: the picture is there; an aborted session only drops it.
FillBufferDone(s) ==
  /\ ses[s].omx = "filling"
  /\ IF ses[s].abort # "NONE"
       THEN /\ ses' = [ses EXCEPT ![s].abort = "DONE", ![s].omx = "idle"]
            /\ UNCHANGED <<answers, ongoing, idleQ, tokens>>
       ELSE /\ ses' = [ses EXCEPT ![s].encoding = FALSE, ![s].omx = "idle"]
            /\ answers' = Called(s) /\ JobDone(s)
  /\ UNCHANGED <<jobQ, jobLock, mgr, cl, fate, creates, contrary>>

\* Whoever waits in mm_jpeg_session_change_state for session s.
Signalled(s) == IF cl.pc = "await" /\ Here = s THEN [cl EXCEPT !.pc = "woken"] ELSE cl

\* mm_jpeg_event_handler, OMX_EventError: while it encodes or changes its state.
\* Any event ends an abort.  An aborted session still counts as encoding.
ErrorEvent(s) ==
  /\ \/ ses[s].omx \in {"fed", "filling"}
     \/ ses[s].cmd # None /\ (LateErrors \/ ~ses[s].encoding)
  /\ LET hit == [ses[s] EXCEPT !.omx = "idle", !.cmd = None] IN
       IF ses[s].abort = "INIT"
         THEN /\ ses' = [ses EXCEPT ![s] = [hit EXCEPT !.abort = "DONE"]]
              /\ UNCHANGED <<answers, ongoing, idleQ, tokens, cl>>
         ELSE /\ ses' = [ses EXCEPT ![s] = [hit EXCEPT !.err = TRUE, !.encoding = FALSE]]
              /\ cl' = Signalled(s)
              /\ IF ses[s].encoding THEN answers' = Called(s) /\ JobDone(s)
                 ELSE UNCHANGED <<answers, ongoing, idleQ, tokens>>
  /\ UNCHANGED <<jobQ, jobLock, mgr, fate, creates, contrary>>

\* OMX_EventCmdComplete.
CmdComplete(s) ==
  /\ ses[s].cmd # None
  /\ ses' = [ses EXCEPT ![s].state = ses[s].cmd, ![s].cmd = None, ![s].pending = FALSE]
  /\ cl' = IF ses[s].pending THEN Signalled(s) ELSE cl
  /\ UNCHANGED <<jobQ, jobLock, mgr, fate, creates, answers, ongoing, idleQ, tokens, contrary>>

Component(s) == FillBufferDone(s) \/ ErrorEvent(s) \/ CmdComplete(s)

-----------------------------------------------------------------------------

Next == Client \/ Manager \/ \E s \in Sessions : Component(s)

\* What a client that has given up still does, without a pause.
Stops ==
  \/ (\E j \in Jobs : AbortJob(j)) \/ BeginDestroy("destroy_session")
  \/ SessionAbort \/ AbortSignalled \/ AbortJobReturns \/ DestroyHandles \/ DestroySession
  \/ SendCommand \/ NotWanted \/ AwaitChange \/ ChangeSignalled
  \/ (CloseOrEnd /\ cl.pc # "open") \/ Joined

\* The manager and the component go on; a client that stops goes on too.
Fairness ==
  /\ WF_vars(Manager)
  /\ \A s \in Sessions : WF_vars(Component(s))
  /\ WF_vars(Stops)

Spec == Init /\ [][Next]_vars /\ Fairness

TypeOK ==
  /\ \A k \in DOMAIN jobQ : jobQ[k] \in Jobs \cup {Exit}
  /\ \A k \in DOMAIN ongoing : ongoing[k] \in Jobs
  /\ tokens \in Nat /\ jobLock \in {"mgr", "client", None}
  /\ \A s \in Sessions : /\ ses[s].abort \in {"NONE", "INIT", "DONE"}
                         /\ ses[s].omx \in {"idle", "fed", "filling"}
                         /\ ses[s].state \in {"none", "Loaded", "Idle", "Executing"}
                         /\ ses[s].job \in Jobs \cup {None}
  /\ \A j \in Jobs : fate[j] \in {"new", "asked", "dropped", "aborted"} /\ answers[j] \in Nat
  /\ contrary \in BOOLEAN

(***************************************************************************)
(* Properties.                                                              *)
(***************************************************************************)

(* The interface does what it promises (JpegJobs): one answer for each job   *)
(* that was queued, none after abort_job, destroy_session or close has      *)
(* returned, and none forgotten - although the manager spends its wake-ups  *)
(* before it knows whether it can use them - until the component refuses a  *)
(* buffer of a job it has already reported an error for.                    *)
Promise == INSTANCE JpegJobs
KeepsPromise == Promise!Spec

(* Nothing is lost between the queues: a job that was queued and waits for  *)
(* its answer is queued still, or being encoded by the session that has it; *)
(* and a session with a handle that encodes nothing is in the queue of free *)
(* ones, once.                                                              *)
NoneLost ==
  cl.pc = "ready" =>
    /\ \A j \in Jobs : fate[j] = "asked" /\ answers[j] = 0 =>
         \/ Holds(jobQ, j)
         \/ Holds(ongoing, j) /\ \E s \in Sessions : ses[s].job = j /\ ~Holds(idleQ, s)
    /\ \A s \in Sessions : Cardinality({k \in DOMAIN idleQ : idleQ[k] = s}) =
          IF ses[s].encoding \/ (mgr.s = s /\ mgr.pc = "feed") \/ ses[s].state = "none" THEN 0 ELSE 1

(* A client that has given up is let go: abort_job waits for the component, *)
(* destroy_session and close for the job lock, close for the manager; until *)
(* the component has contradicted itself.                                   *)
CallsEnd ==
  cl.pc \in {"change", "stopping", "join"} ~> cl.pc \in {"ready", "open", "closed"} \/ contrary

(* The handle of a session that was configured is freed when its component  *)
(* does nothing any more - no command is on its way, it has none of the     *)
(* job's buffers - unless it has reported an error: from then on no change  *)
(* of state is waited for.                                                  *)
FreedAtRest ==
  cl.pc = "change" /\ cl.op = "destroy_session" /\ cl.todo = <<>> /\ ses[Here].config =>
    ses[Here].err \/ (ses[Here].cmd = None /\ ses[Here].omx = "idle")

(* Every job is in a queue or with a session, no session is lost, and its    *)
(* handle is freed when its component is at rest, until the component        *)
(* contradicts itself.                                                      *)
NoJobLost == ~contrary => TypeOK /\ NoneLost /\ FreedAtRest
=============================================================================

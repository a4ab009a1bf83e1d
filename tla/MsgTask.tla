------------------------------- MODULE MsgTask -------------------------------
(* A message task of the location engine (MsgTask.cpp): a queue (msg_q.c)    *)
(* over a LinkedList and a thread (LocThread.cpp) that takes messages from   *)
(* it.  Senders append under the queue's mutex; the thread waits for the     *)
(* condition; destroy() unblocks the queue and gives up the thread, which    *)
(* leaves its loop and deletes the task with what the queue still holds.     *)
(* The thread's delegate is shared by the task's owner and the thread, and   *)
(* freed by the second that lets it go.                                      *)
EXTENDS LinkedList

VARIABLES
  q,         \* the queue's list
  unblocked, \* msg_q.unblocked
  task,      \* the task: "made", or "deleted" with its queue
  joinable,  \* mJoinable of the delegate
  runnable,  \* whether the delegate has its runnable
  ref,       \* mRefCount of the delegate
  thread,    \* where the thread is: off (not created), main, loop, rcv, wait, woken, proc,
             \* post, leave, unref, gone
  cur,       \* the message it handles
  owner,     \* where destroy() is: no, unblocked, stop, join, unref, done
  missed,    \* the thread found its runnable gone before it began
  fate       \* message -> new, queued, done, deleted or leaked

vars == <<q, unblocked, task, joinable, runnable, ref, thread, cur, owner, missed, fate>>

MsgTaskAssumption == ListAssumption

\* The constructor makes the queue and starts the thread; when that fails the delegate
\* is freed at once and the messages wait for nobody.
Init ==
  /\ q = Empty /\ unblocked = FALSE /\ task = "made" /\ cur = NULL /\ owner = "no"
  /\ missed = FALSE /\ fate = [m \in Data |-> "new"]
  /\ \/ thread = "main" /\ runnable = TRUE /\ ref = 2 /\ joinable \in BOOLEAN
     \/ thread = "off" /\ runnable = FALSE /\ ref = 0 /\ joinable = FALSE

\* msg_q_snd: an unblocked queue refuses, and sendMsg does not look at the result.  The
\* condition is signalled: the thread, if it waits, leaves the wait.
Signal == thread' = IF thread = "wait" THEN "woken" ELSE thread

SendQuiet(m) ==
  /\ task = "made" /\ fate[m] = "new"
  /\ Cardinality(Allocated(q)) < Cardinality(Elems)
  /\ IF unblocked THEN fate' = [fate EXCEPT ![m] = "leaked"] /\ UNCHANGED q
     ELSE fate' = [fate EXCEPT ![m] = "queued"] /\ q' = ListAdd(q, m)
  /\ UNCHANGED <<unblocked, task, joinable, runnable, ref, cur, owner, missed, thread>>

SendMsg(m) ==
  /\ task = "made" /\ fate[m] = "new"
  /\ Cardinality(Allocated(q)) < Cardinality(Elems)
  /\ IF unblocked THEN fate' = [fate EXCEPT ![m] = "leaked"] /\ UNCHANGED <<q, thread>>
     ELSE fate' = [fate EXCEPT ![m] = "queued"] /\ q' = ListAdd(q, m) /\ Signal
  /\ UNCHANGED <<unblocked, task, joinable, runnable, ref, cur, owner, missed>>

(***************************************************************************)
(* The owner: MsgTask::destroy.                                             *)
(***************************************************************************)
Unblock ==
  /\ owner = "no" /\ unblocked' = TRUE /\ Signal /\ owner' = "unblocked"
  /\ UNCHANGED <<q, task, joinable, runnable, ref, cur, missed, fate>>

\* ~MsgTask: what the queue holds is deleted with it.
Deleted ==
  /\ task' = "deleted" /\ q' = ListFlush(q) /\ unblocked' = FALSE
  /\ fate' = [m \in Data |-> IF fate[m] = "queued" THEN "deleted" ELSE fate[m]]

\* With a thread it goes (bye) and deletes the task on its way out; the task's owner reads
\* mThread after the unblock, when the thread may already have deleted the task.
GiveUpThread ==
  /\ owner = "unblocked"
  /\ IF thread = "off" THEN Deleted /\ owner' = "done"
     ELSE owner' = (IF joinable THEN "stop" ELSE "unref") /\ UNCHANGED <<q, unblocked, task, fate>>
  /\ UNCHANGED <<joinable, runnable, ref, thread, cur, missed>>

\* LocThreadDelegate::stop: the loop is told to end, then the thread is joined.
StopThread ==
  /\ owner = "stop" /\ runnable' = FALSE /\ joinable' = FALSE /\ owner' = "join"
  /\ UNCHANGED <<q, unblocked, task, ref, thread, cur, missed, fate>>

Join ==
  /\ owner = "join" /\ thread = "gone" /\ owner' = "unref"
  /\ UNCHANGED <<q, unblocked, task, joinable, runnable, ref, thread, cur, missed, fate>>

OwnerUnref ==
  /\ owner = "unref" /\ ref' = ref - 1 /\ owner' = "done"
  /\ UNCHANGED <<q, unblocked, task, joinable, runnable, thread, cur, missed, fate>>

(***************************************************************************)
(* The thread: LocThreadDelegate::threadMain, MsgTask::run, msg_q_rcv.      *)
(***************************************************************************)
At(from, to) == thread = from /\ thread' = to

\* A runnable that stop() has already cleared is neither run nor deleted.
Main ==
  /\ thread = "main" /\ thread' = (IF runnable THEN "loop" ELSE "unref")
  /\ missed' = ~runnable
  /\ UNCHANGED <<q, unblocked, task, joinable, runnable, ref, cur, owner, fate>>

Loop ==
  /\ thread = "loop" /\ thread' = (IF runnable THEN "rcv" ELSE "leave")
  /\ UNCHANGED <<q, unblocked, task, joinable, runnable, ref, cur, owner, missed, fate>>

\* The mutex is held from the test of the list to the wait.
TakenNewest == cur' = q.elem[q.head].data /\ q' = ListUnlink(q, q.head) /\ thread' = "proc"
Taken == cur' = Oldest(q) /\ q' = ListRemove(q) /\ thread' = "proc"

Receive ==
  /\ thread = "rcv"
  /\ IF unblocked THEN thread' = "post" /\ UNCHANGED <<q, cur>>
     ELSE IF q.head = NULL THEN thread' = "wait" /\ UNCHANGED <<q, cur>>
     ELSE Taken
  /\ UNCHANGED <<unblocked, task, joinable, runnable, ref, owner, missed, fate>>

\* Woken by a message or by the unblock; with neither it waits again.
ReceiveWoken ==
  /\ thread = "woken"
  /\ IF q.head # NULL THEN Taken
     ELSE thread' = (IF unblocked THEN "post" ELSE "wait") /\ UNCHANGED <<q, cur>>
  /\ UNCHANGED <<unblocked, task, joinable, runnable, ref, owner, missed, fate>>

Proc ==
  /\ At("proc", "loop") /\ fate' = [fate EXCEPT ![cur] = "done"] /\ cur' = NULL
  /\ UNCHANGED <<q, unblocked, task, joinable, runnable, ref, owner, missed>>

\* run() said to stop: postrun if it still runs, and out.
Post ==
  /\ At("post", "leave")
  /\ UNCHANGED <<q, unblocked, task, joinable, runnable, ref, cur, owner, missed, fate>>

Leave ==
  /\ At("leave", "unref") /\ runnable' = FALSE /\ Deleted
  /\ UNCHANGED <<joinable, ref, cur, owner, missed>>

ThreadUnref ==
  /\ At("unref", "gone") /\ ref' = ref - 1
  /\ UNCHANGED <<q, unblocked, task, joinable, runnable, cur, owner, missed, fate>>

OwnerStep == GiveUpThread \/ StopThread \/ Join \/ OwnerUnref
ThreadStep == Main \/ Loop \/ Receive \/ ReceiveWoken \/ Proc \/ Post \/ Leave \/ ThreadUnref

Next == (\E m \in Data : SendMsg(m)) \/ Unblock \/ OwnerStep \/ ThreadStep

\* Threads are scheduled; nobody has to destroy the task.
Fairness == WF_vars(ThreadStep) /\ WF_vars(OwnerStep)

Spec == Init /\ [][Next]_vars /\ Fairness

(***************************************************************************)
(* Properties.                                                              *)
(***************************************************************************)

\* The queue's list is whole whatever is sent and taken when, and the task is deleted
\* by exactly one of its owner and its thread, which never touches it afterwards; the
\* delegate lives while either still uses it.
TaskWhole ==
  /\ Backward(q) = Reverse(Forward(q))
  /\ {m \in Data : fate[m] = "queued"} = Range(Forward(q)) \cup ({cur} \ {NULL})
  /\ thread \in {"loop", "rcv", "wait", "woken", "proc", "post", "leave"} => task = "made" /\ ref > 0
  /\ owner \in {"stop", "join", "unref"} => ref > 0
  /\ owner = "done" /\ thread \in {"gone", "off"} => ref = 0 /\ (missed \/ task = "deleted")

\* The task handles what was sent in the order it was sent, until it is unblocked.
Fifo == INSTANCE MsgFifo WITH
  Msgs <- Data, NoMsg <- NULL, waiting <- Forward(q), handling <- cur,
  open <- ~unblocked /\ task = "made"
IsFifo == Fifo!FifoSpec

\* What was sent to a task whose thread began is handled, or deleted with the task: neither
\* a signal nor the unblock gets lost between the test of the list and the wait.
SentEnds ==
  \A m \in Data : fate[m] = "queued" /\ thread # "off" ~> missed \/ fate[m] \in {"done", "deleted"}

\* destroy() returns, also when it joins the thread.
DestroyEnds == owner # "no" ~> owner = "done"
=============================================================================

------------------------------ MODULE LocTimers ------------------------------
(* The timers of the location engine (LocTimer.cpp) and the heap they wait   *)
(* in (LocHeap.cpp).                                                         *)
(*                                                                           *)
(* start() and stop() make and drop a delegate under the timer's lock and    *)
(* post a message; the message thread alone touches the heap and arms the    *)
(* one file descriptor with the soonest time; the poll thread leaves         *)
(* epoll_wait when it is due, disarms it, takes it out of the poll and posts *)
(* an expiry.  The expiry pops the top whatever its time, then all that is   *)
(* due; each popped timer is stopped and, if it was running, called back.    *)
(* Times are whole seconds, as LocTimerDelegate::ranks compares them.        *)
EXTENDS Integers, Sequences, FiniteSets

CONSTANTS Timers, MaxTime, MaxStarts, None

TimersAssumption == MaxTime \in Nat /\ MaxStarts \in [Timers -> Nat]

VARIABLES
  now,       \* the boot clock
  tree,      \* the heap: a node [data, size, left, right], or Leaf
  msgs,      \* what the message thread has to do
  armed,     \* when the file descriptor fires; 0 when disarmed
  polled,    \* whether it is in the poll
  poll,      \* where the poll thread is: wait, disarm, unpoll, post
  running,   \* timer -> its delegate, or None
  popped,    \* the delegate the message thread is expiring, or None
  client,    \* the timer that thread has read from it, or None
  draining,  \* it pops no more than what is due now (its first pop is done)
  starts,    \* timer -> starts so far; a delegate is <<timer, start, time>>
  ended      \* timer -> how many of them have been stopped or called back

vars == <<now, tree, msgs, armed, polled, poll, running, popped, client, draining, starts, ended>>

\* A delegate's time (mFutureTime.tv_sec).
Time(d) == d[3]

(***************************************************************************)
(* LocHeap.                                                                 *)
(***************************************************************************)
Leaf == [size |-> 0]
Node(d, n, l, r) == [data |-> d, size |-> n, left |-> l, right |-> r]

Top(t) == IF t = Leaf THEN None ELSE t.data
OutRanks(d, e) == Time(e) - Time(d) > 0

RECURSIVE Pushed(_, _)
Pushed(t, d) ==
  IF t = Leaf THEN Node(d, 1, Leaf, Leaf) ELSE
  LET up == IF OutRanks(d, t.data) THEN d ELSE t.data
      down == IF OutRanks(d, t.data) THEN t.data ELSE d
      left == t.left = Leaf \/ (t.right # Leaf /\ t.left.size <= t.right.size)
  IN IF left THEN Node(up, t.size + 1, Pushed(t.left, down), t.right)
     ELSE Node(up, t.size + 1, t.left, Pushed(t.right, down))

\* The higher ranking child takes the place of what is popped, down to a leaf.
RECURSIVE Popped(_)
Popped(t) ==
  LET left == t.right = Leaf \/ (t.left # Leaf /\ OutRanks(t.left.data, t.right.data)) IN
    IF t.left = Leaf /\ t.right = Leaf THEN Leaf
    ELSE IF left THEN Node(t.left.data, t.size - 1, Popped(t.left), t.right)
    ELSE Node(t.right.data, t.size - 1, t.left, Popped(t.right))

\* A subtree whose top ranks lower than what is looked for is not searched.
RECURSIVE Removed(_, _)
Removed(t, d) ==
  IF t = Leaf THEN t
  ELSE IF t.data = d THEN Popped(t)
  ELSE IF OutRanks(d, t.data) THEN t
  ELSE LET l == Removed(t.left, d)
           r == IF l = t.left THEN Removed(t.right, d) ELSE t.right
       IN IF l = t.left /\ r = t.right THEN t ELSE Node(t.data, t.size - 1, l, r)

\* checkNodes: no child outranks its parent and every size is right.
RECURSIVE CheckNodes(_)
CheckNodes(t) ==
  t # Leaf =>
    /\ \A s \in {t.left, t.right} : s # Leaf => ~OutRanks(s.data, t.data) /\ CheckNodes(s)
    /\ t.size = 1 + t.left.size + t.right.size

RECURSIVE Contents(_)
Contents(t) == IF t = Leaf THEN {} ELSE {t.data} \cup Contents(t.left) \cup Contents(t.right)

(***************************************************************************)
(* The file descriptor and the poll.                                        *)
(***************************************************************************)

\* updateSoonestTime, when the heap is t and its top was prior.
Update(t, prior) ==
  IF Top(t) = prior THEN UNCHANGED <<armed, polled>>
  ELSE IF t = Leaf THEN armed' = 0 /\ polled' = FALSE
  ELSE IF prior = None \/ OutRanks(Top(t), prior)
    THEN armed' = Time(Top(t)) /\ polled' = TRUE
  ELSE UNCHANGED <<armed, polled>>

Init ==
  /\ now = 0 /\ tree = Leaf /\ msgs = <<>> /\ armed = 0 /\ polled = FALSE /\ poll = "wait"
  /\ running = [c \in Timers |-> None] /\ popped = None /\ client = None /\ draining = FALSE
  /\ starts = [c \in Timers |-> 0] /\ ended = [c \in Timers |-> 0]

Post(m) == msgs' = Append(msgs, m)

(***************************************************************************)
(* The clients.                                                             *)
(***************************************************************************)

\* LocTimer::start, in a second of its own or in the one that runs (delay of at
\* least a second); it is refused while the timer runs.
Start(c) ==
  /\ running[c] = None /\ starts[c] < MaxStarts[c]
  /\ \E time \in now + 1..MaxTime + 1 :
       LET d == <<c, starts[c] + 1, time>> IN
         running' = [running EXCEPT ![c] = d] /\ Post([op |-> "push", d |-> d])
  /\ starts' = [starts EXCEPT ![c] = @ + 1]
  /\ UNCHANGED <<now, tree, armed, polled, poll, popped, client, draining, ended>>

\* LocTimer::stop under the lock: it takes the delegate from the timer, and with it
\* the delegate loses its client.
Stopped(c) ==
  /\ running' = [running EXCEPT ![c] = None] /\ Post([op |-> "remove", d |-> running[c]])
  /\ ended' = [ended EXCEPT ![c] = @ + 1]

Stop(c) ==
  /\ running[c] # None /\ Stopped(c)
  /\ UNCHANGED <<now, tree, armed, polled, poll, popped, client, draining, starts>>

(***************************************************************************)
(* The poll thread: LocTimerPollTask::run and LocTimerContainer::expire.    *)
(***************************************************************************)
Wake ==
  /\ poll = "wait" /\ polled /\ armed # 0 /\ armed <= now
  /\ poll' = "disarm"
  /\ UNCHANGED <<now, tree, msgs, armed, polled, running, popped, client, draining, starts, ended>>

Disarm ==
  /\ poll = "disarm" /\ armed' = 0 /\ poll' = "unpoll"
  /\ UNCHANGED <<now, tree, msgs, polled, running, popped, client, draining, starts, ended>>

Unpoll ==
  /\ poll = "unpoll" /\ polled' = FALSE /\ poll' = "post"
  /\ UNCHANGED <<now, tree, msgs, armed, running, popped, client, draining, starts, ended>>

PostExpiry ==
  /\ poll = "post" /\ Post([op |-> "expire"]) /\ poll' = "wait"
  /\ UNCHANGED <<now, tree, armed, polled, running, popped, client, draining, starts, ended>>

(***************************************************************************)
(* The message thread.                                                      *)
(***************************************************************************)
Idle == popped = None /\ ~draining /\ msgs # <<>>
Expiring == draining \/ (Idle /\ Head(msgs).op = "expire")
ToPop == IF tree = Leaf THEN FALSE ELSE draining => Time(tree.data) <= now

MsgTimerPush ==
  /\ Idle /\ Head(msgs).op = "push" /\ msgs' = Tail(msgs)
  /\ tree' = Pushed(tree, Head(msgs).d) /\ Update(tree', Top(tree))
  /\ UNCHANGED <<now, poll, running, popped, client, draining, starts, ended>>

\* The delegate is looked for in the heap and then deleted; a delegate that expired
\* is no longer there.
MsgTimerRemove ==
  /\ Idle /\ Head(msgs).op = "remove" /\ msgs' = Tail(msgs)
  /\ LET d == Head(msgs).d IN
       /\ tree' = Removed(tree, d)
       /\ IF Top(tree) = d THEN Update(tree', None) ELSE UNCHANGED <<armed, polled>>
  /\ UNCHANGED <<now, poll, running, popped, client, draining, starts, ended>>

\* MsgTimerExpire pops the top first, then what is due; with nothing more to pop it
\* arms the soonest time again.
Pop ==
  /\ popped = None /\ Expiring /\ ToPop
  /\ popped' = tree.data /\ client' = None /\ tree' = Popped(tree) /\ draining' = TRUE
  /\ UNCHANGED <<now, msgs, armed, polled, poll, running, starts, ended>>

ExpireDone ==
  /\ popped = None /\ Expiring /\ ~ToPop
  /\ msgs' = Tail(msgs) /\ draining' = FALSE /\ Update(tree, None)
  /\ UNCHANGED <<now, tree, poll, running, popped, client, starts, ended>>

\* LocTimerDelegate::expire copies its client, which a stop has cleared, ...
ReadClient ==
  /\ popped # None /\ client = None
  /\ IF running[popped[1]] = popped THEN client' = popped[1] /\ UNCHANGED popped
     ELSE popped' = None /\ UNCHANGED client
  /\ UNCHANGED <<now, tree, msgs, armed, polled, poll, running, draining, starts, ended>>

\* ... stops it, and calls it back if it was running.
Expire ==
  /\ popped # None /\ client # None
  /\ IF running[client] # None THEN Stopped(client)
     ELSE UNCHANGED <<running, msgs, ended>>
  /\ popped' = None /\ client' = None
  /\ UNCHANGED <<now, tree, armed, polled, poll, draining, starts>>

Tick ==
  /\ now <= MaxTime /\ now' = now + 1
  /\ UNCHANGED <<tree, msgs, armed, polled, poll, running, popped, client, draining, starts, ended>>

TaskStep == MsgTimerPush \/ MsgTimerRemove \/ Pop \/ ExpireDone \/ ReadClient \/ Expire
PollStep == Wake \/ Disarm \/ Unpoll \/ PostExpiry

Next ==
  \/ \E c \in Timers : Start(c) \/ Stop(c)
  \/ TaskStep \/ PollStep \/ Tick

\* The two threads are scheduled, and the clock goes on.
Fairness == WF_vars(TaskStep) /\ WF_vars(PollStep) /\ WF_vars(Tick)

Spec == Init /\ [][Next]_vars /\ Fairness

(***************************************************************************)
(* Properties.                                                              *)
(***************************************************************************)
Asked == {msgs[i] : i \in 1..Len(msgs)}

\* What the heap's own test checks (checkTree) holds after any pushes, pops and removes,
\* and a running timer's delegate is in the heap, on its way there or being expired: a
\* remove that does not search where the delegate is would leave it to be freed in place.
HeapHasRunning ==
  /\ CheckNodes(tree)
  /\ \A c \in Timers : running[c] # None =>
       \/ running[c] \in Contents(tree) \/ running[c] = popped
       \/ [op |-> "push", d |-> running[c]] \in Asked
  /\ \A d \in Contents(tree) : running[d[1]] = d \/ [op |-> "remove", d |-> d] \in Asked

\* However stop(), start() again and the expiry meet, a start ends once: stop() that
\* says it stopped the timer is not followed by its callback.
EndsOnce ==
  \A c \in Timers : ended[c] = starts[c] - (IF running[c] # None THEN 1 ELSE 0)

\* A timer that is not stopped is called back, although the poll thread disarms the
\* file descriptor and takes it from the poll without knowing who armed it since.
TimerEnds == \A c \in Timers : running[c] # None ~> running[c] = None
=============================================================================

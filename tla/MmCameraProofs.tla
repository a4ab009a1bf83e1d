-------------------------- MODULE MmCameraProofs --------------------------
(***************************************************************************)
(* Proofs about the camera objects of mm-camera-interface (MmCamera): no    *)
(* call works on an object that was freed, the references of an object are  *)
(* its openers, and until a wait has timed out a mapping call ends with the *)
(* answer to its own request; for every number of callers, cells, cameras   *)
(* and channels, and although the handles' counter wraps.  CameraInv is     *)
(* inductive.                                                               *)
(***************************************************************************)
EXTENDS MmCamera, FiniteSetTheorems, TLAPS

ObjFields == {"hdl", "refs", "lock", "msgLock", "ch", "rcvd", "asked", "polled", "evq", "late"}

IsObject(r) ==
  /\ DOMAIN r = ObjFields
  /\ r.hdl \in Nat \X CamIdx /\ r.refs \in Nat
  /\ r.lock \in Threads \cup {None} /\ r.msgLock \in Threads \cup {None}
  /\ r.rcvd \in Nat /\ r.asked \in Seq(Nat) /\ r.late \in BOOLEAN

Pcs == {"out", "found", "locked", "event", "bare", "wait", "closing"}

IsThread(r) ==
  /\ DOMAIN r = {"at", "cam", "open", "ch", "got"}
  /\ DOMAIN r.at = {"pc", "call", "o", "ch", "slot", "tag"}
  /\ DOMAIN r.got = {"tag", "by", "late"}
  /\ r.open \in BOOLEAN /\ r.cam \in Nat \X CamIdx
  /\ r.at.pc \in Pcs /\ r.at.tag \in Nat

(* The shape of the state.                                                  *)
Shapes ==
  /\ camObj \in [CamIdx -> Cells \cup {None}]
  /\ DOMAIN heap \subseteq Cells
  /\ intfLock \in Threads \cup {None}
  /\ history \in 0..(W - 1)
  /\ used \in [tags : 0..MaxTags, handles : 0..MaxHandles]
  /\ DOMAIN th = Threads
  /\ \A o \in DOMAIN heap : IsObject(heap[o])
  /\ \A t \in Threads : IsThread(th[t])

(* The table holds objects that are there, each in the slot its handle names.*)
Table ==
  \A i \in CamIdx : camObj[i] # None =>
    camObj[i] \in DOMAIN heap /\ heap[camObj[i]].hdl[2] = i /\ heap[camObj[i]].refs > 0

Openers(o) == {t \in Threads : th[t].open /\ th[t].cam = heap[o].hdl}

Counted ==
  \A o \in DOMAIN heap : heap[o].refs > 0 =>
    /\ camObj[heap[o].hdl[2]] = o
    /\ IsFiniteSet(Openers(o)) /\ heap[o].refs = Cardinality(Openers(o))

(* The object a caller has opened is in the table.                          *)
Opened(t) ==
  /\ camObj[th[t].cam[2]] # None
  /\ heap[camObj[th[t].cam[2]]].hdl = th[t].cam

OpenKnown == \A t \in Threads : th[t].open => Opened(t)

UserCalls == ChannelCalls \cup {"qbuf"}

(* What a call that is under way holds: the table's lock until it has the    *)
(* camera's, the camera's until it has the channel's, and then its own       *)
(* reference; the last closer is alone.                                      *)
InCall(t) ==
  ~Out(t) =>
    /\ Cell(t) \in DOMAIN heap
    /\ At(t, "found") => intfLock = t
    /\ At(t, "found") /\ Call(t) # "close_camera" => heap[Cell(t)].refs > 0
    /\ At(t, "locked") \/ At(t, "closing") => heap[Cell(t)].lock = t
    /\ Call(t) = "close_camera" => heap[Cell(t)].refs = 0
    /\ At(t, "closing") => Call(t) = "close_camera"
    /\ Call(t) \in UserCalls => th[t].open /\ Cell(t) = camObj[th[t].cam[2]]
    /\ At(t, "event") \/ At(t, "bare") => Call(t) \in UserCalls
    /\ At(t, "wait") => heap[Cell(t)].msgLock = t
    /\ At(t, "wait") /\ Call(t) \notin UserCalls => Call(t) \in MapCalls /\ heap[Cell(t)].lock = t

InCalls == \A t \in Threads : InCall(t)

Closer(t) == ~Out(t) /\ Call(t) = "close_camera"

OneCloser == \A t, u \in Threads : Closer(t) /\ Closer(u) /\ Cell(t) = Cell(u) => t = u

(* The answer of a request is there or to come, and nothing else.           *)
AnswerOf(o, t) ==
  \/ heap[o].rcvd = 0 /\ heap[o].asked = <<th[t].at.tag>>
  \/ heap[o].rcvd = th[t].at.tag /\ heap[o].asked = <<>>

AnswersOf(o) ==
  ~heap[o].late =>
    /\ heap[o].msgLock = None => heap[o].rcvd = 0 /\ heap[o].asked = <<>>
    /\ \A t \in Threads : At(t, "wait") /\ Cell(t) = o => AnswerOf(o, t)

Answers == \A o \in DOMAIN heap : AnswersOf(o)

CameraInv ==
  Shapes /\ Table /\ Counted /\ OpenKnown /\ InCalls /\ OneCloser /\ Answers /\ OwnAnswer

-----------------------------------------------------------------------------
(* What the steps have in common.                                           *)

(* The table, the handles and the openers stay.                             *)
Kept ==
  /\ camObj' = camObj /\ DOMAIN heap' = DOMAIN heap
  /\ \A x \in DOMAIN heap : heap'[x].hdl = heap[x].hdl /\ heap'[x].refs = heap[x].refs
  /\ \A u \in Threads : th'[u].open = th[u].open /\ th'[u].cam = th[u].cam

Others(t) == DOMAIN th' = Threads /\ \A u \in Threads \ {t} : th'[u] = th[u]

(* Thread t takes free locks and gives back its own.                        *)
LocksBy(t) ==
  /\ intfLock' = intfLock \/ intfLock \in {None, t}
  /\ \A x \in DOMAIN heap :
       /\ heap'[x].lock = heap[x].lock \/ heap[x].lock \in {None, t}
       /\ heap'[x].msgLock = heap[x].msgLock \/ heap[x].msgLock \in {None, t}

(* Nothing of the object's answers changes.                                 *)
Alike(x) ==
  /\ heap'[x].msgLock = heap[x].msgLock
  /\ heap'[x].rcvd = heap[x].rcvd /\ heap'[x].asked = heap[x].asked
  /\ heap'[x].late = heap[x].late

(* Nothing of object o changes but its lock, its channels and its events.   *)
OnlyLock(o, v) ==
  /\ DOMAIN heap' = DOMAIN heap
  /\ \A x \in DOMAIN heap :
       /\ IsObject(heap'[x]) /\ Alike(x)
       /\ heap'[x].hdl = heap[x].hdl /\ heap'[x].refs = heap[x].refs
       /\ heap'[x].lock = IF x = o THEN v ELSE heap[x].lock

(* Thread t goes on in its call, or leaves it.                              *)
GoesOn(t) ==
  /\ IsThread(th'[t])
  /\ th'[t].open = th[t].open /\ th'[t].cam = th[t].cam /\ th'[t].got = th[t].got
  /\ \/ th'[t].at.pc = "out"
     \/ /\ th[t].at.pc # "out" /\ th'[t].at.pc # "wait"
        /\ th'[t].at.call = th[t].at.call /\ th'[t].at.o = th[t].at.o

LEMMA KeptTable ==
    ASSUME CameraInv, Kept
    PROVE  Table' /\ Counted' /\ OpenKnown'
<1>1. /\ Shapes /\ Table /\ Counted /\ OpenKnown
  BY DEF CameraInv
<1>2. Table'
  BY <1>1 DEF Table, Kept, Shapes
<1>3. Counted'
  <2>. SUFFICES ASSUME NEW o \in DOMAIN heap, heap[o].refs > 0
                PROVE  /\ camObj[heap[o].hdl[2]] = o
                       /\ IsFiniteSet(Openers(o)') /\ heap[o].refs = Cardinality(Openers(o)')
    BY DEF Kept, Counted
  <2>1. Openers(o)' = Openers(o)
    BY DEF Openers, Kept
  <2>. QED
    BY <1>1, <2>1 DEF Counted
<1>4. OpenKnown'
  <2>. SUFFICES ASSUME NEW t \in Threads, th[t].open
                PROVE  Opened(t)'
    BY DEF Kept, OpenKnown
  <2>1. Opened(t) /\ th[t].cam[2] \in CamIdx
    BY <1>1 DEF OpenKnown, Shapes, IsThread
  <2>2. camObj[th[t].cam[2]] \in DOMAIN heap
    BY <1>1, <2>1 DEF Opened, Table
  <2>. QED
    BY <2>1, <2>2 DEF Opened, Kept
<1>. QED
  BY <1>2, <1>3, <1>4

LEMMA OthersInCall ==
    ASSUME CameraInv, Kept, NEW t \in Threads, Others(t), LocksBy(t), None \notin Threads,
           NEW u \in Threads, u # t
    PROVE  InCall(u)'
<1>1. InCall(u) /\ th'[u] = th[u]
  BY DEF CameraInv, InCalls, Others
<1>. SUFFICES ASSUME ~Out(u)
              PROVE  InCall(u)'
  BY <1>1 DEF InCall, Out
<1>2. Cell(u)' = Cell(u) /\ Call(u)' = Call(u) /\ (\A pc \in Pcs : At(u, pc)' = At(u, pc)) /\ Cell(u) \in DOMAIN heap
  BY <1>1 DEF Cell, Call, At, InCall
<1>3. /\ heap'[Cell(u)].refs = heap[Cell(u)].refs /\ DOMAIN heap' = DOMAIN heap /\ camObj' = camObj
      /\ intfLock = u => intfLock' = u
      /\ heap[Cell(u)].lock = u => heap'[Cell(u)].lock = u
      /\ heap[Cell(u)].msgLock = u => heap'[Cell(u)].msgLock = u
  BY <1>2 DEF Kept, LocksBy
<1>. QED
  BY <1>1, <1>2, <1>3 DEF InCall, Pcs

LEMMA KeptAnswers ==
    ASSUME CameraInv, DOMAIN heap' \subseteq DOMAIN heap, \A x \in DOMAIN heap' : Alike(x),
           \A u \in Threads : th'[u].at.pc = "wait" => th'[u].at = th[u].at
    PROVE  Answers'
<1>. SUFFICES ASSUME NEW o \in DOMAIN heap', ~heap[o].late
              PROVE  AnswersOf(o)'
  BY DEF Answers, AnswersOf, Alike
<1>1. AnswersOf(o) /\ Alike(o)
  BY DEF CameraInv, Answers
<1>2. heap'[o].msgLock = None => heap'[o].rcvd = 0 /\ heap'[o].asked = <<>>
  BY <1>1 DEF AnswersOf, Alike
<1>3. ASSUME NEW u \in Threads, At(u, "wait")', Cell(u)' = o
      PROVE  AnswerOf(o, u)'
  <2>1. th'[u].at = th[u].at
    BY <1>3 DEF At
  <2>2. AnswerOf(o, u)
    BY <1>1, <1>3, <2>1 DEF AnswersOf, At, Cell
  <2>. QED
    BY <1>1, <2>1, <2>2 DEF AnswerOf, Alike
<1>. QED
  BY <1>2, <1>3 DEF AnswersOf

LEMMA KeptClosers ==
    ASSUME CameraInv, NEW t \in Threads, Others(t),
           Closer(t)' => Closer(t) /\ th'[t].at.o = th[t].at.o
    PROVE  OneCloser'
<1>1. ASSUME NEW u \in Threads, Closer(u)'
      PROVE  Closer(u) /\ Cell(u)' = Cell(u)
  BY <1>1 DEF Others, Closer, Cell, Call, Out
<1>. QED
  BY <1>1 DEF CameraInv, OneCloser

(* A step of a call that sends and awaits nothing.                          *)
LEMMA QuietStep ==
    ASSUME CameraInv, None \notin Threads, NEW t \in Threads, NEW o, NEW v,
           OnlyLock(o, v), v = heap[o].lock \/ heap[o].lock \in {None, t},
           Others(t), GoesOn(t), InCall(t)',
           camObj' = camObj, history' \in 0..(W - 1),
           used' \in [tags : 0..MaxTags, handles : 0..MaxHandles],
           intfLock' = intfLock \/ (intfLock' = None /\ intfLock = t)
    PROVE  CameraInv'
<1>1. Shapes
  BY DEF CameraInv
<1>2. Kept
  BY DEF OnlyLock, Others, GoesOn, Kept
<1>3. LocksBy(t)
  BY DEF OnlyLock, LocksBy, Alike
<1>4. Shapes'
  <2>1. \A u \in Threads : IsThread(th'[u])
    BY <1>1 DEF Shapes, Others, GoesOn
  <2>2. intfLock' \in Threads \cup {None}
    BY <1>1 DEF Shapes
  <2>. QED
    BY <1>1, <2>1, <2>2 DEF Shapes, OnlyLock, Others
<1>5. InCalls'
  BY <1>2, <1>3, OthersInCall DEF InCalls
<1>6. OneCloser'
  <2>1. Closer(t)' => Closer(t) /\ th'[t].at.o = th[t].at.o
    BY DEF GoesOn, Closer, Call, Out
  <2>. QED
    BY <2>1, KeptClosers
<1>7. Answers'
  <2>1. \A u \in Threads : th'[u].at.pc = "wait" => th'[u].at = th[u].at
    BY DEF GoesOn, Others
  <2>. QED
    BY <2>1, KeptAnswers DEF OnlyLock
<1>8. OwnAnswer'
  <2>1. \A u \in Threads : th'[u].got = th[u].got
    BY DEF Others, GoesOn
  <2>. QED
    BY <2>1 DEF CameraInv, OwnAnswer
<1>. QED
  BY <1>2, <1>4, <1>5, <1>6, <1>7, <1>8, KeptTable DEF CameraInv

LEMMA ThreadReturns ==
    ASSUME Shapes, NEW t \in Threads, NEW c,
           th' = Returns(t) \/ th' = [Returns(t) EXCEPT ![t].ch = c]
    PROVE  Others(t) /\ GoesOn(t) /\ InCall(t)' /\ th'[t].at.pc = "out"
<1>1. DOMAIN th = Threads /\ IsThread(th[t])
  BY DEF Shapes
<1>2. Others(t)
  BY <1>1 DEF Others, Returns
<1>3. /\ th'[t].at = Idle /\ DOMAIN th'[t] = DOMAIN th[t]
      /\ th'[t].open = th[t].open /\ th'[t].cam = th[t].cam /\ th'[t].got = th[t].got
  BY <1>1 DEF Returns, IsThread
<1>4. Idle.pc = "out" /\ Idle.tag = 0 /\ DOMAIN Idle = {"pc", "call", "o", "ch", "slot", "tag"}
  BY DEF Idle
<1>5. GoesOn(t)
  BY <1>1, <1>3, <1>4 DEF GoesOn, IsThread, Pcs
<1>. QED
  BY <1>2, <1>3, <1>4, <1>5 DEF InCall, Out

LEMMA ThreadGoes ==
    ASSUME Shapes, NEW t \in Threads, ~Out(t), NEW pc \in Pcs \ {"wait"}, NEW s,
           th' = Goes(t, pc) \/ th' = [Goes(t, pc) EXCEPT ![t].at.slot = s]
    PROVE  /\ Others(t) /\ GoesOn(t) /\ th'[t].at.pc = pc
           /\ Cell(t)' = Cell(t) /\ Call(t)' = Call(t)
<1>1. DOMAIN th = Threads /\ IsThread(th[t])
  BY DEF Shapes
<1>2. Others(t)
  BY <1>1 DEF Others, Goes
<1>3. /\ DOMAIN th'[t] = DOMAIN th[t] /\ DOMAIN th'[t].at = DOMAIN th[t].at
      /\ th'[t].open = th[t].open /\ th'[t].cam = th[t].cam /\ th'[t].got = th[t].got
      /\ th'[t].at.pc = pc /\ th'[t].at.call = th[t].at.call /\ th'[t].at.o = th[t].at.o
      /\ th'[t].at.tag = th[t].at.tag
  BY <1>1 DEF Goes, IsThread
<1>4. GoesOn(t)
  BY <1>1, <1>3 DEF GoesOn, IsThread, Out
<1>. QED
  BY <1>2, <1>3, <1>4 DEF Cell, Call

(* The changes of an object that leave its answers alone.                   *)
LEMMA HeapLock ==
    ASSUME Shapes, NEW o \in DOMAIN heap, NEW v \in Threads \cup {None},
           heap' = [heap EXCEPT ![o].lock = v]
    PROVE  OnlyLock(o, v)
<1>1. DOMAIN heap' = DOMAIN heap /\ \A x \in DOMAIN heap \ {o} : heap'[x] = heap[x]
  OBVIOUS
<1>2. \A x \in DOMAIN heap : IsObject(heap[x])
  BY DEF Shapes
<1>3. /\ DOMAIN heap'[o] = DOMAIN heap[o] /\ heap'[o].lock = v
      /\ \A f \in ObjFields \ {"lock"} : heap'[o][f] = heap[o][f]
  BY <1>2 DEF IsObject, ObjFields
<1>4. IsObject(heap'[o]) /\ Alike(o) /\ heap'[o].hdl = heap[o].hdl /\ heap'[o].refs = heap[o].refs
  BY <1>2, <1>3 DEF IsObject, ObjFields, Alike
<1>. QED
  BY <1>1, <1>2, <1>3, <1>4 DEF OnlyLock, Alike

LEMMA HeapUnlockedChannel ==
    ASSUME Shapes, NEW o \in DOMAIN heap, NEW s, NEW c,
           \/ heap' = [Unlocked(o) EXCEPT ![o].ch[s] = c]
           \/ heap' = [Unlocked(o) EXCEPT ![o].ch[s].lock = c]
    PROVE  OnlyLock(o, None)
<1>1. DOMAIN heap' = DOMAIN heap /\ \A x \in DOMAIN heap \ {o} : heap'[x] = heap[x]
  BY DEF Unlocked
<1>2. \A x \in DOMAIN heap : IsObject(heap[x])
  BY DEF Shapes
<1>3. /\ DOMAIN heap'[o] = DOMAIN heap[o] /\ heap'[o].lock = None
      /\ \A f \in ObjFields \ {"lock", "ch"} : heap'[o][f] = heap[o][f]
  BY <1>2 DEF IsObject, ObjFields, Unlocked
<1>4. IsObject(heap'[o]) /\ Alike(o) /\ heap'[o].hdl = heap[o].hdl /\ heap'[o].refs = heap[o].refs
  BY <1>2, <1>3 DEF IsObject, ObjFields, Alike
<1>. QED
  BY <1>1, <1>2, <1>3, <1>4 DEF OnlyLock, Alike

LEMMA HeapOther ==
    ASSUME Shapes, NEW o \in DOMAIN heap, NEW s, NEW c, NEW p, NEW e,
           \/ heap' = heap
           \/ heap' = [heap EXCEPT ![o].ch[s] = c]
           \/ heap' = [heap EXCEPT ![o].polled = p]
           \/ heap' = [heap EXCEPT ![o].evq = e]
    PROVE  OnlyLock(o, heap[o].lock)
<1>1. DOMAIN heap' = DOMAIN heap /\ \A x \in DOMAIN heap \ {o} : heap'[x] = heap[x]
  OBVIOUS
<1>2. \A x \in DOMAIN heap : IsObject(heap[x])
  BY DEF Shapes
<1>3. /\ DOMAIN heap'[o] = DOMAIN heap[o]
      /\ \A f \in ObjFields \ {"ch", "polled", "evq"} : heap'[o][f] = heap[o][f]
  BY <1>2 DEF IsObject, ObjFields
<1>4. /\ IsObject(heap'[o]) /\ Alike(o) /\ heap'[o].hdl = heap[o].hdl /\ heap'[o].refs = heap[o].refs
      /\ heap'[o].lock = heap[o].lock
  BY <1>2, <1>3 DEF IsObject, ObjFields, Alike
<1>. QED
  BY <1>1, <1>2, <1>3, <1>4 DEF OnlyLock, Alike

LEMMA BumpedInRange ==
    ASSUME CameraAssumption, NEW n \in 0..(W - 1)
    PROVE  Bumped(n) \in 0..(W - 1) /\ Bumped(n) \in Nat \ {0}
  BY DEF CameraAssumption, Bumped

-----------------------------------------------------------------------------
(* The steps of a call that sends and awaits nothing.                       *)

LEMMA StepsInObject ==
    ASSUME CameraInv, NEW t \in Threads, ~Out(t)
    PROVE  /\ Shapes /\ Cell(t) \in DOMAIN heap /\ IsObject(heap[Cell(t)]) /\ IsThread(th[t])
           /\ InCall(t) /\ history \in 0..(W - 1) /\ used \in [tags : 0..MaxTags, handles : 0..MaxHandles]
  BY DEF CameraInv, InCalls, InCall, Shapes

LEMMA LockCameraStep ==
    ASSUME CameraInv, CameraAssumption, NEW t \in Threads, LockCamera(t)
    PROVE  CameraInv'
<1>1. ~Out(t) /\ At(t, "found") /\ None \notin Threads
  BY DEF LockCamera, At, Out, CameraAssumption
<1>2. /\ Shapes /\ Cell(t) \in DOMAIN heap /\ InCall(t) /\ history \in 0..(W - 1)
      /\ used \in [tags : 0..MaxTags, handles : 0..MaxHandles]
  BY <1>1, StepsInObject
<1>3. OnlyLock(Cell(t), t) /\ heap[Cell(t)].lock = None
  BY <1>2, HeapLock DEF LockCamera
<1>4. /\ Others(t) /\ GoesOn(t) /\ th'[t].at.pc = "locked"
      /\ Cell(t)' = Cell(t) /\ Call(t)' = Call(t)
  BY <1>1, <1>2, ThreadGoes DEF LockCamera, Pcs
<1>5. intfLock = t /\ intfLock' = None /\ camObj' = camObj /\ history' = history /\ used' = used
  BY <1>1, <1>2 DEF LockCamera, InCall
<1>6. InCall(t)'
  <2>1. heap'[Cell(t)].lock = t /\ heap'[Cell(t)].refs = heap[Cell(t)].refs /\ DOMAIN heap' = DOMAIN heap
    BY <1>2, <1>3 DEF OnlyLock
  <2>2. th'[t].open = th[t].open /\ th'[t].cam = th[t].cam
    BY <1>4 DEF GoesOn
  <2>. QED
    BY <1>1, <1>2, <1>4, <1>5, <2>1, <2>2 DEF InCall, At
<1>. QED
  BY <1>1, <1>2, <1>3, <1>4, <1>5, <1>6, QuietStep

(* A call that leaves with the object unlocked, or that held no lock of it.  *)
LEMMA LeavesStep ==
    ASSUME CameraInv, CameraAssumption, NEW t \in Threads, ~Out(t), NEW v \in {None, heap[Cell(t)].lock},
           (v = None /\ At(t, "locked")) \/ v = heap[Cell(t)].lock,
           OnlyLock(Cell(t), v), NEW c,
           th' = Returns(t) \/ th' = [Returns(t) EXCEPT ![t].ch = c],
           camObj' = camObj, intfLock' = intfLock, used' = used, history' \in 0..(W - 1)
    PROVE  CameraInv'
<1>1. /\ Shapes /\ Cell(t) \in DOMAIN heap /\ InCall(t) /\ None \notin Threads
      /\ used \in [tags : 0..MaxTags, handles : 0..MaxHandles]
  BY StepsInObject DEF CameraAssumption
<1>2. Others(t) /\ GoesOn(t) /\ InCall(t)'
  BY <1>1, ThreadReturns
<1>3. CASE v = None /\ At(t, "locked")
  <2>1. heap[Cell(t)].lock = t
    BY <1>1, <1>3 DEF InCall
  <2>. QED
    BY <1>1, <1>2, <1>3, <2>1, QuietStep
<1>4. CASE v = heap[Cell(t)].lock
  BY <1>1, <1>2, <1>4, QuietStep
<1>. QED
  BY <1>3, <1>4

LEMMA UnderLockStep ==
    ASSUME CameraInv, CameraAssumption, NEW t \in Threads, NEW calls, UnderLock(t, calls)
    PROVE  CameraInv'
<1>1. ~Out(t) /\ At(t, "locked")
  BY DEF UnderLock, At, Out
<1>2. OnlyLock(Cell(t), None)
  BY <1>1, StepsInObject, HeapLock DEF UnderLock, Unlocked
<1>. QED
  BY <1>1, <1>2, StepsInObject, LeavesStep DEF UnderLock

LEMMA AddChannelStep ==
    ASSUME CameraInv, CameraAssumption, NEW t \in Threads, AddChannel(t)
    PROVE  CameraInv'
<1>1. /\ ~Out(t) /\ At(t, "locked")
      /\ camObj' = camObj /\ intfLock' = intfLock /\ used' = used
  BY DEF AddChannel, At, Out
<1>2. Cell(t) \in DOMAIN heap /\ Shapes /\ history \in 0..(W - 1)
  BY <1>1, StepsInObject
<1>3. CASE heap' = Unlocked(Cell(t)) /\ th' = Returns(t) /\ history' = history
  <2>1. OnlyLock(Cell(t), None)
    BY <1>2, <1>3, HeapLock DEF Unlocked
  <2>. QED
    BY <1>1, <1>2, <1>3, <2>1, LeavesStep
<1>4. CASE \E s, h, c : /\ heap' = [Unlocked(Cell(t)) EXCEPT ![Cell(t)].ch[s] = c]
                        /\ th' = [Returns(t) EXCEPT ![t].ch = h]
                        /\ history' = Bumped(history)
  <2>1. PICK s, h, c : /\ heap' = [Unlocked(Cell(t)) EXCEPT ![Cell(t)].ch[s] = c]
                       /\ th' = [Returns(t) EXCEPT ![t].ch = h]
                       /\ history' = Bumped(history)
    BY <1>4
  <2>2. OnlyLock(Cell(t), None)
    BY <1>2, <2>1, HeapUnlockedChannel
  <2>3. history' \in 0..(W - 1)
    BY <1>2, <2>1, BumpedInRange
  <2>. QED
    BY <1>1, <2>1, <2>2, <2>3, LeavesStep
<1>. DEFINE free == {s \in 1..MaxCh : heap[Cell(t)].ch[s].state = "NOTUSED"}
            slot == CHOOSE x \in free : \A y \in free : x <= y
            new == GenerateHandler(history, slot - 1)
            record == [hdl |-> new, state |-> "STOPPED", lock |-> None]
<1>5. CASE free = {}
  BY <1>3, <1>5 DEF AddChannel
<1>6. CASE free # {}
  <2>1. /\ heap' = [Unlocked(Cell(t)) EXCEPT ![Cell(t)].ch[slot] = record]
        /\ th' = [Returns(t) EXCEPT ![t].ch = new]
        /\ history' = Bumped(history)
    BY <1>6 DEF AddChannel
  <2>. HIDE DEF slot, new, record
  <2>. QED
    BY <1>4, <2>1
<1>. QED
  BY <1>5, <1>6

LEMMA FindChannelStep ==
    ASSUME CameraInv, CameraAssumption, NEW t \in Threads, FindChannel(t)
    PROVE  CameraInv'
<1>1. /\ ~Out(t) /\ At(t, "locked") /\ Call(t) \in ChannelCalls /\ None \notin Threads
      /\ camObj' = camObj /\ intfLock' = intfLock /\ used' = used /\ history' = history
  BY DEF FindChannel, At, Out, CameraAssumption
<1>2. /\ Cell(t) \in DOMAIN heap /\ Shapes /\ InCall(t) /\ history \in 0..(W - 1)
      /\ used \in [tags : 0..MaxTags, handles : 0..MaxHandles]
  BY <1>1, StepsInObject
<1>. DEFINE s == ChannelOf(Cell(t), th[t].at.ch)
<1>3. CASE heap' = Unlocked(Cell(t)) /\ th' = Returns(t)
  <2>1. OnlyLock(Cell(t), None)
    BY <1>2, <1>3, HeapLock DEF Unlocked
  <2>. QED
    BY <1>1, <1>2, <1>3, <2>1, LeavesStep
<1>4. CASE /\ heap' = [Unlocked(Cell(t)) EXCEPT ![Cell(t)].ch[s].lock = t]
           /\ th' = [Goes(t, "event") EXCEPT ![t].at.slot = s]
  <2>1. OnlyLock(Cell(t), None)
    BY <1>2, <1>4, HeapUnlockedChannel
  <2>2. /\ Others(t) /\ GoesOn(t) /\ th'[t].at.pc = "event"
        /\ Cell(t)' = Cell(t) /\ Call(t)' = Call(t)
    BY <1>1, <1>2, <1>4, ThreadGoes DEF Pcs
  <2>3. heap[Cell(t)].lock = t
    BY <1>1, <1>2 DEF InCall
  <2>4. InCall(t)'
    <3>1. DOMAIN heap' = DOMAIN heap /\ heap'[Cell(t)].refs = heap[Cell(t)].refs
      BY <1>2, <2>1 DEF OnlyLock
    <3>2. th'[t].open = th[t].open /\ th'[t].cam = th[t].cam
      BY <2>2 DEF GoesOn
    <3>. QED
      BY <1>1, <1>2, <2>2, <3>1, <3>2 DEF InCall, At, UserCalls
  <2>. QED
    BY <1>1, <1>2, <2>1, <2>2, <2>3, <2>4, QuietStep
<1>. QED
  BY <1>3, <1>4 DEF FindChannel

LEMMA QBufStep ==
    ASSUME CameraInv, CameraAssumption, NEW t \in Threads, QBuf(t)
    PROVE  CameraInv'
<1>1. /\ ~Out(t) /\ At(t, "locked") /\ Call(t) = "qbuf" /\ None \notin Threads
      /\ camObj' = camObj /\ intfLock' = intfLock /\ used' = used /\ history' = history
  BY DEF QBuf, At, Out, CameraAssumption
<1>2. /\ Cell(t) \in DOMAIN heap /\ Shapes /\ InCall(t) /\ history \in 0..(W - 1)
      /\ used \in [tags : 0..MaxTags, handles : 0..MaxHandles]
  BY <1>1, StepsInObject
<1>3. OnlyLock(Cell(t), None) /\ heap[Cell(t)].lock = t
  BY <1>1, <1>2, HeapLock DEF QBuf, Unlocked, InCall
<1>4. /\ Others(t) /\ GoesOn(t) /\ th'[t].at.pc = "bare"
      /\ Cell(t)' = Cell(t) /\ Call(t)' = Call(t)
  BY <1>1, <1>2, ThreadGoes DEF QBuf, Pcs
<1>5. InCall(t)'
  <2>1. DOMAIN heap' = DOMAIN heap /\ heap'[Cell(t)].refs = heap[Cell(t)].refs
    BY <1>2, <1>3 DEF OnlyLock
  <2>2. th'[t].open = th[t].open /\ th'[t].cam = th[t].cam
    BY <1>4 DEF GoesOn
  <2>. QED
    BY <1>1, <1>2, <1>4, <2>1, <2>2 DEF InCall, At, UserCalls
<1>. QED
  BY <1>1, <1>2, <1>3, <1>4, <1>5, QuietStep

LEMMA QBufDoneStep ==
    ASSUME CameraInv, CameraAssumption, NEW t \in Threads, QBufDone(t)
    PROVE  CameraInv'
<1>1. ~Out(t)
  BY DEF QBufDone, At, Out
<1>2. OnlyLock(Cell(t), heap[Cell(t)].lock)
  BY <1>1, StepsInObject, HeapOther DEF QBufDone
<1>. QED
  BY <1>1, <1>2, StepsInObject, LeavesStep DEF QBufDone

LEMMA EventStep ==
    ASSUME CameraInv, CameraAssumption, NEW t \in Threads, NEW calls, NEW state, Event(t, calls, state)
    PROVE  CameraInv'
<1>1. ~Out(t)
  BY DEF Event, At, Out
<1>2. OnlyLock(Cell(t), heap[Cell(t)].lock)
  BY <1>1, StepsInObject, HeapOther DEF Event, Moved
<1>. QED
  BY <1>1, <1>2, StepsInObject, LeavesStep DEF Event

LEMMA DelChannelStep ==
    ASSUME CameraInv, CameraAssumption, NEW t \in Threads, DelChannel(t)
    PROVE  CameraInv'
<1>1. ~Out(t)
  BY DEF DelChannel, At, Out
<1>2. OnlyLock(Cell(t), heap[Cell(t)].lock)
  BY <1>1, StepsInObject, HeapOther DEF DelChannel
<1>. QED
  BY <1>1, <1>2, StepsInObject, LeavesStep DEF DelChannel

LEMMA EvtUnsubscribeStep ==
    ASSUME CameraInv, CameraAssumption, NEW t \in Threads, EvtUnsubscribe(t)
    PROVE  CameraInv'
<1>1. /\ ~Out(t) /\ At(t, "locked") /\ Call(t) = "close_camera" /\ None \notin Threads
      /\ camObj' = camObj /\ intfLock' = intfLock /\ used' = used /\ history' = history
  BY DEF EvtUnsubscribe, At, Out, CameraAssumption
<1>2. /\ Cell(t) \in DOMAIN heap /\ Shapes /\ InCall(t) /\ history \in 0..(W - 1)
      /\ used \in [tags : 0..MaxTags, handles : 0..MaxHandles]
  BY <1>1, StepsInObject
<1>3. OnlyLock(Cell(t), heap[Cell(t)].lock) /\ heap[Cell(t)].lock = t
  BY <1>1, <1>2, HeapOther DEF EvtUnsubscribe, InCall
<1>4. /\ Others(t) /\ GoesOn(t) /\ th'[t].at.pc = "closing"
      /\ Cell(t)' = Cell(t) /\ Call(t)' = Call(t)
  BY <1>1, <1>2, ThreadGoes DEF EvtUnsubscribe, Pcs
<1>5. InCall(t)'
  <2>1. DOMAIN heap' = DOMAIN heap /\ heap'[Cell(t)].refs = heap[Cell(t)].refs /\ heap'[Cell(t)].lock = t
    BY <1>2, <1>3 DEF OnlyLock
  <2>2. th'[t].open = th[t].open /\ th'[t].cam = th[t].cam
    BY <1>4 DEF GoesOn
  <2>. QED
    BY <1>1, <1>2, <1>4, <2>1, <2>2 DEF InCall, At
<1>. QED
  BY <1>1, <1>2, <1>3, <1>4, <1>5, QuietStep

-----------------------------------------------------------------------------
(* The mapping requests and their answers.                                  *)

LEMMA AnswerStep ==
    ASSUME CameraInv, None \notin Threads, NEW t \in Threads, NEW o \in DOMAIN heap,
           DOMAIN heap' = DOMAIN heap, \A x \in DOMAIN heap \ {o} : heap'[x] = heap[x],
           IsObject(heap'[o]), heap'[o].hdl = heap[o].hdl, heap'[o].refs = heap[o].refs,
           heap'[o].lock = heap[o].lock \/ heap[o].lock \in {None, t},
           heap'[o].msgLock = heap[o].msgLock \/ heap[o].msgLock \in {None, t},
           Others(t), IsThread(th'[t]), th'[t].open = th[t].open, th'[t].cam = th[t].cam,
           th'[t].got.late \/ th'[t].got.by = th'[t].got.tag,
           \/ th'[t].at.pc = "out"
           \/ /\ th[t].at.pc # "out" /\ th'[t].at.call = th[t].at.call
              /\ th'[t].at.o = th[t].at.o /\ th[t].at.o = o,
           InCall(t)', AnswersOf(o)',
           camObj' = camObj, history' = history, intfLock' = intfLock,
           used' \in [tags : 0..MaxTags, handles : 0..MaxHandles]
    PROVE  CameraInv'
<1>1. Shapes
  BY DEF CameraInv
<1>2. Kept
  BY DEF Others, Kept
<1>3. LocksBy(t)
  BY DEF LocksBy
<1>4. Shapes'
  <2>1. \A u \in Threads : IsThread(th'[u])
    BY <1>1 DEF Shapes, Others
  <2>2. \A x \in DOMAIN heap : IsObject(heap'[x])
    BY <1>1 DEF Shapes
  <2>. QED
    BY <1>1, <2>1, <2>2 DEF Shapes, Others
<1>5. InCalls'
  BY <1>2, <1>3, OthersInCall DEF InCalls
<1>6. OneCloser'
  <2>1. Closer(t)' => Closer(t) /\ th'[t].at.o = th[t].at.o
    BY DEF Closer, Call, Out
  <2>. QED
    BY <2>1, KeptClosers
<1>7. Answers'
  <2>. SUFFICES ASSUME NEW x \in DOMAIN heap, x # o
                PROVE  AnswersOf(x)'
    BY DEF Answers
  <2>1. AnswersOf(x) /\ heap'[x] = heap[x]
    BY DEF CameraInv, Answers
  <2>2. ASSUME NEW u \in Threads, At(u, "wait")', Cell(u)' = x
        PROVE  th'[u] = th[u] /\ At(u, "wait") /\ Cell(u) = x
    BY <2>2 DEF Others, At, Cell
  <2>. QED
    BY <2>1, <2>2 DEF AnswersOf, AnswerOf
<1>8. OwnAnswer'
  <2>1. \A u \in Threads \ {t} : th'[u].got = th[u].got
    BY DEF Others
  <2>. QED
    BY <2>1 DEF CameraInv, OwnAnswer
<1>. QED
  BY <1>2, <1>4, <1>5, <1>6, <1>7, <1>8, KeptTable DEF CameraInv

LEMMA DisjointCalls ==
    MapCalls \cap UserCalls = {} /\ StreamMapCalls \subseteq UserCalls /\ MapCalls \cap StreamMapCalls = {}
    /\ "close_camera" \notin MapCalls \cup UserCalls
  BY DEF MapCalls, UserCalls, ChannelCalls, StreamMapCalls, StreamCalls, StartStopCalls,
         SuperBufCalls, ModeCalls, StreamParmCalls

(* How the released object goes on: with the answer r, timed out or not.    *)
ReleasedAs(h2, o, r, l) ==
  \/ heap' = h2 /\ r = 0 /\ l = heap[o].late
  \/ heap' = [h2 EXCEPT ![o].late = TRUE] /\ r = 0 /\ l = TRUE
  \/ heap' = [h2 EXCEPT ![o].rcvd = r] /\ l = heap[o].late

LEMMA HeapReleased ==
    ASSUME Shapes, NEW o \in DOMAIN heap, NEW t \in Threads, NEW r \in Nat, NEW l \in BOOLEAN,
           NEW h2, h2 = Released(t, o), ReleasedAs(h2, o, r, l)
    PROVE  /\ DOMAIN heap' = DOMAIN heap /\ \A x \in DOMAIN heap \ {o} : heap'[x] = heap[x]
           /\ IsObject(heap'[o])
           /\ heap'[o].hdl = heap[o].hdl /\ heap'[o].refs = heap[o].refs /\ heap'[o].asked = heap[o].asked
           /\ heap'[o].msgLock = None /\ heap'[o].rcvd = r /\ heap'[o].late = l
           /\ heap'[o].lock = IF Call(t) \in MapCalls THEN None ELSE heap[o].lock
<1>1. DOMAIN heap' = DOMAIN heap /\ \A x \in DOMAIN heap \ {o} : heap'[x] = heap[x]
  <2>1. DOMAIN h2 = DOMAIN heap /\ \A x \in DOMAIN heap \ {o} : h2[x] = heap[x]
    BY DEF Released
  <2>. QED
    BY <2>1 DEF ReleasedAs
<1>2. IsObject(heap[o])
  BY DEF Shapes
<1>. DEFINE h1 == [heap EXCEPT ![o].msgLock = None, ![o].rcvd = 0]
            free == IF Call(t) \in MapCalls THEN None ELSE heap[o].lock
<1>3. /\ DOMAIN h1 = DOMAIN heap /\ DOMAIN h1[o] = ObjFields
      /\ h1[o].msgLock = None /\ h1[o].rcvd = 0
      /\ \A f \in ObjFields \ {"msgLock", "rcvd"} : h1[o][f] = heap[o][f]
  BY <1>2 DEF IsObject, ObjFields
<1>4. h2 = IF Call(t) \in MapCalls THEN [h1 EXCEPT ![o].lock = None]
                                  ELSE [h1 EXCEPT ![o].ch[th[t].at.slot].lock = None]
  BY DEF Released
<1>. HIDE DEF h1
<1>5. /\ DOMAIN h2 = DOMAIN heap /\ DOMAIN h2[o] = ObjFields
      /\ h2[o].lock = free /\ h2[o].msgLock = None /\ h2[o].rcvd = 0
      /\ \A f \in ObjFields \ {"lock", "ch", "msgLock", "rcvd"} : h2[o][f] = heap[o][f]
  <2>1. CASE Call(t) \in MapCalls
    BY <1>3, <1>4, <2>1 DEF ObjFields
  <2>2. CASE Call(t) \notin MapCalls
    BY <1>3, <1>4, <2>2 DEF ObjFields
  <2>. QED
    BY <2>1, <2>2
<1>. HIDE DEF free
<1>7. /\ DOMAIN heap'[o] = ObjFields
      /\ heap'[o].lock = free /\ heap'[o].msgLock = None /\ heap'[o].rcvd = r /\ heap'[o].late = l
      /\ \A f \in ObjFields \ {"lock", "ch", "msgLock", "rcvd", "late"} : heap'[o][f] = heap[o][f]
  <2>1. CASE heap' = h2 /\ r = 0 /\ l = heap[o].late
    BY <1>5, <2>1 DEF ObjFields
  <2>2. CASE heap' = [h2 EXCEPT ![o].late = TRUE] /\ r = 0 /\ l = TRUE
    BY <1>5, <2>2 DEF ObjFields
  <2>3. CASE heap' = [h2 EXCEPT ![o].rcvd = r] /\ l = heap[o].late
    BY <1>5, <2>3 DEF ObjFields
  <2>. QED
    BY <2>1, <2>2, <2>3 DEF ReleasedAs
<1>8. free \in Threads \cup {None}
  BY <1>2 DEF free, IsObject
<1>9. IsObject(heap'[o])
  BY <1>2, <1>7, <1>8 DEF IsObject, ObjFields
<1>. QED
  BY <1>1, <1>7, <1>9 DEF free, ObjFields

(* The waiting call has its object's message lock, and its camera open or    *)
(* the camera's lock.                                                       *)
LEMMA Waiting ==
    ASSUME CameraInv, NEW t \in Threads, At(t, "wait")
    PROVE  /\ ~Out(t) /\ heap[Cell(t)].msgLock = t
           /\ Call(t) \in MapCalls => heap[Cell(t)].lock = t
           /\ ~heap[Cell(t)].late => AnswerOf(Cell(t), t)
           /\ \A u \in Threads : At(u, "wait") /\ Cell(u) = Cell(t) => u = t
<1>1. ~Out(t)
  BY DEF Out, At
<1>2. InCall(t) /\ Cell(t) \in DOMAIN heap
  BY <1>1, StepsInObject
<1>3. \A u \in Threads : At(u, "wait") => InCall(u) /\ ~Out(u)
  BY DEF CameraInv, InCalls, At, Out
<1>4. \A u \in Threads : At(u, "wait") => heap[Cell(u)].msgLock = u
  BY <1>3 DEF InCall
<1>5. Call(t) \in MapCalls => Call(t) \notin UserCalls
  BY DisjointCalls
<1>6. Call(t) \in MapCalls => heap[Cell(t)].lock = t
  BY <1>1, <1>2, <1>5 DEF InCall
<1>7. ~heap[Cell(t)].late => AnswerOf(Cell(t), t)
  BY <1>2 DEF CameraInv, Answers, AnswersOf
<1>. QED
  BY <1>1, <1>4, <1>6, <1>7

LEMMA SendMsgStep ==
    ASSUME CameraInv, CameraAssumption, NEW t \in Threads, SendMsg(t)
    PROVE  CameraInv'
<1>. SUFFICES ASSUME NEW o, o = Cell(t), NEW tag, tag = used.tags + 1
              PROVE  CameraInv'
  OBVIOUS
<1>1. /\ ~Out(t) /\ None \notin Threads /\ Sends(t) /\ heap[o].msgLock = None
      /\ camObj' = camObj /\ intfLock' = intfLock /\ history' = history
  BY DEF SendMsg, Sends, At, Out, CameraAssumption
<1>2. /\ Shapes /\ o \in DOMAIN heap /\ IsObject(heap[o]) /\ IsThread(th[t]) /\ InCall(t)
      /\ history \in 0..(W - 1) /\ DOMAIN th = Threads
  BY <1>1, StepsInObject DEF Shapes
<1>3. /\ used.tags \in Nat /\ used.tags \in 0..MaxTags /\ used.handles \in 0..MaxHandles
      /\ DOMAIN used = {"tags", "handles"} /\ MaxTags \in Nat
  BY <1>2 DEF Shapes, CameraAssumption
<1>4. ASSUME used.tags < MaxTags, used' = [used EXCEPT !.tags = tag],
             heap' = [heap EXCEPT ![o].msgLock = t, ![o].asked = Append(@, tag)],
             th' = [Goes(t, "wait") EXCEPT ![t].at.tag = tag]
      PROVE  CameraInv'
  <2>1. DOMAIN heap' = DOMAIN heap /\ \A x \in DOMAIN heap \ {o} : heap'[x] = heap[x]
    BY <1>4
  <2>2. /\ DOMAIN heap'[o] = ObjFields
        /\ heap'[o].msgLock = t /\ heap'[o].asked = Append(heap[o].asked, tag)
        /\ \A f \in ObjFields \ {"msgLock", "asked"} : heap'[o][f] = heap[o][f]
    BY <1>2, <1>4 DEF IsObject, ObjFields
  <2>3. tag \in Nat /\ used' \in [tags : 0..MaxTags, handles : 0..MaxHandles]
    <3>1. tag \in 0..MaxTags
      BY <1>3, <1>4
    <3>2. used \in [tags : 0..MaxTags, handles : 0..MaxHandles]
      BY <1>2 DEF Shapes
    <3>. QED
      BY <1>4, <3>1, <3>2
  <2>4. Append(heap[o].asked, tag) \in Seq(Nat)
    BY <1>2, <2>3 DEF IsObject
  <2>5. /\ IsObject(heap'[o]) /\ heap'[o].hdl = heap[o].hdl /\ heap'[o].refs = heap[o].refs
        /\ heap'[o].lock = heap[o].lock /\ heap'[o].rcvd = heap[o].rcvd /\ heap'[o].late = heap[o].late
    BY <1>2, <2>2, <2>4 DEF IsObject, ObjFields
  <2>6. Others(t)
    BY <1>2, <1>4 DEF Others, Goes
  <2>7. /\ DOMAIN th'[t] = DOMAIN th[t] /\ DOMAIN th'[t].at = DOMAIN th[t].at
        /\ th'[t].open = th[t].open /\ th'[t].cam = th[t].cam /\ th'[t].got = th[t].got
        /\ th'[t].at.pc = "wait" /\ th'[t].at.call = th[t].at.call /\ th'[t].at.o = th[t].at.o
        /\ th'[t].at.tag = tag
    BY <1>2, <1>4 DEF Goes, IsThread
  <2>8. IsThread(th'[t])
    BY <1>2, <2>3, <2>7 DEF IsThread, Pcs
  <2>9. InCall(t)'
    <3>1. Cell(t)' = o /\ Call(t)' = Call(t) /\ Cell(t) = o
      BY <2>7 DEF Cell, Call
    <3>2. Call(t) \in UserCalls \/ (Call(t) \in MapCalls /\ heap[o].lock = t)
      BY <1>1, <1>2, <3>1, DisjointCalls DEF Sends, InCall, At
    <3>3. Call(t) # "close_camera"
      BY <1>1, DisjointCalls DEF Sends
    <3>. QED
      BY <1>1, <1>2, <2>1, <2>2, <2>5, <2>7, <3>1, <3>2, <3>3 DEF InCall, At
  <2>10. AnswersOf(o)'
    <3>. SUFFICES ASSUME ~heap[o].late
                  PROVE  /\ heap'[o].msgLock # None
                         /\ \A u \in Threads : At(u, "wait")' /\ Cell(u)' = o => AnswerOf(o, u)'
      BY <2>5 DEF AnswersOf
    <3>1. heap[o].rcvd = 0 /\ heap[o].asked = <<>>
      BY <1>1, <1>2 DEF CameraInv, Answers, AnswersOf
    <3>2. heap'[o].asked = <<tag>>
      BY <2>2, <3>1
    <3>3. AnswerOf(o, t)'
      BY <2>5, <2>7, <3>1, <3>2 DEF AnswerOf
    <3>4. ASSUME NEW u \in Threads, At(u, "wait")', Cell(u)' = o, u # t
          PROVE  FALSE
      <4>1. At(u, "wait") /\ Cell(u) = o
        BY <2>6, <3>4 DEF Others, At, Cell
      <4>. QED
        BY <1>1, <4>1, Waiting
    <3>. QED
      BY <1>1, <2>2, <3>3, <3>4
  <2>11. th'[t].got.late \/ th'[t].got.by = th'[t].got.tag
    BY <2>7 DEF CameraInv, OwnAnswer
  <2>12. th[t].at.pc # "out" /\ th[t].at.o = o
    BY <1>1 DEF Out, Cell
  <2>13. o \in DOMAIN heap /\ heap[o].msgLock = None
    BY <1>1, <1>2
  <2>. QED
    BY <1>1, <1>2, <2>1, <2>2, <2>3, <2>5, <2>6, <2>7, <2>8, <2>9, <2>10, <2>11, <2>12, <2>13, AnswerStep
<1>5. ASSUME heap' = [Released(t, o) EXCEPT ![o].rcvd = heap[o].rcvd], th' = Returns(t), used' = used
      PROVE  CameraInv'
  <2>. DEFINE free == IF Call(t) \in MapCalls THEN None ELSE heap[o].lock
  <2>1. heap[o].rcvd \in Nat /\ heap[o].late \in BOOLEAN
    BY <1>2 DEF IsObject
  <2>2. ReleasedAs(Released(t, o), o, heap[o].rcvd, heap[o].late)
    BY <1>5, Zenon DEF ReleasedAs
  <2>3. OnlyLock(o, free)
    <3>1. /\ DOMAIN heap' = DOMAIN heap /\ \A x \in DOMAIN heap \ {o} : heap'[x] = heap[x]
          /\ IsObject(heap'[o])
          /\ heap'[o].hdl = heap[o].hdl /\ heap'[o].refs = heap[o].refs /\ heap'[o].asked = heap[o].asked
          /\ heap'[o].msgLock = None /\ heap'[o].rcvd = heap[o].rcvd /\ heap'[o].late = heap[o].late
          /\ heap'[o].lock = free
      BY <1>2, <2>1, <2>2, HeapReleased
    <3>2. \A x \in DOMAIN heap : IsObject(heap[x])
      BY <1>2 DEF Shapes
    <3>. QED
      BY <1>1, <3>1, <3>2 DEF OnlyLock, Alike
  <2>4. Call(t) \in MapCalls => At(t, "locked")
    BY <1>1, DisjointCalls DEF Sends
  <2>. QED
    BY <1>1, <1>2, <1>5, <2>3, <2>4, LeavesStep
<1>. QED
  BY <1>4, <1>5 DEF SendMsg

Ends(t, l, g) ==
  /\ th' = [Returns(t) EXCEPT ![t].got = g]
  /\ DOMAIN g = {"tag", "by", "late"} /\ (g.late \/ g.by = g.tag)
  /\ l \/ heap[Cell(t)].asked = <<>>

(* A wait that ends, with the answer that is there or none.                 *)
LEMMA WaitEnds ==
    ASSUME CameraInv, CameraAssumption, NEW t \in Threads, At(t, "wait"),
           NEW l \in BOOLEAN, ReleasedAs(Released(t, Cell(t)), Cell(t), 0, l),
           NEW g, Ends(t, l, g),
           camObj' = camObj, intfLock' = intfLock, history' = history, used' = used
    PROVE  CameraInv'
<1>. SUFFICES ASSUME NEW o, o = Cell(t)
              PROVE  CameraInv'
  OBVIOUS
<1>0. DOMAIN g = {"tag", "by", "late"} /\ (g.late \/ g.by = g.tag) /\ (l \/ heap[o].asked = <<>>)
  BY Zenon DEF Ends
<1>1. /\ ~Out(t) /\ heap[o].msgLock = t /\ None \notin Threads
      /\ Call(t) \in MapCalls => heap[o].lock = t
      /\ \A u \in Threads : At(u, "wait") /\ Cell(u) = o => u = t
  BY Waiting DEF CameraAssumption
<1>2. /\ Shapes /\ o \in DOMAIN heap /\ IsThread(th[t]) /\ DOMAIN th = Threads
  BY <1>1, StepsInObject DEF Shapes
<1>3. /\ DOMAIN heap' = DOMAIN heap /\ \A x \in DOMAIN heap \ {o} : heap'[x] = heap[x]
      /\ IsObject(heap'[o])
      /\ heap'[o].hdl = heap[o].hdl /\ heap'[o].refs = heap[o].refs /\ heap'[o].asked = heap[o].asked
      /\ heap'[o].msgLock = None /\ heap'[o].rcvd = 0 /\ heap'[o].late = l
      /\ heap'[o].lock = IF Call(t) \in MapCalls THEN None ELSE heap[o].lock
  <2>1. 0 \in Nat /\ ReleasedAs(Released(t, o), o, 0, l)
    OBVIOUS
  <2>. QED
    BY <1>2, <2>1, HeapReleased
<1>4. Others(t)
  BY <1>2 DEF Others, Returns, Ends
<1>5. /\ th'[t].at = Idle /\ DOMAIN th'[t] = DOMAIN th[t]
      /\ th'[t].open = th[t].open /\ th'[t].cam = th[t].cam /\ th'[t].got = g
  BY <1>2 DEF Returns, IsThread, Ends
<1>6. Idle.pc = "out" /\ Idle.tag = 0 /\ DOMAIN Idle = {"pc", "call", "o", "ch", "slot", "tag"}
  BY DEF Idle
<1>7. IsThread(th'[t]) /\ InCall(t)' /\ th'[t].at.pc = "out"
  BY <1>0, <1>2, <1>5, <1>6 DEF IsThread, InCall, Out, Pcs
<1>8. AnswersOf(o)'
  <2>1. ASSUME NEW u \in Threads, At(u, "wait")', Cell(u)' = o
        PROVE  FALSE
    <3>1. u # t
      BY <1>7, <2>1 DEF At
    <3>2. At(u, "wait") /\ Cell(u) = o
      BY <1>4, <2>1, <3>1 DEF Others, At, Cell
    <3>. QED
      BY <1>1, <3>1, <3>2
  <2>. QED
    BY <1>0, <1>3, <2>1 DEF AnswersOf
<1>9. used' \in [tags : 0..MaxTags, handles : 0..MaxHandles]
  BY <1>2 DEF Shapes
<1>10. th'[t].got.late \/ th'[t].got.by = th'[t].got.tag
  BY <1>0, <1>5, Zenon
<1>. QED
  BY <1>1, <1>2, <1>3, <1>4, <1>5, <1>7, <1>8, <1>9, <1>10, AnswerStep

LEMMA WaitForEventStep ==
    ASSUME CameraInv, CameraAssumption, NEW t \in Threads, WaitForEvent(t)
    PROVE  CameraInv'
<1>. DEFINE g == [tag |-> th[t].at.tag, by |-> heap[Cell(t)].rcvd, late |-> heap[Cell(t)].late]
<1>1. /\ At(t, "wait") /\ heap[Cell(t)].rcvd # 0
      /\ camObj' = camObj /\ intfLock' = intfLock /\ history' = history /\ used' = used
      /\ th' = [Returns(t) EXCEPT ![t].got = g]
  BY Zenon DEF WaitForEvent
<1>2. ReleasedAs(Released(t, Cell(t)), Cell(t), 0, heap[Cell(t)].late)
  BY DEF WaitForEvent, ReleasedAs
<1>3. ~heap[Cell(t)].late => heap[Cell(t)].rcvd = th[t].at.tag /\ heap[Cell(t)].asked = <<>>
  BY <1>1, Waiting DEF AnswerOf
<1>4. heap[Cell(t)].late \in BOOLEAN
  <2>1. ~Out(t)
    BY <1>1 DEF At, Out
  <2>. QED
    BY <2>1, StepsInObject DEF IsObject
<1>5. DOMAIN g = {"tag", "by", "late"} /\ (g.late \/ g.by = g.tag)
  BY <1>3, <1>4
<1>. HIDE DEF g
<1>6. Ends(t, heap[Cell(t)].late, g)
  BY <1>1, <1>3, <1>4, <1>5, Zenon DEF Ends
<1>. QED
  BY <1>1, <1>2, <1>4, <1>6, WaitEnds

LEMMA WaitTimesOutStep ==
    ASSUME CameraInv, CameraAssumption, NEW t \in Threads, WaitTimesOut(t)
    PROVE  CameraInv'
<1>. DEFINE g == [tag |-> th[t].at.tag, by |-> 0, late |-> TRUE]
<1>1. /\ At(t, "wait")
      /\ camObj' = camObj /\ intfLock' = intfLock /\ history' = history /\ used' = used
      /\ th' = [Returns(t) EXCEPT ![t].got = g]
  BY Zenon DEF WaitTimesOut
<1>2. ReleasedAs(Released(t, Cell(t)), Cell(t), 0, TRUE)
  BY Zenon DEF WaitTimesOut, ReleasedAs
<1>3. DOMAIN g = {"tag", "by", "late"} /\ g.late
  OBVIOUS
<1>. HIDE DEF g
<1>4. Ends(t, TRUE, g)
  BY <1>1, <1>3, Zenon DEF Ends
<1>. QED
  BY <1>1, <1>2, <1>4, WaitEnds

-----------------------------------------------------------------------------
(* The poll thread and the dispatch thread.                                 *)

LEMMA ThreadsStay ==
    ASSUME CameraInv, CameraAssumption, NEW o \in DOMAIN heap,
           DOMAIN heap' = DOMAIN heap, \A x \in DOMAIN heap \ {o} : heap'[x] = heap[x],
           IsObject(heap'[o]), heap'[o].hdl = heap[o].hdl, heap'[o].refs = heap[o].refs,
           heap'[o].lock = heap[o].lock, heap'[o].msgLock = heap[o].msgLock,
           AnswersOf(o)', UNCHANGED <<camObj, intfLock, history, th, used>>
    PROVE  CameraInv'
<1>1. Shapes /\ None \notin Threads
  BY DEF CameraInv, CameraAssumption
<1>2. Kept
  BY DEF Kept
<1>3. Shapes'
  BY <1>1 DEF Shapes
<1>4. InCalls'
  <2>. SUFFICES ASSUME NEW u \in Threads, ~Out(u)
                PROVE  InCall(u)'
    BY DEF InCalls, InCall, Out
  <2>1. InCall(u)
    BY DEF CameraInv, InCalls
  <2>2. Cell(u) \in DOMAIN heap
    BY <2>1 DEF InCall
  <2>3. /\ heap'[Cell(u)].refs = heap[Cell(u)].refs /\ heap'[Cell(u)].lock = heap[Cell(u)].lock
        /\ heap'[Cell(u)].msgLock = heap[Cell(u)].msgLock
    BY <2>2
  <2>. QED
    BY <2>1, <2>3 DEF InCall, At, Cell, Call, Out
<1>5. OneCloser'
  BY DEF CameraInv, OneCloser, Closer, Cell, Call, Out
<1>6. Answers'
  <2>. SUFFICES ASSUME NEW x \in DOMAIN heap, x # o
                PROVE  AnswersOf(x)'
    BY DEF Answers
  <2>1. AnswersOf(x) /\ heap'[x] = heap[x]
    BY DEF CameraInv, Answers
  <2>. QED
    BY <2>1 DEF AnswersOf, AnswerOf, At, Cell
<1>7. OwnAnswer'
  BY DEF CameraInv, OwnAnswer
<1>. QED
  BY <1>2, <1>3, <1>4, <1>5, <1>6, <1>7, KeptTable DEF CameraInv

LEMMA MapDoneStep ==
    ASSUME CameraInv, CameraAssumption, NEW o \in DOMAIN heap, MapDone(o)
    PROVE  CameraInv'
<1>1. IsObject(heap[o])
  BY DEF CameraInv, Shapes
<1>2. heap' = [heap EXCEPT ![o].rcvd = Head(heap[o].asked), ![o].asked = Tail(heap[o].asked)]
  BY DEF MapDone
<1>3. /\ DOMAIN heap' = DOMAIN heap /\ \A x \in DOMAIN heap \ {o} : heap'[x] = heap[x]
      /\ DOMAIN heap'[o] = ObjFields
      /\ heap'[o].rcvd = Head(heap[o].asked) /\ heap'[o].asked = Tail(heap[o].asked)
      /\ \A f \in ObjFields \ {"rcvd", "asked"} : heap'[o][f] = heap[o][f]
  BY <1>1, <1>2 DEF IsObject, ObjFields
<1>4. heap[o].asked # <<>> /\ heap[o].asked \in Seq(Nat)
  BY <1>1 DEF MapDone, IsObject
<1>5. Head(heap[o].asked) \in Nat /\ Tail(heap[o].asked) \in Seq(Nat)
  BY <1>4
<1>6. /\ IsObject(heap'[o]) /\ heap'[o].hdl = heap[o].hdl /\ heap'[o].refs = heap[o].refs
      /\ heap'[o].lock = heap[o].lock /\ heap'[o].msgLock = heap[o].msgLock /\ heap'[o].late = heap[o].late
  BY <1>1, <1>3, <1>5 DEF IsObject, ObjFields
<1>7. AnswersOf(o)'
  <2>. SUFFICES ASSUME ~heap[o].late
                PROVE  AnswersOf(o)'
    BY <1>6 DEF AnswersOf
  <2>1. AnswersOf(o)
    BY DEF CameraInv, Answers
  <2>2. heap[o].msgLock # None
    BY <1>4, <2>1 DEF AnswersOf
  <2>3. ASSUME NEW u \in Threads, At(u, "wait"), Cell(u) = o
        PROVE  heap'[o].rcvd = th[u].at.tag /\ heap'[o].asked = <<>>
    <3>1. heap[o].asked = <<th[u].at.tag>>
      BY <1>4, <2>1, <2>3 DEF AnswersOf, AnswerOf
    <3>. QED
      BY <1>3, <3>1
  <2>. QED
    BY <1>6, <2>2, <2>3 DEF AnswersOf, AnswerOf, At, Cell, MapDone
<1>. QED
  BY <1>3, <1>6, <1>7, ThreadsStay DEF MapDone

LEMMA QueueStep ==
    ASSUME CameraInv, CameraAssumption, NEW o \in DOMAIN heap, EventNotify(o) \/ DispatchAppEvent(o)
    PROVE  CameraInv'
<1>1. PICK e : heap' = [heap EXCEPT ![o].evq = e]
  BY DEF EventNotify, DispatchAppEvent
<1>2. Shapes /\ UNCHANGED <<camObj, intfLock, history, th, used>>
  BY DEF CameraInv, EventNotify, DispatchAppEvent
<1>3. OnlyLock(o, heap[o].lock)
  BY <1>1, <1>2, HeapOther
<1>4. \A x \in DOMAIN heap \ {o} : heap'[x] = heap[x]
  BY <1>1
<1>5. AnswersOf(o)'
  <2>1. AnswersOf(o) /\ Alike(o)
    BY <1>3 DEF CameraInv, Answers, OnlyLock
  <2>. QED
    BY <1>2, <2>1 DEF AnswersOf, AnswerOf, At, Cell, Alike
<1>. QED
  BY <1>2, <1>3, <1>4, <1>5, ThreadsStay DEF OnlyLock, Alike

-----------------------------------------------------------------------------
(* The last closer frees the object: nobody else is inside it.              *)

LEMMA NobodyInside ==
    ASSUME CameraInv, None \notin Threads, NEW t \in Threads, At(t, "closing"),
           NEW u \in Threads, u # t, ~Out(u)
    PROVE  Cell(u) # Cell(t)
<1>1. ~Out(t) /\ InCall(t) /\ InCall(u)
  BY DEF CameraInv, InCalls, Out, At
<1>2. /\ Cell(t) \in DOMAIN heap /\ heap[Cell(t)].lock = t /\ heap[Cell(t)].refs = 0
      /\ Call(t) = "close_camera" /\ Closer(t)
  BY <1>1 DEF InCall, At, Closer
<1>. SUFFICES ASSUME Cell(u) = Cell(t)
              PROVE  FALSE
  OBVIOUS
<1>3. Call(u) # "close_camera"
  BY <1>2 DEF CameraInv, OneCloser, Closer
<1>4. Call(u) \in UserCalls => FALSE
  <2>. SUFFICES ASSUME Call(u) \in UserCalls
                PROVE  FALSE
    OBVIOUS
  <2>1. th[u].open /\ Cell(u) = camObj[th[u].cam[2]] /\ th[u].cam[2] \in CamIdx
    BY <1>1 DEF InCall, CameraInv, Shapes, IsThread
  <2>2. Opened(u)
    BY <2>1 DEF CameraInv, OpenKnown
  <2>3. heap[Cell(u)].refs > 0
    BY <2>1, <2>2 DEF CameraInv, Table, Opened
  <2>. QED
    BY <1>2, <2>3
<1>5. th[u].at.pc \in Pcs
  BY DEF CameraInv, Shapes, IsThread
<1>6. At(u, "found") => FALSE
  BY <1>1, <1>2, <1>3 DEF InCall
<1>7. At(u, "locked") \/ At(u, "closing") => FALSE
  BY <1>1, <1>2 DEF InCall
<1>8. At(u, "event") \/ At(u, "bare") => FALSE
  BY <1>1, <1>4 DEF InCall
<1>9. At(u, "wait") => FALSE
  BY <1>1, <1>2, <1>4 DEF InCall
<1>. QED
  BY <1>5, <1>6, <1>7, <1>8, <1>9 DEF At, Out, Pcs

LEMMA CloseDoneStep ==
    ASSUME CameraInv, CameraAssumption, NEW t \in Threads, CloseDone(t)
    PROVE  CameraInv'
<1>. SUFFICES ASSUME NEW o, o = Cell(t)
              PROVE  CameraInv'
  OBVIOUS
<1>1. /\ ~Out(t) /\ At(t, "closing") /\ None \notin Threads /\ th' = Returns(t)
      /\ heap' = [x \in DOMAIN heap \ {o} |-> heap[x]]
      /\ UNCHANGED <<camObj, intfLock, history, used>>
  BY DEF CloseDone, At, Out, CameraAssumption
<1>2. Shapes /\ o \in DOMAIN heap /\ InCall(t)
  BY <1>1, StepsInObject
<1>3. heap[o].refs = 0
  BY <1>1, <1>2 DEF InCall, At
<1>4. Others(t) /\ GoesOn(t) /\ InCall(t)' /\ th'[t].at.pc = "out"
  BY <1>1, <1>2, ThreadReturns
<1>5. DOMAIN heap' = DOMAIN heap \ {o} /\ \A x \in DOMAIN heap' : heap'[x] = heap[x]
  BY <1>1
<1>6. Shapes'
  <2>1. \A u \in Threads : IsThread(th'[u])
    BY <1>2, <1>4 DEF Shapes, Others, GoesOn
  <2>. QED
    BY <1>1, <1>2, <1>4, <1>5, <2>1 DEF Shapes, Others
<1>7. \A u \in Threads : th'[u].open = th[u].open /\ th'[u].cam = th[u].cam /\ th'[u].got = th[u].got
  BY <1>4 DEF Others, GoesOn
<1>8. \A i \in CamIdx : camObj[i] # None => camObj[i] \in DOMAIN heap' /\ camObj[i] # o
  BY <1>3, <1>5 DEF CameraInv, Table
<1>9. Table'
  BY <1>1, <1>5, <1>8 DEF CameraInv, Table
<1>10. Counted'
  <2>. SUFFICES ASSUME NEW x \in DOMAIN heap', heap[x].refs > 0
                PROVE  /\ camObj[heap[x].hdl[2]] = x
                       /\ IsFiniteSet(Openers(x)') /\ heap[x].refs = Cardinality(Openers(x)')
    BY <1>1, <1>5 DEF Counted
  <2>1. Openers(x)' = Openers(x)
    BY <1>5, <1>7 DEF Openers
  <2>. QED
    BY <1>5, <2>1 DEF CameraInv, Counted
<1>11. OpenKnown'
  <2>. SUFFICES ASSUME NEW u \in Threads, th[u].open
                PROVE  Opened(u)'
    BY <1>7 DEF OpenKnown
  <2>1. Opened(u) /\ th[u].cam[2] \in CamIdx
    BY <1>2 DEF CameraInv, OpenKnown, Shapes, IsThread
  <2>2. camObj[th[u].cam[2]] \in DOMAIN heap'
    BY <1>8, <2>1 DEF Opened
  <2>. QED
    BY <1>1, <1>5, <1>7, <2>1, <2>2 DEF Opened
<1>12. InCalls'
  <2>. SUFFICES ASSUME NEW u \in Threads, u # t, ~Out(u)
                PROVE  InCall(u)'
    BY <1>4 DEF InCalls, InCall, Out, Others
  <2>1. InCall(u) /\ Cell(u) # o /\ th'[u] = th[u]
    BY <1>1, <1>4, NobodyInside DEF CameraInv, InCalls, Others
  <2>2. Cell(u) \in DOMAIN heap' /\ heap'[Cell(u)] = heap[Cell(u)]
    BY <1>5, <2>1 DEF InCall
  <2>. QED
    BY <1>1, <2>1, <2>2 DEF InCall, At, Cell, Call, Out
<1>13. OneCloser'
  <2>1. ~Closer(t)'
    BY <1>4 DEF Closer, Out
  <2>. QED
    BY <1>4, <2>1, KeptClosers
<1>14. Answers'
  <2>1. \A x \in DOMAIN heap' : Alike(x)
    BY <1>5 DEF Alike
  <2>2. \A u \in Threads : th'[u].at.pc = "wait" => th'[u].at = th[u].at
    BY <1>4 DEF Others
  <2>. QED
    BY <1>5, <2>1, <2>2, KeptAnswers
<1>15. OwnAnswer'
  BY <1>7 DEF CameraInv, OwnAnswer
<1>. QED
  BY <1>6, <1>9, <1>10, <1>11, <1>12, <1>13, <1>14, <1>15 DEF CameraInv

-----------------------------------------------------------------------------
(* A call begins.                                                           *)

LEMMA OnlyOpener ==
    ASSUME CameraInv, NEW i \in CamIdx, camObj[i] # None, NEW t \in Threads, th[t].open,
           th[t].cam[2] = i, heap[camObj[i]].refs = 1, NEW u \in Threads, th[u].open, th[u].cam[2] = i
    PROVE  u = t
<1>. SUFFICES ASSUME NEW o, o = camObj[i]
              PROVE  u = t
  OBVIOUS
<1>1. o \in DOMAIN heap /\ heap[o].refs = 1
  BY DEF CameraInv, Table
<1>2. heap[o].hdl = th[t].cam /\ heap[o].hdl = th[u].cam
  BY DEF CameraInv, OpenKnown, Opened
<1>3. IsFiniteSet(Openers(o)) /\ Cardinality(Openers(o)) = 1
  BY <1>1 DEF CameraInv, Counted
<1>4. t \in Openers(o) /\ u \in Openers(o)
  BY <1>2 DEF Openers
<1>5. PICK x : Openers(o) = {x}
  BY <1>3, FS_Singleton
<1>. QED
  BY <1>4, <1>5

LEMMA CameraFound ==
    ASSUME CameraInv, CameraAssumption, NEW t \in Threads
    PROVE  /\ th[t].cam[2] \in CamIdx
           /\ CameraOf(th[t].cam) # None =>
                /\ CameraOf(th[t].cam) = camObj[th[t].cam[2]] /\ camObj[th[t].cam[2]] # None
                /\ heap[camObj[th[t].cam[2]]].hdl = th[t].cam
                /\ camObj[th[t].cam[2]] \in DOMAIN heap /\ heap[camObj[th[t].cam[2]]].refs > 0
<1>1. th[t].cam[2] \in CamIdx
  BY DEF CameraInv, Shapes, IsThread
<1>2. CameraOf(th[t].cam) # None =>
        /\ CameraOf(th[t].cam) = camObj[th[t].cam[2]] /\ camObj[th[t].cam[2]] # None
        /\ heap[camObj[th[t].cam[2]]].hdl = th[t].cam
  BY DEF CameraOf
<1>. QED
  BY <1>1, <1>2 DEF CameraInv, Table

LEMMA EnterBound ==
    ASSUME CameraInv, CameraAssumption, NEW t \in Threads, NEW call, NEW h, Enter(t, call, h)
    PROVE  /\ used' \in [tags : 0..MaxTags, handles : 0..MaxHandles] /\ history' = history
           /\ None \notin Threads /\ Out(t) /\ intfLock = None /\ Shapes
           /\ call \in UserCalls \cup {"close_camera"} => th[t].open
<1>1. /\ used \in [tags : 0..MaxTags, handles : 0..MaxHandles] /\ Shapes
      /\ MaxHandles \in Nat /\ None \notin Threads
  BY DEF CameraInv, Shapes, CameraAssumption
<1>2. /\ MayAsk(t, call, h) /\ history' = history /\ Out(t) /\ intfLock = None
      /\ used' = IF call = "add_channel" THEN [used EXCEPT !.handles = @ + 1] ELSE used
  BY DEF Enter
<1>3. call = "add_channel" => used.handles < MaxHandles
  BY <1>2 DEF MayAsk
<1>4. used' \in [tags : 0..MaxTags, handles : 0..MaxHandles]
  <2>1. CASE call = "add_channel"
    <3>1. used.handles \in 0..MaxHandles /\ used.handles < MaxHandles
      BY <1>1, <1>3, <2>1
    <3>2. used.handles + 1 \in 0..MaxHandles
      BY <1>1, <3>1
    <3>. QED
      BY <1>1, <1>2, <2>1, <3>2
  <2>2. CASE call # "add_channel"
    BY <1>1, <1>2, <2>2
  <2>. QED
    BY <2>1, <2>2
<1>5. call \in UserCalls => th[t].open
  BY <1>2 DEF MayAsk, UserCalls
<1>6. call = "close_camera" => th[t].open
  BY <1>2 DEF MayAsk
<1>. QED
  BY <1>1, <1>2, <1>4, <1>5, <1>6

(* No camera is found for the handle.                                       *)
LEMMA EnterNone ==
    ASSUME CameraInv, CameraAssumption, NEW t \in Threads,
           th' = Returns(t) \/ (th' = th /\ Out(t)), heap' = heap, camObj' = camObj, intfLock' = intfLock,
           history' \in 0..(W - 1), used' \in [tags : 0..MaxTags, handles : 0..MaxHandles]
    PROVE  CameraInv'
<1>1. Shapes /\ None \notin Threads
  BY DEF CameraInv, CameraAssumption
<1>2. Others(t) /\ GoesOn(t) /\ InCall(t)'
  <2>1. CASE th' = Returns(t)
    BY <1>1, <2>1, ThreadReturns
  <2>2. CASE th' = th /\ Out(t)
    BY <1>1, <2>2 DEF Others, GoesOn, InCall, Out, Shapes
  <2>. QED
    BY <2>1, <2>2
<1>3. OnlyLock(None, heap[None].lock)
  BY <1>1 DEF OnlyLock, Alike, Shapes
<1>. QED
  BY <1>1, <1>2, <1>3, QuietStep

(* One of several references is given back.                                 *)
LEMMA EnterCloseShared ==
    ASSUME CameraInv, CameraAssumption, NEW t \in Threads, th[t].open, Out(t),
           NEW o, o # None, o = CameraOf(th[t].cam), heap[o].refs > 1,
           heap' = [heap EXCEPT ![o].refs = @ - 1],
           NEW r, r = Returns(t), th' = [r EXCEPT ![t].open = FALSE],
           UNCHANGED <<camObj, intfLock, history>>,
           used' \in [tags : 0..MaxTags, handles : 0..MaxHandles]
    PROVE  CameraInv'
<1>. SUFFICES ASSUME NEW idx, idx = th[t].cam[2]
              PROVE  CameraInv'
  OBVIOUS
<1>1. /\ idx \in CamIdx /\ o = camObj[idx] /\ heap[o].hdl = th[t].cam /\ o \in DOMAIN heap
      /\ Shapes /\ IsObject(heap[o]) /\ None \notin Threads /\ DOMAIN th = Threads /\ IsThread(th[t])
  BY CameraFound DEF CameraInv, Shapes, CameraAssumption
<1>2. /\ DOMAIN heap' = DOMAIN heap /\ \A x \in DOMAIN heap \ {o} : heap'[x] = heap[x]
      /\ DOMAIN heap'[o] = ObjFields /\ heap'[o].refs = heap[o].refs - 1
      /\ \A f \in ObjFields \ {"refs"} : heap'[o][f] = heap[o][f]
  BY <1>1 DEF IsObject, ObjFields
<1>3. heap[o].refs \in Nat /\ heap'[o].refs \in Nat /\ heap'[o].refs > 0
  <2>1. heap[o].refs \in Nat
    BY <1>1, Zenon DEF IsObject
  <2>2. heap'[o].refs = heap[o].refs - 1 /\ heap[o].refs > 1
    BY <1>2, Zenon
  <2>. QED
    BY <2>1, <2>2, SMTT(30)
<1>4. IsObject(heap'[o]) /\ heap'[o].hdl = heap[o].hdl /\ heap'[o].lock = heap[o].lock /\ Alike(o)
  BY <1>1, <1>2, <1>3 DEF IsObject, ObjFields, Alike
<1>5. DOMAIN r = Threads /\ (\A u \in Threads \ {t} : r[u] = th[u])
      /\ r[t].at = Idle /\ DOMAIN r[t] = DOMAIN th[t] /\ r[t].cam = th[t].cam /\ r[t].got = th[t].got
  BY <1>1 DEF Returns, IsThread
<1>6. Others(t) /\ th'[t].at = Idle /\ DOMAIN th'[t] = DOMAIN th[t]
      /\ th'[t].cam = th[t].cam /\ th'[t].got = th[t].got /\ th'[t].open = FALSE
  BY <1>1, <1>5 DEF Others, IsThread
<1>7. Idle.pc = "out" /\ Idle.tag = 0 /\ DOMAIN Idle = {"pc", "call", "o", "ch", "slot", "tag"}
  BY DEF Idle
<1>8. IsThread(th'[t]) /\ th'[t].at.pc = "out"
  <2>1. /\ DOMAIN th'[t] = {"at", "cam", "open", "ch", "got"} /\ DOMAIN th'[t].got = {"tag", "by", "late"}
        /\ th'[t].cam \in Nat \X CamIdx /\ th'[t].open \in BOOLEAN
    BY <1>1, <1>6 DEF IsThread
  <2>2. /\ DOMAIN th'[t].at = {"pc", "call", "o", "ch", "slot", "tag"}
        /\ th'[t].at.pc = "out" /\ th'[t].at.tag = 0
    BY <1>6, <1>7
  <2>3. 0 \in Nat /\ "out" \in Pcs
    BY DEF Pcs
  <2>. QED
    BY <2>1, <2>2, <2>3, Zenon DEF IsThread
<1>9. Shapes'
  BY <1>1, <1>2, <1>4, <1>6, <1>8 DEF Shapes, Others
<1>10. Table'
  <2>1. camObj' = camObj
    OBVIOUS
  <2>2. \A x \in DOMAIN heap : heap'[x].hdl = heap[x].hdl /\ (heap[x].refs > 0 => heap'[x].refs > 0)
    BY <1>2, <1>3, <1>4
  <2>. QED
    BY <1>2, <2>1, <2>2 DEF CameraInv, Table
<1>11. Counted'
  <2>. SUFFICES ASSUME NEW x \in DOMAIN heap, heap'[x].refs > 0
                PROVE  /\ camObj[heap'[x].hdl[2]] = x
                       /\ IsFiniteSet(Openers(x)') /\ heap'[x].refs = Cardinality(Openers(x)')
    BY <1>2 DEF Counted
  <2>1. /\ camObj[heap[x].hdl[2]] = x /\ heap'[x].hdl = heap[x].hdl
        /\ IsFiniteSet(Openers(x)) /\ heap[x].refs = Cardinality(Openers(x))
    BY <1>2, <1>3, <1>4 DEF CameraInv, Counted
  <2>2. Openers(x)' = Openers(x) \ {t}
    BY <1>6, <2>1 DEF Openers, Others
  <2>3. CASE x = o
    <3>1. t \in Openers(o)
      BY <1>1 DEF Openers
    <3>2. IsFiniteSet(Openers(o) \ {t}) /\ Cardinality(Openers(o) \ {t}) = Cardinality(Openers(o)) - 1
      BY <2>1, <2>3, <3>1, FS_RemoveElement
    <3>. QED
      BY <1>2, <2>1, <2>2, <2>3, <3>2
  <2>4. CASE x # o
    <3>1. t \notin Openers(x)
      BY <1>1, <2>1, <2>4 DEF Openers
    <3>2. Openers(x)' = Openers(x)
      BY <2>2, <3>1
    <3>3. heap'[x] = heap[x]
      BY <1>2, <2>4
    <3>. QED
      BY <2>1, <3>2, <3>3, Zenon
  <2>. QED
    BY <2>3, <2>4
<1>12. OpenKnown'
  <2>. SUFFICES ASSUME NEW u \in Threads, th'[u].open
                PROVE  Opened(u)'
    BY DEF OpenKnown
  <2>1. u # t /\ th'[u] = th[u]
    BY <1>6 DEF Others
  <2>2. Opened(u) /\ th[u].cam[2] \in CamIdx
    BY <1>1, <2>1 DEF CameraInv, OpenKnown, Shapes, IsThread
  <2>3. camObj[th[u].cam[2]] \in DOMAIN heap
    BY <2>2 DEF CameraInv, Table, Opened
  <2>. QED
    BY <1>2, <1>4, <2>1, <2>2, <2>3 DEF Opened
<1>13. InCalls'
  <2>1. InCall(t)'
    BY <1>8 DEF InCall, Out
  <2>2. ASSUME NEW u \in Threads, u # t, ~Out(u)
        PROVE  InCall(u)'
    <3>1. InCall(u)
      BY DEF CameraInv, InCalls
    <3>3. th'[u] = th[u] /\ camObj' = camObj /\ intfLock' = intfLock
      BY <1>6, <2>2 DEF Others
    <3>2. /\ Cell(u) \in DOMAIN heap
          /\ heap'[Cell(u)].lock = heap[Cell(u)].lock /\ heap'[Cell(u)].msgLock = heap[Cell(u)].msgLock
          /\ heap[Cell(u)].refs > 0 => heap'[Cell(u)].refs > 0
          /\ heap[Cell(u)].refs = 0 => heap'[Cell(u)].refs = 0
      <4>1. Cell(u) \in DOMAIN heap
        BY <2>2, <3>1 DEF InCall
      <4>2. CASE Cell(u) = o
        <5>1. heap[o].refs > 0 /\ heap[o].refs # 0 /\ heap'[o].refs > 0
          BY <1>3
        <5>2. heap'[o].lock = heap[o].lock /\ heap'[o].msgLock = heap[o].msgLock
          BY <1>4 DEF Alike
        <5>. QED
          BY <4>1, <4>2, <5>1, <5>2
      <4>3. CASE Cell(u) # o
        BY <1>2, <4>1, <4>3
      <4>. QED
        BY <4>1, <4>2, <4>3
    <3>. QED
      BY <1>2, <3>1, <3>2, <3>3 DEF InCall, At, Cell, Call, Out
  <2>. QED
    BY <2>1, <2>2, <1>6 DEF InCalls, InCall, Out, Others
<1>14. OneCloser'
  <2>1. ~Closer(t)'
    BY <1>8 DEF Closer, Out
  <2>. QED
    BY <1>6, <2>1, KeptClosers
<1>15. Answers'
  <2>1. \A x \in DOMAIN heap' : Alike(x)
    BY <1>2, <1>4 DEF Alike
  <2>2. \A u \in Threads : th'[u].at.pc = "wait" => th'[u].at = th[u].at
    BY <1>6, <1>8 DEF Others
  <2>. QED
    BY <1>2, <2>1, <2>2, KeptAnswers
<1>16. OwnAnswer'
  BY <1>6 DEF CameraInv, OwnAnswer, Others
<1>. QED
  BY <1>9, <1>10, <1>11, <1>12, <1>13, <1>14, <1>15, <1>16 DEF CameraInv

(* The thread of a call that has found its camera.                          *)
StartsAt(t, call, o) ==
  /\ Others(t) /\ IsThread(th'[t])
  /\ th'[t].at.pc = "found" /\ th'[t].at.call = call /\ th'[t].at.o = o
  /\ th'[t].cam = th[t].cam /\ th'[t].got = NoAnswer
  /\ th'[t].open <=> th[t].open /\ call # "close_camera"

LEMMA EnterThread ==
    ASSUME Shapes, NEW t \in Threads, NEW call, NEW o, NEW h, NEW a, NEW b \in BOOLEAN,
           a = [Idle EXCEPT !.pc = "found", !.call = call, !.o = o, !.ch = h],
           b <=> th[t].open /\ call # "close_camera",
           th' = [th EXCEPT ![t].at = a, ![t].open = b, ![t].got = NoAnswer]
    PROVE  StartsAt(t, call, o)
<1>1. DOMAIN th = Threads /\ IsThread(th[t])
  BY DEF Shapes
<1>2. Others(t)
  BY <1>1 DEF Others
<1>3. /\ a.pc = "found" /\ a.call = call /\ a.o = o /\ a.tag = 0
      /\ DOMAIN a = {"pc", "call", "o", "ch", "slot", "tag"}
  BY DEF Idle
<1>4. DOMAIN NoAnswer = {"tag", "by", "late"}
  BY DEF NoAnswer
<1>5. /\ DOMAIN th'[t] = {"at", "cam", "open", "ch", "got"} /\ th'[t].cam = th[t].cam
      /\ th'[t].at = a /\ th'[t].got = NoAnswer /\ th'[t].open = b
  BY <1>1 DEF IsThread
<1>6. "found" \in Pcs /\ 0 \in Nat /\ th[t].cam \in Nat \X CamIdx
  BY <1>1 DEF Pcs, IsThread
<1>7. IsThread(th'[t])
  BY <1>3, <1>4, <1>5, <1>6, ZenonT(40) DEF IsThread
<1>. QED
  BY <1>2, <1>3, <1>5, <1>7, Zenon DEF StartsAt

LEMMA EnterFound ==
    ASSUME CameraInv, CameraAssumption, NEW t \in Threads, Out(t), intfLock = None,
           NEW call, call # "close_camera", call \in UserCalls => th[t].open,
           NEW o, o # None, o = CameraOf(th[t].cam), StartsAt(t, call, o),
           heap' = heap, camObj' = camObj, intfLock' = t, history' = history,
           used' \in [tags : 0..MaxTags, handles : 0..MaxHandles]
    PROVE  CameraInv'
<1>1. /\ o = camObj[th[t].cam[2]] /\ o \in DOMAIN heap /\ heap[o].refs > 0
      /\ Shapes /\ None \notin Threads
  BY CameraFound DEF CameraInv, CameraAssumption
<1>2. /\ Others(t) /\ IsThread(th'[t]) /\ th'[t].at.pc = "found" /\ th'[t].at.call = call
      /\ th'[t].at.o = o /\ th'[t].cam = th[t].cam /\ th'[t].got = NoAnswer
  BY DEF StartsAt
<1>3. th'[t].open = th[t].open
  <2>1. th'[t].open \in BOOLEAN /\ th[t].open \in BOOLEAN
    BY <1>1, <1>2 DEF Shapes, IsThread
  <2>2. th'[t].open <=> th[t].open
    BY DEF StartsAt
  <2>. QED
    BY <2>1, <2>2
<1>4. Kept
  BY <1>2, <1>3 DEF Kept, Others
<1>5. LocksBy(t)
  BY DEF LocksBy
<1>6. Shapes'
  BY <1>1, <1>2 DEF Shapes, Others
<1>7. InCall(t)'
  BY <1>1, <1>2, <1>3 DEF InCall, At, Cell, Call, Out
<1>8. InCalls'
  BY <1>1, <1>2, <1>4, <1>5, <1>7, OthersInCall DEF InCalls
<1>9. OneCloser'
  <2>1. ~Closer(t)'
    BY <1>2 DEF Closer, Call
  <2>. QED
    BY <1>2, <2>1, KeptClosers
<1>10. Answers'
  <2>1. \A x \in DOMAIN heap' : Alike(x)
    BY DEF Alike
  <2>2. \A u \in Threads : th'[u].at.pc = "wait" => th'[u].at = th[u].at
    BY <1>2 DEF Others
  <2>. QED
    BY <2>1, <2>2, KeptAnswers
<1>11. OwnAnswer'
  <2>1. NoAnswer.by = NoAnswer.tag
    BY DEF NoAnswer
  <2>. QED
    BY <1>2, <2>1 DEF CameraInv, OwnAnswer, Others
<1>. QED
  BY <1>4, <1>6, <1>8, <1>9, <1>10, <1>11, KeptTable DEF CameraInv

(* The last reference is given back: nobody else has the camera open.       *)
LEMMA EnterClose ==
    ASSUME CameraInv, CameraAssumption, NEW t \in Threads, Out(t), intfLock = None, th[t].open,
           NEW o, o # None, o = CameraOf(th[t].cam), StartsAt(t, "close_camera", o), ~(heap[o].refs > 1),
           heap' = [heap EXCEPT ![o].refs = 0], NEW idx, idx = th[t].cam[2],
           camObj' = [camObj EXCEPT ![idx] = None],
           intfLock' = t, history' = history,
           used' \in [tags : 0..MaxTags, handles : 0..MaxHandles]
    PROVE  CameraInv'
<1>1. /\ idx \in CamIdx /\ o = camObj[idx] /\ heap[o].hdl = th[t].cam /\ o \in DOMAIN heap
      /\ heap[o].refs > 0 /\ Shapes /\ IsObject(heap[o]) /\ None \notin Threads
  BY CameraFound DEF CameraInv, Shapes, CameraAssumption
<1>2. /\ DOMAIN heap' = DOMAIN heap /\ \A x \in DOMAIN heap \ {o} : heap'[x] = heap[x]
      /\ DOMAIN heap'[o] = ObjFields /\ heap'[o].refs = 0
      /\ \A f \in ObjFields \ {"refs"} : heap'[o][f] = heap[o][f]
  BY <1>1 DEF IsObject, ObjFields
<1>3. heap[o].refs = 1
  BY <1>1 DEF IsObject
<1>4. IsObject(heap'[o]) /\ heap'[o].hdl = heap[o].hdl /\ heap'[o].lock = heap[o].lock /\ Alike(o)
  BY <1>1, <1>2 DEF IsObject, ObjFields, Alike
<1>5. /\ Others(t) /\ IsThread(th'[t]) /\ th'[t].at.pc = "found" /\ th'[t].at.call = "close_camera"
      /\ th'[t].at.o = o /\ th'[t].cam = th[t].cam /\ th'[t].got = NoAnswer /\ ~th'[t].open
  BY DEF StartsAt
<1>6. /\ DOMAIN camObj' = CamIdx /\ camObj'[idx] = None
      /\ \A i \in CamIdx \ {idx} : camObj'[i] = camObj[i] /\ camObj[i] # o
  BY <1>1 DEF Shapes, CameraInv, Table
<1>7. \A u \in Threads : th[u].open /\ u # t => th[u].cam[2] # idx
  BY <1>1, <1>3, OnlyOpener
<1>8. Shapes'
  BY <1>1, <1>2, <1>4, <1>5 DEF Shapes, Others
<1>9. Table'
  BY <1>2, <1>6 DEF CameraInv, Table
<1>10. Counted'
  <2>. SUFFICES ASSUME NEW x \in DOMAIN heap, x # o, heap[x].refs > 0
                PROVE  /\ camObj'[heap[x].hdl[2]] = x
                       /\ IsFiniteSet(Openers(x)') /\ heap[x].refs = Cardinality(Openers(x)')
    BY <1>2 DEF Counted
  <2>1. /\ camObj[heap[x].hdl[2]] = x /\ heap'[x] = heap[x]
        /\ IsFiniteSet(Openers(x)) /\ heap[x].refs = Cardinality(Openers(x))
    BY <1>2 DEF CameraInv, Counted
  <2>2. heap[x].hdl # heap[o].hdl /\ heap[x].hdl[2] # idx /\ heap[x].hdl[2] \in CamIdx
    BY <1>1, <2>1 DEF Shapes, IsObject
  <2>3. Openers(x)' = Openers(x)
    BY <1>1, <1>5, <2>1, <2>2 DEF Openers, Others
  <2>. QED
    BY <1>6, <2>1, <2>2, <2>3
<1>11. OpenKnown'
  <2>. SUFFICES ASSUME NEW u \in Threads, th'[u].open
                PROVE  Opened(u)'
    BY DEF OpenKnown
  <2>1. u # t /\ th'[u] = th[u] /\ th[u].open
    BY <1>5 DEF Others
  <2>2. Opened(u) /\ th[u].cam[2] \in CamIdx \ {idx}
    BY <1>1, <1>7, <2>1 DEF CameraInv, OpenKnown, Shapes, IsThread
  <2>3. camObj[th[u].cam[2]] \in DOMAIN heap \ {o}
    BY <1>6, <2>2 DEF CameraInv, Table, Opened
  <2>. QED
    BY <1>2, <1>6, <2>1, <2>2, <2>3 DEF Opened
<1>12. InCall(t)'
  <2>1. "close_camera" \notin UserCalls
    BY DEF UserCalls, ChannelCalls, StreamCalls, StartStopCalls, SuperBufCalls, ModeCalls,
           StreamParmCalls, StreamMapCalls
  <2>. QED
    BY <1>1, <1>2, <1>5, <2>1 DEF InCall, At, Cell, Call, Out
<1>13. ASSUME NEW u \in Threads, u # t, ~Out(u)
       PROVE  InCall(u)' /\ (Call(u) = "close_camera" => Cell(u) # o) /\ th'[u] = th[u]
  <2>1. InCall(u)
    BY DEF CameraInv, InCalls
  <2>2. th'[u] = th[u] /\ Cell(u) \in DOMAIN heap
    BY <1>5, <1>13, <2>1 DEF Others, InCall
  <2>3. ~At(u, "found")
    BY <1>1, <1>13, <2>1 DEF InCall
  <2>4. Call(u) = "close_camera" => Cell(u) # o /\ heap'[Cell(u)].refs = 0
    <3>1. Call(u) = "close_camera" => heap[Cell(u)].refs = 0
      BY <1>13, <2>1 DEF InCall
    <3>. QED
      BY <1>2, <1>3, <2>2, <3>1
  <2>5. Call(u) \in UserCalls => th[u].open /\ Cell(u) = camObj'[th[u].cam[2]]
    <3>1. Call(u) \in UserCalls => th[u].open /\ Cell(u) = camObj[th[u].cam[2]]
      BY <1>13, <2>1 DEF InCall
    <3>2. th[u].cam[2] \in CamIdx
      BY <1>1 DEF Shapes, IsThread
    <3>. QED
      BY <1>6, <1>7, <1>13, <3>1, <3>2
  <2>6. heap'[Cell(u)].lock = heap[Cell(u)].lock /\ heap'[Cell(u)].msgLock = heap[Cell(u)].msgLock
    <3>1. CASE Cell(u) = o
      BY <1>4, <3>1 DEF Alike
    <3>2. CASE Cell(u) # o
      BY <1>2, <2>2, <3>2
    <3>. QED
      BY <3>1, <3>2
  <2>7. InCall(u)'
    BY <1>2, <1>13, <2>1, <2>2, <2>3, <2>4, <2>5, <2>6 DEF InCall, At, Cell, Call, Out
  <2>. QED
    BY <2>2, <2>4, <2>7
<1>14. InCalls'
  BY <1>5, <1>12, <1>13 DEF InCalls, InCall, Out, Others
<1>15. OneCloser'
  <2>1. ASSUME NEW u \in Threads, u # t, Closer(u)'
        PROVE  Closer(u) /\ Cell(u)' = Cell(u) /\ Cell(u) # o
    <3>1. ~Out(u) /\ th'[u] = th[u] /\ Call(u) = "close_camera"
      BY <1>5, <2>1 DEF Closer, Out, Others, Call
    <3>. QED
      BY <1>13, <2>1, <3>1 DEF Closer, Cell
  <2>2. Cell(t)' = o
    BY <1>5 DEF Cell
  <2>. QED
    BY <2>1, <2>2 DEF CameraInv, OneCloser
<1>16. Answers'
  <2>1. \A x \in DOMAIN heap' : Alike(x)
    BY <1>2, <1>4 DEF Alike
  <2>2. \A u \in Threads : th'[u].at.pc = "wait" => th'[u].at = th[u].at
    BY <1>5 DEF Others
  <2>. QED
    BY <1>2, <2>1, <2>2, KeptAnswers
<1>17. OwnAnswer'
  <2>1. NoAnswer.by = NoAnswer.tag
    BY DEF NoAnswer
  <2>. QED
    BY <1>5, <2>1 DEF CameraInv, OwnAnswer, Others
<1>. QED
  BY <1>8, <1>9, <1>10, <1>11, <1>14, <1>15, <1>16, <1>17 DEF CameraInv

LEMMA EnterStep ==
    ASSUME CameraInv, CameraAssumption, NEW t \in Threads, NEW call, NEW h, Enter(t, call, h)
    PROVE  CameraInv'
<1>. SUFFICES ASSUME NEW o, o = CameraOf(th[t].cam)
              PROVE  CameraInv'
  OBVIOUS
<1>1. /\ used' \in [tags : 0..MaxTags, handles : 0..MaxHandles] /\ history' = history
      /\ Out(t) /\ intfLock = None /\ Shapes /\ history' \in 0..(W - 1)
      /\ call \in UserCalls \cup {"close_camera"} => th[t].open
  BY EnterBound DEF Shapes
<1>2. CASE o = None /\ th' = Returns(t) /\ UNCHANGED <<intfLock, heap, camObj>>
  BY <1>1, <1>2, EnterNone
<1>3. CASE /\ o # None /\ call = "close_camera" /\ heap[o].refs > 1
           /\ heap' = [heap EXCEPT ![o].refs = @ - 1]
           /\ th' = [Returns(t) EXCEPT ![t].open = FALSE]
           /\ UNCHANGED <<intfLock, camObj>>
  <2>1. PICK r : r = Returns(t)
    OBVIOUS
  <2>2. th' = [r EXCEPT ![t].open = FALSE]
    BY <1>3, <2>1
  <2>. QED
    BY <1>1, <1>3, <2>1, <2>2, EnterCloseShared
<1>4. CASE /\ o # None /\ ~(call = "close_camera" /\ heap[o].refs > 1)
           /\ intfLock' = t
           /\ th' = [th EXCEPT ![t].at = [Idle EXCEPT !.pc = "found", !.call = call,
                                                      !.o = o, !.ch = h],
                               ![t].open = @ /\ call # "close_camera",
                               ![t].got = NoAnswer]
           /\ heap' = IF call = "close_camera" THEN [heap EXCEPT ![o].refs = 0] ELSE heap
           /\ camObj' = IF call = "close_camera"
                          THEN [camObj EXCEPT ![th[t].cam[2]] = None] ELSE camObj
  <2>1. StartsAt(t, call, o)
    <3>1. PICK a : a = [Idle EXCEPT !.pc = "found", !.call = call, !.o = o, !.ch = h]
      OBVIOUS
    <3>2. PICK b \in BOOLEAN : b <=> th[t].open /\ call # "close_camera"
      OBVIOUS
    <3>3. th' = [th EXCEPT ![t].at = a, ![t].open = b, ![t].got = NoAnswer]
      <4>1. DOMAIN th = Threads /\ th[t].open \in BOOLEAN
        BY <1>1 DEF Shapes, IsThread
      <4>. QED
        BY <1>4, <3>1, <3>2, <4>1
    <3>. QED
      BY <1>1, <3>1, <3>2, <3>3, EnterThread
  <2>2. CASE call # "close_camera"
    BY <1>1, <1>4, <2>1, <2>2, EnterFound
  <2>3. CASE call = "close_camera"
    <3>1. PICK idx : idx = th[t].cam[2]
      OBVIOUS
    <3>2. camObj' = [camObj EXCEPT ![idx] = None] /\ heap' = [heap EXCEPT ![o].refs = 0]
      BY <1>4, <2>3, <3>1
    <3>. QED
      BY <1>1, <1>4, <2>1, <2>3, <3>1, <3>2, EnterClose
  <2>. QED
    BY <2>2, <2>3
<1>. QED
  BY <1>2, <1>3, <1>4 DEF Enter

-----------------------------------------------------------------------------
(* The camera is opened.                                                    *)

(* The thread of a caller that has opened the camera of handle c.           *)
OpensAt(t, c) ==
  /\ Others(t) /\ IsThread(th'[t]) /\ th'[t].at = th[t].at /\ th'[t].got = th[t].got
  /\ th'[t].cam = c /\ th'[t].open = TRUE

LEMMA OpenThread ==
    ASSUME Shapes, NEW t \in Threads, NEW c \in Nat \X CamIdx,
           th' = [th EXCEPT ![t].cam = c, ![t].open = TRUE]
    PROVE  OpensAt(t, c)
<1>1. DOMAIN th = Threads /\ IsThread(th[t])
  BY DEF Shapes
<1>2. Others(t)
  BY <1>1 DEF Others
<1>3. /\ DOMAIN th'[t] = {"at", "cam", "open", "ch", "got"} /\ th'[t].at = th[t].at
      /\ th'[t].got = th[t].got /\ th'[t].cam = c /\ th'[t].open = TRUE
  BY <1>1 DEF IsThread
<1>4. IsThread(th'[t])
  BY <1>1, <1>3 DEF IsThread
<1>. QED
  BY <1>2, <1>3, <1>4 DEF OpensAt

(* What a caller that opens the camera leaves as it is.                     *)
LEMMA OpenKeeps ==
    ASSUME CameraInv, NEW t \in Threads, Out(t), NEW c, OpensAt(t, c)
    PROVE  /\ InCall(t)' /\ OneCloser' /\ OwnAnswer'
           /\ \A u \in Threads : th'[u].at = th[u].at
<1>1. /\ \A u \in Threads \ {t} : th'[u] = th[u]
      /\ th'[t].at = th[t].at /\ th'[t].got = th[t].got
  BY DEF OpensAt, Others
<1>2. \A u \in Threads : th'[u].at = th[u].at
  BY <1>1
<1>3. InCall(t)'
  BY <1>1 DEF InCall, Out
<1>4. OneCloser'
  BY <1>2 DEF CameraInv, OneCloser, Closer, Cell, Call, Out
<1>5. OwnAnswer'
  <2>1. \A u \in Threads : th'[u].got = th[u].got
    BY <1>1
  <2>. QED
    BY <2>1 DEF CameraInv, OwnAnswer
<1>. QED
  BY <1>2, <1>3, <1>4, <1>5

LEMMA OpenShared ==
    ASSUME CameraInv, CameraAssumption, NEW t \in Threads, Out(t), ~th[t].open,
           NEW idx \in CamIdx, NEW o, o = camObj[idx], o # None,
           heap' = [heap EXCEPT ![o].refs = @ + 1],
           th' = [th EXCEPT ![t].cam = heap[o].hdl, ![t].open = TRUE],
           camObj' = camObj, intfLock' = intfLock, history' = history, used' = used
    PROVE  CameraInv'
<1>1. /\ o \in DOMAIN heap /\ heap[o].hdl[2] = idx /\ heap[o].refs > 0 /\ Shapes
      /\ IsObject(heap[o]) /\ heap[o].hdl \in Nat \X CamIdx /\ heap[o].refs \in Nat
  BY DEF CameraInv, Shapes, Table, IsObject
<1>2. OpensAt(t, heap[o].hdl)
  BY <1>1, OpenThread
<1>3. /\ Others(t) /\ IsThread(th'[t]) /\ th'[t].cam = heap[o].hdl /\ th'[t].open = TRUE
  BY <1>2 DEF OpensAt
<1>4. /\ DOMAIN heap' = DOMAIN heap /\ \A x \in DOMAIN heap \ {o} : heap'[x] = heap[x]
      /\ DOMAIN heap'[o] = ObjFields /\ heap'[o].refs = heap[o].refs + 1
      /\ \A f \in ObjFields \ {"refs"} : heap'[o][f] = heap[o][f]
  BY <1>1 DEF IsObject, ObjFields
<1>5. heap'[o].refs \in Nat /\ heap'[o].refs > 0 /\ heap[o].refs # 0
  BY <1>1, <1>4
<1>6. IsObject(heap'[o]) /\ heap'[o].hdl = heap[o].hdl /\ heap'[o].lock = heap[o].lock /\ Alike(o)
  BY <1>1, <1>4, <1>5 DEF IsObject, ObjFields, Alike
<1>7. InCall(t)' /\ OneCloser' /\ OwnAnswer' /\ \A u \in Threads : th'[u].at = th[u].at
  BY <1>2, OpenKeeps
<1>8. Shapes'
  BY <1>1, <1>3, <1>4, <1>6 DEF Shapes, Others
<1>9. Table'
  <2>1. \A x \in DOMAIN heap : heap'[x].hdl = heap[x].hdl /\ (heap[x].refs > 0 => heap'[x].refs > 0)
    BY <1>4, <1>5, <1>6
  <2>. QED
    BY <1>4, <2>1 DEF CameraInv, Table
<1>10. Counted'
  <2>. SUFFICES ASSUME NEW x \in DOMAIN heap, heap'[x].refs > 0
                PROVE  /\ camObj[heap'[x].hdl[2]] = x
                       /\ IsFiniteSet(Openers(x)') /\ heap'[x].refs = Cardinality(Openers(x)')
    BY <1>4 DEF Counted
  <2>1. heap[x].refs > 0 /\ heap'[x].hdl = heap[x].hdl
    BY <1>1, <1>4, <1>6
  <2>2. /\ camObj[heap[x].hdl[2]] = x
        /\ IsFiniteSet(Openers(x)) /\ heap[x].refs = Cardinality(Openers(x))
    BY <2>1 DEF CameraInv, Counted
  <2>3. CASE x = o
    <3>1. t \notin Openers(o)
      BY DEF Openers
    <3>2. Openers(o)' = Openers(o) \cup {t}
      BY <1>3, <1>6 DEF Openers, Others
    <3>3. /\ IsFiniteSet(Openers(o) \cup {t})
          /\ Cardinality(Openers(o) \cup {t}) = Cardinality(Openers(o)) + 1
      BY <2>2, <2>3, <3>1, FS_AddElement
    <3>. QED
      BY <1>4, <2>1, <2>2, <2>3, <3>2, <3>3
  <2>4. CASE x # o
    <3>1. heap[x].hdl # heap[o].hdl
      BY <1>1, <2>2, <2>4
    <3>2. Openers(x)' = Openers(x)
      BY <1>3, <2>1, <3>1 DEF Openers, Others
    <3>. QED
      BY <1>4, <2>1, <2>2, <2>4, <3>2
  <2>. QED
    BY <2>3, <2>4
<1>11. OpenKnown'
  <2>. SUFFICES ASSUME NEW u \in Threads, th'[u].open
                PROVE  Opened(u)'
    BY DEF OpenKnown
  <2>1. CASE u = t
    BY <1>1, <1>3, <1>6, <2>1 DEF Opened
  <2>2. CASE u # t
    <3>1. th'[u] = th[u] /\ th[u].open
      BY <1>3, <2>2 DEF Others
    <3>2. Opened(u) /\ th[u].cam[2] \in CamIdx
      BY <1>1, <3>1 DEF CameraInv, OpenKnown, Shapes, IsThread
    <3>3. camObj[th[u].cam[2]] \in DOMAIN heap
      BY <3>2 DEF CameraInv, Table, Opened
    <3>4. heap'[camObj[th[u].cam[2]]].hdl = heap[camObj[th[u].cam[2]]].hdl
      BY <1>4, <1>6, <3>3
    <3>5. camObj' = camObj
      OBVIOUS
    <3>. QED
      BY <3>1, <3>2, <3>4, <3>5, Zenon DEF Opened
  <2>. QED
    BY <2>1, <2>2
<1>12. InCalls'
  <2>1. ASSUME NEW u \in Threads, u # t, ~Out(u)
        PROVE  InCall(u)'
    <3>1. InCall(u)
      BY DEF CameraInv, InCalls
    <3>2. th'[u] = th[u]
      BY <1>3, <2>1 DEF Others
    <3>3. /\ Cell(u) \in DOMAIN heap
          /\ heap'[Cell(u)].lock = heap[Cell(u)].lock /\ heap'[Cell(u)].msgLock = heap[Cell(u)].msgLock
          /\ heap[Cell(u)].refs > 0 => heap'[Cell(u)].refs > 0
          /\ heap[Cell(u)].refs = 0 => heap'[Cell(u)].refs = 0
      <4>1. Cell(u) \in DOMAIN heap
        BY <2>1, <3>1 DEF InCall
      <4>2. CASE Cell(u) = o
        <5>1. heap'[o].lock = heap[o].lock /\ heap'[o].msgLock = heap[o].msgLock
          BY <1>6 DEF Alike
        <5>. QED
          BY <1>5, <4>1, <4>2, <5>1
      <4>3. CASE Cell(u) # o
        BY <1>4, <4>1, <4>3
      <4>. QED
        BY <4>2, <4>3
    <3>. QED
      BY <1>4, <3>1, <3>2, <3>3 DEF InCall, At, Cell, Call, Out
  <2>. QED
    BY <1>7, <2>1, ZenonT(40) DEF InCalls, InCall, Out
<1>13. Answers'
  <2>1. \A x \in DOMAIN heap' : Alike(x)
    BY <1>4, <1>6 DEF Alike
  <2>. QED
    BY <1>4, <1>7, <2>1, KeptAnswers
<1>. QED
  BY <1>7, <1>8, <1>9, <1>10, <1>11, <1>12, <1>13 DEF CameraInv

(* The first opener makes the object.                                       *)
LEMMA OpenNew ==
    ASSUME CameraInv, CameraAssumption, NEW t \in Threads, Out(t), ~th[t].open,
           NEW idx \in CamIdx, camObj[idx] = None, NEW o \in Cells \ DOMAIN heap,
           NEW h, h = GenerateHandler(history, idx),
           heap' = [x \in DOMAIN heap \cup {o} |-> IF x = o THEN NewObject(h) ELSE heap[x]],
           camObj' = [camObj EXCEPT ![idx] = o],
           th' = [th EXCEPT ![t].cam = h, ![t].open = TRUE],
           intfLock' = intfLock, history' = Bumped(history),
           used' \in [tags : 0..MaxTags, handles : 0..MaxHandles]
    PROVE  CameraInv'
<1>1. /\ Shapes /\ None \notin Threads /\ None \notin Cells /\ o # None
      /\ history \in 0..(W - 1)
  BY DEF CameraInv, Shapes, CameraAssumption
<1>2. history' \in 0..(W - 1) /\ h \in Nat \X CamIdx /\ h[2] = idx
  BY <1>1, BumpedInRange DEF GenerateHandler
<1>3. OpensAt(t, h)
  BY <1>1, <1>2, OpenThread
<1>4. Others(t) /\ IsThread(th'[t]) /\ th'[t].cam = h /\ th'[t].open = TRUE
  BY <1>3 DEF OpensAt
<1>5. DOMAIN heap' = DOMAIN heap \cup {o} /\ heap'[o] = NewObject(h) /\ \A x \in DOMAIN heap : heap'[x] = heap[x]
  OBVIOUS
<1>6. /\ heap'[o].hdl = h /\ heap'[o].refs = 1 /\ ~heap'[o].late
      /\ heap'[o].rcvd = 0 /\ heap'[o].asked = <<>> /\ heap'[o].msgLock = None
  BY <1>5 DEF NewObject
<1>7. IsObject(heap'[o])
  <2>1. /\ DOMAIN NewObject(h) = ObjFields /\ NewObject(h).lock = None
        /\ NewObject(h).late = FALSE
    BY DEF NewObject, ObjFields
  <2>2. heap'[o].asked \in Seq(Nat) /\ heap'[o].rcvd \in Nat /\ heap'[o].refs \in Nat
    <3>1. <<>> \in Seq(Nat) /\ 0 \in Nat /\ 1 \in Nat
      OBVIOUS
    <3>. QED
      BY <1>6, <3>1, Zenon
  <2>. QED
    BY <1>2, <1>5, <1>6, <2>1, <2>2 DEF IsObject
<1>8. /\ DOMAIN camObj' = CamIdx /\ camObj'[idx] = o
      /\ \A i \in CamIdx \ {idx} : camObj'[i] = camObj[i]
      /\ camObj' \in [CamIdx -> Cells \cup {None}]
  BY <1>1 DEF Shapes
<1>9. InCall(t)' /\ OneCloser' /\ OwnAnswer' /\ \A u \in Threads : th'[u].at = th[u].at
  BY <1>3, OpenKeeps
<1>10. \A u \in Threads : th[u].open => th[u].cam[2] \in CamIdx \ {idx} /\ Opened(u) /\ u # t
  BY <1>1 DEF CameraInv, OpenKnown, Opened, Shapes, IsThread
<1>11. Shapes'
  BY <1>1, <1>2, <1>4, <1>5, <1>7, <1>8 DEF Shapes, Others
<1>12. Table'
  BY <1>2, <1>5, <1>6, <1>8 DEF CameraInv, Table
<1>13. Counted'
  <2>. SUFFICES ASSUME NEW x \in DOMAIN heap', heap'[x].refs > 0
                PROVE  /\ camObj'[heap'[x].hdl[2]] = x
                       /\ IsFiniteSet(Openers(x)') /\ heap'[x].refs = Cardinality(Openers(x)')
    BY DEF Counted
  <2>1. CASE x = o
    <3>1. Openers(o)' = {t}
      <4>1. \A u \in Threads : th'[u].open /\ th'[u].cam = h => u = t
        BY <1>2, <1>4, <1>10 DEF Others
      <4>. QED
        BY <1>4, <1>6, <4>1 DEF Openers
    <3>2. IsFiniteSet({t}) /\ Cardinality({t}) = 1
      BY FS_Singleton
    <3>3. camObj'[heap'[x].hdl[2]] = x
      BY <1>2, <1>6, <1>8, <2>1
    <3>. QED
      BY <1>6, <2>1, <3>1, <3>2, <3>3
  <2>2. CASE x # o
    <3>1. x \in DOMAIN heap /\ heap'[x] = heap[x]
      BY <1>5, <2>2
    <3>2. /\ camObj[heap[x].hdl[2]] = x /\ heap[x].hdl[2] \in CamIdx
          /\ IsFiniteSet(Openers(x)) /\ heap[x].refs = Cardinality(Openers(x))
      BY <1>1, <3>1 DEF CameraInv, Counted, Shapes, IsObject
    <3>3. heap[x].hdl[2] # idx /\ heap[x].hdl # h
      BY <1>1, <1>2, <3>1, <3>2 DEF Shapes
    <3>4. Openers(x)' = Openers(x)
      BY <1>4, <1>10, <3>1, <3>3 DEF Openers, Others
    <3>. QED
      BY <1>8, <3>1, <3>2, <3>3, <3>4
  <2>. QED
    BY <2>1, <2>2
<1>14. OpenKnown'
  <2>. SUFFICES ASSUME NEW u \in Threads, th'[u].open
                PROVE  Opened(u)'
    BY DEF OpenKnown
  <2>1. CASE u = t
    BY <1>1, <1>2, <1>4, <1>6, <1>8, <2>1 DEF Opened
  <2>2. CASE u # t
    <3>1. th'[u] = th[u] /\ th[u].open
      BY <1>4, <2>2 DEF Others
    <3>2. Opened(u) /\ camObj'[th[u].cam[2]] = camObj[th[u].cam[2]] /\ th[u].cam[2] \in CamIdx
      BY <1>8, <1>10, <3>1
    <3>3. camObj[th[u].cam[2]] \in DOMAIN heap
      BY <3>2 DEF CameraInv, Table, Opened
    <3>. QED
      BY <1>5, <3>1, <3>2, <3>3, ZenonT(40) DEF Opened
  <2>. QED
    BY <2>1, <2>2
<1>15. InCalls'
  <2>1. ASSUME NEW u \in Threads, u # t, ~Out(u)
        PROVE  InCall(u)'
    <3>1. InCall(u)
      BY DEF CameraInv, InCalls
    <3>2. th'[u] = th[u] /\ intfLock' = intfLock
      BY <1>4, <2>1 DEF Others
    <3>3. Cell(u) \in DOMAIN heap /\ Cell(u) \in DOMAIN heap' /\ heap'[Cell(u)] = heap[Cell(u)]
      BY <1>5, <2>1, <3>1 DEF InCall
    <3>4. Call(u) \in UserCalls => th[u].open /\ Cell(u) = camObj'[th[u].cam[2]]
      BY <1>8, <1>10, <2>1, <3>1 DEF InCall
    <3>. QED
      BY <3>1, <3>2, <3>3, <3>4 DEF InCall, At, Cell, Call, Out
  <2>. QED
    BY <1>9, <2>1, ZenonT(40) DEF InCalls, InCall, Out
<1>16. Answers'
  <2>1. AnswersOf(o)'
    <3>1. \A u \in Threads : ~(At(u, "wait")' /\ Cell(u)' = o)
      <4>. SUFFICES ASSUME NEW u \in Threads, At(u, "wait")', Cell(u)' = o
                    PROVE  FALSE
        OBVIOUS
      <4>1. At(u, "wait") /\ Cell(u) = o
        BY <1>9 DEF At, Cell
      <4>2. Cell(u) \in DOMAIN heap
        BY <4>1 DEF CameraInv, InCalls, InCall, Out, At
      <4>. QED
        BY <4>1, <4>2
    <3>. QED
      BY <1>6, <3>1 DEF AnswersOf
  <2>2. ASSUME NEW x \in DOMAIN heap
        PROVE  AnswersOf(x)'
    <3>1. AnswersOf(x) /\ heap'[x] = heap[x]
      BY <1>5 DEF CameraInv, Answers
    <3>. QED
      BY <1>9, <3>1 DEF AnswersOf, AnswerOf, At, Cell
  <2>. QED
    BY <1>5, <2>1, <2>2 DEF Answers
<1>. QED
  BY <1>9, <1>11, <1>12, <1>13, <1>14, <1>15, <1>16 DEF CameraInv

LEMMA CameraOpenStep ==
    ASSUME CameraInv, CameraAssumption, NEW t \in Threads, NEW idx \in CamIdx, CameraOpen(t, idx)
    PROVE  CameraInv'
<1>1. Out(t) /\ ~th[t].open /\ intfLock' = intfLock
  BY DEF CameraOpen
<1>2. CASE camObj[idx] # None
  BY <1>1, <1>2, OpenShared DEF CameraOpen
<1>3. CASE camObj[idx] = None
  <2>1. /\ used.handles < MaxHandles /\ used' = [used EXCEPT !.handles = @ + 1]
        /\ history' = Bumped(history)
    BY <1>3 DEF CameraOpen
  <2>2. /\ used \in [tags : 0..MaxTags, handles : 0..MaxHandles] /\ MaxHandles \in Nat
        /\ history \in 0..(W - 1)
    BY DEF CameraInv, Shapes, CameraAssumption
  <2>3. used.handles + 1 \in 0..MaxHandles
    BY <2>1, <2>2
  <2>4. used' \in [tags : 0..MaxTags, handles : 0..MaxHandles] /\ history' \in 0..(W - 1)
    BY <2>1, <2>2, <2>3, BumpedInRange
  <2>5. CASE UNCHANGED <<heap, camObj, th>>
    BY <1>1, <2>4, <2>5, EnterNone
  <2>6. CASE ~(UNCHANGED <<heap, camObj, th>>)
    <3>. DEFINE h == GenerateHandler(history, idx)
    <3>1. PICK o \in Cells \ DOMAIN heap :
            /\ heap' = [x \in DOMAIN heap \cup {o} |-> IF x = o THEN NewObject(h) ELSE heap[x]]
            /\ camObj' = [camObj EXCEPT ![idx] = o]
            /\ th' = [th EXCEPT ![t].cam = h, ![t].open = TRUE]
      BY <1>3, <2>6, Zenon DEF CameraOpen
    <3>. QED
      BY <1>1, <1>3, <2>1, <2>4, <3>1, OpenNew
  <2>. QED
    BY <2>5, <2>6
<1>. QED
  BY <1>2, <1>3

-----------------------------------------------------------------------------
(* All the steps.                                                           *)

LEMMA ThreadStepKeeps ==
    ASSUME CameraInv, CameraAssumption, NEW t \in Threads, ThreadStep(t)
    PROVE  CameraInv'
<1>1. CASE LockCamera(t)
  BY <1>1, LockCameraStep
<1>2. CASE Parm(t) \/ RegisterEventNotify(t)
  BY <1>2, UnderLockStep DEF Parm, RegisterEventNotify
<1>3. CASE AddChannel(t)
  BY <1>3, AddChannelStep
<1>4. CASE FindChannel(t)
  BY <1>4, FindChannelStep
<1>5. CASE QBuf(t)
  BY <1>5, QBufStep
<1>6. CASE QBufDone(t)
  BY <1>6, QBufDoneStep
<1>7. CASE StartChannel(t) \/ StopChannel(t)
  BY <1>7, EventStep DEF StartChannel, StopChannel, Stays
<1>8. CASE SuperBufEvent(t) \/ ModeEvent(t) \/ StreamEvent(t) \/ StreamParmEvent(t) \/ StreamMapIgnored(t)
  BY <1>8, EventStep DEF SuperBufEvent, ModeEvent, StreamEvent, StreamParmEvent, StreamMapIgnored, Stays
<1>9. CASE DelChannel(t)
  BY <1>9, DelChannelStep
<1>10. CASE SendMsg(t)
  BY <1>10, SendMsgStep
<1>11. CASE WaitForEvent(t)
  BY <1>11, WaitForEventStep
<1>12. CASE WaitTimesOut(t)
  BY <1>12, WaitTimesOutStep
<1>13. CASE EvtUnsubscribe(t)
  BY <1>13, EvtUnsubscribeStep
<1>14. CASE CloseDone(t)
  BY <1>14, CloseDoneStep
<1>. QED
  BY <1>1, <1>2, <1>3, <1>4, <1>5, <1>6, <1>7, <1>8, <1>9, <1>10, <1>11, <1>12, <1>13, <1>14
     DEF ThreadStep

LEMMA CameraInvStep ==
    ASSUME CameraInv, CameraAssumption, [Next]_vars
    PROVE  CameraInv'
<1>1. ASSUME NEW t \in Threads, NEW idx \in CamIdx, CameraOpen(t, idx)
      PROVE  CameraInv'
  BY <1>1, CameraOpenStep
<1>2. ASSUME NEW t \in Threads, NEW call, NEW h, Enter(t, call, h)
      PROVE  CameraInv'
  BY <1>2, EnterStep
<1>3. ASSUME NEW t \in Threads, ThreadStep(t)
      PROVE  CameraInv'
  BY <1>3, ThreadStepKeeps
<1>4. ASSUME NEW o \in DOMAIN heap, MapDone(o) \/ EventNotify(o) \/ DispatchAppEvent(o)
      PROVE  CameraInv'
  BY <1>4, MapDoneStep, QueueStep
<1>5. CASE UNCHANGED vars
  <2>1. /\ camObj' = camObj /\ heap' = heap /\ intfLock' = intfLock
        /\ history' = history /\ th' = th /\ used' = used
    BY <1>5 DEF vars
  <2>2. Shapes' /\ Table' /\ Counted' /\ OpenKnown'
    BY <2>1 DEF CameraInv, Shapes, Table, Counted, Openers, OpenKnown, Opened
  <2>3. InCalls' /\ OneCloser'
    BY <2>1 DEF CameraInv, InCalls, InCall, OneCloser, Closer, Out, At, Cell, Call
  <2>4. Answers' /\ OwnAnswer'
    BY <2>1 DEF CameraInv, Answers, AnswersOf, AnswerOf, OwnAnswer, At, Cell
  <2>. QED
    BY <2>2, <2>3, <2>4 DEF CameraInv
<1>. QED
  BY <1>1, <1>2, <1>3, <1>4, <1>5 DEF Next

LEMMA CameraInvInit ==
    ASSUME Init, CameraAssumption
    PROVE  CameraInv
<1>1. /\ camObj = [i \in CamIdx |-> None] /\ DOMAIN heap = {} /\ intfLock = None /\ history = 0
      /\ DOMAIN th = Threads /\ (\A t \in Threads : th[t] = Fresh)
      /\ used = [tags |-> 0, handles |-> 0]
  BY DEF Init
<1>2. 0 \in CamIdx /\ 0 \in 0..(W - 1) /\ 0 \in 0..MaxTags /\ 0 \in 0..MaxHandles
  BY DEF CameraAssumption, CamIdx
<1>3. /\ Idle.pc = "out" /\ DOMAIN Idle = {"pc", "call", "o", "ch", "slot", "tag"} /\ Idle.tag = 0
      /\ DOMAIN NoAnswer = {"tag", "by", "late"} /\ NoAnswer.by = NoAnswer.tag
  BY DEF Idle, NoAnswer
<1>4. /\ DOMAIN Fresh = {"at", "cam", "open", "ch", "got"} /\ Fresh.at = Idle /\ Fresh.got = NoAnswer
      /\ Fresh.open = FALSE /\ Fresh.cam = <<0, 0>>
  BY DEF Fresh, NoHandle
<1>5. IsThread(Fresh)
  <2>1. "out" \in Pcs /\ 0 \in Nat /\ <<0, 0>> \in Nat \X CamIdx /\ FALSE \in BOOLEAN
    BY <1>2 DEF Pcs
  <2>. QED
    BY <1>3, <1>4, <2>1, Zenon DEF IsThread
<1>6. Shapes
  <2>1. used \in [tags : 0..MaxTags, handles : 0..MaxHandles]
    BY <1>1, <1>2
  <2>2. camObj \in [CamIdx -> Cells \cup {None}]
    BY <1>1
  <2>3. \A t \in Threads : IsThread(th[t])
    BY <1>1, <1>5, Zenon
  <2>. QED
    BY <1>1, <1>2, <2>1, <2>2, <2>3 DEF Shapes
<1>7. Table /\ Counted /\ Answers
  BY <1>1 DEF Table, Counted, Answers
<1>8. \A t \in Threads : Out(t) /\ ~th[t].open /\ th[t].got = NoAnswer
  BY <1>1, <1>3, <1>4 DEF Out
<1>9. OpenKnown /\ InCalls /\ OneCloser
  BY <1>8 DEF OpenKnown, InCalls, InCall, OneCloser, Closer
<1>10. OwnAnswer
  BY <1>3, <1>8 DEF OwnAnswer
<1>. QED
  BY <1>6, <1>7, <1>9, <1>10 DEF CameraInv

LEMMA CameraInvSafe ==
    ASSUME CameraInv, CameraAssumption
    PROVE  CameraSafe
<1>1. Shapes /\ OwnAnswer
  BY DEF CameraInv
<1>2. TypeOK
  BY <1>1 DEF Shapes, TypeOK, IsThread, Pcs
<1>3. NoUseAfterFree
  BY DEF CameraInv, InCalls, InCall, NoUseAfterFree
<1>4. RefsAreOpeners
  <2>. SUFFICES ASSUME NEW o \in DOMAIN heap
                PROVE  /\ heap[o].refs > 0 <=> \E i \in CamIdx : camObj[i] = o
                       /\ heap[o].refs > 0 => heap[o].refs = Cardinality(Openers(o))
    BY DEF RefsAreOpeners, Openers
  <2>1. o # None /\ heap[o].hdl[2] \in CamIdx
    BY <1>1 DEF Shapes, IsObject, CameraAssumption
  <2>2. heap[o].refs > 0 => camObj[heap[o].hdl[2]] = o /\ heap[o].refs = Cardinality(Openers(o))
    BY DEF CameraInv, Counted
  <2>3. ASSUME NEW i \in CamIdx, camObj[i] = o
        PROVE  heap[o].refs > 0
    BY <2>1, <2>3 DEF CameraInv, Table
  <2>. QED
    BY <2>1, <2>2, <2>3
<1>. QED
  BY <1>1, <1>2, <1>3, <1>4 DEF CameraSafe

(* No call works on a camera object that was freed, an object's reference   *)
(* count is the number of callers that have it open, and a mapping call ends *)
(* with the answer to its own request as long as no wait on the object has  *)
(* timed out: what mm_camera_intf_open, mm_camera_intf_close and the locks  *)
(* they and every other call take hand over hand are there for.             *)
THEOREM CallsAreSafe == ASSUME CameraAssumption PROVE Spec => []CameraSafe
<1>1. Init => CameraInv
  BY CameraInvInit
<1>2. CameraInv /\ [Next]_vars => CameraInv'
  BY CameraInvStep
<1>3. CameraInv => CameraSafe
  BY CameraInvSafe
<1>. QED
  BY <1>1, <1>2, <1>3, PTL DEF Spec

=============================================================================

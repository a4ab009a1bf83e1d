---------------------------- MODULE MmJpegProofs ----------------------------
(***************************************************************************)
(* Proofs about the jpeg interface, built with one OMX session for each     *)
(* encoding session as it is for this board (Android.mk): it keeps what it  *)
(* promises its client (JpegJobs), and loses neither jobs nor sessions.     *)
(***************************************************************************)
EXTENDS MmJpeg, SequenceTheorems, FiniteSetTheorems, WellFoundedInduction, TLAPS

(* The build: MM_JPEG_CONCURRENT_SESSIONS_COUNT is 1, and the component      *)
(* reports no error for an aborted session it is told to leave.             *)
AsBuilt == JpegAssumption /\ Len(Chain) = 1 /\ LateErrors = FALSE

S == Chain[1]

-----------------------------------------------------------------------------
(* The inductive invariant.                                                 *)
Omx == {"Loaded", "Idle", "Executing"}
Holding == {"abort_job", "destroy_session", "close"}
Changing == {"change", "sent", "await", "woken"}
Resting == {"ready", "stopping", "open", "closed", "join"}

IsSession(r) ==
  /\ DOMAIN r = {"abort", "encoding", "job", "omx", "state", "cmd", "pending", "err", "config"}
  /\ r.abort \in {"NONE", "INIT", "DONE"} /\ r.encoding \in BOOLEAN
  /\ r.job \in Jobs \cup {None} /\ r.omx \in {"idle", "fed", "filling"}
  /\ r.state \in Omx \cup {"none"} /\ r.cmd \in Omx \cup {None}
  /\ r.pending \in BOOLEAN /\ r.err \in BOOLEAN /\ r.config \in BOOLEAN

IsCall(c) ==
  /\ DOMAIN c = {"pc", "job", "op", "at", "todo"}
  /\ c.pc \in Changing \cup Resting \cup {"abort", "wait", "aborted", "freed"}
  /\ c.op \in Holding \cup {"create_session", None}
  /\ c.at \in Nat /\ c.todo \in Seq(Omx)

Shape ==
  /\ jobQ \in Seq(Jobs \cup {Exit}) /\ ongoing \in Seq(Jobs) /\ tokens \in Nat
  /\ jobLock \in {"mgr", "client", None}
  /\ DOMAIN mgr = {"pc", "s"} /\ mgr.pc \in {"off", "wait", "look", "feed", "fill", "dead"}
  /\ DOMAIN ses = {S} /\ IsSession(ses[S]) /\ idleQ \in {<<>>, <<S>>} /\ IsCall(cl)
  /\ fate \in [Jobs -> {"new", "asked", "dropped", "aborted"}] /\ answers \in [Jobs -> Nat]

(* Where a call is, what it holds and what the manager holds.               *)
Calls ==
  /\ cl.op \in Holding => jobLock = "client"
  /\ cl.pc \in {"abort", "wait", "aborted", "freed"} => cl.op \in Holding
  /\ cl.pc \in Changing => cl.op \in {"create_session", "destroy_session"} /\ cl.at = 1
  /\ cl.pc \in {"abort", "wait"} => cl.at = 1
  /\ cl.pc \in Resting => cl.op = None
  /\ cl.pc = "freed" => cl.op = "destroy_session"
  /\ cl.pc \in {"sent", "await", "woken"} => cl.todo # <<>>
  /\ cl.pc = "change" /\ cl.op = "create_session" => cl.todo # <<>>
  /\ cl.op = "abort_job" => cl.job \in Jobs /\ fate[cl.job] = "asked" /\ ~Holds(jobQ, cl.job)
  /\ mgr.pc \in {"feed", "fill"} =>
       mgr.s = S /\ jobLock = "mgr" /\ cl.pc \in {"ready", "stopping"}

Unique(q) == \A k, l \in DOMAIN q : q[k] = q[l] /\ q[k] # Exit => k = l

(* A job that waits was asked for, is not answered yet, and waits once.     *)
Queued ==
  /\ \A j \in Jobs : Holds(jobQ, j) => fate[j] = "asked" /\ answers[j] = 0
  /\ Unique(jobQ)
  /\ \A j \in Jobs : fate[j] = "new" => answers[j] = 0
  /\ cl.pc \notin {"ready", "stopping"} /\ cl.op # "abort_job" => \A j \in Jobs : ~Holds(jobQ, j)

Feeding == mgr.pc = "feed"
(* The session works on a job that somebody waits for.                      *)
Live == (ses[S].encoding /\ ses[S].abort = "NONE") \/ Feeding

(* An abort lasts until the component has let the buffers go; while the      *)
(* session works for somebody its job is unanswered and in no other place.  *)
Encoder ==
  /\ ses[S].omx # "idle" => ses[S].encoding
  /\ ses[S].abort = "INIT" => cl.pc = "wait"
  /\ ses[S].abort = "DONE" => ses[S].omx = "idle"
  /\ cl.pc \in {"wait", "aborted"} => ses[S].abort # "NONE"
  /\ cl.pc = "ready" \/ cl.op = "create_session" => ses[S].abort = "NONE"
  /\ mgr.pc \in {"feed", "fill"} => ses[S].abort = "NONE"
  /\ Feeding => ~ses[S].encoding
  /\ ses[S].encoding \/ Feeding => idleQ = <<>>
  /\ Live => /\ cl.pc \in {"ready", "stopping", "abort"}
             /\ ses[S].job \in Jobs /\ fate[ses[S].job] = "asked" /\ answers[ses[S].job] = 0
             /\ ~Holds(jobQ, ses[S].job)
             /\ cl.pc # "abort" => Holds(ongoing, ses[S].job)

(* No job is forgotten while the client still wants them.                   *)
Kept ==
  /\ cl.pc \in {"open", "closed", "join"} \/ cl.op = "create_session" => \A j \in Jobs : fate[j] # "asked"
  /\ cl.pc = "ready" =>
       \A j \in Jobs : fate[j] = "asked" /\ answers[j] = 0 => Holds(jobQ, j) \/ (Live /\ ses[S].job = j)
  /\ (cl.pc = "ready" /\ ses[S].state # "none") \/ cl.op = "create_session" =>
       ses[S].encoding \/ Feeding \/ idleQ = <<S>>

(* A command the component has not answered is waited for; a client that was *)
(* told of success without a session has no job and no command under way.   *)
Handle ==
  /\ cl.op = "create_session" => ses[S].state # "none"
  /\ cl.pc = "ready" /\ ses[S].state = "none" =>
       /\ idleQ = <<>> /\ ~ses[S].encoding /\ ses[S].cmd = None
       /\ mgr.pc \notin {"feed", "fill"} /\ \A j \in Jobs : fate[j] # "asked"
  /\ cl.op = "create_session" => ~ses[S].config
  /\ ses[S].config \/ cl.op = "create_session" =>
       \/ ses[S].err \/ ses[S].cmd = None
       \/ cl.pc \in {"sent", "await"} /\ ses[S].pending

JpegInv == Shape /\ Calls /\ Queued /\ Encoder /\ Kept /\ Handle

-----------------------------------------------------------------------------
(* The queues.                                                              *)
LEMMA Appending ==
    ASSUME NEW T, NEW q \in Seq(T), NEW x \in T
    PROVE  /\ Append(q, x) \in Seq(T)
           /\ \A j : Holds(Append(q, x), j) <=> (Holds(q, j) \/ j = x)
           /\ Unique(q) /\ (x = Exit \/ ~Holds(q, x)) => Unique(Append(q, x))
<1>. DEFINE r == Append(q, x)
<1>1. /\ r \in Seq(T) /\ DOMAIN q = 1..Len(q) /\ DOMAIN r = 1..(Len(q) + 1) /\ Len(q) \in Nat
      /\ r[Len(q) + 1] = x /\ \A k \in 1..Len(q) : r[k] = q[k]
  OBVIOUS
<1>. HIDE DEF r
<1>2. \A j : Holds(r, j) <=> (Holds(q, j) \/ j = x)
  BY <1>1 DEF Holds
<1>3. ASSUME Unique(q), x = Exit \/ ~Holds(q, x) PROVE Unique(r)
  BY <1>1, <1>3 DEF Unique, Holds
<1>. QED
  BY <1>1, <1>2, <1>3 DEF r

LEMMA Taking ==
    ASSUME NEW T, NEW q \in Seq(T), q # <<>>
    PROVE  /\ Head(q) \in T /\ Tail(q) \in Seq(T)
           /\ \A j : Holds(q, j) <=> (Holds(Tail(q), j) \/ j = Head(q))
           /\ Unique(q) => Unique(Tail(q)) /\ (Head(q) = Exit \/ ~Holds(Tail(q), Head(q)))
<1>. DEFINE r == Tail(q)
            h == Head(q)
<1>1. /\ r \in Seq(T) /\ h \in T /\ Len(q) \in Nat /\ Len(q) > 0
      /\ DOMAIN q = 1..Len(q) /\ DOMAIN r = 1..(Len(q) - 1)
      /\ h = q[1] /\ \A k \in 1..(Len(q) - 1) : r[k] = q[k + 1]
  OBVIOUS
<1>. HIDE DEF r, h
<1>2. \A k \in 1..Len(q) : k = 1 \/ (k - 1 \in 1..(Len(q) - 1) /\ (k - 1) + 1 = k)
  BY <1>1
<1>3. \A k \in 1..(Len(q) - 1) : k + 1 \in 1..Len(q) /\ k + 1 # 1
  BY <1>1
<1>4. 1 \in 1..Len(q)
  BY <1>1
<1>5. \A j : Holds(q, j) <=> (Holds(r, j) \/ j = h)
  <2>1. ASSUME NEW i \in 1..Len(q) PROVE q[i] = h \/ Holds(r, q[i])
    <3>1. i = 1 \/ r[i - 1] = q[i]
      BY <1>1, <1>2
    <3>. QED
      BY <1>1, <1>2, <3>1 DEF Holds
  <2>2. ASSUME NEW i \in 1..(Len(q) - 1) PROVE Holds(q, r[i])
    BY <1>1, <1>3 DEF Holds
  <2>. QED
    BY <1>1, <1>4, <2>1, <2>2 DEF Holds
<1>6. ASSUME Unique(q) PROVE Unique(r) /\ (h = Exit \/ ~Holds(r, h))
  <2>1. ASSUME NEW i \in 1..(Len(q) - 1), NEW l \in 1..(Len(q) - 1), r[i] = r[l], r[i] # Exit PROVE i = l
    <3>1. i + 1 = l + 1
      BY <1>1, <1>3, <1>6, <2>1 DEF Unique
    <3>. QED
      BY <3>1
  <2>2. ASSUME NEW i \in 1..(Len(q) - 1), r[i] = h, h # Exit PROVE FALSE
    BY <1>1, <1>3, <1>4, <1>6, <2>2 DEF Unique
  <2>. QED
    BY <1>1, <2>1, <2>2 DEF Unique, Holds
<1>. QED
  BY <1>1, <1>5, <1>6 DEF r, h

LEMMA FirstOf ==
    ASSUME NEW I \in SUBSET Nat, I # {}
    PROVE  Min(I) \in I
<1>1. PICK x \in I : \A y \in I : <<y, x>> \notin OpToRel(<, Nat)
  BY NatLessThanWellFounded, WFMin, Zenon
<1>2. ASSUME NEW y \in I PROVE x <= y
  <2>1. ~(y < x)
    BY <1>1 DEF OpToRel
  <2>. QED
    BY <2>1
<1>. QED
  BY <1>2 DEF Min

(* Of a queue in which a job waits once, taking it off leaves the others.   *)
LEMMA Removing ==
    ASSUME NEW T, NEW q \in Seq(T), NEW x
    PROVE  /\ Without(q, x) \in Seq(T)
           /\ \A j : Holds(Without(q, x), j) => Holds(q, j)
           /\ \A j : Holds(q, j) /\ j # x => Holds(Without(q, x), j)
           /\ Unique(q) => Unique(Without(q, x)) /\ (x = Exit \/ ~Holds(Without(q, x), x))
<1>1. CASE ~Holds(q, x)
  BY <1>1 DEF Without
<1>2. CASE Holds(q, x)
  <2>. DEFINE k == Min({i \in DOMAIN q : q[i] = x})
              r == RemoveAt(q, k)
              n == Len(q)
              a == SubSeq(q, 1, k - 1)
              b == SubSeq(q, k + 1, n)
              at(i) == IF i < k THEN i ELSE i + 1
              to(i) == IF i < k THEN i ELSE i - 1
  <2>1. n \in Nat /\ DOMAIN q = 1..n /\ k \in 1..n /\ q[k] = x
    <3>. DEFINE I == {i \in DOMAIN q : q[i] = x}
    <3>1. I \in SUBSET Nat /\ I # {}
      BY <1>2 DEF Holds
    <3>. HIDE DEF I
    <3>2. Min(I) \in I
      BY <3>1, FirstOf
    <3>. QED
      BY <3>2 DEF I
  <2>. HIDE DEF k, n
  <2>2. a \in Seq(T) /\ Len(a) = k - 1 /\ \A i \in 1..(k - 1) : a[i] = q[i]
    <3>1. \A i \in 1..(k - 1) : q[i] \in T
      BY <2>1
    <3>2. /\ a \in Seq(T) /\ Len(a) = IF 1 <= k - 1 THEN (k - 1) - 1 + 1 ELSE 0
          /\ \A i \in 1..((k - 1) - 1 + 1) : a[i] = q[1 + i - 1]
      BY <2>1, <3>1, SubSeqProperties
    <3>. HIDE DEF a
    <3>. QED
      BY <2>1, <3>2
  <2>3. b \in Seq(T) /\ Len(b) = n - k /\ \A i \in 1..(n - k) : b[i] = q[k + i]
    <3>1. \A i \in (k + 1)..n : q[i] \in T
      BY <2>1
    <3>2. /\ b \in Seq(T) /\ Len(b) = IF k + 1 <= n THEN n - (k + 1) + 1 ELSE 0
          /\ \A i \in 1..(n - (k + 1) + 1) : b[i] = q[(k + 1) + i - 1]
      BY <2>1, <3>1, SubSeqProperties
    <3>. HIDE DEF b
    <3>3. n - (k + 1) + 1 = n - k /\ \A i \in 1..(n - k) : (k + 1) + i - 1 = k + i
      BY <2>1
    <3>4. Len(b) = n - k
      BY <2>1, <3>2
    <3>. QED
      BY <3>2, <3>3, <3>4
  <2>4. r = a \o b
    BY DEF RemoveAt, n
  <2>. HIDE DEF a, b
  <2>5. /\ r \in Seq(T) /\ Len(r) = Len(a) + Len(b) /\ DOMAIN r = 1..Len(r)
        /\ \A i \in 1..(Len(a) + Len(b)) : r[i] = IF i <= Len(a) THEN a[i] ELSE b[i - Len(a)]
    <3>. HIDE DEF r
    <3>1. /\ r \in Seq(T) /\ Len(r) = Len(a) + Len(b)
          /\ \A i \in 1..(Len(a) + Len(b)) : r[i] = IF i <= Len(a) THEN a[i] ELSE b[i - Len(a)]
      BY <2>2, <2>3, <2>4, ConcatProperties, ZenonT(40)
    <3>. QED
      BY <3>1
  <2>. HIDE DEF r
  <2>6. DOMAIN r = 1..(n - 1) /\ \A i \in 1..(n - 1) : r[i] = IF i <= k - 1 THEN a[i] ELSE b[i - (k - 1)]
    <3>1. Len(a) + Len(b) = n - 1 /\ Len(a) = k - 1
      BY <2>1, <2>2, <2>3
    <3>. QED
      BY <2>5, <3>1, Zenon
  <2>7. ASSUME NEW i \in 1..(n - 1)
        PROVE  r[i] = q[at(i)] /\ at(i) \in 1..n /\ at(i) # k
    <3>1. CASE i < k
      BY <2>1, <2>2, <2>6, <2>7, <3>1
    <3>2. CASE ~(i < k)
      <4>1. i - (k - 1) \in 1..(n - k) /\ k + (i - (k - 1)) = i + 1 /\ ~(i <= k - 1)
        BY <2>1, <2>7, <3>2
      <4>2. r[i] = b[i - (k - 1)] /\ b[i - (k - 1)] = q[k + (i - (k - 1))]
        BY <2>3, <2>6, <2>7, <4>1
      <4>3. at(i) = i + 1 /\ i + 1 \in 1..n /\ i + 1 # k
        BY <2>1, <2>7, <3>2
      <4>. QED
        BY <4>1, <4>2, <4>3
    <3>. QED
      BY <3>1, <3>2
  <2>8. \A i, j \in 1..(n - 1) : at(i) = at(j) => i = j
    BY <2>1
  <2>9. \A i \in 1..n : i # k => to(i) \in 1..(n - 1) /\ at(to(i)) = i
    BY <2>1
  <2>. HIDE DEF at, to
  <2>10. \A j : Holds(r, j) => Holds(q, j)
    BY <2>1, <2>6, <2>7 DEF Holds
  <2>11. \A j : Holds(q, j) /\ j # x => Holds(r, j)
    <3>1. ASSUME NEW i \in 1..n, q[i] # x PROVE Holds(r, q[i])
      <4>1. i # k
        BY <2>1, <3>1
      <4>2. to(i) \in 1..(n - 1) /\ at(to(i)) = i
        BY <2>9, <4>1
      <4>3. r[to(i)] = q[i]
        BY <2>7, <4>2
      <4>. QED
        BY <2>6, <4>2, <4>3 DEF Holds
    <3>. QED
      BY <2>1, <3>1 DEF Holds
  <2>12. ASSUME Unique(q) PROVE Unique(r) /\ (x = Exit \/ ~Holds(r, x))
    <3>1. ASSUME NEW i \in 1..(n - 1), NEW j \in 1..(n - 1), r[i] = r[j], r[i] # Exit PROVE i = j
      <4>1. at(i) = at(j)
        BY <2>1, <2>7, <2>12, <3>1 DEF Unique
      <4>. QED
        BY <2>8, <4>1
    <3>2. ASSUME NEW i \in 1..(n - 1), r[i] = x, x # Exit PROVE FALSE
      BY <2>1, <2>7, <2>12, <3>2 DEF Unique
    <3>. QED
      BY <2>6, <3>1, <3>2 DEF Unique, Holds
  <2>. QED
    BY <1>2, <2>5, <2>10, <2>11, <2>12 DEF Without, r, k
<1>. QED
  BY <1>1, <1>2

LEMMA Built ==
    ASSUME AsBuilt
    PROVE  /\ Sessions = {S} /\ S # None /\ None \notin Jobs
           /\ None \notin {"mgr", "client", "create_session", "abort_job", "destroy_session", "close",
                        "Loaded", "Idle", "Executing"}
           /\ Exit \notin Jobs
           /\ Len(Chain) = 1 /\ ~(1 < Len(Chain))
<1>1. Chain \in Seq(Sessions) /\ DOMAIN Chain = {1}
  BY DEF AsBuilt, JpegAssumption
<1>2. Sessions = {S}
  BY <1>1, Zenon DEF Sessions, S
<1>3. Len(Chain) = 1 /\ ~(1 < Len(Chain))
  BY DEF AsBuilt
<1>. QED
  BY <1>2, <1>3 DEF AsBuilt, JpegAssumption, Marks

-----------------------------------------------------------------------------
(* The invariant is kept: one lemma for each step.                          *)

LEMMA GiveUpKeeps == ASSUME AsBuilt, JpegInv, GiveUp PROVE JpegInv'
<1>1. /\ cl.pc = "ready" /\ cl'.pc \in {"stopping", "open"} /\ cl'.job = cl.job /\ cl'.op = cl.op
      /\ (cl'.pc = "open" => ses[S].state = "none")
      /\ cl'.at = cl.at /\ cl'.todo = cl.todo /\ DOMAIN cl' = DOMAIN cl /\ jobQ' = jobQ
      /\ ongoing' = ongoing /\ tokens' = tokens /\ fate' = fate /\ answers' = answers
      /\ ses' = ses /\ idleQ' = idleQ /\ mgr' = mgr /\ jobLock' = jobLock
  BY DEF JpegInv, Shape, IsSession, IsCall, GiveUp, ClGoes, Active, S
<1>0. ASSUME cl'.pc = "open"
      PROVE  /\ ~ses[S].encoding /\ ~Feeding /\ mgr.pc \notin {"feed", "fill"}
             /\ \A j \in Jobs : fate[j] # "asked" /\ ~Holds(jobQ, j)
  BY <1>0, <1>1 DEF JpegInv, Handle, Queued, Feeding
<1>2. Shape'
  <2>1. IsSession(ses'[S])
    BY <1>1, Built DEF JpegInv, Shape, IsSession, Omx
  <2>2. IsCall(cl')
    BY <1>1, Built DEF JpegInv, Shape, IsCall, Changing, Resting, Holding
  <2>3. DOMAIN ses' = {S} /\ DOMAIN mgr' = {"pc", "s"} /\ jobQ' \in Seq(Jobs \cup {Exit})
    BY <1>1, Built DEF JpegInv, Shape
  <2>. QED
    BY <2>1, <2>2, <2>3, <1>1, Built DEF JpegInv, Shape
<1>3. Calls'
  BY <1>0, <1>1, Built DEF JpegInv, Calls, Holding, Changing, Resting
<1>4. Queued'
  BY <1>0, <1>1, Built DEF JpegInv, Queued, Resting, Calls
<1>5. Encoder'
  BY <1>0, <1>1, Built
    DEF JpegInv, Encoder, Live, Feeding, Calls, Holding, Changing, Resting, Shape, IsSession
<1>6. Kept'
  BY <1>0, <1>1, Built DEF JpegInv, Kept, Live, Feeding, Calls, Holding, Changing, Resting
<1>7. Handle'
  BY <1>1, Built DEF JpegInv, Handle
<1>. QED
  BY <1>2, <1>3, <1>4, <1>5, <1>6, <1>7 DEF JpegInv

LEMMA SessionAbortKeeps == ASSUME AsBuilt, JpegInv, SessionAbort PROVE JpegInv'
<1>1. /\ cl.pc = "abort" /\ cl.at = 1 /\ Chain[cl.at] = S
  BY Built DEF JpegInv, Calls, SessionAbort, S
<1>2. /\ DOMAIN cl' = DOMAIN cl /\ cl'.job = cl.job /\ cl'.op = cl.op /\ cl'.at = cl.at
      /\ cl'.todo = cl.todo /\ cl'.pc \in {"wait", "aborted"} /\ DOMAIN ses' = {S}
      /\ DOMAIN ses'[S] = DOMAIN ses[S] /\ ses'[S].encoding = ses[S].encoding
      /\ ses'[S].job = ses[S].job /\ ses'[S].omx = ses[S].omx /\ ses'[S].state = ses[S].state
      /\ ses'[S].cmd = ses[S].cmd /\ ses'[S].pending \in BOOLEAN
      /\ ses'[S].err = ses[S].err /\ ses'[S].config = ses[S].config
      /\ cl'.pc = "wait" => ses[S].abort = "NONE" /\ ses'[S].abort = "INIT" /\ ses[S].encoding
      /\ cl'.pc = "aborted" /\ ses[S].abort # "NONE" => ses'[S].abort = ses[S].abort
      /\ cl'.pc = "aborted" /\ ses[S].abort = "NONE" => ses'[S].abort = "DONE" /\ ~ses[S].encoding
  <2>1. CASE ses[S].abort # "NONE"
    <3>1. ses' = ses /\ cl' = [cl EXCEPT !.pc = "aborted"]
      BY <1>1, <2>1, Zenon DEF SessionAbort, ClGoes
    <3>. QED
      BY <2>1, <3>1 DEF JpegInv, Shape, IsSession, IsCall
  <2>2. CASE ses[S].abort = "NONE" /\ ses[S].encoding
    <3>1. /\ ses' = [ses EXCEPT ![S].abort = IF ses[S].encoding THEN "INIT" ELSE "DONE",
                                    ![S].pending = @ \/ ses[S].encoding]
          /\ cl' = [cl EXCEPT !.pc = "wait"]
      BY <1>1, <2>2 DEF SessionAbort
    <3>. QED
      BY <2>2, <3>1 DEF JpegInv, Shape, IsSession, IsCall
  <2>3. CASE ses[S].abort = "NONE" /\ ~ses[S].encoding
    <3>1. /\ ses' = [ses EXCEPT ![S].abort = IF ses[S].encoding THEN "INIT" ELSE "DONE",
                                    ![S].pending = @ \/ ses[S].encoding]
          /\ cl' = [cl EXCEPT !.pc = "aborted"]
      <4>2. cl.at = 1 /\ Len(Chain) = 1
        BY <1>1, Built, Zenon
      <4>1. ~(cl.at < Len(Chain))
        BY <4>2
      <4>. QED
        BY <1>1, <2>3, <4>1, Zenon DEF SessionAbort
    <3>. QED
      BY <2>3, <3>1 DEF JpegInv, Shape, IsSession, IsCall
  <2>. QED
    BY <2>1, <2>2, <2>3 DEF JpegInv, Shape, IsSession
<1>3. /\ jobQ' = jobQ /\ ongoing' = ongoing /\ tokens' = tokens /\ fate' = fate
      /\ answers' = answers /\ idleQ' = idleQ /\ mgr' = mgr /\ jobLock' = jobLock
  BY DEF SessionAbort
<1>4. Shape'
  <2>1. IsSession(ses'[S])
    BY <1>1, <1>2, <1>3, Built DEF JpegInv, Shape, IsSession, Omx
  <2>2. IsCall(cl')
    BY <1>1, <1>2, <1>3, Built DEF JpegInv, Shape, IsCall, Changing, Resting, Holding
  <2>3. DOMAIN ses' = {S} /\ DOMAIN mgr' = {"pc", "s"} /\ jobQ' \in Seq(Jobs \cup {Exit})
    BY <1>1, <1>2, <1>3, Built DEF JpegInv, Shape
  <2>. QED
    BY <2>1, <2>2, <2>3, <1>1, <1>2, <1>3, Built DEF JpegInv, Shape
<1>5. Calls'
  BY <1>1, <1>2, <1>3, Built DEF JpegInv, Calls, Holding, Changing, Resting
<1>6. Queued'
  BY <1>1, <1>2, <1>3, Built DEF JpegInv, Queued
<1>7. Encoder'
  BY <1>1, <1>2, <1>3, Built
    DEF JpegInv, Encoder, Live, Feeding, Calls, Holding, Changing, Resting, Shape, IsSession
<1>8. Kept'
  BY <1>1, <1>2, <1>3, Built DEF JpegInv, Kept, Live, Feeding, Calls, Holding, Changing, Resting
<1>9. Handle'
  BY <1>1, <1>2, <1>3, Built DEF JpegInv, Handle
<1>. QED
  BY <1>4, <1>5, <1>6, <1>7, <1>8, <1>9 DEF JpegInv

LEMMA OpenKeeps == ASSUME AsBuilt, JpegInv, Open PROVE JpegInv'
<1>1. /\ cl.pc = "closed" /\ cl'.pc = "open" /\ cl'.job = cl.job /\ cl'.op = cl.op
      /\ cl'.at = cl.at /\ cl'.todo = cl.todo /\ DOMAIN cl' = DOMAIN cl /\ jobQ' = jobQ
      /\ ongoing' = ongoing /\ tokens' = tokens /\ fate' = fate /\ answers' = answers
      /\ ses' = ses /\ idleQ' = idleQ /\ jobLock' = jobLock /\ mgr.pc = "off"
      /\ DOMAIN mgr' = {"pc", "s"} /\ mgr'.pc = "wait" /\ mgr'.s = None
  BY DEF JpegInv, Shape, IsSession, IsCall, Open, ClGoes, MgrWaits
<1>2. Shape'
  <2>1. IsSession(ses'[S])
    BY <1>1, Built DEF JpegInv, Shape, IsSession, Omx
  <2>2. IsCall(cl')
    BY <1>1, Built DEF JpegInv, Shape, IsCall, Changing, Resting, Holding
  <2>3. DOMAIN ses' = {S} /\ DOMAIN mgr' = {"pc", "s"} /\ jobQ' \in Seq(Jobs \cup {Exit})
    BY <1>1, Built DEF JpegInv, Shape
  <2>. QED
    BY <2>1, <2>2, <2>3, <1>1, Built DEF JpegInv, Shape
<1>3. Calls'
  BY <1>1, Built DEF JpegInv, Calls, Holding, Changing, Resting
<1>4. Queued'
  BY <1>1, Built DEF JpegInv, Queued
<1>5. Encoder'
  BY <1>1, Built
    DEF JpegInv, Encoder, Live, Feeding, Calls, Holding, Changing, Resting, Shape, IsSession
<1>6. Kept'
  BY <1>1, Built DEF JpegInv, Kept, Live, Feeding, Calls, Holding, Changing, Resting
<1>7. Handle'
  BY <1>1, Built DEF JpegInv, Handle
<1>. QED
  BY <1>2, <1>3, <1>4, <1>5, <1>6, <1>7 DEF JpegInv

(* Nothing changes but the bound on sessions.                                *)
LEMMA Unchanged ==
    ASSUME JpegInv,
           UNCHANGED <<jobQ, ongoing, tokens, jobLock, mgr, ses, idleQ, cl, fate, answers>>
    PROVE  JpegInv'
<1>1. Shape' /\ Calls'
  BY DEF JpegInv, Shape, Calls, IsSession, IsCall
<1>2. Queued' /\ Kept' /\ Handle'
  BY DEF JpegInv, Queued, Kept, Handle, Live, Feeding
<1>3. Encoder'
  BY DEF JpegInv, Encoder, Live, Feeding
<1>. QED
  BY <1>1, <1>2, <1>3 DEF JpegInv

LEMMA CreateKeeps == ASSUME AsBuilt, JpegInv, CreateSession, cl'.pc # "ready" PROVE JpegInv'
<1>0. /\ cl' = [NoCall EXCEPT !.pc = "change", !.op = "create_session", !.at = 1,
                             !.todo = <<"Idle", "Executing">>]
      /\ ses' = [ses EXCEPT ![S] = [NoSession EXCEPT !.state = "Loaded"]]
      /\ idleQ' = <<S>>
  <2>1. ~ClGoes("ready")
    BY DEF ClGoes, JpegInv, Shape, IsCall
  <2>. QED
    BY <2>1, Zenon DEF CreateSession, S
<1>1. /\ cl.pc = "open" /\ DOMAIN cl' = {"pc", "job", "op", "at", "todo"}
      /\ cl'.pc = "change" /\ cl'.job = None /\ cl'.op = "create_session" /\ cl'.at = 1
      /\ cl'.todo = <<"Idle", "Executing">>
  BY <1>0 DEF CreateSession, NoCall
<1>2. /\ <<"Idle", "Executing">> \in Seq(Omx) /\ <<"Idle", "Executing">> # <<>>
      /\ cl.op = None
  BY <1>1 DEF Omx, JpegInv, Calls, Resting
<1>3. /\ DOMAIN ses' = {S}
      /\ DOMAIN ses'[S] = {"abort", "encoding", "job", "omx", "state", "cmd", "pending", "err", "config"}
      /\ ses'[S].abort = "NONE" /\ ses'[S].encoding = FALSE /\ ses'[S].job = None
      /\ ses'[S].omx = "idle" /\ ses'[S].cmd = None /\ ses'[S].pending = FALSE
      /\ ses'[S].err = FALSE /\ ses'[S].config = FALSE /\ ses'[S].state = "Loaded"
  <2>1. ses' = [ses EXCEPT ![S] = [NoSession EXCEPT !.state = "Loaded"]]
    BY <1>0
  <2>2. DOMAIN ses = {S}
    BY DEF JpegInv, Shape
  <2>. QED
    BY <2>1, <2>2 DEF NoSession
<1>4. /\ idleQ' = <<S>> /\ jobQ' = jobQ /\ ongoing' = ongoing /\ tokens' = tokens
      /\ fate' = fate /\ answers' = answers /\ mgr' = mgr /\ jobLock' = jobLock
  BY <1>0 DEF CreateSession, S
<1>5. Shape'
  <2>1. IsSession(ses'[S])
    BY <1>1, <1>2, <1>3, <1>4, Built DEF JpegInv, Shape, IsSession, Omx
  <2>2. IsCall(cl')
    BY <1>1, <1>2, <1>3, <1>4, Built DEF JpegInv, Shape, IsCall, Changing, Resting, Holding
  <2>3. DOMAIN ses' = {S} /\ DOMAIN mgr' = {"pc", "s"} /\ jobQ' \in Seq(Jobs \cup {Exit})
    BY <1>1, <1>2, <1>3, <1>4, Built DEF JpegInv, Shape
  <2>. QED
    BY <2>1, <2>2, <2>3, <1>1, <1>2, <1>3, <1>4, Built DEF JpegInv, Shape
<1>6. Calls'
  BY <1>1, <1>2, <1>3, <1>4, Built DEF JpegInv, Calls, Holding, Changing, Resting
<1>7. Queued'
  BY <1>1, <1>2, <1>3, <1>4, Built DEF JpegInv, Queued
<1>8. Encoder'
  BY <1>1, <1>2, <1>3, <1>4, Built
    DEF JpegInv, Encoder, Live, Feeding, Calls, Holding, Changing, Resting, Shape, IsSession
<1>9. Kept'
  BY <1>1, <1>2, <1>3, <1>4, Built
    DEF JpegInv, Kept, Live, Feeding, Calls, Holding, Changing, Resting
<1>10. Handle'
  BY <1>1, <1>2, <1>3, <1>4, Built DEF JpegInv, Handle
<1>. QED
  BY <1>5, <1>6, <1>7, <1>8, <1>9, <1>10 DEF JpegInv

(* What becomes of the call when a change of state has been tried.          *)
GoesOn ==
  /\ DOMAIN cl' = DOMAIN cl /\ cl'.pc = "change" /\ cl'.job = cl.job /\ cl'.op = cl.op
  /\ cl'.at = cl.at /\ cl'.todo = Tail(cl.todo) /\ ses' = ses /\ idleQ' = idleQ

Returns ==
  /\ cl.op = "create_session" /\ cl'.pc \in {"ready", "stopping"}
  /\ DOMAIN cl' = {"pc", "job", "op", "at", "todo"} /\ cl'.job = None /\ cl'.op = None
  /\ cl'.at = 0 /\ cl'.todo = <<>> /\ DOMAIN ses' = {S} /\ DOMAIN ses'[S] = DOMAIN ses[S]
  /\ ses'[S].abort = ses[S].abort /\ ses'[S].encoding = ses[S].encoding
  /\ ses'[S].job = ses[S].job /\ ses'[S].omx = ses[S].omx /\ ses'[S].state = ses[S].state
  /\ ses'[S].cmd = ses[S].cmd /\ ses'[S].pending = ses[S].pending
  /\ ses'[S].err = ses[S].err
  /\ ses'[S].config \in BOOLEAN /\ (cl'.pc = "stopping" => ses'[S].config = ses[S].config)
  /\ idleQ' = idleQ

LEMMA NewCall ==
    ASSUME NEW p, NEW c, c = [NoCall EXCEPT !.pc = p]
    PROVE  /\ DOMAIN c = {"pc", "job", "op", "at", "todo"}
           /\ c.pc = p /\ c.job = None /\ c.op = None /\ c.at = 0 /\ c.todo = <<>>
BY DEF NoCall

LEMMA Outcome ==
    ASSUME AsBuilt, JpegInv, cl.pc \in Changing, cl.todo # <<>>, NEW ok \in BOOLEAN, Transits(ok)
    PROVE  \/ GoesOn /\ (cl.op = "destroy_session" \/ (ok /\ Tail(cl.todo) # <<>>))
           \/ Returns /\ (cl'.pc = "ready" => ok)
<1>1. cl.at = 1 /\ Here = S /\ cl.op \in {"create_session", "destroy_session"}
  BY DEF JpegInv, Calls, Here, S
<1>2. CASE cl.op = "destroy_session" \/ (ok /\ Tail(cl.todo) # <<>>)
  <2>1. cl' = [cl EXCEPT !.pc = "change", !.todo = Tail(cl.todo)] /\ ses' = ses /\ idleQ' = idleQ
    BY <1>2, Zenon DEF Transits
  <2>. QED
    BY <1>2, <2>1 DEF GoesOn, JpegInv, Shape, IsCall
<1>3. CASE ~(cl.op = "destroy_session" \/ (ok /\ Tail(cl.todo) # <<>>))
  <2>1. NextOf(ok)
    BY <1>3, Zenon DEF Transits
  <2>2. cl.at = 1 /\ Len(Chain) = 1
    BY <1>1, Built, Zenon
  <2>3. ~(cl.at < Len(Chain))
    BY <2>2
  <2>4. CASE ok
    <3>1. cl' = [NoCall EXCEPT !.pc = "ready"] /\ ses' = [ses EXCEPT ![S].config = TRUE] /\ idleQ' = idleQ
      BY <1>1, <2>1, <2>3, <2>4 DEF NextOf
    <3>2. /\ DOMAIN cl' = {"pc", "job", "op", "at", "todo"} /\ cl'.pc = "ready" /\ cl'.job = None
          /\ cl'.op = None /\ cl'.at = 0 /\ cl'.todo = <<>>
      BY <3>1, NewCall
    <3>3. /\ DOMAIN ses' = {S} /\ DOMAIN ses'[S] = DOMAIN ses[S] /\ ses'[S].abort = ses[S].abort
          /\ ses'[S].encoding = ses[S].encoding /\ ses'[S].job = ses[S].job
          /\ ses'[S].omx = ses[S].omx /\ ses'[S].state = ses[S].state /\ ses'[S].cmd = ses[S].cmd
          /\ ses'[S].pending = ses[S].pending /\ ses'[S].err = ses[S].err
          /\ ses'[S].config = TRUE
      BY <3>1 DEF JpegInv, Shape, IsSession
    <3>. QED
      BY <1>1, <1>3, <2>4, <3>1, <3>2, <3>3 DEF Returns
  <2>5. CASE ~ok
    <3>1. cl' = [NoCall EXCEPT !.pc = "stopping"] /\ ses' = ses /\ idleQ' = idleQ
      BY <1>1, <2>1, <2>3, <2>5 DEF NextOf
    <3>2. /\ DOMAIN cl' = {"pc", "job", "op", "at", "todo"} /\ cl'.pc = "stopping"
          /\ cl'.job = None /\ cl'.op = None /\ cl'.at = 0 /\ cl'.todo = <<>>
      BY <3>1, NewCall
    <3>. QED
      BY <1>1, <1>3, <2>5, <3>1, <3>2 DEF Returns, JpegInv, Shape, IsSession
  <2>. QED
    BY <2>4, <2>5
<1>. QED
  BY <1>2, <1>3

LEMMA GoesOnKeeps ==
    ASSUME AsBuilt, JpegInv, cl.pc \in {"change", "sent", "woken"}, cl.todo # <<>>,
           UNCHANGED <<jobQ, ongoing, tokens, jobLock, mgr, fate, answers>>,
           GoesOn, cl.op = "destroy_session" \/ Tail(cl.todo) # <<>>,
           ses[S].config \/ cl.op = "create_session" => ses[S].err \/ ses[S].cmd = None
    PROVE  JpegInv'
<1>1. /\ DOMAIN cl' = DOMAIN cl /\ cl'.pc = "change" /\ cl'.job = cl.job /\ cl'.op = cl.op
      /\ cl'.at = cl.at /\ cl'.todo = Tail(cl.todo) /\ cl'.todo \in Seq(Omx)
      /\ cl.pc \in Changing /\ ses' = ses /\ idleQ' = idleQ
  BY DEF JpegInv, Shape, IsSession, IsCall, GoesOn, Changing
<1>2. Shape'
  <2>1. IsSession(ses'[S])
    BY <1>1, Built DEF JpegInv, Shape, IsSession, Omx
  <2>2. IsCall(cl')
    BY <1>1, Built DEF JpegInv, Shape, IsCall, Changing, Resting, Holding
  <2>3. DOMAIN ses' = {S} /\ DOMAIN mgr' = {"pc", "s"} /\ jobQ' \in Seq(Jobs \cup {Exit})
    BY <1>1, Built DEF JpegInv, Shape
  <2>. QED
    BY <2>1, <2>2, <2>3, <1>1, Built DEF JpegInv, Shape
<1>3. Calls'
  BY <1>1, Built DEF JpegInv, Calls, Holding, Changing, Resting
<1>4. Queued'
  BY <1>1, Built DEF JpegInv, Queued
<1>5. Encoder'
  BY <1>1, Built
    DEF JpegInv, Encoder, Live, Feeding, Calls, Holding, Changing, Resting, Shape, IsSession
<1>6. Kept'
  BY <1>1, Built DEF JpegInv, Kept, Live, Feeding, Calls, Holding, Changing, Resting
<1>7. Handle'
  BY <1>1, Built DEF JpegInv, Handle
<1>. QED
  BY <1>2, <1>3, <1>4, <1>5, <1>6, <1>7 DEF JpegInv

LEMMA ReturnsKeeps ==
    ASSUME AsBuilt, JpegInv, cl.pc \in {"change", "sent", "woken"}, cl.todo # <<>>,
           UNCHANGED <<jobQ, ongoing, tokens, jobLock, mgr, fate, answers>>,
           Returns, cl'.pc = "ready" => ses[S].err \/ ses[S].cmd = None
    PROVE  JpegInv'
<1>1. /\ DOMAIN cl' = {"pc", "job", "op", "at", "todo"} /\ cl'.job = None /\ cl'.op = None
      /\ cl'.at = 0 /\ cl'.todo = <<>> /\ cl'.pc \in {"ready", "stopping"}
      /\ DOMAIN ses' = {S} /\ DOMAIN ses'[S] = DOMAIN ses[S] /\ ses'[S].abort = ses[S].abort
      /\ ses'[S].encoding = ses[S].encoding /\ ses'[S].job = ses[S].job
      /\ ses'[S].omx = ses[S].omx /\ ses'[S].state = ses[S].state /\ ses'[S].cmd = ses[S].cmd
      /\ ses'[S].pending = ses[S].pending /\ ses'[S].err = ses[S].err
      /\ ses'[S].config \in BOOLEAN
      /\ (cl'.pc = "stopping" => ses'[S].config = ses[S].config) /\ idleQ' = idleQ
      /\ cl.op = "create_session"
  BY DEF Returns
<1>2. /\ cl.pc \in Changing
  BY DEF Changing
<1>3. Shape'
  <2>1. IsSession(ses'[S])
    BY <1>1, <1>2, Built DEF JpegInv, Shape, IsSession, Omx
  <2>2. IsCall(cl')
    BY <1>1, <1>2, Built DEF JpegInv, Shape, IsCall, Changing, Resting, Holding
  <2>3. DOMAIN ses' = {S} /\ DOMAIN mgr' = {"pc", "s"} /\ jobQ' \in Seq(Jobs \cup {Exit})
    BY <1>1, <1>2, Built DEF JpegInv, Shape
  <2>. QED
    BY <2>1, <2>2, <2>3, <1>1, <1>2, Built DEF JpegInv, Shape
<1>4. Calls'
  BY <1>1, <1>2, Built DEF JpegInv, Calls, Holding, Changing, Resting
<1>5. Queued'
  BY <1>1, <1>2, Built DEF JpegInv, Queued
<1>6. Encoder'
  BY <1>1, <1>2, Built
    DEF JpegInv, Encoder, Live, Feeding, Calls, Holding, Changing, Resting, Shape, IsSession
<1>7. Kept'
  BY <1>1, <1>2, Built DEF JpegInv, Kept, Live, Feeding, Calls, Holding, Changing, Resting
<1>8. Handle'
  BY <1>1, <1>2, Built DEF JpegInv, Handle
<1>. QED
  BY <1>3, <1>4, <1>5, <1>6, <1>7, <1>8 DEF JpegInv

LEMMA TransitKeeps ==
    ASSUME AsBuilt, JpegInv, cl.pc \in {"change", "sent", "woken"}, cl.todo # <<>>,
           UNCHANGED <<jobQ, ongoing, tokens, jobLock, mgr, fate, answers>>,
           NEW ok \in BOOLEAN, Transits(ok),
           (ses[S].config \/ cl.op = "create_session") /\ (ok \/ cl.op = "destroy_session") =>
             ses[S].err \/ ses[S].cmd = None
    PROVE  JpegInv'
<1>1. \/ GoesOn /\ (cl.op = "destroy_session" \/ (ok /\ Tail(cl.todo) # <<>>))
      \/ Returns /\ (cl'.pc = "ready" => ok)
  BY Outcome DEF Changing
<1>2. CASE GoesOn /\ (cl.op = "destroy_session" \/ (ok /\ Tail(cl.todo) # <<>>))
  BY <1>2, GoesOnKeeps
<1>3. CASE Returns /\ (cl'.pc = "ready" => ok)
  BY <1>3, ReturnsKeeps DEF Returns
<1>. QED
  BY <1>1, <1>2, <1>3

LEMMA ConfigRefusedKeeps == ASSUME AsBuilt, JpegInv, ConfigRefused PROVE JpegInv'
<1>1. /\ cl.pc = "change" /\ cl.op = "create_session" /\ Transits(FALSE)
      /\ UNCHANGED <<jobQ, ongoing, tokens, jobLock, mgr, fate, answers>>
  BY DEF ConfigRefused
<1>2. cl.todo # <<>> /\ (ses[S].err \/ ses[S].cmd = None)
  BY <1>1 DEF JpegInv, Calls, Handle
<1>. QED
  BY <1>1, <1>2, TransitKeeps

LEMMA SentKeeps ==
    ASSUME AsBuilt, JpegInv,
           cl.pc = "change", cl.todo # <<>>,
           ses' = [ses EXCEPT ![S].pending = TRUE, ![S].cmd = Head(cl.todo)], ClGoes("sent"),
           UNCHANGED <<jobQ, ongoing, tokens, jobLock, mgr, idleQ, fate, answers>>
    PROVE  JpegInv'
<1>1. /\ cl'.pc = "sent" /\ cl'.job = cl.job /\ cl'.op = cl.op /\ cl'.at = cl.at
      /\ cl'.todo = cl.todo /\ DOMAIN cl' = DOMAIN cl
  BY DEF JpegInv, Shape, IsSession, IsCall, ClGoes
<1>2. /\ DOMAIN ses' = {S} /\ DOMAIN ses'[S] = DOMAIN ses[S] /\ ses'[S].abort = ses[S].abort
      /\ ses'[S].encoding = ses[S].encoding /\ ses'[S].job = ses[S].job
      /\ ses'[S].omx = ses[S].omx /\ ses'[S].state = ses[S].state /\ ses'[S].err = ses[S].err
      /\ ses'[S].config = ses[S].config /\ ses'[S].pending = TRUE /\ ses'[S].cmd \in Omx
      /\ Omx \subseteq Omx \cup {None}
  <2>1. Head(cl.todo) \in Omx
    BY DEF JpegInv, Shape, IsCall
  <2>. QED
    BY <2>1 DEF JpegInv, Shape, IsSession
<1>3. /\ cl.pc = "change" /\ cl.todo # <<>> /\ jobQ' = jobQ /\ ongoing' = ongoing
      /\ tokens' = tokens /\ fate' = fate /\ answers' = answers /\ idleQ' = idleQ
      /\ mgr' = mgr /\ jobLock' = jobLock
  OBVIOUS
<1>4. Shape'
  <2>1. IsSession(ses'[S])
    BY <1>1, <1>2, <1>3, Built DEF JpegInv, Shape, IsSession, Omx
  <2>2. IsCall(cl')
    BY <1>1, <1>2, <1>3, Built DEF JpegInv, Shape, IsCall, Changing, Resting, Holding
  <2>3. DOMAIN ses' = {S} /\ DOMAIN mgr' = {"pc", "s"} /\ jobQ' \in Seq(Jobs \cup {Exit})
    BY <1>1, <1>2, <1>3, Built DEF JpegInv, Shape
  <2>. QED
    BY <2>1, <2>2, <2>3, <1>1, <1>2, <1>3, Built DEF JpegInv, Shape
<1>5. Calls'
  BY <1>1, <1>2, <1>3, Built DEF JpegInv, Calls, Holding, Changing, Resting
<1>6. Queued'
  BY <1>1, <1>2, <1>3, Built DEF JpegInv, Queued
<1>7. Encoder'
  BY <1>1, <1>2, <1>3, Built
    DEF JpegInv, Encoder, Live, Feeding, Calls, Holding, Changing, Resting, Shape, IsSession
<1>8. Kept'
  BY <1>1, <1>2, <1>3, Built DEF JpegInv, Kept, Live, Feeding, Calls, Holding, Changing, Resting
<1>9. Handle'
  BY <1>1, <1>2, <1>3, Built DEF JpegInv, Handle
<1>. QED
  BY <1>4, <1>5, <1>6, <1>7, <1>8, <1>9 DEF JpegInv

LEMMA SendCommandKeeps == ASSUME AsBuilt, JpegInv, SendCommand PROVE JpegInv'
<1>1. /\ cl.pc = "change" /\ cl.todo # <<>>
      /\ UNCHANGED <<jobQ, ongoing, tokens, jobLock, mgr, fate, answers>>
  BY DEF SendCommand
<1>2. Here = S /\ (ses[S].config \/ cl.op = "create_session" => ses[S].err \/ ses[S].cmd = None)
  BY <1>1 DEF JpegInv, Calls, Handle, Here, S, Changing
<1>3. CASE Transits(FALSE)
  BY <1>1, <1>2, <1>3, TransitKeeps
<1>4. CASE ~Transits(FALSE)
  <2>1. /\ ses' = [ses EXCEPT ![S].pending = TRUE, ![S].cmd = Head(cl.todo)]
        /\ ClGoes("sent") /\ UNCHANGED idleQ
    BY <1>2, <1>4, Zenon DEF SendCommand
  <2>. QED
    BY <1>1, <2>1, SentKeeps
<1>. QED
  BY <1>3, <1>4

LEMMA NotWantedKeeps == ASSUME AsBuilt, JpegInv, NotWanted PROVE JpegInv'
<1>1. /\ cl.pc = "change" /\ cl.todo # <<>> /\ cl.op = "destroy_session"
  BY DEF NotWanted, Wanted, JpegInv, Calls, Changing
<1>2. /\ cl'.todo = Tail(cl.todo) /\ cl'.todo \in Seq(Omx) /\ cl'.pc = cl.pc
      /\ cl'.job = cl.job /\ cl'.op = cl.op /\ cl'.at = cl.at /\ DOMAIN cl' = DOMAIN cl
      /\ jobQ' = jobQ /\ ongoing' = ongoing /\ tokens' = tokens /\ fate' = fate
      /\ answers' = answers /\ ses' = ses /\ idleQ' = idleQ /\ mgr' = mgr
      /\ jobLock' = jobLock
  BY <1>1 DEF JpegInv, Shape, IsSession, IsCall, NotWanted
<1>3. Shape'
  <2>1. IsSession(ses'[S])
    BY <1>1, <1>2, Built DEF JpegInv, Shape, IsSession, Omx
  <2>2. IsCall(cl')
    BY <1>1, <1>2, Built DEF JpegInv, Shape, IsCall, Changing, Resting, Holding
  <2>3. DOMAIN ses' = {S} /\ DOMAIN mgr' = {"pc", "s"} /\ jobQ' \in Seq(Jobs \cup {Exit})
    BY <1>1, <1>2, Built DEF JpegInv, Shape
  <2>. QED
    BY <2>1, <2>2, <2>3, <1>1, <1>2, Built DEF JpegInv, Shape
<1>4. Calls'
  BY <1>1, <1>2, Built DEF JpegInv, Calls, Holding, Changing, Resting
<1>5. Queued'
  BY <1>1, <1>2, Built DEF JpegInv, Queued
<1>6. Encoder'
  BY <1>1, <1>2, Built
    DEF JpegInv, Encoder, Live, Feeding, Calls, Holding, Changing, Resting, Shape, IsSession
<1>7. Kept'
  BY <1>1, <1>2, Built DEF JpegInv, Kept, Live, Feeding, Calls, Holding, Changing, Resting
<1>8. Handle'
  BY <1>1, <1>2, Built DEF JpegInv, Handle
<1>. QED
  BY <1>3, <1>4, <1>5, <1>6, <1>7, <1>8 DEF JpegInv

LEMMA AwaitedKeeps ==
    ASSUME AsBuilt, JpegInv,
           cl.pc = "sent", ses[S].pending, ClGoes("await"),
           UNCHANGED <<jobQ, ongoing, tokens, jobLock, mgr, ses, idleQ, fate, answers>>
    PROVE  JpegInv'
<1>1. /\ cl.pc = "sent" /\ ses[S].pending /\ cl'.pc = "await" /\ cl'.job = cl.job
      /\ cl'.op = cl.op /\ cl'.at = cl.at /\ cl'.todo = cl.todo /\ DOMAIN cl' = DOMAIN cl
      /\ jobQ' = jobQ /\ ongoing' = ongoing /\ tokens' = tokens /\ fate' = fate
      /\ answers' = answers /\ ses' = ses /\ idleQ' = idleQ /\ mgr' = mgr
      /\ jobLock' = jobLock
  BY DEF JpegInv, Shape, IsSession, IsCall, ClGoes
<1>2. Shape'
  <2>1. IsSession(ses'[S])
    BY <1>1, Built DEF JpegInv, Shape, IsSession, Omx
  <2>2. IsCall(cl')
    BY <1>1, Built DEF JpegInv, Shape, IsCall, Changing, Resting, Holding
  <2>3. DOMAIN ses' = {S} /\ DOMAIN mgr' = {"pc", "s"} /\ jobQ' \in Seq(Jobs \cup {Exit})
    BY <1>1, Built DEF JpegInv, Shape
  <2>. QED
    BY <2>1, <2>2, <2>3, <1>1, Built DEF JpegInv, Shape
<1>3. Calls'
  BY <1>1, Built DEF JpegInv, Calls, Holding, Changing, Resting
<1>4. Queued'
  BY <1>1, Built DEF JpegInv, Queued
<1>5. Encoder'
  BY <1>1, Built
    DEF JpegInv, Encoder, Live, Feeding, Calls, Holding, Changing, Resting, Shape, IsSession
<1>6. Kept'
  BY <1>1, Built DEF JpegInv, Kept, Live, Feeding, Calls, Holding, Changing, Resting
<1>7. Handle'
  BY <1>1, Built DEF JpegInv, Handle
<1>. QED
  BY <1>2, <1>3, <1>4, <1>5, <1>6, <1>7 DEF JpegInv

LEMMA AwaitChangeKeeps == ASSUME AsBuilt, JpegInv, AwaitChange PROVE JpegInv'
<1>1. /\ cl.pc = "sent" /\ UNCHANGED <<jobQ, ongoing, tokens, jobLock, mgr, fate, answers>>
  BY DEF AwaitChange
<1>2. /\ Here = S /\ cl.todo # <<>>
      /\ (ses[S].config \/ cl.op = "create_session") /\ ~ses[S].pending => ses[S].err \/ ses[S].cmd = None
  BY <1>1 DEF JpegInv, Calls, Handle, Here, S, Changing
<1>3. \/ ses[S].err /\ Transits(FALSE)
      \/ ses[S].pending /\ ClGoes("await") /\ UNCHANGED <<ses, idleQ>>
      \/ ~ses[S].pending /\ Transits(TRUE)
      \/ cl.op = "create_session" /\ Transits(FALSE)
  BY <1>2, Zenon DEF AwaitChange
<1>4. CASE ses[S].err /\ Transits(FALSE)
  BY <1>1, <1>2, <1>4, TransitKeeps
<1>5. CASE ses[S].pending /\ ClGoes("await") /\ UNCHANGED <<ses, idleQ>>
  BY <1>1, <1>5, AwaitedKeeps
<1>6. CASE ~ses[S].pending /\ Transits(TRUE)
  BY <1>1, <1>2, <1>6, TransitKeeps
<1>7. CASE cl.op = "create_session" /\ Transits(FALSE)
  BY <1>1, <1>2, <1>7, TransitKeeps
<1>. QED
  BY <1>3, <1>4, <1>5, <1>6, <1>7

LEMMA ChangeSignalledKeeps == ASSUME AsBuilt, JpegInv, ChangeSignalled PROVE JpegInv'
<1>1. /\ cl.pc = "woken" /\ UNCHANGED <<jobQ, ongoing, tokens, jobLock, mgr, fate, answers>>
      /\ Transits(TRUE)
  BY DEF ChangeSignalled
<1>2. cl.todo # <<>> /\ (ses[S].config \/ cl.op = "create_session" => ses[S].err \/ ses[S].cmd = None)
  BY <1>1 DEF JpegInv, Calls, Handle
<1>. QED
  BY <1>1, <1>2, TransitKeeps

(* Success without a session.                                                *)
LEMMA NoHandleKeeps ==
    ASSUME AsBuilt, JpegInv, CreateSession, cl'.pc = "ready"
    PROVE  JpegInv'
<1>1. /\ cl.pc = "open" /\ cl' = [cl EXCEPT !.pc = "ready"] /\ idleQ' = <<>>
      /\ ses' = [ses EXCEPT ![S] = NoSession]
      /\ UNCHANGED <<jobQ, ongoing, tokens, jobLock, mgr, fate, answers>>
  BY DEF CreateSession, ClGoes, NoCall, S
<1>2. /\ DOMAIN cl' = DOMAIN cl /\ cl'.pc = "ready" /\ cl'.job = cl.job /\ cl'.op = cl.op
      /\ cl'.at = cl.at /\ cl'.todo = cl.todo
  BY <1>1 DEF JpegInv, Shape, IsCall
<1>3. /\ DOMAIN ses' = {S}
      /\ DOMAIN ses'[S] = {"abort", "encoding", "job", "omx", "state", "cmd", "pending", "err", "config"}
      /\ ses'[S].abort = "NONE" /\ ses'[S].encoding = FALSE /\ ses'[S].job = None
      /\ ses'[S].omx = "idle" /\ ses'[S].cmd = None /\ ses'[S].pending = FALSE
      /\ ses'[S].err = FALSE /\ ses'[S].config = FALSE /\ ses'[S].state = "none"
  BY <1>1 DEF NoSession, JpegInv, Shape
<1>4. mgr.pc \notin {"feed", "fill"} /\ \A j \in Jobs : fate[j] # "asked"
  BY <1>1 DEF JpegInv, Calls, Kept
<1>5. Shape'
  <2>1. IsSession(ses'[S])
    BY <1>3, Built DEF IsSession, Omx
  <2>2. IsCall(cl')
    BY <1>2, Built DEF JpegInv, Shape, IsCall, Changing, Resting, Holding
  <2>. QED
    BY <2>1, <2>2, <1>1, <1>3, Built DEF JpegInv, Shape
<1>6. Calls'
  BY <1>1, <1>2, <1>3, <1>4, Built DEF JpegInv, Calls, Holding, Changing, Resting
<1>7. Queued'
  BY <1>1, <1>2, <1>3, <1>4, Built DEF JpegInv, Queued
<1>8. Encoder'
  BY <1>1, <1>2, <1>3, <1>4, Built DEF Encoder, Live, Feeding
<1>9. Kept' /\ Handle'
  <2>1. cl'.op = None
    BY <1>1, <1>2 DEF JpegInv, Calls, Resting
  <2>. QED
    BY <1>1, <1>2, <1>3, <1>4, <2>1, Built DEF Kept, Handle
<1>. QED
  BY <1>5, <1>6, <1>7, <1>8, <1>9 DEF JpegInv

LEMMA CreateSessionKeeps == ASSUME AsBuilt, JpegInv, CreateSession PROVE JpegInv'
BY CreateKeeps, NoHandleKeeps

LEMMA StartJobKeeps ==
    ASSUME AsBuilt, JpegInv,
           NEW j \in Jobs, StartJob(j)
    PROVE  JpegInv'
<1>1. /\ cl.pc = "ready" /\ fate[j] = "new" /\ answers[j] = 0 /\ ~Holds(jobQ, j)
      /\ fate'[j] = "asked" /\ (\A k \in Jobs : k # j => fate'[k] = fate[k])
      /\ fate' \in [Jobs -> {"new", "asked", "dropped", "aborted"}] /\ ses[S].state # "none"
  BY DEF StartJob, New, Active, S, JpegInv, Queued, Shape
<1>2. /\ jobQ' = Append(jobQ, j) /\ jobQ \in Seq(Jobs \cup {Exit})
  BY DEF StartJob, JpegInv, Shape
<1>3. /\ jobQ' \in Seq(Jobs \cup {Exit})
      /\ (\A k : Holds(jobQ', k) <=> (Holds(jobQ, k) \/ k = j))
      /\ (Unique(jobQ) => Unique(jobQ'))
  BY <1>1, <1>2, Appending
<1>4. /\ tokens' \in Nat /\ ongoing' = ongoing /\ answers' = answers /\ ses' = ses
      /\ idleQ' = idleQ /\ mgr' = mgr /\ jobLock' = jobLock /\ cl' = cl
  BY DEF StartJob, JpegInv, Shape
<1>5. Shape'
  <2>1. IsSession(ses'[S])
    BY <1>1, <1>2, <1>3, <1>4, Built DEF JpegInv, Shape, IsSession, Omx
  <2>2. IsCall(cl')
    BY <1>1, <1>2, <1>3, <1>4, Built DEF JpegInv, Shape, IsCall, Changing, Resting, Holding
  <2>3. DOMAIN ses' = {S} /\ DOMAIN mgr' = {"pc", "s"} /\ jobQ' \in Seq(Jobs \cup {Exit})
    BY <1>1, <1>2, <1>3, <1>4, Built DEF JpegInv, Shape
  <2>. QED
    BY <2>1, <2>2, <2>3, <1>1, <1>2, <1>3, <1>4, Built DEF JpegInv, Shape
<1>6. Calls'
  BY <1>1, <1>2, <1>3, <1>4, Built DEF JpegInv, Calls, Holding, Changing, Resting
<1>7. Queued'
  BY <1>1, <1>2, <1>3, <1>4, Built DEF JpegInv, Queued
<1>8. Encoder'
  BY <1>1, <1>2, <1>3, <1>4, Built
    DEF JpegInv, Encoder, Live, Feeding, Calls, Holding, Changing, Resting, Shape, IsSession
<1>9. Kept'
  BY <1>1, <1>2, <1>3, <1>4, Built
    DEF JpegInv, Kept, Live, Feeding, Calls, Holding, Changing, Resting
<1>10. Handle'
  BY <1>1, <1>2, <1>3, <1>4, Built DEF JpegInv, Handle
<1>. QED
  BY <1>5, <1>6, <1>7, <1>8, <1>9, <1>10 DEF JpegInv

LEMMA DropJobKeeps ==
    ASSUME AsBuilt, JpegInv,
           NEW j \in Jobs, DropJob(j)
    PROVE  JpegInv'
<1>1. /\ cl.pc = "ready" /\ fate[j] = "new"
      /\ fate'[j] = "dropped" /\ (\A k \in Jobs : k # j => fate'[k] = fate[k])
      /\ fate' \in [Jobs -> {"new", "asked", "dropped", "aborted"}]
  BY DEF DropJob, New, JpegInv, Shape
<1>2. \A k \in Jobs : fate'[k] = "asked" <=> fate[k] = "asked"
  BY <1>1
<1>3. /\ jobQ' = jobQ /\ ongoing' = ongoing /\ tokens' = tokens /\ answers' = answers /\ ses' = ses
      /\ idleQ' = idleQ /\ mgr' = mgr /\ jobLock' = jobLock /\ cl' = cl
  BY DEF DropJob
<1>4. Shape'
  BY <1>1, <1>3 DEF JpegInv, Shape, IsSession, IsCall
<1>5. Calls'
  BY <1>1, <1>2, <1>3, Built DEF JpegInv, Calls, Holding, Changing, Resting
<1>6. Queued'
  BY <1>1, <1>2, <1>3, Built DEF JpegInv, Queued
<1>7. Encoder'
  BY <1>1, <1>2, <1>3, Built DEF JpegInv, Encoder, Live, Feeding
<1>8. Kept'
  BY <1>1, <1>2, <1>3, Built DEF JpegInv, Kept, Live, Feeding
<1>9. Handle'
  BY <1>1, <1>2, <1>3, Built DEF JpegInv, Handle
<1>. QED
  BY <1>4, <1>5, <1>6, <1>7, <1>8, <1>9 DEF JpegInv

LEMMA AbortWaitingKeeps ==
    ASSUME AsBuilt, JpegInv,
           NEW j \in Jobs, cl.pc = "stopping", fate[j] = "asked", jobLock = None,
           Holds(jobQ, j) \/ ~Holds(ongoing, j), jobQ' = Without(jobQ, j), fate' = Aborted(j),
           UNCHANGED <<ongoing, jobLock, cl, tokens, mgr, ses, idleQ, answers>>
    PROVE  JpegInv'
<1>1. /\ fate'[j] = "aborted" /\ (\A k \in Jobs : k # j => fate'[k] = fate[k])
      /\ fate' \in [Jobs -> {"new", "asked", "dropped", "aborted"}]
  BY DEF Aborted, JpegInv, Shape
<1>2. /\ jobQ' \in Seq(Jobs \cup {Exit}) /\ (\A k : Holds(jobQ', k) => Holds(jobQ, k))
      /\ (\A k : Holds(jobQ, k) /\ k # j => Holds(jobQ', k)) /\ Unique(jobQ')
      /\ ~Holds(jobQ', j)
  <2>1. jobQ \in Seq(Jobs \cup {Exit}) /\ j # Exit /\ Unique(jobQ)
    BY Built DEF JpegInv, Shape, Queued
  <2>. QED
    BY <2>1, Removing
<1>3. /\ ~(Live /\ ses[S].job = j)
  BY DEF JpegInv, Encoder
<1>4. /\ cl.pc = "stopping" /\ jobLock = None /\ ongoing' = ongoing /\ tokens' = tokens
      /\ answers' = answers /\ ses' = ses /\ idleQ' = idleQ /\ mgr' = mgr
      /\ jobLock' = jobLock /\ cl' = cl
  OBVIOUS
<1>5. Shape'
  <2>1. IsSession(ses'[S])
    BY <1>1, <1>2, <1>3, <1>4, Built DEF JpegInv, Shape, IsSession, Omx
  <2>2. IsCall(cl')
    BY <1>1, <1>2, <1>3, <1>4, Built DEF JpegInv, Shape, IsCall, Changing, Resting, Holding
  <2>3. DOMAIN ses' = {S} /\ DOMAIN mgr' = {"pc", "s"} /\ jobQ' \in Seq(Jobs \cup {Exit})
    BY <1>1, <1>2, <1>3, <1>4, Built DEF JpegInv, Shape
  <2>. QED
    BY <2>1, <2>2, <2>3, <1>1, <1>2, <1>3, <1>4, Built DEF JpegInv, Shape
<1>6. Calls'
  BY <1>1, <1>2, <1>3, <1>4, Built DEF JpegInv, Calls, Holding, Changing, Resting
<1>7. Queued'
  BY <1>1, <1>2, <1>3, <1>4, Built DEF JpegInv, Queued
<1>8. Encoder'
  BY <1>1, <1>2, <1>3, <1>4, Built
    DEF JpegInv, Encoder, Live, Feeding, Calls, Holding, Changing, Resting, Shape, IsSession
<1>9. Kept'
  BY <1>1, <1>2, <1>3, <1>4, Built
    DEF JpegInv, Kept, Live, Feeding, Calls, Holding, Changing, Resting
<1>10. Handle'
  BY <1>1, <1>2, <1>3, <1>4, Built DEF JpegInv, Handle
<1>. QED
  BY <1>5, <1>6, <1>7, <1>8, <1>9, <1>10 DEF JpegInv

LEMMA AbortEncodedKeeps ==
    ASSUME AsBuilt, JpegInv,
           NEW j \in Jobs, cl.pc = "stopping", fate[j] = "asked", jobLock = None,
           ~Holds(jobQ, j), ongoing' = Without(ongoing, j), jobLock' = "client",
           cl' = [NoCall EXCEPT !.pc = "abort", !.job = j, !.op = "abort_job", !.at = 1],
           UNCHANGED <<jobQ, fate, tokens, mgr, ses, idleQ, answers>>
    PROVE  JpegInv'
<1>1. /\ DOMAIN cl' = {"pc", "job", "op", "at", "todo"} /\ cl'.pc = "abort" /\ cl'.job = j
      /\ cl'.op = "abort_job" /\ cl'.at = 1 /\ cl'.todo = <<>>
  BY DEF NoCall
<1>2. /\ ongoing' \in Seq(Jobs)
  <2>1. ongoing \in Seq(Jobs)
    BY DEF JpegInv, Shape
  <2>. QED
    BY <2>1, Removing
<1>3. /\ <<>> \in Seq(Omx) /\ j \in Jobs /\ cl.pc = "stopping" /\ fate[j] = "asked"
      /\ jobLock = None /\ ~Holds(jobQ, j) /\ jobLock' = "client" /\ jobQ' = jobQ
      /\ fate' = fate /\ tokens' = tokens /\ answers' = answers /\ ses' = ses
      /\ idleQ' = idleQ /\ mgr' = mgr
  OBVIOUS
<1>4. Shape'
  <2>1. IsSession(ses'[S])
    BY <1>1, <1>2, <1>3, Built DEF JpegInv, Shape, IsSession, Omx
  <2>2. IsCall(cl')
    BY <1>1, <1>2, <1>3, Built DEF JpegInv, Shape, IsCall, Changing, Resting, Holding
  <2>3. DOMAIN ses' = {S} /\ DOMAIN mgr' = {"pc", "s"} /\ jobQ' \in Seq(Jobs \cup {Exit})
    BY <1>1, <1>2, <1>3, Built DEF JpegInv, Shape
  <2>. QED
    BY <2>1, <2>2, <2>3, <1>1, <1>2, <1>3, Built DEF JpegInv, Shape
<1>5. Calls'
  BY <1>1, <1>2, <1>3, Built DEF JpegInv, Calls, Holding, Changing, Resting
<1>6. Queued'
  BY <1>1, <1>2, <1>3, Built DEF JpegInv, Queued
<1>7. Encoder'
  BY <1>1, <1>2, <1>3, Built
    DEF JpegInv, Encoder, Live, Feeding, Calls, Holding, Changing, Resting, Shape, IsSession
<1>8. Kept'
  BY <1>1, <1>2, <1>3, Built DEF JpegInv, Kept, Live, Feeding, Calls, Holding, Changing, Resting
<1>9. Handle'
  BY <1>1, <1>2, <1>3, Built DEF JpegInv, Handle
<1>. QED
  BY <1>4, <1>5, <1>6, <1>7, <1>8, <1>9 DEF JpegInv

LEMMA AbortJobKeeps ==
    ASSUME AsBuilt, JpegInv,
           NEW j \in Jobs, AbortJob(j)
    PROVE  JpegInv'
<1>1. /\ cl.pc = "stopping" /\ fate[j] = "asked" /\ jobLock = None
      /\ UNCHANGED <<tokens, mgr, ses, idleQ, answers>>
  BY DEF AbortJob
<1>2. CASE ~Holds(jobQ, j) /\ Holds(ongoing, j)
  <2>1. /\ ongoing' = Without(ongoing, j) /\ jobLock' = "client"
        /\ cl' = [NoCall EXCEPT !.pc = "abort", !.job = j, !.op = "abort_job", !.at = 1]
        /\ UNCHANGED <<jobQ, fate>>
    BY <1>2, Zenon DEF AbortJob
  <2>. QED
    BY <1>1, <1>2, <2>1, AbortEncodedKeeps
<1>3. CASE ~(~Holds(jobQ, j) /\ Holds(ongoing, j))
  <2>1. /\ jobQ' = Without(jobQ, j) /\ fate' = Aborted(j) /\ UNCHANGED <<ongoing, jobLock, cl>>
    BY <1>3, Zenon DEF AbortJob
  <2>. QED
    BY <1>1, <1>3, <2>1, AbortWaitingKeeps
<1>. QED
  BY <1>2, <1>3

LEMMA BeginDestroyKeeps ==
    ASSUME AsBuilt, JpegInv,
           NEW op \in {"destroy_session", "close"}, BeginDestroy(op)
    PROVE  JpegInv'
<1>1. /\ DOMAIN cl' = {"pc", "job", "op", "at", "todo"} /\ cl'.pc = "abort" /\ cl'.job = None
      /\ cl'.op = op /\ cl'.at = 1 /\ cl'.todo = <<>> /\ op \in {"destroy_session", "close"}
      /\ <<>> \in Seq(Omx)
  BY DEF BeginDestroy, NoCall
<1>2. /\ jobQ' = <<>> /\ jobQ' \in Seq(Jobs \cup {Exit}) /\ (\A k : ~Holds(jobQ', k))
      /\ Unique(jobQ') /\ ongoing' = <<>> /\ ongoing' \in Seq(Jobs)
  BY DEF BeginDestroy, Holds, Unique
<1>3. /\ cl.pc = "stopping" /\ jobLock = None /\ jobLock' = "client" /\ fate' = fate
      /\ tokens' = tokens /\ answers' = answers /\ ses' = ses /\ idleQ' = idleQ /\ mgr' = mgr
  BY DEF BeginDestroy
<1>4. Shape'
  <2>1. IsSession(ses'[S])
    BY <1>1, <1>2, <1>3, Built DEF JpegInv, Shape, IsSession, Omx
  <2>2. IsCall(cl')
    BY <1>1, <1>2, <1>3, Built DEF JpegInv, Shape, IsCall, Changing, Resting, Holding
  <2>3. DOMAIN ses' = {S} /\ DOMAIN mgr' = {"pc", "s"} /\ jobQ' \in Seq(Jobs \cup {Exit})
    BY <1>1, <1>2, <1>3, Built DEF JpegInv, Shape
  <2>. QED
    BY <2>1, <2>2, <2>3, <1>1, <1>2, <1>3, Built DEF JpegInv, Shape
<1>5. Calls'
  BY <1>1, <1>2, <1>3, Built DEF JpegInv, Calls, Holding, Changing, Resting
<1>6. Queued'
  BY <1>1, <1>2, <1>3, Built DEF JpegInv, Queued
<1>7. Encoder'
  BY <1>1, <1>2, <1>3, Built
    DEF JpegInv, Encoder, Live, Feeding, Calls, Holding, Changing, Resting, Shape, IsSession
<1>8. Kept'
  BY <1>1, <1>2, <1>3, Built DEF JpegInv, Kept, Live, Feeding, Calls, Holding, Changing, Resting
<1>9. Handle'
  BY <1>1, <1>2, <1>3, Built DEF JpegInv, Handle
<1>. QED
  BY <1>4, <1>5, <1>6, <1>7, <1>8, <1>9 DEF JpegInv

LEMMA AbortSignalledKeeps == ASSUME AsBuilt, JpegInv, AbortSignalled PROVE JpegInv'
<1>1. /\ cl.pc = "wait" /\ cl.at = 1 /\ Chain[cl.at] = S
  BY DEF AbortSignalled, JpegInv, Calls, S
<1>2. /\ ses[S].abort = "DONE" /\ cl'.pc = "aborted" /\ cl'.job = cl.job /\ cl'.op = cl.op
      /\ cl'.at = cl.at /\ cl'.todo = cl.todo /\ DOMAIN cl' = DOMAIN cl
  <2>1. cl.at = 1 /\ Len(Chain) = 1
    BY <1>1, Built, Zenon
  <2>2. ~(cl.at < Len(Chain))
    BY <2>1
  <2>3. cl' = [cl EXCEPT !.pc = "aborted"] /\ ses[S].abort = "DONE"
    BY <1>1, <2>2, Zenon DEF AbortSignalled
  <2>. QED
    BY <2>3 DEF JpegInv, Shape, IsCall
<1>3. /\ jobQ' = jobQ /\ ongoing' = ongoing /\ tokens' = tokens /\ fate' = fate
      /\ answers' = answers /\ ses' = ses /\ idleQ' = idleQ /\ mgr' = mgr
      /\ jobLock' = jobLock
  BY DEF AbortSignalled
<1>4. Shape'
  <2>1. IsSession(ses'[S])
    BY <1>1, <1>2, <1>3, Built DEF JpegInv, Shape, IsSession, Omx
  <2>2. IsCall(cl')
    BY <1>1, <1>2, <1>3, Built DEF JpegInv, Shape, IsCall, Changing, Resting, Holding
  <2>3. DOMAIN ses' = {S} /\ DOMAIN mgr' = {"pc", "s"} /\ jobQ' \in Seq(Jobs \cup {Exit})
    BY <1>1, <1>2, <1>3, Built DEF JpegInv, Shape
  <2>. QED
    BY <2>1, <2>2, <2>3, <1>1, <1>2, <1>3, Built DEF JpegInv, Shape
<1>5. Calls'
  BY <1>1, <1>2, <1>3, Built DEF JpegInv, Calls, Holding, Changing, Resting
<1>6. Queued'
  BY <1>1, <1>2, <1>3, Built DEF JpegInv, Queued
<1>7. Encoder'
  BY <1>1, <1>2, <1>3, Built
    DEF JpegInv, Encoder, Live, Feeding, Calls, Holding, Changing, Resting, Shape, IsSession
<1>8. Kept'
  BY <1>1, <1>2, <1>3, Built DEF JpegInv, Kept, Live, Feeding, Calls, Holding, Changing, Resting
<1>9. Handle'
  BY <1>1, <1>2, <1>3, Built DEF JpegInv, Handle
<1>. QED
  BY <1>4, <1>5, <1>6, <1>7, <1>8, <1>9 DEF JpegInv

LEMMA AbortJobReturnsKeeps == ASSUME AsBuilt, JpegInv, AbortJobReturns PROVE JpegInv'
<1>1. /\ DOMAIN cl' = {"pc", "job", "op", "at", "todo"} /\ cl'.pc = "stopping"
      /\ cl'.job = None /\ cl'.op = None /\ cl'.at = 0 /\ cl'.todo = <<>>
      /\ <<>> \in Seq(Omx)
  BY DEF AbortJobReturns, NoCall
<1>2. /\ cl.pc = "aborted" /\ cl.op = "abort_job" /\ cl.job \in Jobs /\ ~Holds(jobQ, cl.job)
      /\ fate[cl.job] = "asked" /\ jobLock = "client"
  BY DEF AbortJobReturns, JpegInv, Calls, Holding
<1>3. /\ fate'[cl.job] = "aborted" /\ (\A k \in Jobs : k # cl.job => fate'[k] = fate[k])
      /\ fate' \in [Jobs -> {"new", "asked", "dropped", "aborted"}]
  BY <1>2 DEF AbortJobReturns, Aborted, JpegInv, Shape
<1>4. /\ ~Live /\ mgr.pc \notin {"feed", "fill"}
  BY <1>2, Built DEF JpegInv, Encoder, Calls, Live, Feeding
<1>5. /\ jobLock' = None /\ jobQ' = jobQ /\ ongoing' = ongoing /\ tokens' = tokens
      /\ answers' = answers /\ ses' = ses /\ idleQ' = idleQ /\ mgr' = mgr
  BY DEF AbortJobReturns
<1>6. Shape'
  <2>1. IsSession(ses'[S])
    BY <1>1, <1>2, <1>3, <1>4, <1>5, Built DEF JpegInv, Shape, IsSession, Omx
  <2>2. IsCall(cl')
    BY <1>1, <1>2, <1>3, <1>4, <1>5, Built DEF JpegInv, Shape, IsCall, Changing, Resting, Holding
  <2>3. DOMAIN ses' = {S} /\ DOMAIN mgr' = {"pc", "s"} /\ jobQ' \in Seq(Jobs \cup {Exit})
    BY <1>1, <1>2, <1>3, <1>4, <1>5, Built DEF JpegInv, Shape
  <2>. QED
    BY <2>1, <2>2, <2>3, <1>1, <1>2, <1>3, <1>4, <1>5, Built DEF JpegInv, Shape
<1>7. Calls'
  BY <1>1, <1>2, <1>3, <1>4, <1>5, Built DEF JpegInv, Calls, Holding, Changing, Resting
<1>8. Queued'
  BY <1>1, <1>2, <1>3, <1>4, <1>5, Built DEF JpegInv, Queued
<1>9. Encoder'
  BY <1>1, <1>2, <1>3, <1>4, <1>5, Built
    DEF JpegInv, Encoder, Live, Feeding, Calls, Holding, Changing, Resting, Shape, IsSession
<1>10. Kept'
  BY <1>1, <1>2, <1>3, <1>4, <1>5, Built
    DEF JpegInv, Kept, Live, Feeding, Calls, Holding, Changing, Resting
<1>11. Handle'
  BY <1>1, <1>2, <1>3, <1>4, <1>5, Built DEF JpegInv, Handle
<1>. QED
  BY <1>6, <1>7, <1>8, <1>9, <1>10, <1>11 DEF JpegInv

LEMMA ToHandlesKeeps ==
    ASSUME AsBuilt, JpegInv,
           cl.pc = "aborted", cl.op = "destroy_session",
           cl' = [cl EXCEPT !.pc = "change", !.at = 1, !.todo = <<"Idle", "Loaded">>],
           UNCHANGED <<jobQ, ongoing, tokens, jobLock, mgr, ses, idleQ, fate, answers>>
    PROVE  JpegInv'
<1>1. /\ cl'.pc = "change" /\ cl'.at = 1 /\ cl'.todo = <<"Idle", "Loaded">>
      /\ cl'.job = cl.job /\ cl'.op = cl.op /\ DOMAIN cl' = DOMAIN cl
  BY DEF JpegInv, Shape, IsSession, IsCall
<1>2. /\ <<"Idle", "Loaded">> \in Seq(Omx) /\ cl.pc = "aborted" /\ cl.op = "destroy_session"
      /\ jobQ' = jobQ /\ ongoing' = ongoing /\ tokens' = tokens /\ fate' = fate
      /\ answers' = answers /\ ses' = ses /\ idleQ' = idleQ /\ mgr' = mgr
      /\ jobLock' = jobLock
  BY DEF Omx
<1>3. Shape'
  <2>1. IsSession(ses'[S])
    BY <1>1, <1>2, Built DEF JpegInv, Shape, IsSession, Omx
  <2>2. IsCall(cl')
    BY <1>1, <1>2, Built DEF JpegInv, Shape, IsCall, Changing, Resting, Holding
  <2>3. DOMAIN ses' = {S} /\ DOMAIN mgr' = {"pc", "s"} /\ jobQ' \in Seq(Jobs \cup {Exit})
    BY <1>1, <1>2, Built DEF JpegInv, Shape
  <2>. QED
    BY <2>1, <2>2, <2>3, <1>1, <1>2, Built DEF JpegInv, Shape
<1>4. Calls'
  BY <1>1, <1>2, Built DEF JpegInv, Calls, Holding, Changing, Resting
<1>5. Queued'
  BY <1>1, <1>2, Built DEF JpegInv, Queued
<1>6. Encoder'
  BY <1>1, <1>2, Built
    DEF JpegInv, Encoder, Live, Feeding, Calls, Holding, Changing, Resting, Shape, IsSession
<1>7. Kept'
  BY <1>1, <1>2, Built DEF JpegInv, Kept, Live, Feeding, Calls, Holding, Changing, Resting
<1>8. Handle'
  BY <1>1, <1>2, Built DEF JpegInv, Handle
<1>. QED
  BY <1>3, <1>4, <1>5, <1>6, <1>7, <1>8 DEF JpegInv

LEMMA FreedKeeps ==
    ASSUME AsBuilt, JpegInv,
           cl.pc = "change", cl.op = "destroy_session",
           cl' = [cl EXCEPT !.pc = "freed"], ses' = [ses EXCEPT ![S] = NoSession],
           UNCHANGED <<jobQ, ongoing, tokens, jobLock, mgr, idleQ, fate, answers>>
    PROVE  JpegInv'
<1>1. /\ cl'.pc = "freed" /\ cl'.job = cl.job /\ cl'.op = cl.op /\ cl'.at = cl.at
      /\ cl'.todo = cl.todo /\ DOMAIN cl' = DOMAIN cl
  BY DEF JpegInv, Shape, IsSession, IsCall
<1>2. /\ DOMAIN ses' = {S}
      /\ DOMAIN ses'[S] = {"abort", "encoding", "job", "omx", "state", "cmd", "pending", "err", "config"}
      /\ ses'[S].abort = "NONE" /\ ses'[S].encoding = FALSE /\ ses'[S].job = None
      /\ ses'[S].omx = "idle" /\ ses'[S].cmd = None /\ ses'[S].pending = FALSE
      /\ ses'[S].err = FALSE /\ ses'[S].config = FALSE /\ ses'[S].state = "none"
  <2>1. DOMAIN ses = {S}
    BY DEF JpegInv, Shape
  <2>. QED
    BY <2>1 DEF NoSession
<1>3. /\ cl.pc = "change" /\ cl.op = "destroy_session" /\ jobQ' = jobQ /\ ongoing' = ongoing
      /\ tokens' = tokens /\ fate' = fate /\ answers' = answers /\ idleQ' = idleQ
      /\ mgr' = mgr /\ jobLock' = jobLock
  OBVIOUS
<1>4. Shape'
  <2>1. IsSession(ses'[S])
    BY <1>1, <1>2, <1>3, Built DEF JpegInv, Shape, IsSession, Omx
  <2>2. IsCall(cl')
    BY <1>1, <1>2, <1>3, Built DEF JpegInv, Shape, IsCall, Changing, Resting, Holding
  <2>3. DOMAIN ses' = {S} /\ DOMAIN mgr' = {"pc", "s"} /\ jobQ' \in Seq(Jobs \cup {Exit})
    BY <1>1, <1>2, <1>3, Built DEF JpegInv, Shape
  <2>. QED
    BY <2>1, <2>2, <2>3, <1>1, <1>2, <1>3, Built DEF JpegInv, Shape
<1>5. Calls'
  BY <1>1, <1>2, <1>3, Built DEF JpegInv, Calls, Holding, Changing, Resting
<1>6. Queued'
  BY <1>1, <1>2, <1>3, Built DEF JpegInv, Queued
<1>7. Encoder'
  BY <1>1, <1>2, <1>3, Built
    DEF JpegInv, Encoder, Live, Feeding, Calls, Holding, Changing, Resting, Shape, IsSession
<1>8. Kept'
  BY <1>1, <1>2, <1>3, Built DEF JpegInv, Kept, Live, Feeding, Calls, Holding, Changing, Resting
<1>9. Handle'
  BY <1>1, <1>2, <1>3, Built DEF JpegInv, Handle
<1>. QED
  BY <1>4, <1>5, <1>6, <1>7, <1>8, <1>9 DEF JpegInv

LEMMA DestroyHandlesKeeps == ASSUME AsBuilt, JpegInv, DestroyHandles PROVE JpegInv'
<1>1. UNCHANGED <<jobQ, ongoing, tokens, jobLock, mgr, idleQ, fate, answers>>
  BY DEF DestroyHandles
<1>2. CASE cl.pc = "aborted"
  <2>1. /\ cl.op = "destroy_session" /\ UNCHANGED ses
        /\ cl' = [cl EXCEPT !.pc = "change", !.at = 1, !.todo = <<"Idle", "Loaded">>]
    BY <1>2, Zenon DEF DestroyHandles
  <2>. QED
    BY <1>1, <1>2, <2>1, ToHandlesKeeps
<1>3. CASE cl.pc # "aborted"
  <2>1. /\ cl.pc = "change" /\ cl.op = "destroy_session" /\ ses' = [ses EXCEPT ![Here] = NoSession]
        /\ cl' = IF cl.at < Len(Chain) THEN [cl EXCEPT !.at = @ + 1, !.todo = <<"Idle", "Loaded">>]
                  ELSE [cl EXCEPT !.pc = "freed"]
    BY <1>3, Zenon DEF DestroyHandles
  <2>2. cl.at = 1 /\ Here = S
    BY <2>1 DEF JpegInv, Calls, Changing, Here, S
  <2>3. cl.at = 1 /\ Len(Chain) = 1
    BY <2>2, Built, Zenon
  <2>4. ~(cl.at < Len(Chain))
    BY <2>3
  <2>5. cl' = [cl EXCEPT !.pc = "freed"] /\ ses' = [ses EXCEPT ![S] = NoSession]
    BY <2>1, <2>2, <2>4, Zenon
  <2>. QED
    BY <1>1, <2>1, <2>5, FreedKeeps
<1>. QED
  BY <1>2, <1>3

LEMMA DestroySessionKeeps == ASSUME AsBuilt, JpegInv, DestroySession PROVE JpegInv'
<1>1. /\ DOMAIN cl' = {"pc", "job", "op", "at", "todo"} /\ cl'.pc = "open" /\ cl'.job = None
      /\ cl'.op = None /\ cl'.at = 0 /\ cl'.todo = <<>> /\ <<>> \in Seq(Omx)
  BY DEF DestroySession, NoCall
<1>2. /\ cl.pc = "freed" /\ jobLock = "client" /\ ~Live /\ mgr.pc \notin {"feed", "fill"}
      /\ (\A k \in Jobs : ~Holds(jobQ, k))
  BY Built DEF DestroySession, JpegInv, Encoder, Calls, Live, Feeding, Holding, Queued
<1>3. /\ (\A k \in Jobs : fate[k] = "asked" => fate'[k] = "aborted")
      /\ (\A k \in Jobs : fate[k] # "asked" => fate'[k] = fate[k])
      /\ (\A k \in Jobs : fate'[k] # "asked")
      /\ fate' \in [Jobs -> {"new", "asked", "dropped", "aborted"}]
  BY DEF DestroySession, AllAborted, JpegInv, Shape
<1>4. /\ tokens' \in Nat /\ jobLock' = None /\ jobQ' = jobQ /\ ongoing' = ongoing
      /\ answers' = answers /\ idleQ' = <<>> /\ ses' = ses /\ mgr' = mgr
  BY DEF DestroySession, JpegInv, Shape
<1>5. Shape'
  <2>1. IsSession(ses'[S])
    BY <1>1, <1>2, <1>3, <1>4, Built DEF JpegInv, Shape, IsSession, Omx
  <2>2. IsCall(cl')
    BY <1>1, <1>2, <1>3, <1>4, Built DEF JpegInv, Shape, IsCall, Changing, Resting, Holding
  <2>3. DOMAIN ses' = {S} /\ DOMAIN mgr' = {"pc", "s"} /\ jobQ' \in Seq(Jobs \cup {Exit})
    BY <1>1, <1>2, <1>3, <1>4, Built DEF JpegInv, Shape
  <2>. QED
    BY <2>1, <2>2, <2>3, <1>1, <1>2, <1>3, <1>4, Built DEF JpegInv, Shape
<1>6. Calls'
  BY <1>1, <1>2, <1>3, <1>4, Built DEF JpegInv, Calls, Holding, Changing, Resting
<1>7. Queued'
  BY <1>1, <1>2, <1>3, <1>4, Built DEF JpegInv, Queued
<1>8. Encoder'
  BY <1>1, <1>2, <1>3, <1>4, Built
    DEF JpegInv, Encoder, Live, Feeding, Calls, Holding, Changing, Resting, Shape, IsSession
<1>9. Kept'
  BY <1>1, <1>2, <1>3, <1>4, Built
    DEF JpegInv, Kept, Live, Feeding, Calls, Holding, Changing, Resting
<1>10. Handle'
  BY <1>1, <1>2, <1>3, <1>4, Built DEF JpegInv, Handle
<1>. QED
  BY <1>5, <1>6, <1>7, <1>8, <1>9, <1>10 DEF JpegInv

LEMMA EndKeeps == ASSUME AsBuilt, JpegInv, cl.pc = "open", CloseOrEnd PROVE JpegInv'
<1>1. /\ jobQ' = Append(jobQ, Exit) /\ jobQ \in Seq(Jobs \cup {Exit}) /\ Unique(jobQ)
      /\ Exit \in Jobs \cup {Exit}
  BY DEF CloseOrEnd, JpegInv, Shape, Queued
<1>2. /\ jobQ' \in Seq(Jobs \cup {Exit})
      /\ (\A k : Holds(jobQ', k) <=> (Holds(jobQ, k) \/ k = Exit)) /\ Unique(jobQ')
  BY <1>1, Appending
<1>3. /\ DOMAIN cl' = {"pc", "job", "op", "at", "todo"} /\ cl'.pc = "join" /\ cl'.job = None
      /\ cl'.op = None /\ cl'.at = 0 /\ cl'.todo = <<>> /\ <<>> \in Seq(Omx)
  BY DEF CloseOrEnd, NoCall
<1>4. /\ tokens' \in Nat /\ ongoing' = ongoing /\ answers' = answers /\ mgr' = mgr
  BY DEF CloseOrEnd, JpegInv, Shape
<1>5. /\ cl.pc = "open" /\ (\A k \in Jobs : ~Holds(jobQ, k) /\ ~Holds(jobQ', k)) /\ ~Live
  BY <1>2, Built DEF JpegInv, Queued, Calls, Resting, Holding, Encoder
<1>6. /\ fate' = fate /\ ses' = ses /\ idleQ' = idleQ /\ jobLock' = jobLock
  BY <1>5, Zenon DEF CloseOrEnd
<1>7. Shape'
  <2>1. IsSession(ses'[S])
    BY <1>1, <1>2, <1>3, <1>4, <1>5, <1>6, Built DEF JpegInv, Shape, IsSession, Omx
  <2>2. IsCall(cl')
    BY <1>1, <1>2, <1>3, <1>4, <1>5, <1>6, Built
      DEF JpegInv, Shape, IsCall, Changing, Resting, Holding
  <2>3. DOMAIN ses' = {S} /\ DOMAIN mgr' = {"pc", "s"} /\ jobQ' \in Seq(Jobs \cup {Exit})
    BY <1>1, <1>2, <1>3, <1>4, <1>5, <1>6, Built DEF JpegInv, Shape
  <2>. QED
    BY <2>1, <2>2, <2>3, <1>1, <1>2, <1>3, <1>4, <1>5, <1>6, Built DEF JpegInv, Shape
<1>8. Calls'
  BY <1>1, <1>2, <1>3, <1>4, <1>5, <1>6, Built DEF JpegInv, Calls, Holding, Changing, Resting
<1>9. Queued'
  BY <1>1, <1>2, <1>3, <1>4, <1>5, <1>6, Built DEF JpegInv, Queued
<1>10. Encoder'
  BY <1>1, <1>2, <1>3, <1>4, <1>5, <1>6, Built
    DEF JpegInv, Encoder, Live, Feeding, Calls, Holding, Changing, Resting, Shape, IsSession
<1>11. Kept'
  BY <1>1, <1>2, <1>3, <1>4, <1>5, <1>6, Built
    DEF JpegInv, Kept, Live, Feeding, Calls, Holding, Changing, Resting
<1>12. Handle'
  BY <1>1, <1>2, <1>3, <1>4, <1>5, <1>6, Built DEF JpegInv, Handle
<1>. QED
  BY <1>7, <1>8, <1>9, <1>10, <1>11, <1>12 DEF JpegInv

LEMMA CloseKeeps == ASSUME AsBuilt, JpegInv, cl.pc # "open", CloseOrEnd PROVE JpegInv'
<1>1. /\ jobQ' = Append(jobQ, Exit) /\ jobQ \in Seq(Jobs \cup {Exit}) /\ Unique(jobQ)
      /\ Exit \in Jobs \cup {Exit}
  BY DEF CloseOrEnd, JpegInv, Shape, Queued
<1>2. /\ jobQ' \in Seq(Jobs \cup {Exit})
      /\ (\A k : Holds(jobQ', k) <=> (Holds(jobQ, k) \/ k = Exit)) /\ Unique(jobQ')
  BY <1>1, Appending
<1>3. /\ DOMAIN cl' = {"pc", "job", "op", "at", "todo"} /\ cl'.pc = "join" /\ cl'.job = None
      /\ cl'.op = None /\ cl'.at = 0 /\ cl'.todo = <<>> /\ <<>> \in Seq(Omx)
  BY DEF CloseOrEnd, NoCall
<1>4. /\ tokens' \in Nat /\ ongoing' = ongoing /\ answers' = answers /\ mgr' = mgr
  BY DEF CloseOrEnd, JpegInv, Shape
<1>5. /\ cl.pc = "aborted" /\ cl.op = "close" /\ jobLock' = None /\ fate' = AllAborted
      /\ ses' = [s \in Sessions |-> NoSession] /\ idleQ' = <<>>
  BY Zenon DEF CloseOrEnd
<1>6. /\ (\A k \in Jobs : ~Holds(jobQ, k) /\ ~Holds(jobQ', k)) /\ ~Live /\ jobLock = "client"
      /\ mgr.pc \notin {"feed", "fill"}
  BY <1>2, <1>5, Built DEF JpegInv, Queued, Calls, Resting, Holding, Encoder, Live, Feeding
<1>7. /\ (\A k \in Jobs : fate[k] = "asked" => fate'[k] = "aborted")
      /\ (\A k \in Jobs : fate[k] # "asked" => fate'[k] = fate[k])
      /\ (\A k \in Jobs : fate'[k] # "asked")
      /\ fate' \in [Jobs -> {"new", "asked", "dropped", "aborted"}]
  BY <1>5 DEF AllAborted, JpegInv, Shape
<1>8. /\ DOMAIN ses' = {S}
      /\ DOMAIN ses'[S] = {"abort", "encoding", "job", "omx", "state", "cmd", "pending", "err", "config"}
      /\ ses'[S].abort = "NONE" /\ ses'[S].encoding = FALSE /\ ses'[S].job = None
      /\ ses'[S].omx = "idle" /\ ses'[S].cmd = None /\ ses'[S].pending = FALSE
      /\ ses'[S].err = FALSE /\ ses'[S].config = FALSE /\ ses'[S].state = "none"
  BY <1>5, Built DEF NoSession
<1>9. Shape'
  <2>1. IsSession(ses'[S])
    BY <1>1, <1>2, <1>3, <1>4, <1>5, <1>6, <1>7, <1>8, Built DEF JpegInv, Shape, IsSession, Omx
  <2>2. IsCall(cl')
    BY <1>1, <1>2, <1>3, <1>4, <1>5, <1>6, <1>7, <1>8, Built
      DEF JpegInv, Shape, IsCall, Changing, Resting, Holding
  <2>3. DOMAIN ses' = {S} /\ DOMAIN mgr' = {"pc", "s"} /\ jobQ' \in Seq(Jobs \cup {Exit})
    BY <1>1, <1>2, <1>3, <1>4, <1>5, <1>6, <1>7, <1>8, Built DEF JpegInv, Shape
  <2>. QED
    BY <2>1, <2>2, <2>3, <1>1, <1>2, <1>3, <1>4, <1>5, <1>6, <1>7, <1>8, Built DEF JpegInv, Shape
<1>10. Calls'
  BY <1>1, <1>2, <1>3, <1>4, <1>5, <1>6, <1>7, <1>8, Built
    DEF JpegInv, Calls, Holding, Changing, Resting
<1>11. Queued'
  BY <1>1, <1>2, <1>3, <1>4, <1>5, <1>6, <1>7, <1>8, Built DEF JpegInv, Queued
<1>12. Encoder'
  BY <1>1, <1>2, <1>3, <1>4, <1>5, <1>6, <1>7, <1>8, Built
    DEF JpegInv, Encoder, Live, Feeding, Calls, Holding, Changing, Resting, Shape, IsSession
<1>13. Kept'
  BY <1>1, <1>2, <1>3, <1>4, <1>5, <1>6, <1>7, <1>8, Built
    DEF JpegInv, Kept, Live, Feeding, Calls, Holding, Changing, Resting
<1>14. Handle'
  BY <1>1, <1>2, <1>3, <1>4, <1>5, <1>6, <1>7, <1>8, Built DEF JpegInv, Handle
<1>. QED
  BY <1>9, <1>10, <1>11, <1>12, <1>13, <1>14 DEF JpegInv

LEMMA CloseOrEndKeeps == ASSUME AsBuilt, JpegInv, CloseOrEnd PROVE JpegInv'
BY EndKeeps, CloseKeeps

LEMMA JoinedKeeps == ASSUME AsBuilt, JpegInv, Joined PROVE JpegInv'
<1>1. /\ cl.pc = "join" /\ cl'.pc = "closed" /\ cl'.job = cl.job /\ cl'.op = cl.op
      /\ cl'.at = cl.at /\ cl'.todo = cl.todo /\ DOMAIN cl' = DOMAIN cl
  BY DEF Joined, ClGoes, JpegInv, Shape, IsSession, IsCall
<1>2. /\ DOMAIN mgr' = {"pc", "s"} /\ mgr'.pc = "off" /\ mgr'.s = None /\ mgr.pc = "dead"
      /\ tokens' = 0
  BY DEF Joined
<1>3. /\ jobQ' = <<>> /\ jobQ' \in Seq(Jobs \cup {Exit}) /\ (\A k : ~Holds(jobQ', k))
      /\ Unique(jobQ')
  BY DEF Joined, Holds, Unique
<1>4. /\ ongoing' = ongoing /\ fate' = fate /\ answers' = answers /\ ses' = ses
      /\ idleQ' = idleQ /\ jobLock' = jobLock
  BY DEF Joined
<1>5. Shape'
  <2>1. IsSession(ses'[S])
    BY <1>1, <1>2, <1>3, <1>4, Built DEF JpegInv, Shape, IsSession, Omx
  <2>2. IsCall(cl')
    BY <1>1, <1>2, <1>3, <1>4, Built DEF JpegInv, Shape, IsCall, Changing, Resting, Holding
  <2>3. DOMAIN ses' = {S} /\ DOMAIN mgr' = {"pc", "s"} /\ jobQ' \in Seq(Jobs \cup {Exit})
    BY <1>1, <1>2, <1>3, <1>4, Built DEF JpegInv, Shape
  <2>. QED
    BY <2>1, <2>2, <2>3, <1>1, <1>2, <1>3, <1>4, Built DEF JpegInv, Shape
<1>6. Calls'
  BY <1>1, <1>2, <1>3, <1>4, Built DEF JpegInv, Calls, Holding, Changing, Resting
<1>7. Queued'
  BY <1>1, <1>2, <1>3, <1>4, Built DEF JpegInv, Queued
<1>8. Encoder'
  BY <1>1, <1>2, <1>3, <1>4, Built
    DEF JpegInv, Encoder, Live, Feeding, Calls, Holding, Changing, Resting, Shape, IsSession
<1>9. Kept'
  BY <1>1, <1>2, <1>3, <1>4, Built
    DEF JpegInv, Kept, Live, Feeding, Calls, Holding, Changing, Resting
<1>10. Handle'
  BY <1>1, <1>2, <1>3, <1>4, Built DEF JpegInv, Handle
<1>. QED
  BY <1>5, <1>6, <1>7, <1>8, <1>9, <1>10 DEF JpegInv

LEMMA MgrWakesKeeps == ASSUME AsBuilt, JpegInv, MgrWakes PROVE JpegInv'
<1>1. /\ mgr.pc = "wait" /\ mgr'.pc \in {"wait", "look"} /\ DOMAIN mgr' = {"pc", "s"}
      /\ tokens' \in Nat
  BY DEF MgrWakes, JpegInv, Shape
<1>2. /\ jobQ' = jobQ /\ ongoing' = ongoing /\ fate' = fate /\ answers' = answers
      /\ ses' = ses /\ idleQ' = idleQ /\ jobLock' = jobLock /\ cl' = cl
  BY DEF MgrWakes
<1>3. Shape'
  <2>1. IsSession(ses'[S])
    BY <1>1, <1>2, Built DEF JpegInv, Shape, IsSession, Omx
  <2>2. IsCall(cl')
    BY <1>1, <1>2, Built DEF JpegInv, Shape, IsCall, Changing, Resting, Holding
  <2>3. DOMAIN ses' = {S} /\ DOMAIN mgr' = {"pc", "s"} /\ jobQ' \in Seq(Jobs \cup {Exit})
    BY <1>1, <1>2, Built DEF JpegInv, Shape
  <2>. QED
    BY <2>1, <2>2, <2>3, <1>1, <1>2, Built DEF JpegInv, Shape
<1>4. Calls'
  BY <1>1, <1>2, Built DEF JpegInv, Calls, Holding, Changing, Resting
<1>5. Queued'
  BY <1>1, <1>2, Built DEF JpegInv, Queued
<1>6. Encoder'
  BY <1>1, <1>2, Built
    DEF JpegInv, Encoder, Live, Feeding, Calls, Holding, Changing, Resting, Shape, IsSession
<1>7. Kept'
  BY <1>1, <1>2, Built DEF JpegInv, Kept, Live, Feeding, Calls, Holding, Changing, Resting
<1>8. Handle'
  BY <1>1, <1>2, Built DEF JpegInv, Handle
<1>. QED
  BY <1>3, <1>4, <1>5, <1>6, <1>7, <1>8 DEF JpegInv

LEMMA MgrRestsKeeps ==
    ASSUME AsBuilt, JpegInv,
           mgr.pc = "look", DOMAIN mgr' = {"pc", "s"}, mgr'.pc \in {"wait", "dead"},
           jobQ' = jobQ \/ (jobQ # <<>> /\ Head(jobQ) = Exit /\ jobQ' = Tail(jobQ)),
           UNCHANGED <<ongoing, tokens, jobLock, ses, idleQ, cl, fate, answers>>
    PROVE  JpegInv'
<1>1. /\ jobQ' \in Seq(Jobs \cup {Exit})
      /\ (\A j \in Jobs : Holds(jobQ', j) <=> Holds(jobQ, j)) /\ Unique(jobQ')
  <2>1. jobQ \in Seq(Jobs \cup {Exit}) /\ Unique(jobQ)
    BY DEF JpegInv, Shape, Queued
  <2>2. CASE jobQ' = jobQ
    BY <2>1, <2>2
  <2>3. CASE jobQ # <<>> /\ Head(jobQ) = Exit /\ jobQ' = Tail(jobQ)
    <3>1. /\ Tail(jobQ) \in Seq(Jobs \cup {Exit}) /\ Unique(Tail(jobQ))
          /\ \A j : Holds(jobQ, j) <=> (Holds(Tail(jobQ), j) \/ j = Exit)
      BY <2>1, <2>3, Taking, Zenon
    <3>. QED
      BY <2>3, <3>1, Built
  <2>. QED
    BY <2>2, <2>3
<1>2. /\ mgr.pc = "look" /\ DOMAIN mgr' = {"pc", "s"} /\ mgr'.pc \in {"wait", "dead"}
      /\ ongoing' = ongoing /\ tokens' = tokens /\ fate' = fate /\ answers' = answers
      /\ ses' = ses /\ idleQ' = idleQ /\ jobLock' = jobLock /\ cl' = cl
  OBVIOUS
<1>3. Shape'
  <2>1. IsSession(ses'[S])
    BY <1>1, <1>2, Built DEF JpegInv, Shape, IsSession, Omx
  <2>2. IsCall(cl')
    BY <1>1, <1>2, Built DEF JpegInv, Shape, IsCall, Changing, Resting, Holding
  <2>3. DOMAIN ses' = {S} /\ DOMAIN mgr' = {"pc", "s"} /\ jobQ' \in Seq(Jobs \cup {Exit})
    BY <1>1, <1>2, Built DEF JpegInv, Shape
  <2>. QED
    BY <2>1, <2>2, <2>3, <1>1, <1>2, Built DEF JpegInv, Shape
<1>4. Calls'
  BY <1>1, <1>2, Built DEF JpegInv, Calls, Holding, Changing, Resting
<1>5. Queued'
  BY <1>1, <1>2, Built DEF JpegInv, Queued
<1>6. Encoder'
  BY <1>1, <1>2, Built
    DEF JpegInv, Encoder, Live, Feeding, Calls, Holding, Changing, Resting, Shape, IsSession
<1>7. Kept'
  BY <1>1, <1>2, Built DEF JpegInv, Kept, Live, Feeding, Calls, Holding, Changing, Resting
<1>8. Handle'
  BY <1>1, <1>2, Built DEF JpegInv, Handle
<1>. QED
  BY <1>3, <1>4, <1>5, <1>6, <1>7, <1>8 DEF JpegInv

LEMMA MgrStartsKeeps ==
    ASSUME AsBuilt, JpegInv,
           mgr.pc = "look", jobLock = None, jobQ # <<>>, Head(jobQ) # Exit, idleQ # <<>>,
           MgrTakes
    PROVE  JpegInv'
<1>1. /\ jobQ' = Tail(jobQ) /\ idleQ' = Tail(idleQ) /\ ongoing' = Append(ongoing, Head(jobQ))
      /\ jobLock' = "mgr" /\ mgr' = [pc |-> "feed", s |-> Head(idleQ)]
      /\ ses' = [ses EXCEPT ![Head(idleQ)] = [@ EXCEPT !.abort = "NONE", !.encoding = FALSE, !.job = Head(jobQ)]]
  BY Zenon DEF MgrTakes
<1>2. /\ idleQ = <<S>> /\ idleQ' = <<>> /\ Head(idleQ) = S /\ jobQ \in Seq(Jobs \cup {Exit})
      /\ ongoing \in Seq(Jobs)
  <2>1. idleQ = <<S>>
    BY DEF JpegInv, Shape
  <2>2. Tail(<<S>>) = <<>> /\ Head(<<S>>) = S
    OBVIOUS
  <2>3. jobQ \in Seq(Jobs \cup {Exit}) /\ ongoing \in Seq(Jobs)
    BY DEF JpegInv, Shape
  <2>. QED
    BY <1>1, <2>1, <2>2, <2>3, Zenon
<1>3. /\ Head(jobQ) \in Jobs \cup {Exit} /\ jobQ' \in Seq(Jobs \cup {Exit})
      /\ (\A j : Holds(jobQ, j) <=> (Holds(jobQ', j) \/ j = Head(jobQ)))
      /\ (Unique(jobQ) => Unique(jobQ') /\ (Head(jobQ) = Exit \/ ~Holds(jobQ', Head(jobQ))))
  BY <1>1, <1>2, Taking
<1>4. /\ Head(jobQ) \in Jobs /\ ~Holds(jobQ', Head(jobQ)) /\ Unique(jobQ')
      /\ fate[Head(jobQ)] = "asked" /\ answers[Head(jobQ)] = 0
      /\ cl.pc \in {"ready", "stopping"}
  BY <1>3, Built DEF JpegInv, Queued, Calls, Holding
<1>5. /\ ongoing' \in Seq(Jobs) /\ Holds(ongoing', Head(jobQ))
  BY <1>1, <1>2, <1>4, Appending
<1>6. /\ DOMAIN mgr' = {"pc", "s"} /\ mgr'.pc = "feed" /\ mgr'.s = S
  BY <1>1, <1>2
<1>7. /\ DOMAIN ses' = {S} /\ DOMAIN ses'[S] = DOMAIN ses[S] /\ ses'[S].omx = ses[S].omx
      /\ ses'[S].state = ses[S].state /\ ses'[S].cmd = ses[S].cmd
      /\ ses'[S].pending = ses[S].pending /\ ses'[S].err = ses[S].err
      /\ ses'[S].config = ses[S].config /\ ses'[S].abort = "NONE" /\ ses'[S].encoding = FALSE
      /\ ses'[S].job = Head(jobQ)
  BY <1>1, <1>2 DEF JpegInv, Shape, IsSession
<1>8. /\ mgr.pc = "look" /\ jobLock = None /\ tokens' = tokens /\ fate' = fate
      /\ answers' = answers /\ cl' = cl
  BY DEF MgrTakes
<1>9. Shape'
  <2>1. IsSession(ses'[S])
    BY <1>1, <1>2, <1>3, <1>4, <1>5, <1>6, <1>7, <1>8, Built DEF JpegInv, Shape, IsSession, Omx
  <2>2. IsCall(cl')
    BY <1>1, <1>2, <1>3, <1>4, <1>5, <1>6, <1>7, <1>8, Built
      DEF JpegInv, Shape, IsCall, Changing, Resting, Holding
  <2>3. DOMAIN ses' = {S} /\ DOMAIN mgr' = {"pc", "s"} /\ jobQ' \in Seq(Jobs \cup {Exit})
    BY <1>1, <1>2, <1>3, <1>4, <1>5, <1>6, <1>7, <1>8, Built DEF JpegInv, Shape
  <2>. QED
    BY <2>1, <2>2, <2>3, <1>1, <1>2, <1>3, <1>4, <1>5, <1>6, <1>7, <1>8, Built DEF JpegInv, Shape
<1>10. Calls'
  BY <1>1, <1>2, <1>3, <1>4, <1>5, <1>6, <1>7, <1>8, Built
    DEF JpegInv, Calls, Holding, Changing, Resting
<1>11. Queued'
  BY <1>1, <1>2, <1>3, <1>4, <1>5, <1>6, <1>7, <1>8, Built DEF JpegInv, Queued
<1>12. Encoder'
  BY <1>1, <1>2, <1>3, <1>4, <1>5, <1>6, <1>7, <1>8, Built
    DEF JpegInv, Encoder, Live, Feeding, Calls, Holding, Changing, Resting, Shape, IsSession
<1>13. Kept'
  <2>1. ~Live /\ Live' /\ Feeding'
    BY <1>1, <1>2, <1>6, <1>7, <1>8 DEF JpegInv, Encoder, Live, Feeding
  <2>2. ASSUME cl.pc = "ready", NEW j \in Jobs, fate[j] = "asked", answers[j] = 0
        PROVE  Holds(jobQ', j) \/ (Live' /\ ses'[S].job = j)
    BY <1>3, <1>7, <2>1, <2>2 DEF JpegInv, Kept
  <2>3. \A j \in Jobs : fate[j] # "asked" \/ ~(cl.pc \in {"open", "closed", "join"} \/ cl.op = "create_session")
    BY DEF JpegInv, Kept
  <2>. QED
    BY <1>8, <2>1, <2>2, <2>3 DEF Kept
<1>14. Handle'
  BY <1>1, <1>2, <1>3, <1>4, <1>5, <1>6, <1>7, <1>8, Built DEF JpegInv, Handle
<1>. QED
  BY <1>9, <1>10, <1>11, <1>12, <1>13, <1>14 DEF JpegInv

LEMMA MgrTakesKeeps == ASSUME AsBuilt, JpegInv, MgrTakes PROVE JpegInv'
<1>1. mgr.pc = "look" /\ jobLock = None /\ UNCHANGED <<tokens, cl, fate, answers, creates>>
  BY DEF MgrTakes
<1>2. CASE jobQ = <<>> \/ (Head(jobQ) # Exit /\ idleQ = <<>>)
  <2>1. mgr' = MgrWaits /\ UNCHANGED <<jobQ, ongoing, idleQ, ses, jobLock>>
    BY <1>2, Zenon DEF MgrTakes
  <2>2. DOMAIN mgr' = {"pc", "s"} /\ mgr'.pc = "wait"
    BY <2>1 DEF MgrWaits
  <2>. QED
    BY <1>1, <2>1, <2>2, MgrRestsKeeps
<1>3. CASE ~(jobQ = <<>> \/ (Head(jobQ) # Exit /\ idleQ = <<>>)) /\ Head(jobQ) = Exit
  <2>1. /\ mgr' = [pc |-> "dead", s |-> None] /\ jobQ' = Tail(jobQ)
        /\ UNCHANGED <<ongoing, idleQ, ses, jobLock>>
    BY <1>3, Zenon DEF MgrTakes
  <2>. QED
    BY <1>1, <1>3, <2>1, MgrRestsKeeps
<1>4. CASE ~(jobQ = <<>> \/ (Head(jobQ) # Exit /\ idleQ = <<>>)) /\ Head(jobQ) # Exit
  BY <1>1, <1>4, MgrStartsKeeps
<1>. QED
  BY <1>2, <1>3, <1>4

LEMMA MgrFeedsKeeps == ASSUME AsBuilt, JpegInv, MgrFeeds PROVE JpegInv'
<1>1. /\ mgr.pc = "feed" /\ mgr.s = S /\ mgr'.pc = "fill" /\ mgr'.s = S
      /\ DOMAIN mgr' = {"pc", "s"}
  BY DEF MgrFeeds, JpegInv, Shape, Calls
<1>2. /\ DOMAIN ses' = {S} /\ DOMAIN ses'[S] = DOMAIN ses[S] /\ ses'[S].abort = ses[S].abort
      /\ ses'[S].job = ses[S].job /\ ses'[S].state = ses[S].state /\ ses'[S].cmd = ses[S].cmd
      /\ ses'[S].pending = ses[S].pending /\ ses'[S].err = ses[S].err
      /\ ses'[S].config = ses[S].config /\ ses'[S].encoding = TRUE /\ ses'[S].omx = "fed"
  BY <1>1 DEF MgrFeeds, JpegInv, Shape, IsSession
<1>3. /\ jobQ' = jobQ /\ ongoing' = ongoing /\ tokens' = tokens /\ fate' = fate
      /\ answers' = answers /\ idleQ' = idleQ /\ jobLock' = jobLock /\ cl' = cl
  BY DEF MgrFeeds
<1>4. Shape'
  <2>1. IsSession(ses'[S])
    BY <1>1, <1>2, <1>3, Built DEF JpegInv, Shape, IsSession, Omx
  <2>2. IsCall(cl')
    BY <1>1, <1>2, <1>3, Built DEF JpegInv, Shape, IsCall, Changing, Resting, Holding
  <2>3. DOMAIN ses' = {S} /\ DOMAIN mgr' = {"pc", "s"} /\ jobQ' \in Seq(Jobs \cup {Exit})
    BY <1>1, <1>2, <1>3, Built DEF JpegInv, Shape
  <2>. QED
    BY <2>1, <2>2, <2>3, <1>1, <1>2, <1>3, Built DEF JpegInv, Shape
<1>5. Calls'
  BY <1>1, <1>2, <1>3, Built DEF JpegInv, Calls, Holding, Changing, Resting
<1>6. Queued'
  BY <1>1, <1>2, <1>3, Built DEF JpegInv, Queued
<1>7. Encoder'
  BY <1>1, <1>2, <1>3, Built
    DEF JpegInv, Encoder, Live, Feeding, Calls, Holding, Changing, Resting, Shape, IsSession
<1>8. Kept'
  <2>1. Live /\ Live' /\ Feeding /\ ses'[S].encoding
    BY <1>1, <1>2 DEF JpegInv, Encoder, Live, Feeding
  <2>. QED
    BY <1>2, <1>3, <2>1 DEF JpegInv, Kept
<1>9. Handle'
  BY <1>1, <1>2, <1>3, Built DEF JpegInv, Handle
<1>. QED
  BY <1>4, <1>5, <1>6, <1>7, <1>8, <1>9 DEF JpegInv

LEMMA MgrFillsKeeps == ASSUME AsBuilt, JpegInv, MgrFills PROVE JpegInv'
<1>1. /\ mgr.pc = "fill" /\ mgr.s = S /\ mgr'.pc = "wait" /\ mgr'.s = None
      /\ DOMAIN mgr' = {"pc", "s"}
  BY DEF MgrFills, MgrWaits, JpegInv, Shape, Calls
<1>2. /\ DOMAIN ses' = {S} /\ DOMAIN ses'[S] = DOMAIN ses[S] /\ ses'[S].abort = ses[S].abort
      /\ ses'[S].encoding = ses[S].encoding /\ ses'[S].job = ses[S].job
      /\ ses'[S].state = ses[S].state /\ ses'[S].cmd = ses[S].cmd
      /\ ses'[S].pending = ses[S].pending /\ ses'[S].err = ses[S].err
      /\ ses'[S].config = ses[S].config /\ ses'[S].omx \in {"filling", ses[S].omx}
      /\ (ses'[S].omx # "idle" <=> ses[S].omx # "idle")
  BY <1>1 DEF MgrFills, JpegInv, Shape, IsSession
<1>3. /\ jobLock' = None /\ jobQ' = jobQ /\ ongoing' = ongoing /\ tokens' = tokens
      /\ fate' = fate /\ answers' = answers /\ idleQ' = idleQ /\ cl' = cl
  BY DEF MgrFills
<1>4. Shape'
  <2>1. IsSession(ses'[S])
    BY <1>1, <1>2, <1>3, Built DEF JpegInv, Shape, IsSession, Omx
  <2>2. IsCall(cl')
    BY <1>1, <1>2, <1>3, Built DEF JpegInv, Shape, IsCall, Changing, Resting, Holding
  <2>3. DOMAIN ses' = {S} /\ DOMAIN mgr' = {"pc", "s"} /\ jobQ' \in Seq(Jobs \cup {Exit})
    BY <1>1, <1>2, <1>3, Built DEF JpegInv, Shape
  <2>. QED
    BY <2>1, <2>2, <2>3, <1>1, <1>2, <1>3, Built DEF JpegInv, Shape
<1>5. Calls'
  BY <1>1, <1>2, <1>3, Built DEF JpegInv, Calls, Holding, Changing, Resting
<1>6. Queued'
  BY <1>1, <1>2, <1>3, Built DEF JpegInv, Queued
<1>7. Encoder'
  BY <1>1, <1>2, <1>3, Built
    DEF JpegInv, Encoder, Live, Feeding, Calls, Holding, Changing, Resting, Shape, IsSession
<1>8. Kept'
  <2>1. (Live' <=> Live) /\ (Feeding' <=> Feeding)
    BY <1>1, <1>2 DEF Live, Feeding
  <2>. QED
    BY <1>2, <1>3, <2>1 DEF JpegInv, Kept
<1>9. Handle'
  BY <1>1, <1>2, <1>3, Built DEF JpegInv, Handle
<1>. QED
  BY <1>4, <1>5, <1>6, <1>7, <1>8, <1>9 DEF JpegInv

(* The end of a job, whoever noticed it.                                     *)
LEMMA Ends ==
    ASSUME AsBuilt, JpegInv, Live, idleQ = <<>>, JobDone(S), answers' = Called(S)
    PROVE  /\ answers'[ses[S].job] = answers[ses[S].job] + 1
           /\ (\A k \in Jobs : k # ses[S].job => answers'[k] = answers[k])
           /\ answers' \in [Jobs -> Nat] /\ ongoing' \in Seq(Jobs) /\ tokens' \in Nat
           /\ idleQ' = <<S>>
<1>1. ses[S].job \in Jobs /\ ongoing \in Seq(Jobs) /\ tokens \in Nat /\ answers \in [Jobs -> Nat]
  BY DEF JpegInv, Encoder, Shape
<1>2. ongoing' = Without(ongoing, ses[S].job) /\ tokens' = tokens + 1 /\ idleQ' = Append(<<>>, S)
  BY DEF JobDone
<1>3. ongoing' \in Seq(Jobs)
  BY <1>1, <1>2, Removing, Zenon
<1>. QED
  BY <1>1, <1>2, <1>3 DEF Called

LEMMA MgrFailsKeeps == ASSUME AsBuilt, JpegInv, MgrFails, ~contrary' PROVE JpegInv'
<1>1. /\ Live /\ idleQ = <<>>
  <2>1. CASE mgr.pc = "feed"
    BY <2>1 DEF Live, Feeding, JpegInv, Encoder
  <2>2. CASE mgr.pc = "fill"
    BY <2>2 DEF MgrFails, ParamsRefused, Live, Feeding, JpegInv, Encoder, Calls
  <2>. QED
    BY <2>1, <2>2 DEF MgrFails, ParamsRefused
<1>2. /\ mgr.s = S /\ mgr.pc \in {"feed", "fill"} /\ mgr'.pc = "wait" /\ mgr'.s = None
      /\ DOMAIN mgr' = {"pc", "s"}
  BY DEF MgrFails, ParamsRefused, MgrWaits, JpegInv, Calls
<1>3. /\ ses[S].job \in Jobs /\ fate[ses[S].job] = "asked" /\ answers[ses[S].job] = 0
      /\ ~Holds(jobQ, ses[S].job) /\ cl.pc \in {"ready", "stopping", "abort"}
  BY <1>1 DEF JpegInv, Encoder
<1>4. /\ answers'[ses[S].job] = answers[ses[S].job] + 1
      /\ (\A k \in Jobs : k # ses[S].job => answers'[k] = answers[k])
      /\ answers' \in [Jobs -> Nat] /\ ongoing' \in Seq(Jobs) /\ tokens' \in Nat
      /\ idleQ' = <<S>>
  <2>1. JobDone(S) /\ answers' = Called(S)
    BY <1>2 DEF MgrFails
  <2>. QED
    BY <1>1, <2>1, Ends
<1>5. /\ DOMAIN ses' = {S} /\ DOMAIN ses'[S] = DOMAIN ses[S] /\ ses'[S].abort = ses[S].abort
      /\ ses'[S].job = ses[S].job /\ ses'[S].state = ses[S].state /\ ses'[S].cmd = ses[S].cmd
      /\ ses'[S].pending = ses[S].pending /\ ses'[S].err = ses[S].err
      /\ ses'[S].config = ses[S].config /\ ses'[S].encoding = FALSE /\ ses'[S].omx = "idle"
  BY <1>2 DEF MgrFails, JpegInv, Shape, IsSession
<1>6. /\ jobLock' = None /\ jobQ' = jobQ /\ fate' = fate /\ cl' = cl
  BY DEF MgrFails
<1>7. Shape'
  <2>1. IsSession(ses'[S])
    BY <1>1, <1>2, <1>3, <1>4, <1>5, <1>6, Built DEF JpegInv, Shape, IsSession, Omx
  <2>2. IsCall(cl')
    BY <1>1, <1>2, <1>3, <1>4, <1>5, <1>6, Built
      DEF JpegInv, Shape, IsCall, Changing, Resting, Holding
  <2>3. DOMAIN ses' = {S} /\ DOMAIN mgr' = {"pc", "s"} /\ jobQ' \in Seq(Jobs \cup {Exit})
    BY <1>1, <1>2, <1>3, <1>4, <1>5, <1>6, Built DEF JpegInv, Shape
  <2>. QED
    BY <2>1, <2>2, <2>3, <1>1, <1>2, <1>3, <1>4, <1>5, <1>6, Built DEF JpegInv, Shape
<1>8. Calls'
  BY <1>1, <1>2, <1>3, <1>4, <1>5, <1>6, Built DEF JpegInv, Calls, Holding, Changing, Resting
<1>9. Queued'
  <2>1. ASSUME NEW j \in Jobs, Holds(jobQ', j) PROVE fate'[j] = "asked" /\ answers'[j] = 0
    BY <1>3, <1>4, <1>6, <2>1 DEF JpegInv, Queued
  <2>2. ASSUME NEW j \in Jobs, fate'[j] = "new" PROVE answers'[j] = 0
    BY <1>3, <1>4, <1>6, <2>2 DEF JpegInv, Queued
  <2>3. /\ Unique(jobQ')
        /\ (cl'.pc \notin {"ready", "stopping"} /\ cl'.op # "abort_job"
             => \A j \in Jobs : ~Holds(jobQ', j))
    BY <1>6 DEF JpegInv, Queued
  <2>. QED
    BY <2>1, <2>2, <2>3 DEF Queued
<1>10. Encoder'
  BY <1>1, <1>2, <1>3, <1>4, <1>5, <1>6, Built
    DEF JpegInv, Encoder, Live, Feeding, Calls, Holding, Changing, Resting, Shape, IsSession
<1>11. Kept'
  <2>1. ~Live'
    BY <1>1, <1>2, <1>3, <1>4, <1>5, <1>6 DEF Live, Feeding
  <2>2. ASSUME cl.pc = "ready", NEW j \in Jobs, fate[j] = "asked", answers'[j] = 0
        PROVE  Holds(jobQ, j)
    <3>1. j # ses[S].job
      BY <1>1, <1>2, <1>3, <1>4, <1>5, <1>6, <2>2
    <3>. QED
      BY <1>1, <1>2, <1>3, <1>4, <1>5, <1>6, <2>2, <3>1 DEF JpegInv, Kept
  <2>. QED
    BY <1>1, <1>2, <1>3, <1>4, <1>5, <1>6, <2>1, <2>2 DEF JpegInv, Kept
<1>12. Handle'
  BY <1>1, <1>2, <1>3, <1>4, <1>5, <1>6, Built DEF JpegInv, Handle
<1>. QED
  BY <1>7, <1>8, <1>9, <1>10, <1>11, <1>12 DEF JpegInv

LEMMA DroppedKeeps ==
    ASSUME AsBuilt, JpegInv,
           ses[S].omx = "filling", ses[S].abort # "NONE", FillBufferDone(S)
    PROVE  JpegInv'
<1>1. /\ ses[S].abort = "INIT" /\ cl.pc = "wait" /\ cl.op \in Holding
      /\ mgr.pc \notin {"feed", "fill"} /\ ~Live
  BY Built DEF JpegInv, Shape, IsSession, Encoder, Calls, Live, Feeding
<1>2. /\ DOMAIN ses' = {S} /\ DOMAIN ses'[S] = DOMAIN ses[S]
      /\ ses'[S].encoding = ses[S].encoding /\ ses'[S].job = ses[S].job
      /\ ses'[S].state = ses[S].state /\ ses'[S].cmd = ses[S].cmd
      /\ ses'[S].pending = ses[S].pending /\ ses'[S].err = ses[S].err
      /\ ses'[S].config = ses[S].config /\ ses'[S].abort = "DONE" /\ ses'[S].omx = "idle"
  <2>1. ses' = [ses EXCEPT ![S].abort = "DONE", ![S].omx = "idle"]
    BY Zenon DEF FillBufferDone
  <2>. QED
    BY <2>1 DEF JpegInv, Shape, IsSession
<1>3. /\ UNCHANGED <<answers, ongoing, idleQ, tokens>>
  BY Zenon DEF FillBufferDone
<1>4. /\ jobQ' = jobQ /\ fate' = fate /\ mgr' = mgr /\ jobLock' = jobLock /\ cl' = cl
  BY DEF FillBufferDone
<1>5. Shape'
  <2>1. IsSession(ses'[S])
    BY <1>1, <1>2, <1>3, <1>4, Built DEF JpegInv, Shape, IsSession, Omx
  <2>2. IsCall(cl')
    BY <1>1, <1>2, <1>3, <1>4, Built DEF JpegInv, Shape, IsCall, Changing, Resting, Holding
  <2>3. DOMAIN ses' = {S} /\ DOMAIN mgr' = {"pc", "s"} /\ jobQ' \in Seq(Jobs \cup {Exit})
    BY <1>1, <1>2, <1>3, <1>4, Built DEF JpegInv, Shape
  <2>. QED
    BY <2>1, <2>2, <2>3, <1>1, <1>2, <1>3, <1>4, Built DEF JpegInv, Shape
<1>6. Calls'
  BY <1>1, <1>2, <1>3, <1>4, Built DEF JpegInv, Calls, Holding, Changing, Resting
<1>7. Queued'
  BY <1>1, <1>2, <1>3, <1>4, Built DEF JpegInv, Queued
<1>8. Encoder'
  BY <1>1, <1>2, <1>3, <1>4, Built
    DEF JpegInv, Encoder, Live, Feeding, Calls, Holding, Changing, Resting, Shape, IsSession
<1>9. Kept'
  BY <1>1, <1>2, <1>3, <1>4, Built
    DEF JpegInv, Kept, Live, Feeding, Calls, Holding, Changing, Resting
<1>10. Handle'
  BY <1>1, <1>2, <1>3, <1>4, Built DEF JpegInv, Handle
<1>. QED
  BY <1>5, <1>6, <1>7, <1>8, <1>9, <1>10 DEF JpegInv

LEMMA PictureKeeps ==
    ASSUME AsBuilt, JpegInv,
           ses[S].omx = "filling", ses[S].abort = "NONE", FillBufferDone(S)
    PROVE  JpegInv'
<1>1. /\ Live /\ ~Feeding /\ idleQ = <<>>
  BY DEF JpegInv, Encoder, Live, Feeding
<1>2. /\ ses[S].job \in Jobs /\ fate[ses[S].job] = "asked" /\ answers[ses[S].job] = 0
      /\ ~Holds(jobQ, ses[S].job) /\ cl.pc \in {"ready", "stopping", "abort"}
  BY <1>1 DEF JpegInv, Encoder
<1>3. /\ answers'[ses[S].job] = answers[ses[S].job] + 1
      /\ (\A k \in Jobs : k # ses[S].job => answers'[k] = answers[k])
      /\ answers' \in [Jobs -> Nat] /\ ongoing' \in Seq(Jobs) /\ tokens' \in Nat
      /\ idleQ' = <<S>>
  <2>1. JobDone(S) /\ answers' = Called(S)
    BY Zenon DEF FillBufferDone
  <2>. QED
    BY <1>1, <2>1, Ends
<1>4. /\ DOMAIN ses' = {S} /\ DOMAIN ses'[S] = DOMAIN ses[S] /\ ses'[S].abort = ses[S].abort
      /\ ses'[S].job = ses[S].job /\ ses'[S].state = ses[S].state /\ ses'[S].cmd = ses[S].cmd
      /\ ses'[S].pending = ses[S].pending /\ ses'[S].err = ses[S].err
      /\ ses'[S].config = ses[S].config /\ ses'[S].encoding = FALSE /\ ses'[S].omx = "idle"
  <2>1. ses' = [ses EXCEPT ![S].encoding = FALSE, ![S].omx = "idle"]
    BY Zenon DEF FillBufferDone
  <2>. QED
    BY <2>1 DEF JpegInv, Shape, IsSession
<1>5. /\ jobQ' = jobQ /\ fate' = fate /\ mgr' = mgr /\ jobLock' = jobLock /\ cl' = cl
  BY DEF FillBufferDone
<1>6. Shape'
  <2>1. IsSession(ses'[S])
    BY <1>1, <1>2, <1>3, <1>4, <1>5, Built DEF JpegInv, Shape, IsSession, Omx
  <2>2. IsCall(cl')
    BY <1>1, <1>2, <1>3, <1>4, <1>5, Built DEF JpegInv, Shape, IsCall, Changing, Resting, Holding
  <2>3. DOMAIN ses' = {S} /\ DOMAIN mgr' = {"pc", "s"} /\ jobQ' \in Seq(Jobs \cup {Exit})
    BY <1>1, <1>2, <1>3, <1>4, <1>5, Built DEF JpegInv, Shape
  <2>. QED
    BY <2>1, <2>2, <2>3, <1>1, <1>2, <1>3, <1>4, <1>5, Built DEF JpegInv, Shape
<1>7. Calls'
  BY <1>1, <1>2, <1>3, <1>4, <1>5, Built DEF JpegInv, Calls, Holding, Changing, Resting
<1>8. Queued'
  BY <1>1, <1>2, <1>3, <1>4, <1>5, Built DEF JpegInv, Queued
<1>9. Encoder'
  BY <1>1, <1>2, <1>3, <1>4, <1>5, Built
    DEF JpegInv, Encoder, Live, Feeding, Calls, Holding, Changing, Resting, Shape, IsSession
<1>10. Kept'
  <2>1. ~Live'
    BY <1>1, <1>2, <1>3, <1>4, <1>5 DEF Live, Feeding
  <2>2. ASSUME cl.pc = "ready", NEW j \in Jobs, fate[j] = "asked", answers'[j] = 0
        PROVE  Holds(jobQ, j)
    <3>1. j # ses[S].job
      BY <1>1, <1>2, <1>3, <1>4, <1>5, <2>2
    <3>. QED
      BY <1>1, <1>2, <1>3, <1>4, <1>5, <2>2, <3>1 DEF JpegInv, Kept
  <2>. QED
    BY <1>1, <1>2, <1>3, <1>4, <1>5, <2>1, <2>2 DEF JpegInv, Kept
<1>11. Handle'
  BY <1>1, <1>2, <1>3, <1>4, <1>5, Built DEF JpegInv, Handle
<1>. QED
  BY <1>6, <1>7, <1>8, <1>9, <1>10, <1>11 DEF JpegInv

LEMMA FillBufferDoneKeeps == ASSUME AsBuilt, JpegInv, FillBufferDone(S) PROVE JpegInv'
<1>1. ses[S].omx = "filling"
  BY DEF FillBufferDone
<1>. QED
  BY <1>1, DroppedKeeps, PictureKeeps

(* An event wakes whoever waits for the session.                             *)
LEMMA Signalling ==
    ASSUME AsBuilt, JpegInv, cl' = Signalled(S)
    PROVE  /\ DOMAIN cl' = DOMAIN cl /\ cl'.job = cl.job /\ cl'.op = cl.op /\ cl'.at = cl.at
           /\ cl'.todo = cl.todo /\ cl'.pc \in {cl.pc, "woken"}
           /\ (cl'.pc # cl.pc => cl.pc = "await") /\ (cl.pc = "await" => cl'.pc = "woken")
<1>1. CASE cl.pc = "await" /\ Here = S
  <2>1. cl' = [cl EXCEPT !.pc = "woken"]
    BY <1>1, Zenon DEF Signalled
  <2>. QED
    BY <1>1, <2>1 DEF JpegInv, Shape, IsCall
<1>2. CASE ~(cl.pc = "await" /\ Here = S)
  <2>1. cl' = cl /\ cl.pc # "await"
    BY <1>2 DEF Signalled, JpegInv, Calls, Changing, Here, S
  <2>. QED
    BY <2>1
<1>. QED
  BY <1>1, <1>2

(* The component reports an error while it encodes, or after a command to a *)
(* session that encodes nothing.                                            *)
LEMMA Erring ==
    ASSUME AsBuilt, JpegInv, ErrorEvent(S)
    PROVE  /\ ses[S].omx # "idle" \/ ~ses[S].encoding
           /\ UNCHANGED <<jobQ, jobLock, mgr, fate>>
BY Zenon DEF ErrorEvent, AsBuilt, JpegInv, Shape, IsSession

LEMMA ErrorEndsAbortKeeps ==
    ASSUME AsBuilt, JpegInv,
           ses[S].abort = "INIT", ErrorEvent(S)
    PROVE  JpegInv'
<1>1. /\ cl.pc = "wait" /\ cl.op \in Holding /\ mgr.pc \notin {"feed", "fill"} /\ ~Live
  BY Built DEF JpegInv, Shape, IsSession, Encoder, Calls, Live, Feeding
<1>2. /\ DOMAIN ses' = {S} /\ DOMAIN ses'[S] = DOMAIN ses[S]
      /\ ses'[S].encoding = ses[S].encoding /\ ses'[S].job = ses[S].job
      /\ ses'[S].state = ses[S].state /\ ses'[S].pending = ses[S].pending
      /\ ses'[S].err = ses[S].err /\ ses'[S].config = ses[S].config /\ ses'[S].abort = "DONE"
      /\ ses'[S].omx = "idle" /\ ses'[S].cmd = None
  <2>1. ses' = [ses EXCEPT ![S] = [[ses[S] EXCEPT !.omx = "idle", !.cmd = None] EXCEPT !.abort = "DONE"]]
    BY Zenon DEF ErrorEvent
  <2>. QED
    BY <2>1 DEF JpegInv, Shape, IsSession
<1>3. /\ UNCHANGED <<answers, ongoing, idleQ, tokens, cl>>
  BY Zenon DEF ErrorEvent
<1>4. /\ jobQ' = jobQ /\ fate' = fate /\ mgr' = mgr /\ jobLock' = jobLock
  BY Erring
<1>5. Shape'
  <2>1. IsSession(ses'[S])
    BY <1>1, <1>2, <1>3, <1>4, Built DEF JpegInv, Shape, IsSession, Omx
  <2>2. IsCall(cl')
    BY <1>1, <1>2, <1>3, <1>4, Built DEF JpegInv, Shape, IsCall, Changing, Resting, Holding
  <2>3. DOMAIN ses' = {S} /\ DOMAIN mgr' = {"pc", "s"} /\ jobQ' \in Seq(Jobs \cup {Exit})
    BY <1>1, <1>2, <1>3, <1>4, Built DEF JpegInv, Shape
  <2>. QED
    BY <2>1, <2>2, <2>3, <1>1, <1>2, <1>3, <1>4, Built DEF JpegInv, Shape
<1>6. Calls'
  BY <1>1, <1>2, <1>3, <1>4, Built DEF JpegInv, Calls, Holding, Changing, Resting
<1>7. Queued'
  BY <1>1, <1>2, <1>3, <1>4, Built DEF JpegInv, Queued
<1>8. Encoder'
  BY <1>1, <1>2, <1>3, <1>4, Built
    DEF JpegInv, Encoder, Live, Feeding, Calls, Holding, Changing, Resting, Shape, IsSession
<1>9. Kept'
  BY <1>1, <1>2, <1>3, <1>4, Built
    DEF JpegInv, Kept, Live, Feeding, Calls, Holding, Changing, Resting
<1>10. Handle'
  BY <1>1, <1>2, <1>3, <1>4, Built DEF JpegInv, Handle
<1>. QED
  BY <1>5, <1>6, <1>7, <1>8, <1>9, <1>10 DEF JpegInv

LEMMA ErrorInJobKeeps ==
    ASSUME AsBuilt, JpegInv,
           ses[S].abort # "INIT", ses[S].encoding, ErrorEvent(S)
    PROVE  JpegInv'
<1>1. /\ Live /\ ~Feeding /\ idleQ = <<>>
  BY Erring DEF JpegInv, Shape, IsSession, Encoder, Live, Feeding
<1>2. /\ ses[S].job \in Jobs /\ fate[ses[S].job] = "asked" /\ answers[ses[S].job] = 0
      /\ ~Holds(jobQ, ses[S].job) /\ cl.pc \in {"ready", "stopping", "abort"}
  BY <1>1 DEF JpegInv, Encoder
<1>3. /\ answers'[ses[S].job] = answers[ses[S].job] + 1
      /\ (\A k \in Jobs : k # ses[S].job => answers'[k] = answers[k])
      /\ answers' \in [Jobs -> Nat] /\ ongoing' \in Seq(Jobs) /\ tokens' \in Nat
      /\ idleQ' = <<S>>
  <2>1. JobDone(S) /\ answers' = Called(S)
    BY Zenon DEF ErrorEvent
  <2>. QED
    BY <1>1, <2>1, Ends
<1>4. /\ DOMAIN ses' = {S} /\ DOMAIN ses'[S] = DOMAIN ses[S] /\ ses'[S].abort = ses[S].abort
      /\ ses'[S].job = ses[S].job /\ ses'[S].state = ses[S].state
      /\ ses'[S].pending = ses[S].pending /\ ses'[S].config = ses[S].config
      /\ ses'[S].err = TRUE /\ ses'[S].omx = "idle" /\ ses'[S].cmd = None
      /\ ses'[S].encoding = FALSE
  <2>1. ses' = [ses EXCEPT ![S] = [[ses[S] EXCEPT !.omx = "idle", !.cmd = None] EXCEPT !.err = TRUE, !.encoding = FALSE]]
    BY Zenon DEF ErrorEvent
  <2>. QED
    BY <2>1 DEF JpegInv, Shape, IsSession
<1>5. /\ DOMAIN cl' = DOMAIN cl /\ cl'.job = cl.job /\ cl'.op = cl.op /\ cl'.at = cl.at
      /\ cl'.todo = cl.todo /\ cl'.pc \in {cl.pc, "woken"}
      /\ (cl'.pc # cl.pc => cl.pc = "await") /\ (cl.pc = "await" => cl'.pc = "woken")
  <2>1. cl' = Signalled(S)
    BY Zenon DEF ErrorEvent
  <2>. QED
    BY <2>1, Signalling
<1>6. /\ jobQ' = jobQ /\ fate' = fate /\ mgr' = mgr /\ jobLock' = jobLock
  BY Erring
<1>7. Shape'
  <2>1. IsSession(ses'[S])
    BY <1>1, <1>2, <1>3, <1>4, <1>5, <1>6, Built DEF JpegInv, Shape, IsSession, Omx
  <2>2. IsCall(cl')
    BY <1>1, <1>2, <1>3, <1>4, <1>5, <1>6, Built
      DEF JpegInv, Shape, IsCall, Changing, Resting, Holding
  <2>3. DOMAIN ses' = {S} /\ DOMAIN mgr' = {"pc", "s"} /\ jobQ' \in Seq(Jobs \cup {Exit})
    BY <1>1, <1>2, <1>3, <1>4, <1>5, <1>6, Built DEF JpegInv, Shape
  <2>. QED
    BY <2>1, <2>2, <2>3, <1>1, <1>2, <1>3, <1>4, <1>5, <1>6, Built DEF JpegInv, Shape
<1>8. Calls'
  BY <1>1, <1>2, <1>3, <1>4, <1>5, <1>6, Built DEF JpegInv, Calls, Holding, Changing, Resting
<1>9. Queued'
  <2>1. \A k \in Jobs : Holds(jobQ, k) => answers'[k] = 0
    BY <1>2, <1>3 DEF JpegInv, Queued
  <2>2. \A k \in Jobs : fate[k] = "new" => answers'[k] = 0
    BY <1>2, <1>3 DEF JpegInv, Queued
  <2>. QED
    BY <1>4, <1>5, <1>6, <2>1, <2>2 DEF JpegInv, Queued
<1>10. Encoder'
  BY <1>1, <1>2, <1>3, <1>4, <1>5, <1>6, Built
    DEF JpegInv, Encoder, Live, Feeding, Calls, Holding, Changing, Resting, Shape, IsSession
<1>11. Kept'
  <2>1. ~Live'
    BY <1>1, <1>2, <1>3, <1>4, <1>5, <1>6 DEF Live, Feeding
  <2>2. ASSUME cl.pc = "ready", NEW j \in Jobs, fate[j] = "asked", answers'[j] = 0
        PROVE  Holds(jobQ, j)
    <3>1. j # ses[S].job
      BY <1>1, <1>2, <1>3, <1>4, <1>5, <1>6, <2>2
    <3>. QED
      BY <1>1, <1>2, <1>3, <1>4, <1>5, <1>6, <2>2, <3>1 DEF JpegInv, Kept
  <2>. QED
    BY <1>1, <1>2, <1>3, <1>4, <1>5, <1>6, <2>1, <2>2 DEF JpegInv, Kept
<1>12. Handle'
  BY <1>1, <1>2, <1>3, <1>4, <1>5, <1>6, Built DEF JpegInv, Handle
<1>. QED
  BY <1>7, <1>8, <1>9, <1>10, <1>11, <1>12 DEF JpegInv

LEMMA ErrorAtRestKeeps ==
    ASSUME AsBuilt, JpegInv,
           ses[S].abort # "INIT", ~ses[S].encoding, ErrorEvent(S)
    PROVE  JpegInv'
<1>1. /\ DOMAIN ses' = {S} /\ DOMAIN ses'[S] = DOMAIN ses[S] /\ ses'[S].abort = ses[S].abort
      /\ ses'[S].job = ses[S].job /\ ses'[S].state = ses[S].state
      /\ ses'[S].pending = ses[S].pending /\ ses'[S].config = ses[S].config
      /\ ses'[S].err = TRUE /\ ses'[S].omx = "idle" /\ ses'[S].cmd = None
      /\ ses'[S].encoding = FALSE
  <2>1. ses' = [ses EXCEPT ![S] = [[ses[S] EXCEPT !.omx = "idle", !.cmd = None] EXCEPT !.err = TRUE, !.encoding = FALSE]]
    BY Zenon DEF ErrorEvent
  <2>. QED
    BY <2>1 DEF JpegInv, Shape, IsSession
<1>2. /\ DOMAIN cl' = DOMAIN cl /\ cl'.job = cl.job /\ cl'.op = cl.op /\ cl'.at = cl.at
      /\ cl'.todo = cl.todo /\ cl'.pc \in {cl.pc, "woken"}
      /\ (cl'.pc # cl.pc => cl.pc = "await") /\ (cl.pc = "await" => cl'.pc = "woken")
  <2>1. cl' = Signalled(S)
    BY Zenon DEF ErrorEvent
  <2>. QED
    BY <2>1, Signalling
<1>3. /\ UNCHANGED <<answers, ongoing, idleQ, tokens>>
  BY Zenon DEF ErrorEvent
<1>4. /\ ~ses[S].encoding /\ ses[S].abort # "INIT" /\ jobQ' = jobQ /\ fate' = fate
      /\ mgr' = mgr /\ jobLock' = jobLock
  BY Erring
<1>5. Shape'
  <2>1. IsSession(ses'[S])
    BY <1>1, <1>2, <1>3, <1>4, Built DEF JpegInv, Shape, IsSession, Omx
  <2>2. IsCall(cl')
    BY <1>1, <1>2, <1>3, <1>4, Built DEF JpegInv, Shape, IsCall, Changing, Resting, Holding
  <2>3. DOMAIN ses' = {S} /\ DOMAIN mgr' = {"pc", "s"} /\ jobQ' \in Seq(Jobs \cup {Exit})
    BY <1>1, <1>2, <1>3, <1>4, Built DEF JpegInv, Shape
  <2>. QED
    BY <2>1, <2>2, <2>3, <1>1, <1>2, <1>3, <1>4, Built DEF JpegInv, Shape
<1>6. Calls'
  BY <1>1, <1>2, <1>3, <1>4, Built DEF JpegInv, Calls, Holding, Changing, Resting
<1>7. Queued'
  BY <1>1, <1>2, <1>3, <1>4, Built DEF JpegInv, Queued
<1>8. Encoder'
  BY <1>1, <1>2, <1>3, <1>4, Built
    DEF JpegInv, Encoder, Live, Feeding, Calls, Holding, Changing, Resting, Shape, IsSession
<1>9. Kept'
  BY <1>1, <1>2, <1>3, <1>4, Built
    DEF JpegInv, Kept, Live, Feeding, Calls, Holding, Changing, Resting
<1>10. Handle'
  BY <1>1, <1>2, <1>3, <1>4, Built DEF JpegInv, Handle
<1>. QED
  BY <1>5, <1>6, <1>7, <1>8, <1>9, <1>10 DEF JpegInv

LEMMA ErrorEventKeeps == ASSUME AsBuilt, JpegInv, ErrorEvent(S) PROVE JpegInv'
BY ErrorEndsAbortKeeps, ErrorInJobKeeps, ErrorAtRestKeeps

LEMMA CmdCompleteKeeps == ASSUME AsBuilt, JpegInv, CmdComplete(S) PROVE JpegInv'
<1>1. /\ DOMAIN ses' = {S} /\ DOMAIN ses'[S] = DOMAIN ses[S] /\ ses'[S].abort = ses[S].abort
      /\ ses'[S].encoding = ses[S].encoding /\ ses'[S].job = ses[S].job
      /\ ses'[S].omx = ses[S].omx /\ ses'[S].err = ses[S].err
      /\ ses'[S].config = ses[S].config /\ ses'[S].state \in Omx /\ ses'[S].cmd = None
      /\ ses'[S].pending = FALSE
  BY DEF CmdComplete, JpegInv, Shape, IsSession
<1>2. /\ DOMAIN cl' = DOMAIN cl /\ cl'.job = cl.job /\ cl'.op = cl.op /\ cl'.at = cl.at
      /\ cl'.todo = cl.todo /\ cl'.pc \in {cl.pc, "woken"}
      /\ (cl'.pc # cl.pc => cl.pc = "await")
  <2>1. CASE ses[S].pending
    <3>1. cl' = Signalled(S)
      BY <2>1, Zenon DEF CmdComplete
    <3>. QED
      BY <3>1, Signalling
  <2>2. CASE ~ses[S].pending
    BY <2>2 DEF CmdComplete
  <2>. QED
    BY <2>1, <2>2
<1>3. /\ jobQ' = jobQ /\ ongoing' = ongoing /\ tokens' = tokens /\ fate' = fate
      /\ answers' = answers /\ idleQ' = idleQ /\ mgr' = mgr /\ jobLock' = jobLock
  BY DEF CmdComplete
<1>0. ~(cl.pc = "ready" /\ ses[S].state = "none")
  BY DEF CmdComplete, JpegInv, Handle
<1>4. Shape'
  <2>1. IsSession(ses'[S])
    BY <1>1, <1>2, <1>3, Built DEF JpegInv, Shape, IsSession, Omx
  <2>2. IsCall(cl')
    BY <1>1, <1>2, <1>3, Built DEF JpegInv, Shape, IsCall, Changing, Resting, Holding
  <2>3. DOMAIN ses' = {S} /\ DOMAIN mgr' = {"pc", "s"} /\ jobQ' \in Seq(Jobs \cup {Exit})
    BY <1>1, <1>2, <1>3, Built DEF JpegInv, Shape
  <2>. QED
    BY <2>1, <2>2, <2>3, <1>1, <1>2, <1>3, Built DEF JpegInv, Shape
<1>5. Calls'
  BY <1>1, <1>2, <1>3, Built DEF JpegInv, Calls, Holding, Changing, Resting
<1>6. Queued'
  BY <1>1, <1>2, <1>3, Built DEF JpegInv, Queued
<1>7. Encoder'
  BY <1>1, <1>2, <1>3, Built
    DEF JpegInv, Encoder, Live, Feeding, Calls, Holding, Changing, Resting, Shape, IsSession
<1>8. Kept'
  BY <1>0, <1>1, <1>2, <1>3, Built DEF JpegInv, Kept, Live, Feeding, Calls, Holding, Changing, Resting
<1>9. Handle'
  BY <1>0, <1>1, <1>2, <1>3, Built DEF JpegInv, Handle, Omx
<1>. QED
  BY <1>4, <1>5, <1>6, <1>7, <1>8, <1>9 DEF JpegInv

-----------------------------------------------------------------------------
(* The invariant holds.                                                     *)

LEMMA NothingWaits ==
    ASSUME AsBuilt, Init
    PROVE  /\ jobQ \in Seq(Jobs \cup {Exit}) /\ Unique(jobQ) /\ \A j : ~Holds(jobQ, j)
           /\ ongoing \in Seq(Jobs) /\ cl.todo \in Seq(Omx)
BY DEF Init, Holds, Unique, NoCall

LEMMA InvStarts == ASSUME AsBuilt, Init PROVE JpegInv
<1>1. /\ DOMAIN ses = {S} /\ ses[S] = NoSession
  BY Built DEF Init
<1>2. /\ DOMAIN ses[S] = {"abort", "encoding", "job", "omx", "state", "cmd", "pending", "err", "config"}
      /\ ses[S].abort = "NONE" /\ ~ses[S].encoding /\ ses[S].encoding \in BOOLEAN /\ ses[S].job = None
      /\ ses[S].omx = "idle" /\ ses[S].state = "none" /\ ses[S].cmd = None
      /\ ses[S].pending \in BOOLEAN /\ ses[S].err \in BOOLEAN /\ ses[S].config = FALSE
  BY <1>1 DEF NoSession
<1>3. /\ DOMAIN cl = {"pc", "job", "op", "at", "todo"} /\ cl.pc = "closed" /\ cl.op = None /\ cl.at = 0
  BY DEF Init, NoCall
<1>4. /\ DOMAIN mgr = {"pc", "s"} /\ mgr.pc = "off" /\ tokens = 0 /\ jobLock = None /\ idleQ = <<>>
      /\ fate \in [Jobs -> {"new", "asked", "dropped", "aborted"}] /\ \A j \in Jobs : fate[j] = "new" /\ answers[j] = 0
      /\ answers \in [Jobs -> Nat]
  BY DEF Init
<1>5. Shape
  <2>1. IsSession(ses[S])
    BY <1>2 DEF IsSession
  <2>2. IsCall(cl)
    BY <1>3, NothingWaits DEF IsCall, Resting
  <2>. QED
    BY <1>1, <1>4, <2>1, <2>2, NothingWaits DEF Shape
<1>6. Calls
  BY <1>3, <1>4, Built DEF Calls, Holding, Changing, Resting
<1>7. Queued
  BY <1>4, NothingWaits DEF Queued
<1>8. Encoder /\ Kept /\ Handle
  BY <1>2, <1>3, <1>4, Built DEF Encoder, Kept, Handle, Live, Feeding
<1>. QED
  BY <1>5, <1>6, <1>7, <1>8 DEF JpegInv

LEMMA NextKeeps == ASSUME AsBuilt, JpegInv, [Next]_vars, ~contrary' PROVE JpegInv'
<1>1. CASE Client
  <2>1. CASE Open \/ CreateSession \/ GiveUp \/ SessionAbort \/ AbortSignalled
    BY <2>1, OpenKeeps, CreateSessionKeeps, GiveUpKeeps, SessionAbortKeeps, AbortSignalledKeeps
  <2>2. CASE AbortJobReturns \/ DestroyHandles \/ DestroySession \/ CloseOrEnd \/ Joined
    BY <2>2, AbortJobReturnsKeeps, DestroyHandlesKeeps, DestroySessionKeeps, CloseOrEndKeeps, JoinedKeeps
  <2>3. CASE ConfigRefused \/ SendCommand \/ NotWanted \/ AwaitChange \/ ChangeSignalled
    BY <2>3, ConfigRefusedKeeps, SendCommandKeeps, NotWantedKeeps, AwaitChangeKeeps, ChangeSignalledKeeps
  <2>4. CASE \E op \in {"destroy_session", "close"} : BeginDestroy(op)
    BY <2>4, BeginDestroyKeeps
  <2>5. CASE \E j \in Jobs : StartJob(j) \/ DropJob(j) \/ AbortJob(j)
    BY <2>5, StartJobKeeps, DropJobKeeps, AbortJobKeeps
  <2>. QED
    BY <1>1, <2>1, <2>2, <2>3, <2>4, <2>5, Zenon DEF Client
<1>2. CASE Manager
  BY <1>2, MgrWakesKeeps, MgrTakesKeeps, MgrFeedsKeeps, MgrFillsKeeps, MgrFailsKeeps DEF Manager
<1>3. CASE \E s \in Sessions : Component(s)
  <2>1. Component(S)
    BY <1>3, Built
  <2>. QED
    BY <2>1, FillBufferDoneKeeps, ErrorEventKeeps, CmdCompleteKeeps DEF Component
<1>4. CASE UNCHANGED vars
  BY <1>4, Unchanged DEF vars
<1>. QED
  BY <1>1, <1>2, <1>3, <1>4 DEF Next

(* A component that has contradicted itself once has done so for good.       *)
LEMMA ContraryStays ==
    ASSUME contrary \in BOOLEAN, [Next]_vars
    PROVE  contrary' \in BOOLEAN /\ (contrary => contrary')
<1>1. CASE Client
  BY <1>1 DEF Client, Open, CreateSession, GiveUp, SessionAbort, AbortSignalled, AbortJobReturns,
       DestroyHandles, DestroySession, CloseOrEnd, Joined, ConfigRefused, SendCommand, NotWanted,
       AwaitChange, ChangeSignalled, BeginDestroy, StartJob, DropJob, AbortJob
<1>2. CASE Manager
  BY <1>2 DEF Manager, MgrWakes, MgrTakes, MgrFeeds, MgrFills, MgrFails
<1>3. ASSUME NEW s \in Sessions, Component(s) PROVE contrary' = contrary
  BY <1>3 DEF Component, FillBufferDone, ErrorEvent, CmdComplete
<1>. QED
  BY <1>1, <1>2, <1>3 DEF Next, vars

JpegHolds == contrary \in BOOLEAN /\ (contrary \/ JpegInv)

LEMMA JpegInvariant == ASSUME AsBuilt PROVE Spec => []JpegHolds
<1>1. Init => JpegHolds
  BY InvStarts DEF JpegHolds, Init
<1>2. JpegHolds /\ [Next]_vars => JpegHolds'
  BY NextKeeps, ContraryStays DEF JpegHolds
<1>. QED
  BY <1>1, <1>2, PTL DEF Spec

-----------------------------------------------------------------------------
(* What it shows.                                                           *)

LEMMA TypesKept == ASSUME AsBuilt, JpegInv, contrary \in BOOLEAN PROVE TypeOK
<1>1. \A s \in Sessions : s = S
  BY Built
<1>2. /\ jobQ \in Seq(Jobs \cup {Exit}) /\ ongoing \in Seq(Jobs) /\ tokens \in Nat
      /\ jobLock \in {"mgr", "client", None} /\ IsSession(ses[S])
      /\ fate \in [Jobs -> {"new", "asked", "dropped", "aborted"}] /\ answers \in [Jobs -> Nat]
  BY DEF JpegInv, Shape
<1>3. /\ \A k \in DOMAIN jobQ : jobQ[k] \in Jobs \cup {Exit}
      /\ \A k \in DOMAIN ongoing : ongoing[k] \in Jobs
  BY <1>2
<1>. QED
  BY <1>1, <1>2, <1>3 DEF TypeOK, IsSession, Omx

LEMMA NothingLost == ASSUME AsBuilt, JpegInv PROVE NoneLost
<1>. SUFFICES ASSUME cl.pc = "ready" PROVE
       /\ \A j \in Jobs : fate[j] = "asked" /\ answers[j] = 0 =>
            \/ Holds(jobQ, j)
            \/ Holds(ongoing, j) /\ \E s \in Sessions : ses[s].job = j /\ ~Holds(idleQ, s)
       /\ \A s \in Sessions : Cardinality({k \in DOMAIN idleQ : idleQ[k] = s}) =
              IF ses[s].encoding \/ (mgr.s = s /\ mgr.pc = "feed") \/ ses[s].state = "none" THEN 0 ELSE 1
  BY DEF NoneLost
<1>1. Live => idleQ = <<>> /\ Holds(ongoing, ses[S].job)
  BY DEF JpegInv, Encoder, Live
<1>2. idleQ = <<>> => ~Holds(idleQ, S)
  BY DEF Holds
<1>3. ASSUME NEW j \in Jobs, fate[j] = "asked", answers[j] = 0, ~Holds(jobQ, j)
      PROVE  Holds(ongoing, j) /\ \E s \in Sessions : ses[s].job = j /\ ~Holds(idleQ, s)
  <2>1. Live /\ ses[S].job = j
    BY <1>3 DEF JpegInv, Kept
  <2>. QED
    BY <1>1, <1>2, <2>1, Built
<1>4. Cardinality({k \in DOMAIN idleQ : idleQ[k] = S}) =
        IF ses[S].encoding \/ (mgr.s = S /\ mgr.pc = "feed") \/ ses[S].state = "none" THEN 0 ELSE 1
  <2>1. CASE ses[S].encoding \/ Feeding \/ ses[S].state = "none"
    <3>1. idleQ = <<>> /\ (Feeding => mgr.s = S)
      BY <2>1 DEF JpegInv, Encoder, Calls, Feeding, Handle
    <3>2. {k \in DOMAIN idleQ : idleQ[k] = S} = {}
      BY <3>1
    <3>. QED
      BY <2>1, <3>1, <3>2, FS_EmptySet DEF Feeding
  <2>2. CASE ~(ses[S].encoding \/ Feeding \/ ses[S].state = "none")
    <3>1. idleQ = <<S>>
      BY <2>2 DEF JpegInv, Kept
    <3>2. {k \in DOMAIN idleQ : idleQ[k] = S} = {1}
      BY <3>1
    <3>. QED
      BY <2>2, <3>2, FS_Singleton DEF Feeding
  <2>. QED
    BY <2>1, <2>2
<1>. QED
  BY <1>3, <1>4, Built

LEMMA FreedOnlyAtRest == ASSUME AsBuilt, JpegInv PROVE FreedAtRest
<1>. SUFFICES ASSUME cl.pc = "change", cl.op = "destroy_session", ses[Here].config
              PROVE  ses[Here].err \/ (ses[Here].cmd = None /\ ses[Here].omx = "idle")
  BY DEF FreedAtRest
<1>1. Here = S
  BY DEF JpegInv, Calls, Changing, Here, S
<1>2. ses[S].err \/ ses[S].cmd = None
  BY <1>1 DEF JpegInv, Handle
<1>3. ~Live /\ ses[S].abort # "INIT" /\ jobLock = "client"
  BY DEF JpegInv, Encoder, Calls, Holding
<1>4. ses[S].omx = "idle"
  BY <1>3 DEF JpegInv, Shape, IsSession, Encoder, Live
<1>. QED
  BY <1>1, <1>2, <1>4

(* mm_jpeg_start_job, mm_jpeg_jobmgr_thread, mm_jpegenc_job_done: a job      *)
(* whose answer the client waits for is queued or with the session, an OMX  *)
(* session that encodes nothing is in the queue of free ones, once, and     *)
(* mm_jpeg_destroy_session frees its handle when the component is at rest;  *)
(* until the component refuses a buffer of a job it reported an error for.  *)
THEOREM JobsAreKept == ASSUME AsBuilt PROVE Spec => []NoJobLost
<1>1. JpegHolds => NoJobLost
  BY TypesKept, NothingLost, FreedOnlyAtRest DEF NoJobLost, JpegHolds
<1>. QED
  BY <1>1, JpegInvariant, PTL

-----------------------------------------------------------------------------
(* The promise: each step is one the client was promised, or none.          *)

LEMMA Answering ==
    ASSUME AsBuilt, JpegInv, ~contrary, contrary' = contrary, Live, answers' = Called(S), fate' = fate
    PROVE  \E j \in Jobs : Promise!Answer(j)
<1>1. ses[S].job \in Jobs /\ fate[ses[S].job] = "asked" /\ answers[ses[S].job] = 0
  BY DEF JpegInv, Encoder
<1>2. answers' = [answers EXCEPT ![ses[S].job] = 1]
  BY <1>1 DEF Called
<1>. QED
  BY <1>1, <1>2 DEF Promise!Answer, Promise!Open

LEMMA AllGiveUp ==
    ASSUME AsBuilt, JpegInv, fate' = AllAborted, answers' = answers, contrary' = contrary
    PROVE  Promise!AbortAll({j \in Jobs : fate[j] = "asked"})
<1>1. fate' = [j \in Jobs |-> IF j \in {i \in Jobs : fate[i] = "asked"} THEN "aborted" ELSE fate[j]]
  BY DEF AllAborted
<1>. QED
  BY <1>1, Zenon DEF Promise!AbortAll

LEMMA StepIsPromised ==
    ASSUME AsBuilt, JpegHolds, [Next]_vars
    PROVE  [Promise!Next]_Promise!vars
<1>. SUFFICES ASSUME ~contrary' PROVE [Promise!Next]_Promise!vars
  BY DEF Promise!Next
<1>13. JpegInv /\ ~contrary
  BY ContraryStays DEF JpegHolds
<1>14. contrary' = contrary
  BY <1>13, ContraryStays DEF JpegHolds
<1>1. CASE Open \/ CreateSession \/ GiveUp \/ SessionAbort \/ AbortSignalled \/ DestroyHandles \/ Joined
  BY <1>1
    DEF Promise!vars, Open, CreateSession, GiveUp, SessionAbort, AbortSignalled, DestroyHandles, Joined
<1>2. CASE ConfigRefused \/ SendCommand \/ NotWanted \/ AwaitChange \/ ChangeSignalled
  BY <1>2 DEF Promise!vars, ConfigRefused, SendCommand, NotWanted, AwaitChange, ChangeSignalled
<1>3. CASE BeginDestroy("destroy_session") \/ BeginDestroy("close") \/ MgrWakes \/ MgrTakes \/ MgrFeeds \/ MgrFills
  BY <1>3 DEF Promise!vars, BeginDestroy, MgrWakes, MgrTakes, MgrFeeds, MgrFills
<1>4. ASSUME NEW j \in Jobs, StartJob(j) \/ DropJob(j) PROVE Promise!Next
  BY <1>4 DEF StartJob, DropJob, New, Promise!Next, Promise!Ask, Promise!Drop
<1>5. ASSUME NEW j \in Jobs, AbortJob(j) PROVE [Promise!Next]_Promise!vars
  <2>1. fate[j] = "asked" /\ answers' = answers /\ contrary' = contrary /\ (fate' = fate \/ fate' = Aborted(j))
    BY <1>5 DEF AbortJob
  <2>. QED
    BY <2>1 DEF Promise!vars, Promise!Next, Promise!Abort, Aborted
<1>6. CASE AbortJobReturns
  <2>1. cl.job \in Jobs /\ fate[cl.job] = "asked"
    BY <1>6, <1>13 DEF AbortJobReturns, JpegInv, Calls
  <2>. QED
    BY <1>6, <1>14, <2>1 DEF AbortJobReturns, Aborted, Promise!Next, Promise!Abort
<1>7. CASE DestroySession
  BY <1>7, <1>13, <1>14, AllGiveUp DEF DestroySession, Promise!Next
<1>8. CASE CloseOrEnd
  <2>1. answers' = answers /\ contrary' = contrary /\ (fate' = fate \/ fate' = AllAborted)
    BY <1>8 DEF CloseOrEnd
  <2>. QED
    BY <2>1, <1>13, AllGiveUp DEF Promise!vars, Promise!Next
<1>9. CASE MgrFails
  <2>1. mgr.s = S /\ Live
    BY <1>9, <1>13 DEF MgrFails, ParamsRefused, JpegInv, Calls, Encoder, Live, Feeding
  <2>. QED
    BY <1>9, <1>13, <1>14, <2>1, Answering DEF MgrFails, Promise!Next
<1>10. CASE \E s \in Sessions : Component(s)
  <2>1. FillBufferDone(S) \/ ErrorEvent(S) \/ CmdComplete(S)
    BY <1>10, Built DEF Component
  <2>2. CASE CmdComplete(S)
    BY <2>2 DEF CmdComplete, Promise!vars
  <2>3. CASE FillBufferDone(S)
    <3>1. fate' = fate /\ (answers' = answers \/ (ses[S].abort = "NONE" /\ ses[S].omx = "filling" /\ answers' = Called(S)))
      BY <2>3 DEF FillBufferDone
    <3>2. ses[S].abort = "NONE" /\ ses[S].omx = "filling" => Live
      BY <1>13 DEF JpegInv, Encoder, Live
    <3>. QED
      BY <3>1, <3>2, <1>13, <1>14, Answering DEF Promise!vars, Promise!Next
  <2>4. CASE ErrorEvent(S)
    <3>1. fate' = fate /\ (answers' = answers \/ (ses[S].abort # "INIT" /\ ses[S].encoding /\ answers' = Called(S)))
      BY <2>4, Zenon DEF ErrorEvent
    <3>2. ses[S].abort # "INIT" /\ ses[S].encoding => Live
      BY <2>4, <1>13, Erring DEF JpegInv, Shape, IsSession, Encoder, Live
    <3>. QED
      BY <3>1, <3>2, <1>13, <1>14, Answering DEF Promise!vars, Promise!Next
  <2>. QED
    BY <2>1, <2>2, <2>3, <2>4
<1>11. CASE UNCHANGED vars
  BY <1>11 DEF vars, Promise!vars
<1>12. Next => \/ Open \/ CreateSession \/ GiveUp \/ SessionAbort \/ AbortSignalled \/ DestroyHandles \/ Joined
               \/ ConfigRefused \/ SendCommand \/ NotWanted \/ AwaitChange \/ ChangeSignalled
               \/ BeginDestroy("destroy_session") \/ BeginDestroy("close")
               \/ MgrWakes \/ MgrTakes \/ MgrFeeds \/ MgrFills \/ MgrFails
               \/ AbortJobReturns \/ DestroySession \/ CloseOrEnd
               \/ (\E j \in Jobs : StartJob(j) \/ DropJob(j) \/ AbortJob(j)) \/ (\E s \in Sessions : Component(s))
  BY Zenon DEF Next, Client, Manager
<1>. QED
  BY <1>1, <1>2, <1>3, <1>4, <1>5, <1>6, <1>7, <1>8, <1>9, <1>10, <1>11, <1>12, <1>13, <1>14

(* The jpeg interface keeps the safety half of what JpegJobs promises: a job *)
(* is answered at most once, only when it was queued, and not after         *)
(* abort_job, destroy_session or close gave it up; until the component      *)
(* refuses a buffer of a job it reported an error for.                      *)
THEOREM PromiseIsKept ==
    ASSUME AsBuilt PROVE Spec => Promise!Init /\ [][Promise!Next]_Promise!vars
<1>1. Init => Promise!Init
  BY DEF Init, Promise!Init
<1>2. JpegHolds /\ [Next]_vars => [Promise!Next]_Promise!vars
  BY StepIsPromised
<1>. QED
  BY <1>1, <1>2, JpegInvariant, PTL DEF Spec
=============================================================================

--------------------------- MODULE SuperBufProofs ---------------------------
(***************************************************************************)
(* Proofs about the frame buffers of a bundled channel (SuperBuf): the      *)
(* count of a buffer is the number of its holders, and the driver has it    *)
(* exactly when there is none, whatever the threads do in whatever order    *)
(* (BufInv is inductive).  And about the order of the super-buffer queue:   *)
(* the frames of a numbering, from the driver to the callback thread, come  *)
(* one after the other, and what can be served is (LineInv is inductive).   *)
(***************************************************************************)
EXTENDS SuperBuf, SequenceTheorems, FiniteSetTheorems, NaturalsInduction,
        WellFoundedInduction, TLAPS

\* Frames are counted from one, because a super buffer whose frame is 0 is
\* taken for an empty one.
FramesCountFromOne == FirstFrame > 0

\* Each flush the HAL asks for releases the buffers of every stream.  (Only
\* stopping a channel whose streams are linked to another one's flushes those
\* of one type, mm_camera_channel.c:1252 and 1350.)
WholeFlushes == \A c \in Commands : c.cmd = "FLUSH" => c.types = Streams

\* A stream has more buffers than the queue may have nodes: the water mark and
\* the unmatched frames, of which one more than allowed may be in.
\* getBufNumRequired adds two to the two numbers (QCamera2HWI.cpp:1562, 1635), and
\* three to the water mark for a single ZSL snapshot (1630).
RoomBeyondQueue == \A s \in Streams : Cardinality(BufsOf[s]) > WaterMark + MaxUnmatched + 1

-----------------------------------------------------------------------------
(* Queues of nodes.                                                         *)
GoodNode == {n \in Node : /\ n.frame > 0
                          /\ \A s \in Streams : n.slot[s] # Empty => n.slot[s].buf \in BufsOf[s]}

\* The slots of the nodes at some places of a queue.
SlotsAt(ns, D) == UNION {Slots(ns[k]) : k \in D}

\* No buffer is in two nodes.
Apart(ns) == \A i, j \in DOMAIN ns : i # j => Slots(ns[i]) \cap Slots(ns[j]) = {}

\* A node of the frame f has a buffer of the stream s.
Has(ns, s, f) == \E i \in DOMAIN ns : ns[i].frame = f /\ ns[i].slot[s] # Empty

LEMMA InSlots ==
    ASSUME NEW n \in GoodNode
    PROVE  /\ Slots(n) \subseteq Bufs
           /\ \A b : b \in Slots(n) <=> \E s \in Streams : n.slot[s] # Empty /\ n.slot[s].buf = b
  BY DEF Slots, GoodNode, Node, Slot, Bufs

LEMMA NodesOf ==
    ASSUME NEW ns \in Seq(GoodNode)
    PROVE  DOMAIN ns = 1..Len(ns) /\ Len(ns) \in Nat /\ \A i \in 1..Len(ns) : ns[i] \in GoodNode
  OBVIOUS

LEMMA InSlotsIn ==
    ASSUME NEW ns \in Seq(GoodNode)
    PROVE  /\ DOMAIN ns = 1..Len(ns) /\ Len(ns) \in Nat
           /\ SlotsIn(ns) \subseteq Bufs
           /\ \A b : b \in SlotsIn(ns) <=> \E i \in 1..Len(ns) : b \in Slots(ns[i])
           /\ SlotsIn(ns) = SlotsAt(ns, 1..Len(ns))
<1>1. DOMAIN ns = 1..Len(ns) /\ Len(ns) \in Nat /\ \A i \in 1..Len(ns) : ns[i] \in GoodNode
  OBVIOUS
<1>2. \A i \in 1..Len(ns) : Slots(ns[i]) \subseteq Bufs
  BY <1>1, InSlots
<1>. QED
  BY <1>1, <1>2 DEF SlotsIn, SlotsAt

LEMMA Parts ==
    ASSUME NEW S, NEW ns \in Seq(S), NEW k \in 0..Len(ns)
    PROVE  /\ Leading(ns, k) \in Seq(S) /\ Len(Leading(ns, k)) = k
           /\ \A i \in 1..k : Leading(ns, k)[i] = ns[i]
           /\ After(ns, k) \in Seq(S) /\ Len(After(ns, k)) = Len(ns) - k
           /\ \A i \in 1..(Len(ns) - k) : After(ns, k)[i] = ns[i + k]
<1>. DEFINE n == Len(ns)
            a == SubSeq(ns, 1, k)
            b == SubSeq(ns, k + 1, n)
<1>1. n \in Nat /\ k \in Nat /\ k <= n /\ \A i \in 1..n : ns[i] \in S
  OBVIOUS
<1>2. a \in Seq(S) /\ Len(a) = k /\ \A i \in 1..k : a[i] = ns[i]
  <2>1. \A i \in 1..k : ns[i] \in S
    BY <1>1
  <2>2. /\ a \in Seq(S) /\ Len(a) = IF 1 <= k THEN k - 1 + 1 ELSE 0
        /\ \A i \in 1..(k - 1 + 1) : a[i] = ns[1 + i - 1]
    BY <1>1, <2>1, SubSeqProperties
  <2>. HIDE DEF a
  <2>. QED
    BY <1>1, <2>2
<1>3. b \in Seq(S) /\ Len(b) = n - k /\ \A i \in 1..(n - k) : b[i] = ns[i + k]
  <2>. HIDE DEF n
  <2>1. \A i \in (k + 1)..n : ns[i] \in S
    BY <1>1
  <2>2. /\ b \in Seq(S) /\ Len(b) = IF k + 1 <= n THEN n - (k + 1) + 1 ELSE 0
        /\ \A i \in 1..(n - (k + 1) + 1) : b[i] = ns[(k + 1) + i - 1]
    BY <1>1, <2>1, SubSeqProperties
  <2>. HIDE DEF b
  <2>3. n - (k + 1) + 1 = n - k /\ \A i \in 1..(n - k) : (k + 1) + i - 1 = i + k
    BY <1>1
  <2>4. Len(b) = n - k
    BY <1>1, <2>2
  <2>. QED
    BY <2>2, <2>3, <2>4
<1>. QED
  BY <1>2, <1>3 DEF Leading, After

\* The queue ms has the nodes of ns except those at the places gone; g says
\* from where.
Selection(ns, ms, g, gone) ==
    /\ ns \in Seq(GoodNode) /\ ms \in Seq(GoodNode)
    /\ g \in [1..Len(ms) -> 1..Len(ns)] /\ gone \in SUBSET (1..Len(ns))
    /\ \A i, j \in 1..Len(ms) : g[i] = g[j] => i = j
    /\ \A i \in 1..Len(ms) : ms[i].frame = ns[g[i]].frame /\ ms[i].slot = ns[g[i]].slot
    /\ \A k \in 1..Len(ns) : k \in gone <=> \A i \in 1..Len(ms) : g[i] # k

LEMMA Selected ==
    ASSUME NEW ns, NEW ms, NEW g, NEW gone, Selection(ns, ms, g, gone), Apart(ns)
    PROVE  /\ Apart(ms)
           /\ SlotsIn(ms) \cup SlotsAt(ns, gone) = SlotsIn(ns)
           /\ SlotsIn(ms) \cap SlotsAt(ns, gone) = {}
           /\ \A s, f : Has(ms, s, f) => Has(ns, s, f)
<1>. USE DEF Selection
<1>1. DOMAIN ns = 1..Len(ns) /\ DOMAIN ms = 1..Len(ms)
  BY InSlotsIn
<1>2. \A i \in 1..Len(ms) : Slots(ms[i]) = Slots(ns[g[i]])
  BY DEF Slots
<1>3. Apart(ms)
  BY <1>1, <1>2 DEF Apart
<1>4. \A b : b \in SlotsAt(ns, gone) <=> \E k \in gone : b \in Slots(ns[k])
  BY DEF SlotsAt
<1>5. \A b : /\ b \in SlotsIn(ms) <=> \E i \in 1..Len(ms) : b \in Slots(ns[g[i]])
             /\ b \in SlotsIn(ns) <=> \E k \in 1..Len(ns) : b \in Slots(ns[k])
  BY <1>2, InSlotsIn
<1>6. SlotsIn(ms) \cup SlotsAt(ns, gone) = SlotsIn(ns)
  <2>1. \A k \in 1..Len(ns) : k \notin gone => \E i \in 1..Len(ms) : g[i] = k
    OBVIOUS
  <2>2. SlotsIn(ns) \subseteq SlotsIn(ms) \cup SlotsAt(ns, gone)
    BY <1>4, <1>5, <2>1
  <2>3. SlotsIn(ms) \cup SlotsAt(ns, gone) \subseteq SlotsIn(ns)
    BY <1>4, <1>5
  <2>. QED
    BY <2>2, <2>3
<1>7. SlotsIn(ms) \cap SlotsAt(ns, gone) = {}
  <2>1. SUFFICES ASSUME NEW b, NEW i \in 1..Len(ms), NEW k \in gone, b \in Slots(ns[g[i]]), b \in Slots(ns[k])
                 PROVE  FALSE
    BY <1>4, <1>5
  <2>2. g[i] # k /\ g[i] \in 1..Len(ns) /\ k \in 1..Len(ns)
    OBVIOUS
  <2>. QED
    BY <1>1, <2>1, <2>2 DEF Apart
<1>8. \A s, f : Has(ms, s, f) => Has(ns, s, f)
  BY <1>1 DEF Has
<1>. QED
  BY <1>3, <1>6, <1>7, <1>8

\* The node n is the one at the place i with a buffer of s more.
Fills(ns, i, n, s) ==
    /\ ns \in Seq(GoodNode) /\ Apart(ns) /\ i \in 1..Len(ns) /\ n \in GoodNode /\ s \in Streams
    /\ n.frame = ns[i].frame /\ n.slot[s] # Empty /\ n.slot[s].buf \notin SlotsIn(ns)
    /\ ns[i].slot[s] = Empty /\ \A t \in Streams : t # s => n.slot[t] = ns[i].slot[t]

Put(ns, i, n) == [ns EXCEPT ![i] = n]

LEMMA Replaced ==
    ASSUME NEW ns, NEW i, NEW n, NEW s, Fills(ns, i, n, s)
    PROVE  /\ Put(ns, i, n) \in Seq(GoodNode)
           /\ Len(Put(ns, i, n)) = Len(ns)
           /\ Apart(Put(ns, i, n))
           /\ SlotsIn(Put(ns, i, n)) = SlotsIn(ns) \cup {n.slot[s].buf}
           /\ \A t \in Streams : \A f : Has(Put(ns, i, n), t, f) => Has(ns, t, f) \/ (t = s /\ f = n.frame)
<1>. DEFINE ms == Put(ns, i, n)
            b == n.slot[s].buf
<1>. USE DEF Fills, Put
<1>1. ms \in Seq(GoodNode) /\ Len(ms) = Len(ns) /\ \A j \in 1..Len(ns) : ms[j] = IF j = i THEN n ELSE ns[j]
  OBVIOUS
<1>2. ns[i] \in GoodNode
  OBVIOUS
<1>. HIDE DEF ms
<1>3. Slots(n) = Slots(ns[i]) \cup {b}
  BY <1>2, InSlots
<1>4. DOMAIN ms = 1..Len(ns) /\ DOMAIN ns = 1..Len(ns)
  BY <1>1, InSlotsIn
<1>5. \A x : /\ x \in SlotsIn(ms) <=> \E j \in 1..Len(ns) : x \in Slots(ms[j])
             /\ x \in SlotsIn(ns) <=> \E j \in 1..Len(ns) : x \in Slots(ns[j])
  BY <1>1, InSlotsIn
<1>. HIDE DEF b
<1>6. SlotsIn(ms) = SlotsIn(ns) \cup {b}
  <2>1. SlotsIn(ms) \subseteq SlotsIn(ns) \cup {b}
    BY <1>1, <1>3, <1>5
  <2>2. SlotsIn(ns) \cup {b} \subseteq SlotsIn(ms)
    BY <1>1, <1>3, <1>5
  <2>. QED
    BY <2>1, <2>2
<1>7. Apart(ms)
  <2>1. SUFFICES ASSUME NEW j \in 1..Len(ns), NEW k \in 1..Len(ns), j # k
                 PROVE  Slots(ms[j]) \cap Slots(ms[k]) = {}
    BY <1>4 DEF Apart
  <2>2. Slots(ns[j]) \cap Slots(ns[k]) = {} /\ b \notin Slots(ns[j]) /\ b \notin Slots(ns[k])
    BY <1>4, <1>5, <2>1 DEF Apart, b
  <2>. QED
    BY <1>1, <1>3, <2>1, <2>2
<1>8. \A t \in Streams : \A f : Has(ms, t, f) => Has(ns, t, f) \/ (t = s /\ f = n.frame)
  BY <1>1, <1>4 DEF Has
<1>. QED
  BY <1>1, <1>6, <1>7, <1>8 DEF ms, b

\* One queue after another.
LEMMA Together ==
    ASSUME NEW ns \in Seq(GoodNode), NEW ms \in Seq(GoodNode), Apart(ns), Apart(ms),
           SlotsIn(ns) \cap SlotsIn(ms) = {}
    PROVE  /\ ns \o ms \in Seq(GoodNode) /\ Apart(ns \o ms)
           /\ SlotsIn(ns \o ms) = SlotsIn(ns) \cup SlotsIn(ms)
           /\ \A s, f : Has(ns \o ms, s, f) => Has(ns, s, f) \/ Has(ms, s, f)
<1>. DEFINE r == ns \o ms
            n == Len(ns)
            l == Len(ms)
<1>1. n \in Nat /\ l \in Nat /\ DOMAIN ns = 1..n /\ DOMAIN ms = 1..l
  OBVIOUS
<1>2. /\ r \in Seq(GoodNode) /\ Len(r) = n + l
      /\ \A i \in 1..(n + l) : r[i] = IF i <= n THEN ns[i] ELSE ms[i - n]
  BY ConcatProperties, Zenon
<1>3. DOMAIN r = 1..(n + l)
  BY <1>2
<1>. HIDE DEF r, n, l
<1>4. \A i \in 1..(n + l) : IF i \in 1..n THEN r[i] = ns[i] ELSE i - n \in 1..l /\ r[i] = ms[i - n]
  BY <1>1, <1>2
<1>5. /\ \A i \in 1..n : i \in 1..(n + l) /\ r[i] = ns[i]
      /\ \A i \in 1..l : n + i \in 1..(n + l) /\ r[n + i] = ms[i]
  <2>1. \A i \in 1..n : i \in 1..(n + l) /\ i <= n
    BY <1>1
  <2>2. \A i \in 1..l : n + i \in 1..(n + l) /\ ~(n + i <= n) /\ (n + i) - n = i
    BY <1>1
  <2>. QED
    BY <1>2, <2>1, <2>2
<1>6. \A b : /\ b \in SlotsIn(r) <=> \E i \in 1..(n + l) : b \in Slots(r[i])
             /\ b \in SlotsIn(ns) <=> \E i \in 1..n : b \in Slots(ns[i])
             /\ b \in SlotsIn(ms) <=> \E i \in 1..l : b \in Slots(ms[i])
  BY <1>2, InSlotsIn DEF n, l
<1>7. SlotsIn(r) = SlotsIn(ns) \cup SlotsIn(ms)
  <2>1. SlotsIn(r) \subseteq SlotsIn(ns) \cup SlotsIn(ms)
    BY <1>4, <1>6
  <2>2. SlotsIn(ns) \cup SlotsIn(ms) \subseteq SlotsIn(r)
    BY <1>5, <1>6
  <2>. QED
    BY <2>1, <2>2
<1>8. Apart(r)
  <2>1. SUFFICES ASSUME NEW i \in 1..(n + l), NEW j \in 1..(n + l), i # j, NEW b, b \in Slots(r[i]), b \in Slots(r[j])
                 PROVE  FALSE
    BY <1>3 DEF Apart
  <2>2. CASE i \in 1..n /\ j \in 1..n
    BY <1>1, <1>4, <2>1, <2>2 DEF Apart
  <2>3. CASE i \notin 1..n /\ j \notin 1..n
    <3>1. i - n \in 1..l /\ j - n \in 1..l /\ i - n # j - n
      BY <1>1, <1>4, <2>1, <2>3
    <3>2. b \in Slots(ms[i - n]) /\ b \in Slots(ms[j - n])
      BY <1>4, <2>1, <2>3
    <3>. QED
      BY <1>1, <3>1, <3>2 DEF Apart
  <2>. QED
    BY <1>4, <1>6, <2>1, <2>2, <2>3
<1>9. \A s, f : Has(r, s, f) => Has(ns, s, f) \/ Has(ms, s, f)
  BY <1>1, <1>3, <1>4 DEF Has
<1>. QED
  BY <1>2, <1>7, <1>8, <1>9 DEF r

-----------------------------------------------------------------------------
(* The least and the greatest of some numbers.                              *)
LEMMA MinIn ==
    ASSUME NEW T \in SUBSET Nat, T # {}
    PROVE  Min(T) \in T /\ \A y \in T : Min(T) <= y
<1>1. PICK x \in T : \A y \in T : <<y, x>> \notin OpToRel(<, Nat)
  BY NatLessThanWellFounded, WFMin, Zenon
<1>2. \A y \in T : x <= y
  <2>1. TAKE y \in T
  <2>2. <<y, x>> \notin OpToRel(<, Nat)
    BY <1>1
  <2>3. x \in Nat /\ y \in Nat
    OBVIOUS
  <2>4. ~(y < x)
    BY <2>2, <2>3 DEF OpToRel
  <2>. QED
    BY <2>3, <2>4
<1>. QED
  BY <1>2 DEF Min

LEMMA MaxIn ==
    ASSUME NEW n \in Nat, NEW T \in SUBSET (0..n), T # {}
    PROVE  Max(T) \in T
<1>. DEFINE U == {n - x : x \in T}
<1>1. U \in SUBSET Nat /\ U # {}
  <2>1. \A x \in T : n - x \in Nat
    OBVIOUS
  <2>. QED
    BY <2>1
<1>2. PICK u \in U : \A y \in U : u <= y
  BY <1>1, MinIn
<1>3. PICK x \in T : u = n - x
  BY <1>2
<1>4. \A y \in T : x >= y
  <2>1. TAKE y \in T
  <2>2. n - y \in U
    OBVIOUS
  <2>3. u <= n - y
    BY <1>2, <2>2
  <2>. QED
    BY <1>3, <2>3
<1>. QED
  BY <1>4 DEF Max

LEMMA PrefixIn ==
    ASSUME NEW ns \in Seq(GoodNode)
    PROVE  MatchedPrefix(ns) \in 0..Len(ns)
<1>. DEFINE T == {k \in 0..Len(ns) : \A i \in 1..k : ns[i].matched}
<1>1. Len(ns) \in Nat /\ T \in SUBSET (0..Len(ns)) /\ 0 \in T
  OBVIOUS
<1>2. Max(T) \in T
  BY <1>1, MaxIn
<1>. QED
  BY <1>1, <1>2 DEF MatchedPrefix

-----------------------------------------------------------------------------
(* What a command works on.                                                 *)
QueueType == [nodes : Seq(GoodNode), match_cnt : Int, expected : Nat, noLed : Nat]
ChanType == [pending : Nat, mode : {"BURST", "CONTINUOUS"}, needLED : BOOLEAN,
             bracketing : {"OFF", "WAIT", "ACTIVE"}, flash : BOOLEAN,
             zoom1x : BOOLEAN, started : BOOLEAN, manual : BOOLEAN, skip : Nat]
WorkType == [q : QueueType, ch : ChanType, rel : SUBSET Bufs, out : Seq(GoodNode)]

\* Nothing is given up that is still in the queue, and nothing is sent yet.
Sound(w) == /\ w \in WorkType /\ w.out = <<>> /\ Apart(w.q.nodes)
            /\ SlotsIn(w.q.nodes) \cap w.rel = {}

\* The buffers the command has to account for.
Held(w) == SlotsIn(w.q.nodes) \cup w.rel

\* From w to v no buffer is lost and none comes.
Keeps(w, v) == /\ Sound(v) /\ Held(v) = Held(w)
               /\ \A s \in Streams, f \in Nat : Has(v.q.nodes, s, f) => Has(w.q.nodes, s, f)

\* ... and v differs from w in what is not about buffers.
Touches(w, v) == /\ v \in WorkType /\ v.out = w.out /\ v.rel = w.rel
                 /\ v.q.nodes = w.q.nodes

LEMMA KeepsKeeps ==
    ASSUME NEW u, NEW v, NEW w, Keeps(u, v), Keeps(v, w)
    PROVE  Keeps(u, w)
  BY DEF Keeps

LEMMA TouchesKeeps ==
    ASSUME NEW w, NEW v, Sound(w), Touches(w, v)
    PROVE  Keeps(w, v)
  BY DEF Keeps, Touches, Sound, Held

LEMMA DequeueIs ==
    ASSUME NEW w \in WorkType, NEW k \in 0..Len(w.q.nodes)
    PROVE  /\ Dequeue(w, k) \in WorkType
           /\ Dequeue(w, k).q.nodes = After(w.q.nodes, k)
           /\ Dequeue(w, k).rel = w.rel /\ Dequeue(w, k).out = w.out
           /\ Dequeue(w, k).ch = w.ch
<1>1. w.q.nodes \in Seq(GoodNode) /\ w.q.match_cnt - k \in Int
  BY DEF WorkType, QueueType
<1>2. After(w.q.nodes, k) \in Seq(GoodNode)
  BY <1>1, Parts
<1>. QED
  BY <1>1, <1>2 DEF Dequeue, WorkType, QueueType

\* The first k nodes of a queue and the rest of it.
LEMMA Cut ==
    ASSUME NEW ns \in Seq(GoodNode), NEW k \in 0..Len(ns), Apart(ns)
    PROVE  /\ Leading(ns, k) \in Seq(GoodNode) /\ After(ns, k) \in Seq(GoodNode)
           /\ Apart(Leading(ns, k)) /\ Apart(After(ns, k))
           /\ SlotsIn(Leading(ns, k)) \cup SlotsIn(After(ns, k)) = SlotsIn(ns)
           /\ SlotsIn(Leading(ns, k)) \cap SlotsIn(After(ns, k)) = {}
           /\ \A s, f : Has(After(ns, k), s, f) => Has(ns, s, f)
<1>. DEFINE a == Leading(ns, k)
            b == After(ns, k)
            n == Len(ns)
<1>1. /\ a \in Seq(GoodNode) /\ Len(a) = k /\ \A i \in 1..k : a[i] = ns[i]
      /\ b \in Seq(GoodNode) /\ Len(b) = n - k /\ \A i \in 1..(n - k) : b[i] = ns[i + k]
  BY Parts
<1>2. n \in Nat /\ k \in Nat /\ k <= n
  OBVIOUS
<1>. HIDE DEF a, b, n
<1>3. /\ Apart(b) /\ SlotsIn(b) \cup SlotsAt(ns, 1..k) = SlotsIn(ns)
      /\ SlotsIn(b) \cap SlotsAt(ns, 1..k) = {}
      /\ \A s, f : Has(b, s, f) => Has(ns, s, f)
  <2>. DEFINE g == [i \in 1..Len(b) |-> i + k]
              gone == 1..k
  <2>1. /\ g \in [1..Len(b) -> 1..n] /\ gone \in SUBSET (1..n)
        /\ \A i, j \in 1..Len(b) : g[i] = g[j] => i = j
        /\ \A i \in 1..Len(b) : b[i].frame = ns[g[i]].frame /\ b[i].slot = ns[g[i]].slot
    BY <1>1, <1>2
  <2>2. \A x \in 1..n : x \in gone <=> \A i \in 1..Len(b) : g[i] # x
    <3>1. TAKE x \in 1..n
    <3>2. CASE x \in gone
      BY <1>1, <1>2, <3>2
    <3>3. CASE x \notin gone
      <4>1. x - k \in 1..Len(b) /\ (x - k) + k = x
        BY <1>1, <1>2, <3>3
      <4>. QED
        BY <3>3, <4>1
    <3>. QED
      BY <3>2, <3>3
  <2>. HIDE DEF g, gone
  <2>4. Selection(ns, b, g, gone)
    BY <1>1, <2>1, <2>2 DEF n, Selection
  <2>3. /\ Apart(b) /\ SlotsIn(b) \cup SlotsAt(ns, gone) = SlotsIn(ns)
        /\ SlotsIn(b) \cap SlotsAt(ns, gone) = {}
        /\ \A s, f : Has(b, s, f) => Has(ns, s, f)
    BY <2>4, Selected
  <2>. QED
    BY <2>3 DEF gone
<1>4. Apart(a) /\ SlotsIn(a) = SlotsAt(ns, 1..k)
  <2>1. DOMAIN a = 1..k /\ DOMAIN ns = 1..n /\ \A i \in 1..k : i \in 1..n
    BY <1>1, <1>2, InSlotsIn DEF n
  <2>2. Apart(a)
    BY <1>1, <2>1 DEF Apart
  <2>3. SlotsIn(a) = SlotsAt(ns, 1..k)
    BY <1>1, <2>1 DEF SlotsIn, SlotsAt
  <2>. QED
    BY <2>2, <2>3
<1>. QED
  BY <1>1, <1>3, <1>4 DEF a, b

LEMMA DiscardKeeps ==
    ASSUME NEW w, Sound(w), NEW k \in 0..Len(w.q.nodes)
    PROVE  Keeps(w, Discard(w, k)) /\ Discard(w, k).ch = w.ch
<1>. DEFINE ns == w.q.nodes
            d == Dequeue(w, k)
            v == Discard(w, k)
<1>1. w \in WorkType /\ ns \in Seq(GoodNode) /\ w.rel \subseteq Bufs /\ Apart(ns) /\ w.out = <<>>
  BY DEF Sound, WorkType, QueueType
<1>2. /\ d \in WorkType /\ d.q.nodes = After(ns, k) /\ d.rel = w.rel /\ d.out = w.out /\ d.ch = w.ch
  BY <1>1, DequeueIs
<1>3. /\ Leading(ns, k) \in Seq(GoodNode) /\ Apart(After(ns, k))
      /\ SlotsIn(Leading(ns, k)) \cup SlotsIn(After(ns, k)) = SlotsIn(ns)
      /\ SlotsIn(Leading(ns, k)) \cap SlotsIn(After(ns, k)) = {}
      /\ \A s, f : Has(After(ns, k), s, f) => Has(ns, s, f)
  BY <1>1, Cut
<1>4. SlotsIn(Leading(ns, k)) \subseteq Bufs
  BY <1>3, InSlotsIn
<1>5. /\ v \in WorkType /\ v.q.nodes = After(ns, k) /\ v.rel = w.rel \cup SlotsIn(Leading(ns, k))
      /\ v.out = <<>> /\ v.ch = w.ch
  <2>1. v = [d EXCEPT !.rel = @ \cup SlotsIn(Leading(ns, k))]
    BY DEF Discard
  <2>. HIDE DEF d, v, ns
  <2>. QED
    BY <1>1, <1>2, <1>4, <2>1 DEF WorkType
<1>. HIDE DEF d, v, ns
<1>6. SlotsIn(ns) \cap w.rel = {}
  BY DEF Sound, ns
<1>7. Sound(v) /\ Held(v) = SlotsIn(ns) \cup w.rel
  BY <1>3, <1>5, <1>6 DEF Sound, Held
<1>. QED
  BY <1>3, <1>5, <1>7 DEF Keeps, Held, v, ns

LEMMA TrimKeeps ==
    ASSUME NEW w, Sound(w), NEW mark \in Nat
    PROVE  Keeps(w, TrimTo(w, mark))
<1>. DEFINE ns == w.q.nodes
            k == Min({w.q.match_cnt - mark, MatchedPrefix(ns)})
<1>1. ns \in Seq(GoodNode) /\ w.q.match_cnt \in Int /\ Keeps(w, w)
  BY DEF Sound, WorkType, QueueType, Keeps
<1>2. MatchedPrefix(ns) \in 0..Len(ns) /\ Len(ns) \in Nat
  BY <1>1, PrefixIn
<1>3. CASE ~(w.ch.mode = "CONTINUOUS" \/ w.q.match_cnt <= mark)
  <2>. DEFINE T == {w.q.match_cnt - mark, MatchedPrefix(ns)}
  <2>1. T \in SUBSET Nat /\ T # {}
    BY <1>1, <1>2, <1>3
  <2>2. MatchedPrefix(ns) \in T
    OBVIOUS
  <2>. HIDE DEF T
  <2>3. Min(T) \in Nat /\ Min(T) <= MatchedPrefix(ns)
    BY <2>1, <2>2, MinIn
  <2>4. k \in 0..Len(ns)
    BY <1>2, <2>3 DEF T
  <2>. HIDE DEF k
  <2>. QED
    BY <1>3, <2>4, DiscardKeeps DEF TrimTo, k
<1>. QED
  BY <1>1, <1>3 DEF TrimTo

LEMMA FlushMatchedKeeps ==
    ASSUME NEW w, Sound(w)
    PROVE  Keeps(w, FlushMatched(w)) /\ FlushMatched(w).ch = w.ch
<1>1. w.q.nodes \in Seq(GoodNode)
  BY DEF Sound, WorkType, QueueType
<1>. QED
  BY <1>1, PrefixIn, DiscardKeeps DEF FlushMatched

LEMMA FlushKeeps ==
    ASSUME NEW w, Sound(w)
    PROVE  /\ Keeps(w, Flush(w, Streams)) /\ Flush(w, Streams).ch = w.ch
           /\ Flush(w, Streams).q.nodes = <<>>
<1>. DEFINE ns == w.q.nodes
            v == Flush(w, Streams)
            gone == {b \in SlotsIn(ns) : \E t \in Streams : b \in BufsOf[t]}
            D == DOMAIN ns \ Unmatched(ns)
<1>1. /\ w \in WorkType /\ ns \in Seq(GoodNode) /\ w.q.match_cnt \in Int
      /\ w.rel \subseteq Bufs /\ w.out = <<>> /\ SlotsIn(ns) \cap w.rel = {}
  BY DEF Sound, WorkType, QueueType
<1>2. gone = SlotsIn(ns) /\ SlotsIn(ns) \subseteq Bufs
  BY <1>1, InSlotsIn DEF Bufs
<1>3. Cardinality(D) \in Nat
  <2>1. IsFiniteSet(1..Len(ns)) /\ D \subseteq 1..Len(ns)
    BY <1>1, FS_Interval
  <2>. HIDE DEF D
  <2>. QED
    BY <2>1, FS_Subset, FS_CardinalityType
<1>4. <<>> \in Seq(GoodNode) /\ Apart(<<>>) /\ SlotsIn(<<>>) = {} /\ \A s, f : ~Has(<<>>, s, f)
  BY DEF Apart, SlotsIn, Has
<1>5. v = [w EXCEPT !.q.nodes = <<>>, !.q.match_cnt = @ - Cardinality(D), !.rel = @ \cup gone]
  BY DEF Flush
<1>. HIDE DEF v, D, gone
<1>6. /\ v \in WorkType /\ v.q.nodes = <<>> /\ v.rel = w.rel \cup SlotsIn(ns) /\ v.out = <<>>
      /\ v.ch = w.ch
  <2>. HIDE DEF ns
  <2>1. w.q.match_cnt - Cardinality(D) \in Int
    BY <1>1, <1>3
  <2>. QED
    BY <1>1, <1>2, <1>4, <1>5, <2>1 DEF WorkType, QueueType
<1>. QED
  BY <1>1, <1>4, <1>6 DEF Keeps, Sound, Held, v

-----------------------------------------------------------------------------
(* A node comes into a queue and others go.                                 *)
Splice(ns, a, n, b) == Leading(ns, a) \o <<n>> \o After(ns, b)

Splices(S, ns, a, n, b) == ns \in Seq(S) /\ n \in S /\ a \in 0..Len(ns) /\ b \in a..Len(ns)

LEMMA Around ==
    ASSUME NEW S, NEW ns, NEW n, NEW a, NEW b, Splices(S, ns, a, n, b)
    PROVE  /\ Splice(ns, a, n, b) \in Seq(S)
           /\ Len(Splice(ns, a, n, b)) = a + 1 + (Len(ns) - b)
           /\ \A i \in 1..(a + 1 + (Len(ns) - b)) :
                Splice(ns, a, n, b)[i] = IF i <= a THEN ns[i]
                                         ELSE IF i = a + 1 THEN n ELSE ns[i - (a + 1) + b]
<1>. DEFINE p == Leading(ns, a)
            q == p \o <<n>>
            t == After(ns, b)
            r == q \o t
            l == Len(ns)
<1>. USE DEF Splices
<1>1. l \in Nat /\ a \in Nat /\ b \in Nat /\ a <= b /\ b <= l /\ b \in 0..l
  OBVIOUS
<1>2. /\ p \in Seq(S) /\ Len(p) = a /\ \A i \in 1..a : p[i] = ns[i]
      /\ t \in Seq(S) /\ Len(t) = l - b /\ \A i \in 1..(l - b) : t[i] = ns[i + b]
  BY <1>1, Parts
<1>3. <<n>> \in Seq(S) /\ Len(<<n>>) = 1 /\ <<n>>[1] = n
  OBVIOUS
<1>. HIDE DEF p, t, l
<1>4. /\ q \in Seq(S) /\ Len(q) = a + 1
      /\ \A i \in 1..(a + 1) : q[i] = IF i <= a THEN p[i] ELSE <<n>>[i - a]
  BY <1>2, <1>3, ConcatProperties
<1>5. \A i \in 1..(a + 1) : q[i] = IF i <= a THEN ns[i] ELSE n
  BY <1>1, <1>2, <1>3, <1>4
<1>. HIDE DEF q
<1>6. /\ r \in Seq(S) /\ Len(r) = a + 1 + (l - b)
      /\ \A i \in 1..(a + 1 + (l - b)) : r[i] = IF i <= a + 1 THEN q[i] ELSE t[i - (a + 1)]
  <2>1. /\ r \in Seq(S) /\ Len(r) = Len(q) + Len(t)
        /\ \A i \in 1..(Len(q) + Len(t)) : r[i] = IF i <= Len(q) THEN q[i] ELSE t[i - Len(q)]
    BY <1>2, <1>4, ConcatProperties, Zenon
  <2>. QED
    BY <1>2, <1>4, <2>1, Zenon
<1>. HIDE DEF r
<1>7. ASSUME NEW i \in 1..(a + 1 + (l - b))
      PROVE  r[i] = IF i <= a THEN ns[i] ELSE IF i = a + 1 THEN n ELSE ns[i - (a + 1) + b]
  <2>1. CASE i <= a + 1
    BY <1>1, <1>5, <1>6, <2>1
  <2>2. CASE ~(i <= a + 1)
    <3>1. i - (a + 1) \in 1..(l - b)
      BY <1>1, <2>2
    <3>. QED
      BY <1>1, <1>2, <1>6, <2>2, <3>1
  <2>. QED
    BY <2>1, <2>2
<1>. QED
  BY <1>6, <1>7 DEF r, q, p, t, l, Splice

Inserts(ns, at, n) ==
    /\ ns \in Seq(GoodNode) /\ Apart(ns) /\ n \in GoodNode /\ at \in 1..(Len(ns) + 1)
    /\ Slots(n) \cap SlotsIn(ns) = {}

LEMMA Inserted ==
    ASSUME NEW ns, NEW n, NEW at, Inserts(ns, at, n)
    PROVE  LET r == InsertAt(ns, at, n)
           IN /\ r \in Seq(GoodNode) /\ Apart(r) /\ Len(r) = Len(ns) + 1
              /\ SlotsIn(r) = SlotsIn(ns) \cup Slots(n)
              /\ \A s, f : Has(r, s, f) => Has(ns, s, f) \/ Has(<<n>>, s, f)
              /\ \A k \in 1..Len(ns) : r[IF k < at THEN k ELSE k + 1] = ns[k]
<1>. DEFINE r == InsertAt(ns, at, n)
            l == Len(ns)
            m == <<n>>
            e == ns \o m
            g == [i \in 1..(l + 1) |-> IF i < at THEN i ELSE IF i = at THEN l + 1 ELSE i - 1]
<1>. USE DEF Inserts
<1>1. l \in Nat /\ at \in Nat /\ at - 1 \in 0..l /\ at - 1 \in (at - 1)..l /\ (at - 1) + 1 = at /\ at <= l + 1
  OBVIOUS
<1>2. /\ r \in Seq(GoodNode) /\ Len(r) = l + 1
      /\ \A i \in 1..(l + 1) : r[i] = IF i < at THEN ns[i] ELSE IF i = at THEN n ELSE ns[i - 1]
  <2>. DEFINE a == at - 1
              u == Splice(ns, a, n, a)
  <2>1. r = u
    BY <1>1 DEF InsertAt, Leading, After, Splice
  <2>2. /\ u \in Seq(GoodNode) /\ Len(u) = a + 1 + (l - a)
        /\ \A i \in 1..(a + 1 + (l - a)) : u[i] = IF i <= a THEN ns[i]
                                       ELSE IF i = a + 1 THEN n ELSE ns[i - (a + 1) + a]
    <3>1. Splices(GoodNode, ns, a, n, a)
      BY <1>1 DEF Splices
    <3>. HIDE DEF a
    <3>. QED
      BY <3>1, Around
  <2>3. a + 1 + (l - a) = l + 1 /\ a + 1 = at
        /\ \A i \in 1..(l + 1) : (i <= a <=> i < at) /\ i - (a + 1) + a = i - 1
    BY <1>1
  <2>. HIDE DEF r, u, a
  <2>. QED
    BY <2>1, <2>2, <2>3
<1>3. m \in Seq(GoodNode) /\ Len(m) = 1 /\ m[1] = n
  OBVIOUS
<1>4. Apart(m) /\ SlotsIn(m) = Slots(n)
  BY DEF Apart, SlotsIn
<1>. HIDE DEF m, l, r
<1>5. /\ e \in Seq(GoodNode) /\ Apart(e) /\ SlotsIn(e) = SlotsIn(ns) \cup Slots(n)
      /\ \A s, f : Has(e, s, f) => Has(ns, s, f) \/ Has(m, s, f)
  BY <1>3, <1>4, Together
<1>6. Len(e) = l + 1 /\ \A i \in 1..(l + 1) : e[i] = IF i <= l THEN ns[i] ELSE m[i - l]
  BY <1>3, ConcatProperties, ZenonT(40) DEF l
<1>. HIDE DEF e
<1>7. /\ \A i \in 1..l : e[i] = ns[i]
      /\ e[l + 1] = n
  <2>1. \A i \in 1..l : i \in 1..(l + 1) /\ i <= l
    BY <1>1
  <2>2. l + 1 \in 1..(l + 1) /\ ~(l + 1 <= l) /\ (l + 1) - l = 1
    BY <1>1
  <2>3. \A i \in 1..l : e[i] = ns[i]
    BY <1>6, <2>1
  <2>4. e[l + 1] = m[1]
    BY <1>6, <2>2
  <2>. QED
    BY <1>3, <2>3, <2>4, Zenon
<1>8. g \in [1..(l + 1) -> 1..(l + 1)] /\ \A i, j \in 1..(l + 1) : g[i] = g[j] => i = j
  BY <1>1
<1>9. \A i \in 1..(l + 1) : r[i] = e[g[i]]
  <2>1. TAKE i \in 1..(l + 1)
  <2>2. CASE i < at
    <3>1. i \in 1..l /\ g[i] = i /\ r[i] = ns[i]
      BY <1>1, <1>2, <2>2
    <3>. QED
      BY <1>7, <3>1
  <2>3. CASE i = at
    BY <1>1, <1>2, <1>7, <2>3
  <2>4. CASE i > at
    <3>1. i - 1 \in 1..l /\ g[i] = i - 1 /\ r[i] = ns[i - 1]
      BY <1>1, <1>2, <2>4
    <3>. QED
      BY <1>7, <3>1
  <2>. QED
    BY <1>1, <2>2, <2>3, <2>4
<1>10. \A k \in 1..(l + 1) : \E i \in 1..(l + 1) : g[i] = k
  <2>1. TAKE k \in 1..(l + 1)
  <2>2. CASE k = l + 1
    BY <1>1, <2>2
  <2>3. CASE k # l + 1 /\ k < at
    BY <1>1, <2>3
  <2>4. CASE k # l + 1 /\ ~(k < at)
    <3>1. k + 1 \in 1..(l + 1) /\ g[k + 1] = k
      BY <1>1, <2>4
    <3>. QED
      BY <3>1
  <2>. QED
    BY <2>2, <2>3, <2>4
<1>. HIDE DEF g
<1>11. Selection(e, r, g, {})
  BY <1>2, <1>5, <1>6, <1>8, <1>9, <1>10 DEF Selection
<1>12. /\ Apart(r) /\ SlotsIn(r) \cup SlotsAt(e, {}) = SlotsIn(e)
       /\ \A s, f : Has(r, s, f) => Has(e, s, f)
  BY <1>5, <1>11, Selected
<1>13. SlotsAt(e, {}) = {}
  BY DEF SlotsAt
<1>14. \A k \in 1..l : r[IF k < at THEN k ELSE k + 1] = ns[k]
  <2>1. TAKE k \in 1..l
  <2>2. CASE k < at
    BY <1>1, <1>2, <2>2
  <2>3. CASE ~(k < at)
    <3>1. k + 1 \in 1..(l + 1) /\ ~(k + 1 < at) /\ k + 1 # at /\ (k + 1) - 1 = k
      BY <1>1, <2>3
    <3>. QED
      BY <1>2, <2>3, <3>1
  <2>. QED
    BY <2>2, <2>3
<1>. QED
  BY <1>2, <1>5, <1>12, <1>13, <1>14 DEF r, l, m

LEMMA RemovedIs ==
    ASSUME NEW S, NEW ns \in Seq(S), NEW d \in 1..Len(ns)
    PROVE  /\ RemoveAt(ns, d) \in Seq(S) /\ Len(RemoveAt(ns, d)) = Len(ns) - 1
           /\ \A i \in 1..(Len(ns) - 1) : RemoveAt(ns, d)[i] = ns[IF i < d THEN i ELSE i + 1]
<1>. DEFINE r == RemoveAt(ns, d)
            l == Len(ns)
            a == Leading(ns, d - 1)
            b == After(ns, d)
<1>1. l \in Nat /\ d \in Nat /\ d - 1 \in 0..l /\ d \in 0..l /\ d >= 1 /\ l >= 1 /\ d <= l
  OBVIOUS
<1>2. /\ a \in Seq(S) /\ Len(a) = d - 1 /\ \A i \in 1..(d - 1) : a[i] = ns[i]
      /\ b \in Seq(S) /\ Len(b) = l - d /\ \A i \in 1..(l - d) : b[i] = ns[i + d]
  BY <1>1, Parts, ZenonT(40)
<1>3. r = a \o b
  BY DEF RemoveAt, Leading, After
<1>. HIDE DEF a, b, l, r
<1>4. /\ r \in Seq(S) /\ Len(r) = (d - 1) + (l - d)
      /\ \A i \in 1..((d - 1) + (l - d)) : r[i] = IF i <= d - 1 THEN a[i] ELSE b[i - (d - 1)]
  BY <1>2, <1>3, ConcatProperties
<1>5. (d - 1) + (l - d) = l - 1
  BY <1>1
<1>6. ASSUME NEW i \in 1..(l - 1)
      PROVE  r[i] = ns[IF i < d THEN i ELSE i + 1]
  <2>1. CASE i < d
    BY <1>1, <1>2, <1>4, <1>5, <2>1
  <2>2. CASE ~(i < d)
    <3>1. i - (d - 1) \in 1..(l - d) /\ i - (d - 1) + d = i + 1 /\ ~(i <= d - 1)
      BY <1>1, <2>2
    <3>2. r[i] = b[i - (d - 1)]
      BY <1>4, <1>5, <3>1
    <3>. QED
      BY <1>2, <2>2, <3>1, <3>2
  <2>. QED
    BY <2>1, <2>2
<1>. QED
  BY <1>4, <1>5, <1>6 DEF r, l

LEMMA Removed ==
    ASSUME NEW ns \in Seq(GoodNode), Apart(ns), NEW d \in 1..Len(ns)
    PROVE  LET r == RemoveAt(ns, d)
           IN /\ r \in Seq(GoodNode) /\ Apart(r)
              /\ SlotsIn(r) \cup Slots(ns[d]) = SlotsIn(ns)
              /\ SlotsIn(r) \cap Slots(ns[d]) = {}
              /\ \A s, f : Has(r, s, f) => Has(ns, s, f)
<1>. DEFINE r == RemoveAt(ns, d)
            l == Len(ns)
            g == [i \in 1..(l - 1) |-> IF i < d THEN i ELSE i + 1]
            gone == {d}
<1>1. l \in Nat /\ d \in Nat /\ d >= 1 /\ l >= 1 /\ d <= l
  OBVIOUS
<1>4. /\ r \in Seq(GoodNode) /\ Len(r) = l - 1
      /\ \A i \in 1..(l - 1) : r[i] = ns[IF i < d THEN i ELSE i + 1]
  BY RemovedIs
<1>. HIDE DEF l, r
<1>7. /\ g \in [1..(l - 1) -> 1..l] /\ \A i, j \in 1..(l - 1) : g[i] = g[j] => i = j
      /\ \A i \in 1..(l - 1) : r[i] = ns[g[i]]
  BY <1>1, <1>4
<1>8. \A k \in 1..l : k \in gone <=> \A i \in 1..(l - 1) : g[i] # k
  <2>1. TAKE k \in 1..l
  <2>2. CASE k = d
    BY <1>1, <2>2
  <2>3. CASE k < d
    <3>1. k \in 1..(l - 1) /\ g[k] = k
      BY <1>1, <2>3
    <3>. QED
      BY <1>1, <2>3, <3>1
  <2>4. CASE k > d
    <3>1. k - 1 \in 1..(l - 1) /\ g[k - 1] = k
      BY <1>1, <2>4
    <3>. QED
      BY <1>1, <2>4, <3>1
  <2>. QED
    BY <1>1, <2>2, <2>3, <2>4
<1>9. gone \in SUBSET (1..l) /\ SlotsAt(ns, gone) = Slots(ns[d])
  BY <1>1 DEF SlotsAt
<1>. HIDE DEF g, gone
<1>10. Selection(ns, r, g, gone)
  BY <1>4, <1>7, <1>8, <1>9 DEF Selection, l
<1>11. /\ Apart(r) /\ SlotsIn(r) \cup SlotsAt(ns, gone) = SlotsIn(ns)
       /\ SlotsIn(r) \cap SlotsAt(ns, gone) = {}
       /\ \A s, f : Has(r, s, f) => Has(ns, s, f)
  BY <1>10, Selected
<1>. QED
  BY <1>4, <1>9, <1>11 DEF r

-----------------------------------------------------------------------------
(* A metadata frame, and what the queue does with a frame.                  *)
LEMMA MetadataKeeps ==
    ASSUME NEW w, Sound(w), NEW f \in Nat, NEW m \in SaysType
    PROVE  /\ Keeps(w, HandleMetadata(w, f, m))
           /\ m.reset => \A s \in Streams, g \in Nat : ~Has(HandleMetadata(w, f, m).q.nodes, s, g)
<1>. DEFINE fl == Flush(w, Streams)
            rn == Renumbered(w)
            v == IF m.reset THEN rn ELSE w
            later == [v EXCEPT !.q.expected = @ + FutureOffset]
            z0 == [v EXCEPT !.ch.zoom1x = FALSE, !.q.expected = f + 1]
            z1 == FlushMatched(later)
            l0 == [Flush(later, Streams) EXCEPT !.ch.needLED = TRUE]
            l1 == [v EXCEPT !.ch.needLED = FALSE]
            r0 == [v EXCEPT !.q.expected = m.range[1], !.q.noLed = m.range[2]]
            r1 == [v EXCEPT !.q.expected = m.range[1], !.ch.bracketing = "ACTIVE"]
            h == HandleMetadata(w, f, m)
<1>1. w \in WorkType /\ Keeps(w, w) /\ FutureOffset \in Nat
  BY SuperBufAssumption DEF Sound, Keeps
<1>2. Keeps(w, fl) /\ fl.q.nodes = <<>> /\ fl \in WorkType /\ Sound(fl)
  BY FlushKeeps DEF Keeps, Sound
<1>3. Touches(fl, rn)
  BY <1>2 DEF Touches, Renumbered, WorkType, QueueType
<1>4. Keeps(fl, rn) /\ rn.q.nodes = <<>>
  BY <1>2, <1>3, TouchesKeeps DEF Touches
<1>5. Keeps(w, rn)
  BY <1>2, <1>4, KeepsKeeps
<1>6. Keeps(w, v) /\ m.reset => v.q.nodes = <<>>
  BY <1>4
<1>7. Keeps(w, v) /\ Sound(v) /\ v \in WorkType
  BY <1>1, <1>5 DEF Keeps, Sound
<1>8. m.range # <<>> => m.range[1] \in Nat /\ m.range[2] \in Nat
  BY DEF SaysType
<1>9. h \in {v, z0, z1, l0, l1} \/ (m.range # <<>> /\ h \in {r0, r1})
  BY DEF HandleMetadata
<1>. HIDE DEF v, h
<1>10. Touches(v, later) /\ Touches(v, v) /\ Touches(v, z0) /\ Touches(v, l1)
  <2>1. v.q.expected + FutureOffset \in Nat /\ f + 1 \in Nat
    BY <1>1, <1>7 DEF WorkType, QueueType
  <2>2. Touches(v, later)
    BY <1>7, <2>1 DEF Touches, WorkType, QueueType
  <2>3. Touches(v, z0)
    BY <1>7, <2>1 DEF Touches, WorkType, QueueType, ChanType
  <2>4. Touches(v, l1) /\ Touches(v, v)
    BY <1>7 DEF Touches, WorkType, ChanType
  <2>. QED
    BY <2>2, <2>3, <2>4
<1>11. m.range # <<>> => Touches(v, r0) /\ Touches(v, r1)
  BY <1>7, <1>8 DEF Touches, WorkType, QueueType, ChanType
<1>12. Keeps(v, later) /\ Sound(later)
  BY <1>7, <1>10, TouchesKeeps DEF Keeps
<1>. HIDE DEF later
<1>13. Keeps(later, z1)
  BY <1>12, FlushMatchedKeeps
<1>14. Keeps(later, l0)
  <2>. DEFINE u == Flush(later, Streams)
  <2>1. Keeps(later, u) /\ Sound(u) /\ u \in WorkType
    BY <1>12, FlushKeeps DEF Keeps, Sound
  <2>. HIDE DEF u
  <2>2. l0 = [u EXCEPT !.ch.needLED = TRUE]
    BY DEF u
  <2>. HIDE DEF l0
  <2>3. Touches(u, l0)
    BY <2>1, <2>2 DEF Touches, WorkType, ChanType
  <2>. QED
    BY <2>1, <2>3, TouchesKeeps, KeepsKeeps
<1>. HIDE DEF z0, z1, l0, l1, r0, r1
<1>15. Keeps(v, z1) /\ Keeps(v, l0)
  BY <1>12, <1>13, <1>14, KeepsKeeps
<1>16. Keeps(v, h)
  BY <1>7, <1>9, <1>10, <1>11, <1>15, TouchesKeeps
<1>17. Keeps(w, h)
  BY <1>7, <1>16, KeepsKeeps
<1>18. m.reset => \A s \in Streams, g \in Nat : ~Has(h.q.nodes, s, g)
  <2>1. \A s, g : ~Has(<<>>, s, g)
    BY DEF Has
  <2>2. m.reset => v.q.nodes = <<>>
    BY <1>4 DEF v
  <2>. QED
    BY <1>16, <2>1, <2>2 DEF Keeps
<1>. QED
  BY <1>17, <1>18 DEF h

\* From w to v the buffer b of the stream s and the frame f has come.
Takes(w, v, s, f, b) ==
    /\ Sound(v) /\ Held(v) = Held(w) \cup {b}
    /\ \A t \in Streams, g \in Nat : Has(v.q.nodes, t, g) => Has(w.q.nodes, t, g) \/ (t = s /\ g = f)

LEMMA GivenBack ==
    ASSUME NEW w, Sound(w), NEW s \in Streams, NEW f \in Nat, NEW b \in Bufs, b \notin Held(w)
    PROVE  Takes(w, [w EXCEPT !.rel = @ \cup {b}], s, f, b)
<1>. DEFINE v == [w EXCEPT !.rel = @ \cup {b}]
<1>1. w \in WorkType
  BY DEF Sound
<1>2. v \in WorkType /\ v.q = w.q /\ v.rel = w.rel \cup {b} /\ v.out = w.out
  BY <1>1 DEF WorkType
<1>. HIDE DEF v
<1>. QED
  BY <1>2 DEF Takes, Sound, Held, v

LEMMA FilledSlots ==
    ASSUME NEW n \in GoodNode
    PROVE  Filled(n) = Slots(n)
  BY DEF Filled, GoodNode, Node

LEMMA JoinTakes ==
    ASSUME SuperBufAssumption,
           NEW w, Sound(w), NEW i \in Unmatched(w.q.nodes), NEW s \in Streams, NEW slot \in Slot,
           slot.buf \in BufsOf[s], slot.buf \notin Held(w), w.q.nodes[i].slot[s] = Empty
    PROVE  Takes(w, Join(w, i, s, slot), s, w.q.nodes[i].frame, slot.buf)
<1>. DEFINE ns == w.q.nodes
            n == [ns[i] EXCEPT !.slot[s] = slot]
            l == Len(ns)
            b == slot.buf
            ns2 == Put(ns, i, n)
            older == {k \in Unmatched(ns) : k < i /\ ns[k].frame < n.frame}
            first == IF older = {} THEN i ELSE Min(older)
            full  == \A t \in Streams : n.frame # 0 /\ n.slot[t] # Empty
            nm == [n EXCEPT !.matched = TRUE]
            ms == Leading(ns, first - 1) \o <<nm>> \o After(ns, i)
            gone == first..(i - 1)
            lost == UNION {Filled(ns[k]) : k \in gone}
            v == Join(w, i, s, slot)
<1>1. /\ w \in WorkType /\ ns \in Seq(GoodNode) /\ w.rel \in SUBSET Bufs /\ w.out = <<>>
      /\ Apart(ns) /\ SlotsIn(ns) \cap w.rel = {} /\ w.q.match_cnt \in Int /\ w.q.noLed \in Nat
  BY DEF Sound, WorkType, QueueType
<1>2. l \in Nat /\ i \in 1..l /\ ns[i] \in GoodNode /\ DOMAIN ns = 1..l /\ Len(ns) = l
  <2>1. i \in DOMAIN ns /\ ns \in Seq(GoodNode)
    BY <1>1 DEF Unmatched
  <2>. HIDE DEF ns
  <2>. QED
    BY <2>1, NodesOf
<1>. HIDE DEF l
<1>3. b \in Bufs /\ b \notin SlotsIn(ns) /\ b \notin w.rel /\ slot # Empty
  BY SuperBufAssumption DEF Held, Bufs, Slot
<1>4. /\ n \in GoodNode /\ n.frame = ns[i].frame /\ n.slot[s] = slot
      /\ \A t \in Streams : t # s => n.slot[t] = ns[i].slot[t]
  BY <1>2, <1>3, ZenonT(40) DEF GoodNode, Node
<1>. HIDE DEF n, ns
<1>5. /\ ns2 \in Seq(GoodNode) /\ Len(ns2) = l /\ Apart(ns2)
      /\ SlotsIn(ns2) = SlotsIn(ns) \cup {b}
      /\ \A t \in Streams : \A f : Has(ns2, t, f) => Has(ns, t, f) \/ (t = s /\ f = n.frame)
  <2>1. n.slot[s] # Empty /\ n.slot[s].buf \notin SlotsIn(ns) /\ ns[i].slot[s] = Empty
    BY <1>3, <1>4 DEF ns
  <2>2. Fills(ns, i, n, s)
    BY <1>1, <1>2, <1>4, <2>1 DEF Fills
  <2>. QED
    BY <1>2, <1>4, <2>2, Replaced
<1>6. ns2[i] = n /\ \A k \in 1..l : k # i => ns2[k] = ns[k]
  BY <1>1, <1>2 DEF Put
<1>. HIDE DEF ns2
<1>7. CASE ~full
  <2>1. v = [w EXCEPT !.q.nodes = ns2]
    BY <1>7 DEF Join, ns2, ns, n, Put
  <2>2. v \in WorkType /\ v.q.nodes = ns2 /\ v.rel = w.rel /\ v.out = <<>>
    BY <1>1, <1>5, <2>1, ZenonT(40) DEF WorkType, QueueType
  <2>. HIDE DEF v
  <2>. QED
    BY <1>1, <1>3, <1>4, <1>5, <2>2 DEF Takes, Sound, Held, ns, v
<1>8. CASE full
  <2>1. first \in Nat /\ first >= 1 /\ first <= i /\ i \in Nat /\ i <= l
    <3>1. older \in SUBSET Nat /\ \A k \in older : k \in 1..i
      <4>1. \A k \in Unmatched(ns) : k \in 1..l
        BY <1>2 DEF Unmatched
      <4>2. \A k \in older : k \in Unmatched(ns) /\ k < i
        OBVIOUS
      <4>. HIDE DEF older
      <4>3. ASSUME NEW k \in older PROVE k \in 1..i /\ k \in Nat
        <5>1. k \in 1..l /\ k < i /\ i \in 1..l /\ l \in Nat
          BY <1>2, <4>1, <4>2
        <5>. QED
          BY <5>1
      <4>. QED
        BY <4>3
    <3>. HIDE DEF older
    <3>2. older # {} => Min(older) \in older
      BY <3>1, MinIn
    <3>3. CASE older = {}
      BY <1>2, <3>3
    <3>4. CASE older # {}
      <4>1. first = Min(older) /\ Min(older) \in older
        BY <3>2, <3>4
      <4>. HIDE DEF first
      <4>2. first \in 1..i
        BY <3>1, <4>1
      <4>. QED
        BY <1>2, <4>2
    <3>. QED
      BY <3>3, <3>4
  <2>. HIDE DEF first
  <2>2. nm \in GoodNode /\ nm.frame = n.frame /\ nm.slot = n.slot
    BY <1>4 DEF GoodNode, Node
  <2>. HIDE DEF nm
  <2>3. /\ ms \in Seq(GoodNode) /\ Len(ms) = first + (l - i)
        /\ \A j \in 1..(first + (l - i)) : ms[j] = IF j < first THEN ns[j]
                                                   ELSE IF j = first THEN nm ELSE ns[(j - first) + i]
    <3>. DEFINE a == first - 1
    <3>1. a \in 0..Len(ns) /\ i \in a..Len(ns) /\ ms = Splice(ns, a, nm, i)
      <4>1. ms = Splice(ns, a, nm, i)
        BY DEF Splice
      <4>2. a \in 0..Len(ns) /\ i \in a..Len(ns)
        BY <1>2, <2>1
      <4>. QED
        BY <4>1, <4>2
    <3>2. a + 1 + (l - i) = first + (l - i) /\ a + 1 = first
          /\ \A j \in 1..(first + (l - i)) : j <= a <=> j < first
      BY <1>2, <2>1
    <3>. HIDE DEF ms, a
    <3>4. Splices(GoodNode, ns, a, nm, i)
      BY <1>1, <2>2, <3>1 DEF Splices
    <3>3. /\ Splice(ns, a, nm, i) \in Seq(GoodNode) /\ Len(Splice(ns, a, nm, i)) = a + 1 + (Len(ns) - i)
          /\ \A j \in 1..(a + 1 + (Len(ns) - i)) :
               Splice(ns, a, nm, i)[j] = IF j <= a THEN ns[j]
                                         ELSE IF j = a + 1 THEN nm ELSE ns[j - (a + 1) + i]
      BY <3>4, Around
    <3>. QED
      BY <1>2, <3>1, <3>2, <3>3
  <2>. HIDE DEF ms
  <2>. DEFINE g == [j \in 1..(first + (l - i)) |-> IF j < first THEN j ELSE (j - first) + i]
  <2>4. /\ g \in [1..(first + (l - i)) -> 1..l]
        /\ \A j, k \in 1..(first + (l - i)) : g[j] = g[k] => j = k
    <3>1. first \in Nat /\ i \in Nat /\ first <= i /\ i <= l /\ first >= 1
      BY <1>2, <2>1
    <3>2. \A j \in 1..(first + (l - i)) : g[j] \in 1..l /\ (g[j] < first <=> j < first)
      BY <1>2, <3>1
    <3>3. \A j, k \in 1..(first + (l - i)) : g[j] = g[k] => j = k
      BY <1>2, <3>1, <3>2
    <3>. QED
      BY <3>2, <3>3
  <2>5. ASSUME NEW j \in 1..(first + (l - i))
        PROVE  ms[j].frame = ns2[g[j]].frame /\ ms[j].slot = ns2[g[j]].slot
    <3>1. CASE j < first
      <4>1. j \in 1..l /\ j # i /\ g[j] = j
        BY <1>2, <2>1, <3>1
      <4>. QED
        BY <1>6, <2>3, <3>1, <4>1
    <3>2. CASE j = first
      <4>1. g[j] = i /\ ms[j] = nm
        BY <1>2, <2>1, <2>3, <3>2
      <4>. QED
        BY <1>6, <2>2, <4>1
    <3>3. CASE j > first
      <4>1. (j - first) + i \in 1..l /\ (j - first) + i # i /\ g[j] = (j - first) + i
            /\ ~(j < first) /\ j # first
        <5>1. (j - first) + i \in 1..l /\ (j - first) + i # i /\ ~(j < first) /\ j # first
          BY <1>2, <2>1, <3>3
        <5>2. g[j] = IF j < first THEN j ELSE (j - first) + i
          OBVIOUS
        <5>. QED
          BY <5>1, <5>2
      <4>. QED
        BY <1>6, <2>3, <3>3, <4>1
    <3>. QED
      BY <1>2, <2>1, <3>1, <3>2, <3>3
  <2>6. \A k \in 1..l : k \in gone <=> \A j \in 1..(first + (l - i)) : g[j] # k
    <3>1. TAKE k \in 1..l
    <3>2. CASE k < first
      <4>1. k \in 1..(first + (l - i)) /\ g[k] = k
        BY <1>2, <2>1, <3>2
      <4>2. k \notin gone
        BY <1>2, <2>1, <3>2
      <4>. QED
        BY <4>1, <4>2
    <3>3. CASE k \in gone
      BY <1>2, <2>1, <3>3
    <3>4. CASE k >= i
      <4>. DEFINE j == (k - i) + first
      <4>1. j \in 1..(first + (l - i)) /\ ~(j < first) /\ (j - first) + i = k /\ k \notin gone
        BY <1>2, <2>1, <3>4
      <4>. HIDE DEF j, gone
      <4>2. g[j] = k
        BY <4>1
      <4>. QED
        BY <4>1, <4>2
    <3>. QED
      BY <1>2, <2>1, <3>2, <3>3, <3>4
  <2>7. gone \in SUBSET (1..l)
    BY <1>2, <2>1
  <2>. HIDE DEF g
  <2>8. lost = SlotsAt(ns2, gone)
    <3>1. \A k \in gone : ns2[k] = ns[k] /\ ns[k] \in GoodNode
      BY <1>1, <1>2, <1>6, <2>1, SMTT(30)
    <3>2. \A k \in gone : Filled(ns[k]) = Slots(ns2[k])
      BY <3>1, FilledSlots
    <3>. HIDE DEF gone
    <3>. QED
      BY <3>2 DEF SlotsAt
  <2>. HIDE DEF gone, lost
  <2>9. Selection(ns2, ms, g, gone)
    BY <1>5, <2>3, <2>4, <2>5, <2>6, <2>7 DEF Selection
  <2>10. /\ Apart(ms) /\ SlotsIn(ms) \cup lost = SlotsIn(ns2) /\ SlotsIn(ms) \cap lost = {}
         /\ \A t, f : Has(ms, t, f) => Has(ns2, t, f)
    BY <1>5, <2>8, <2>9, Selected
  <2>11. v = [w EXCEPT !.q.nodes = ms, !.q.match_cnt = @ + 1,
                       !.q.expected = IF w.ch.flash THEN w.q.noLed ELSE n.frame + PostSkip,
                       !.ch.flash = FALSE, !.rel = @ \cup lost]
    BY <1>8 DEF Join, ms, ns, n, nm, first, older, lost, gone
  <2>12. n.frame + PostSkip \in Nat /\ lost \subseteq Bufs
    <3>1. n.frame \in Nat /\ PostSkip \in Nat
      BY <1>4, SuperBufAssumption DEF GoodNode, Node
    <3>2. SlotsIn(ns2) \subseteq Bufs
      BY <1>5, InSlotsIn
    <3>. QED
      BY <2>10, <3>1, <3>2
  <2>. HIDE DEF v
  <2>13. v \in WorkType /\ v.q.nodes = ms /\ v.rel = w.rel \cup lost /\ v.out = <<>>
    <3>. DEFINE e == IF w.ch.flash THEN w.q.noLed ELSE n.frame + PostSkip
    <3>3. w.q.match_cnt + 1 \in Int
      BY <1>1, SMTT(30)
    <3>1. e \in Nat /\ w.q.match_cnt + 1 \in Int /\ w.rel \cup lost \subseteq Bufs
      BY <1>1, <2>12, <3>3
    <3>. HIDE DEF e
    <3>2. v = [w EXCEPT !.q.nodes = ms, !.q.match_cnt = @ + 1, !.q.expected = e,
                        !.ch.flash = FALSE, !.rel = @ \cup lost]
      BY <2>11 DEF e
    <3>. QED
      BY <1>1, <2>3, <3>1, <3>2, ZenonT(40) DEF WorkType, QueueType, ChanType
  <2>14. Sound(v)
    BY <1>1, <1>3, <1>5, <2>10, <2>13 DEF Sound
  <2>15. Held(v) = Held(w) \cup {b}
    BY <1>5, <2>10, <2>13 DEF Held, ns
  <2>16. \A t \in Streams, f \in Nat : Has(v.q.nodes, t, f) => Has(ns, t, f) \/ (t = s /\ f = ns[i].frame)
    BY <1>4, <1>5, <2>10, <2>13
  <2>. QED
    BY <2>14, <2>15, <2>16 DEF Takes, v, ns
<1>. QED
  BY <1>7, <1>8

LEMMA PlaceIn ==
    ASSUME NEW ns \in Seq(GoodNode), NEW f \in Nat
    PROVE  Place(ns, f) \in 1..(Len(ns) + 1)
<1>. DEFINE newer == {k \in Unmatched(ns) : ns[k].frame > f}
<1>1. Len(ns) \in Nat /\ newer \in SUBSET (1..Len(ns))
  BY DEF Unmatched
<1>2. Place(ns, f) = IF newer = {} THEN Len(ns) + 1 ELSE Min(newer)
  BY DEF Place
<1>. HIDE DEF newer
<1>3. newer \in SUBSET Nat
  BY <1>1
<1>4. newer # {} => Min(newer) \in newer
  BY <1>3, MinIn
<1>5. CASE newer = {}
  <2>1. Place(ns, f) = Len(ns) + 1
    BY <1>2, <1>5
  <2>. QED
    BY <1>1, <2>1
<1>6. CASE newer # {}
  <2>1. Place(ns, f) \in newer
    BY <1>2, <1>4, <1>6
  <2>2. Place(ns, f) \in 1..Len(ns)
    BY <1>1, <2>1
  <2>. QED
    BY <1>1, <2>2
<1>. QED
  BY <1>5, <1>6

\* A queue takes another sequence of nodes, and something is given up.
LEMMA TakesNodes ==
    ASSUME NEW w, Sound(w), NEW u, Touches(w, u), NEW ms \in Seq(GoodNode), Apart(ms),
           NEW gone \in SUBSET Bufs, NEW s \in Streams, NEW f \in Nat, NEW b \in Bufs, b \notin Held(w),
           SlotsIn(ms) \cup gone = SlotsIn(w.q.nodes) \cup {b}, SlotsIn(ms) \cap gone = {},
           \A t \in Streams, g \in Nat : Has(ms, t, g) => Has(w.q.nodes, t, g) \/ (t = s /\ g = f)
    PROVE  Takes(w, [u EXCEPT !.q.nodes = ms, !.rel = @ \cup gone], s, f, b)
<1>. DEFINE v == [u EXCEPT !.q.nodes = ms, !.rel = @ \cup gone]
<1>1. /\ u \in WorkType /\ u.q.nodes = w.q.nodes /\ u.rel = w.rel /\ u.out = <<>>
      /\ SlotsIn(w.q.nodes) \cap w.rel = {}
  BY DEF Sound, Touches
<1>2. v \in WorkType /\ v.q.nodes = ms /\ v.rel = w.rel \cup gone /\ v.out = <<>>
  BY <1>1 DEF WorkType, QueueType
<1>. HIDE DEF v
<1>. QED
  BY <1>1, <1>2 DEF Takes, Sound, Held, v

LEMMA InsertTakes ==
    ASSUME SuperBufAssumption,
           NEW w, Sound(w), NEW s \in Streams, NEW slot \in Slot,
           slot.buf \in BufsOf[s], slot.buf \notin Held(w), NEW f \in Nat, f > 0
    PROVE  Takes(w, Insert(w, s, slot, f), s, f, slot.buf)
<1>. DEFINE ns == w.q.nodes
            b == slot.buf
            older == {k \in Unmatched(ns) : ns[k].frame < f}
            at == Place(ns, f)
            alone == Streams = {s}
            n == [frame |-> f, matched |-> alone,
                  slot |-> [t \in Streams |-> IF t = s THEN slot ELSE Empty]]
            longer == InsertAt(ns, at, n)
            oldest == Min(older)
            added == IF alone THEN [w EXCEPT !.q.match_cnt = @ + 1, !.q.expected = f + PostSkip] ELSE w
            v == Insert(w, s, slot, f)
<1>1. /\ w \in WorkType /\ ns \in Seq(GoodNode) /\ w.rel \in SUBSET Bufs /\ w.out = <<>>
      /\ Apart(ns) /\ SlotsIn(ns) \cap w.rel = {} /\ w.q.match_cnt \in Int
  BY DEF Sound, WorkType, QueueType
<1>2. b \in Bufs /\ b \notin SlotsIn(ns) /\ b \notin Held(w) /\ slot # Empty
  BY SuperBufAssumption DEF Held, Bufs, Slot
<1>3. Touches(w, added)
  <2>1. w.q.match_cnt + 1 \in Int /\ f + PostSkip \in Nat
    <3>1. PostSkip \in Nat
      BY SuperBufAssumption
    <3>2. w.q.match_cnt \in Int
      BY <1>1
    <3>. QED
      BY <3>1, <3>2
  <2>2. CASE alone
    <3>. DEFINE a == [w EXCEPT !.q.match_cnt = @ + 1, !.q.expected = f + PostSkip]
    <3>1. a \in WorkType
      BY <1>1, <2>1 DEF WorkType, QueueType
    <3>2. a.out = w.out /\ a.rel = w.rel /\ a.q.nodes = w.q.nodes
      BY <1>1 DEF WorkType, QueueType
    <3>3. added = a
      BY <2>2
    <3>. HIDE DEF a, added
    <3>. QED
      BY <3>1, <3>2, <3>3 DEF Touches
  <2>3. CASE ~alone
    BY <1>1, <2>3 DEF Touches
  <2>. QED
    BY <2>2, <2>3
<1>4. /\ n \in GoodNode /\ n.frame = f /\ n.slot[s] = slot
      /\ \A t \in Streams : t # s => n.slot[t] = Empty
  BY <1>2 DEF GoodNode, Node
<1>5. \/ Crowded(ns) /\ older = {} /\ v = [w EXCEPT !.rel = @ \cup {b}]
      \/ older # {} /\ v = [added EXCEPT
            !.q.nodes = RemoveAt(longer, IF oldest < at THEN oldest ELSE oldest + 1),
            !.rel = @ \cup Filled(ns[oldest])]
      \/ v = [added EXCEPT !.q.nodes = longer]
  BY DEF Insert
<1>. HIDE DEF n, ns, v, added, at
<1>6. Slots(n) = {b}
  <2>1. \A x : x \in Slots(n) <=> x = b
    BY <1>2, <1>4, InSlots
  <2>. QED
    BY <2>1
<1>7. \A t \in Streams : \A g : Has(<<n>>, t, g) => t = s /\ g = f
  BY <1>4 DEF Has
<1>8. at \in 1..(Len(ns) + 1)
  BY <1>1, PlaceIn DEF at
<1>9. Slots(n) \cap SlotsIn(ns) = {}
  BY <1>2, <1>6
<1>10. /\ longer \in Seq(GoodNode) /\ Apart(longer) /\ Len(longer) = Len(ns) + 1
       /\ SlotsIn(longer) = SlotsIn(ns) \cup Slots(n)
       /\ \A t, g : Has(longer, t, g) => Has(ns, t, g) \/ Has(<<n>>, t, g)
       /\ \A k \in 1..Len(ns) : longer[IF k < at THEN k ELSE k + 1] = ns[k]
  <2>1. Inserts(ns, at, n)
    BY <1>1, <1>4, <1>8, <1>9 DEF Inserts
  <2>. QED
    BY <2>1, Inserted, SMTT(30)
<1>. HIDE DEF longer
<1>11. CASE v = [w EXCEPT !.rel = @ \cup {b}]
  BY <1>2, <1>11, GivenBack DEF v
<1>12. CASE v = [added EXCEPT !.q.nodes = longer]
  <2>1. added \in WorkType /\ added.q.nodes = ns /\ added.rel = w.rel /\ added.out = <<>>
    BY <1>1, <1>3 DEF Touches, ns
  <2>2. v \in WorkType /\ v.q.nodes = longer /\ v.rel = w.rel /\ v.out = <<>>
    BY <1>10, <1>12, <2>1 DEF WorkType, QueueType
  <2>3. Sound(v) /\ Held(v) = Held(w) \cup {b}
    BY <1>1, <1>2, <1>6, <1>10, <2>2 DEF Sound, Held, ns
  <2>4. \A t \in Streams, g \in Nat : Has(v.q.nodes, t, g) => Has(ns, t, g) \/ (t = s /\ g = f)
    BY <1>7, <1>10, <2>2
  <2>. QED
    BY <2>3, <2>4 DEF Takes, v, ns
<1>13. CASE older # {} /\ v = [added EXCEPT
              !.q.nodes = RemoveAt(longer, IF oldest < at THEN oldest ELSE oldest + 1),
              !.rel = @ \cup Filled(ns[oldest])]
  <2>. DEFINE d == IF oldest < at THEN oldest ELSE oldest + 1
              ms == RemoveAt(longer, d)
              gone == Filled(ns[oldest])
  <2>1. oldest \in 1..Len(ns) /\ Len(ns) \in Nat
    <3>1. older \in SUBSET Nat /\ older \in SUBSET (1..Len(ns))
      BY <1>1, SMTT(30) DEF Unmatched
    <3>. HIDE DEF older
    <3>2. oldest \in older
      BY <1>13, <3>1, MinIn
    <3>3. Len(ns) \in Nat
      BY <1>1, NodesOf
    <3>. HIDE DEF oldest, ns
    <3>. QED
      BY <3>1, <3>2, <3>3
  <2>. HIDE DEF oldest
  <2>2. d \in 1..(Len(ns) + 1) /\ longer[d] = ns[oldest]
    <3>1. longer[d] = ns[oldest]
      BY <1>10, <2>1
    <3>2. oldest \in 1..(Len(ns) + 1) /\ oldest + 1 \in 1..(Len(ns) + 1)
      BY <2>1
    <3>3. d \in 1..(Len(ns) + 1)
      BY <3>2
    <3>. QED
      BY <3>1, <3>3
  <2>. HIDE DEF d
  <2>3. gone = Slots(ns[oldest])
    BY <1>1, <2>1, FilledSlots
  <2>4. /\ ms \in Seq(GoodNode) /\ Apart(ms) /\ SlotsIn(ms) \cup Slots(longer[d]) = SlotsIn(longer)
        /\ SlotsIn(ms) \cap Slots(longer[d]) = {}
        /\ \A t, g : Has(ms, t, g) => Has(longer, t, g)
    BY <1>10, <2>2, Removed
  <2>. HIDE DEF ms, gone
  <2>5. gone \subseteq Bufs
    BY <1>10, <2>2, <2>3, <2>4, InSlotsIn
  <2>6. SlotsIn(ms) \cup gone = SlotsIn(ns) \cup {b} /\ SlotsIn(ms) \cap gone = {}
    BY <1>6, <1>10, <2>2, <2>3, <2>4
  <2>7. \A t \in Streams, g \in Nat : Has(ms, t, g) => Has(ns, t, g) \/ (t = s /\ g = f)
    BY <1>7, <1>10, <2>4
  <2>8. Takes(w, [added EXCEPT !.q.nodes = ms, !.rel = @ \cup gone], s, f, b)
    BY <1>1, <1>2, <1>3, <2>4, <2>5, <2>6, <2>7, TakesNodes DEF ns
  <2>. QED
    BY <1>13, <2>8 DEF v, ms, gone, d
<1>. QED
  BY <1>5, <1>11, <1>12, <1>13 DEF v

-----------------------------------------------------------------------------
(* One command.                                                             *)
GoodFrame == {c \in Frame : c.frame > 0 /\ c.slot.buf \in BufsOf[c.stream]}
Resets(c) == c.cmd = "DATA" /\ c.stream = Meta /\ c.meta.reset

\* A frame: its buffer comes, and a numbering that starts again empties the
\* queue first.  A stream's frames come in the order of their numbers, so that
\* the node of a frame has still room for its buffer.
LEMMA EnqueueTakes ==
    ASSUME SuperBufAssumption, NEW w, Sound(w), NEW c \in GoodFrame, c.slot.buf \notin Held(w),
           Resets(c) \/ \A f \in Nat : Has(w.q.nodes, c.stream, f) => f < c.frame
    PROVE  /\ Takes(w, CompAndEnqueue(w, c), c.stream, c.frame, c.slot.buf)
           /\ Resets(c) => \A t \in Streams, g \in Nat :
                Has(CompAndEnqueue(w, c).q.nodes, t, g) => t = c.stream /\ g = c.frame
<1>. DEFINE b == c.slot.buf
            s == c.stream
            f == c.frame
            u == IF s = Meta THEN HandleMetadata(w, f, c.meta) ELSE w
            ns == u.q.nodes
            same == {i \in Unmatched(ns) : ns[i].frame = f}
            x == CompAndEnqueue(w, c)
<1>1. /\ s \in Streams /\ f \in Nat /\ f > 0 /\ c.slot \in Slot /\ b \in BufsOf[s] /\ b \in Bufs
      /\ c.meta \in SaysType /\ c.cmd = "DATA"
  BY DEF GoodFrame, Frame, Bufs
<1>2. /\ Keeps(w, u)
      /\ Resets(c) => \A t \in Streams, g \in Nat : ~Has(ns, t, g)
  <2>1. Keeps(w, w)
    BY DEF Keeps
  <2>2. CASE s = Meta
    BY <1>1, <2>2, MetadataKeeps DEF Resets
  <2>3. CASE s # Meta
    BY <2>1, <2>3 DEF Resets
  <2>. QED
    BY <2>2, <2>3
<1>. HIDE DEF u
<1>3. Sound(u) /\ Held(u) = Held(w) /\ b \notin Held(u)
  BY <1>2 DEF Keeps
<1>4. \A g \in Nat : Has(ns, s, g) => g < f
  BY <1>1, <1>2 DEF Keeps
<1>5. ns \in Seq(GoodNode)
  BY <1>3 DEF Sound, WorkType, QueueType
<1>6. same # {} => Min(same) \in same
  <2>1. same \in SUBSET Nat
    BY <1>5, SMTT(30) DEF Unmatched
  <2>. HIDE DEF same
  <2>. QED
    BY <2>1, MinIn
<1>7. \/ x = [u EXCEPT !.rel = @ \cup {b}]
      \/ same # {} /\ x = Join(u, Min(same), s, c.slot)
      \/ x = Insert(u, s, c.slot, f)
  BY DEF CompAndEnqueue, u
<1>. HIDE DEF x
<1>8. Takes(u, x, s, f, b)
  <2>1. CASE x = [u EXCEPT !.rel = @ \cup {b}]
    BY <1>1, <1>3, <2>1, GivenBack
  <2>2. CASE same # {} /\ x = Join(u, Min(same), s, c.slot)
    <3>. DEFINE i == Min(same)
    <3>1. i \in Unmatched(ns) /\ ns[i].frame = f /\ i \in DOMAIN ns
      BY <1>6, <2>2 DEF Unmatched
    <3>2. ns[i].slot[s] = Empty
      <4>1. ns[i].slot[s] # Empty => Has(ns, s, f)
        BY <3>1 DEF Has
      <4>. QED
        BY <1>1, <1>4, <4>1
    <3>. HIDE DEF i
    <3>. QED
      BY <1>1, <1>3, <2>2, <3>1, <3>2, JoinTakes DEF i
  <2>3. CASE x = Insert(u, s, c.slot, f)
    BY <1>1, <1>3, <2>3, InsertTakes
  <2>. QED
    BY <1>7, <2>1, <2>2, <2>3
<1>9. Takes(w, x, s, f, b)
  BY <1>1, <1>2, <1>3, <1>8 DEF Takes, Keeps
<1>10. Resets(c) => \A t \in Streams, g \in Nat : Has(x.q.nodes, t, g) => t = s /\ g = f
  BY <1>2, <1>8 DEF Takes
<1>. QED
  BY <1>9, <1>10 DEF x

LEMMA RequestKeeps ==
    ASSUME SuperBufAssumption, NEW w, Sound(w), NEW n \in Nat
    PROVE  Keeps(w, Request(w, n))
<1>. DEFINE u == [w EXCEPT !.ch.pending = n]
            v == TrimTo(u, LookBack)
            on == [v EXCEPT !.ch.started = TRUE, !.ch.needLED = FALSE, !.ch.skip = 0]
            off == [v EXCEPT !.ch.started = FALSE, !.ch.needLED = FALSE, !.ch.bracketing = "OFF"]
            r == Request(w, n)
<1>1. w \in WorkType /\ LookBack \in Nat
  BY SuperBufAssumption DEF Sound
<1>2. r \in {v, on, off}
  BY DEF Request
<1>. HIDE DEF r, v
<1>3. Touches(w, u)
  BY <1>1 DEF Touches, WorkType, ChanType
<1>4. Keeps(w, u) /\ Sound(u)
  BY <1>3, TouchesKeeps DEF Keeps
<1>. HIDE DEF u
<1>5. Keeps(u, v)
  BY <1>1, <1>4, TrimKeeps DEF v
<1>6. Sound(v) /\ v \in WorkType
  BY <1>5 DEF Keeps, Sound
<1>7. Touches(v, on) /\ Touches(v, off) /\ Touches(v, v)
  BY <1>6 DEF Touches, WorkType, ChanType
<1>8. Touches(v, r)
  BY <1>2, <1>7
<1>. QED
  BY <1>4, <1>5, <1>6, <1>8, TouchesKeeps, KeepsKeeps DEF r

LEMMA GeneralKeeps ==
    ASSUME NEW w, Sound(w), NEW type \in {"BRACKETING", "FLASH", "ZOOM_1X"}, NEW start \in BOOLEAN
    PROVE  Keeps(w, General(w, type, start))
<1>. DEFINE u == Flush(w, Streams)
<1>1. w \in WorkType
  BY DEF Sound
<1>2. CASE type = "BRACKETING"
  <2>1. Keeps(w, u) /\ Sound(u) /\ u \in WorkType
    BY FlushKeeps DEF Keeps, Sound
  <2>2. General(w, type, start) = [u EXCEPT !.ch.bracketing = IF start THEN "WAIT" ELSE "OFF"]
    BY <1>2 DEF General
  <2>. HIDE DEF u
  <2>3. Touches(u, General(w, type, start))
    BY <2>1, <2>2 DEF Touches, WorkType, ChanType
  <2>. QED
    BY <2>1, <2>3, TouchesKeeps, KeepsKeeps
<1>3. CASE type = "FLASH"
  <2>1. General(w, type, start) = [w EXCEPT !.ch.flash = start]
    BY <1>3 DEF General
  <2>2. Touches(w, General(w, type, start))
    BY <1>1, <2>1, SMTT(30) DEF Touches, WorkType, ChanType
  <2>. QED
    BY <2>2, TouchesKeeps
<1>4. CASE type = "ZOOM_1X"
  <2>1. General(w, type, start) = [w EXCEPT !.ch.zoom1x = start]
    BY <1>4 DEF General
  <2>2. Touches(w, General(w, type, start))
    BY <1>1, <2>1, SMTT(30) DEF Touches, WorkType, ChanType
  <2>. QED
    BY <2>2, TouchesKeeps
<1>. QED
  BY <1>2, <1>3, <1>4

LEMMA CommandKeeps ==
    ASSUME SuperBufAssumption, WholeFlushes, NEW w, Sound(w), NEW c \in Commands
    PROVE  Keeps(w, Handle(w, c))
<1>1. c \in CommandType /\ w \in WorkType
  BY SuperBufAssumption DEF Sound
<1>2. CASE c.cmd = "REQUEST"
  <2>1. c.n \in Nat /\ Handle(w, c) = Request(w, c.n)
    BY <1>1, <1>2 DEF CommandType, Handle
  <2>. QED
    BY <2>1, RequestKeeps
<1>3. CASE c.cmd \in {"START_ZSL", "STOP_ZSL"}
  <2>. DEFINE h == Handle(w, c)
  <2>4. h = [w EXCEPT !.ch.manual = TRUE] \/ h = [w EXCEPT !.ch.manual = FALSE]
    BY <1>3 DEF Handle
  <2>1. PICK on \in BOOLEAN : h = [w EXCEPT !.ch.manual = on]
    BY <2>4
  <2>3. w \in WorkType
    BY <1>1
  <2>. HIDE DEF h
  <2>2. Touches(w, h)
    BY <2>3, <2>1 DEF Touches, WorkType, ChanType
  <2>. USE DEF h
  <2>. QED
    BY <2>2, TouchesKeeps
<1>4. CASE c.cmd = "NOTIFY"
  <2>. DEFINE h == Handle(w, c)
              m == c.mode
  <2>1. m \in {"BURST", "CONTINUOUS"} /\ h = [w EXCEPT !.ch.mode = m]
    BY <1>1, <1>4 DEF CommandType, Handle
  <2>3. w \in WorkType
    BY <1>1
  <2>. HIDE DEF h, m
  <2>2. Touches(w, h)
    BY <2>3, <2>1 DEF Touches, WorkType, ChanType
  <2>. USE DEF h
  <2>. QED
    BY <2>2, TouchesKeeps
<1>5. CASE c.cmd = "GENERAL"
  <2>1. /\ c.type \in {"BRACKETING", "FLASH", "ZOOM_1X"} /\ c.start \in BOOLEAN
        /\ Handle(w, c) = General(w, c.type, c.start)
    BY <1>1, <1>5 DEF CommandType, Handle
  <2>. QED
    BY <2>1, GeneralKeeps
<1>6. CASE c.cmd = "FLUSH"
  <2>. DEFINE u == [w EXCEPT !.q.expected = c.frame]
  <2>1. c.frame \in Nat /\ c.types = Streams
    BY <1>1, <1>6 DEF CommandType, WholeFlushes
  <2>2. Handle(w, c) = Flush(u, Streams)
    BY <1>6, <2>1 DEF Handle
  <2>3. Touches(w, u)
    BY <1>1, <2>1 DEF Touches, WorkType, QueueType
  <2>4. Keeps(w, u) /\ Sound(u)
    BY <2>3, TouchesKeeps, ZenonT(40) DEF Keeps
  <2>. HIDE DEF u
  <2>. QED
    BY <2>2, <2>4, FlushKeeps, KeepsKeeps
<1>7. c.cmd \in {"REQUEST", "START_ZSL", "STOP_ZSL", "NOTIFY", "GENERAL", "FLUSH"}
  BY <1>1 DEF CommandType
<1>. QED
  BY <1>2, <1>3, <1>4, <1>5, <1>6, <1>7

\* What a command leaves: the nodes of the queue and those sent share no buffer
\* with each other or with those given back.
Settled(w, v) ==
    /\ v \in WorkType /\ Apart(v.q.nodes) /\ Apart(v.out)
    /\ SlotsIn(v.q.nodes) \cap SlotsIn(v.out) = {}
    /\ SlotsIn(v.q.nodes) \cap v.rel = {} /\ SlotsIn(v.out) \cap v.rel = {}
    /\ SlotsIn(v.q.nodes) \cup SlotsIn(v.out) \cup v.rel = Held(w)
    /\ \A s \in Streams, f \in Nat : Has(v.q.nodes, s, f) => Has(w.q.nodes, s, f)

LEMMA SoundSettled ==
    ASSUME NEW w, Sound(w)
    PROVE  Settled(w, w)
<1>1. Apart(<<>>) /\ SlotsIn(<<>>) = {}
  BY DEF Apart, SlotsIn
<1>. QED
  BY <1>1 DEF Settled, Sound, Held

LEMMA DispatchSettles ==
    ASSUME SuperBufAssumption, NEW w, Sound(w)
    PROVE  Settled(w, Dispatch(w))
<1>. DEFINE ns    == w.q.nodes
            ready == MatchedPrefix(ns)
            burst == w.ch.mode = "BURST"
            k     == IF burst THEN Min({w.ch.pending, ready}) ELSE ready
            left  == IF burst THEN w.ch.pending - k ELSE w.ch.pending
            done  == burst /\ k > 0 /\ left = 0 /\ w.ch.started /\ ~w.ch.manual
            d     == Dequeue(w, k)
            sent  == [d EXCEPT !.out = Leading(ns, k), !.ch.pending = left]
            v     == Dispatch(w)
<1>1. /\ w \in WorkType /\ ns \in Seq(GoodNode) /\ w.ch.pending \in Nat /\ w.out = <<>>
      /\ Apart(ns) /\ SlotsIn(ns) \cap w.rel = {}
  BY DEF Sound, WorkType, QueueType, ChanType
<1>2. v = IF ~done THEN sent
          ELSE [sent EXCEPT !.ch.skip = SkipCnt, !.ch.started = FALSE, !.ch.bracketing = "OFF"]
  BY DEF Dispatch
<1>. HIDE DEF v
<1>3. ready \in 0..Len(ns) /\ Len(ns) \in Nat
  BY <1>1, PrefixIn, SMTT(30)
<1>. HIDE DEF ready
<1>4. k \in 0..Len(ns) /\ left \in Nat
  <2>. DEFINE T == {w.ch.pending, ready}
  <2>1. T \in SUBSET Nat /\ T # {} /\ ready \in T /\ w.ch.pending \in T
    BY <1>1, <1>3
  <2>. HIDE DEF T
  <2>2. Min(T) \in Nat /\ Min(T) <= ready /\ Min(T) <= w.ch.pending
    BY <2>1, MinIn
  <2>3. CASE burst
    <3>1. k = Min(T) /\ left = w.ch.pending - k
      BY <2>3 DEF T
    <3>2. ready \in Nat /\ ready <= Len(ns) /\ Len(ns) \in Nat /\ w.ch.pending \in Nat
      BY <1>1, <1>3
    <3>. HIDE DEF k, left, ns
    <3>3. k \in Nat /\ k <= ready /\ k <= w.ch.pending
      BY <2>2, <3>1
    <3>4. k \in 0..Len(ns)
      BY <3>2, <3>3
    <3>5. left \in Nat
      <4>1. left = w.ch.pending - k
        BY <3>1
      <4>2. \A x, y \in Nat : y <= x => x - y \in Nat
        OBVIOUS
      <4>. QED
        BY <3>2, <3>3, <4>1, <4>2
    <3>. QED
      BY <3>4, <3>5
  <2>4. CASE ~burst
    BY <1>1, <1>3, <2>4
  <2>. QED
    BY <2>3, <2>4
<1>. HIDE DEF k, left, done
<1>5. /\ d \in WorkType /\ d.q.nodes = After(ns, k) /\ d.rel = w.rel /\ d.out = w.out /\ d.ch = w.ch
  BY <1>1, <1>4, DequeueIs
<1>6. /\ Leading(ns, k) \in Seq(GoodNode) /\ After(ns, k) \in Seq(GoodNode)
      /\ Apart(Leading(ns, k)) /\ Apart(After(ns, k))
      /\ SlotsIn(Leading(ns, k)) \cup SlotsIn(After(ns, k)) = SlotsIn(ns)
      /\ SlotsIn(Leading(ns, k)) \cap SlotsIn(After(ns, k)) = {}
      /\ \A s, f : Has(After(ns, k), s, f) => Has(ns, s, f)
  BY <1>1, <1>4, Cut
<1>. HIDE DEF d, ns
<1>7. sent \in WorkType /\ sent.q.nodes = After(ns, k) /\ sent.rel = w.rel /\ sent.out = Leading(ns, k)
  BY <1>4, <1>5, <1>6 DEF WorkType, ChanType
<1>. HIDE DEF sent
<1>8. v \in WorkType /\ v.q.nodes = After(ns, k) /\ v.rel = w.rel /\ v.out = Leading(ns, k)
  <2>1. SkipCnt \in Nat
    BY SuperBufAssumption
  <2>. QED
    BY <1>2, <1>7, <2>1 DEF WorkType, ChanType
<1>. QED
  BY <1>1, <1>6, <1>8 DEF Settled, Held, ns, v

\* What a command works on, and the two ways in which it ends.
Start == [q |-> queue, ch |-> chan, rel |-> {}, out |-> <<>>]

LEMMA OutcomeSettles ==
    ASSUME SuperBufAssumption, WholeFlushes,
           queue \in QueueType, chan \in ChanType, Apart(queue.nodes),
           NEW c \in GoodFrame \cup Commands,
           c.cmd = "DATA" => c.slot.buf \notin SlotsIn(queue.nodes),
           c.cmd = "DATA" /\ ~Resets(c) => \A f \in Nat : Has(queue.nodes, c.stream, f) => f < c.frame
    PROVE  LET v == Outcome(c) IN
           /\ v \in WorkType /\ Apart(v.q.nodes) /\ Apart(v.out)
           /\ SlotsIn(v.q.nodes) \cap SlotsIn(v.out) = {}
           /\ SlotsIn(v.q.nodes) \cap v.rel = {} /\ SlotsIn(v.out) \cap v.rel = {}
           /\ SlotsIn(v.q.nodes) \cup SlotsIn(v.out) \cup v.rel =
                IF c.cmd = "DATA" THEN SlotsIn(queue.nodes) \cup {c.slot.buf} ELSE SlotsIn(queue.nodes)
           /\ \A s \in Streams, f \in Nat : Has(v.q.nodes, s, f) =>
                \/ Has(queue.nodes, s, f) /\ ~Resets(c)
                \/ c.cmd = "DATA" /\ s = c.stream /\ f = c.frame
<1>. DEFINE h == Handle(Start, c)
            v == Outcome(c)
<1>1. /\ Sound(Start) /\ Start.q = queue /\ Start.rel = {} /\ Held(Start) = SlotsIn(queue.nodes)
  BY DEF Start, Sound, Held, WorkType, QueueType
<1>2. c.cmd = "DATA" <=> c \in GoodFrame
  BY SuperBufAssumption DEF GoodFrame, Frame, CommandType
<1>3. /\ Sound(h)
      /\ Held(h) = IF c.cmd = "DATA" THEN SlotsIn(queue.nodes) \cup {c.slot.buf} ELSE SlotsIn(queue.nodes)
      /\ \A s \in Streams, f \in Nat : Has(h.q.nodes, s, f) =>
                \/ Has(queue.nodes, s, f) /\ ~Resets(c)
                \/ c.cmd = "DATA" /\ s = c.stream /\ f = c.frame
  <2>1. CASE c.cmd = "DATA"
    <3>1. h = CompAndEnqueue(Start, c)
      BY <2>1 DEF Handle
    <3>2. /\ Takes(Start, h, c.stream, c.frame, c.slot.buf)
          /\ Resets(c) => \A t \in Streams, g \in Nat : Has(h.q.nodes, t, g) => t = c.stream /\ g = c.frame
      BY <1>1, <1>2, <2>1, <3>1, EnqueueTakes
    <3>. HIDE DEF h
    <3>. QED
      BY <1>1, <2>1, <3>2 DEF Takes
  <2>2. CASE c.cmd # "DATA"
    <3>1. Keeps(Start, h) /\ ~Resets(c)
      BY <1>1, <1>2, <2>2, CommandKeeps DEF Resets
    <3>. HIDE DEF h
    <3>. QED
      BY <1>1, <2>2, <3>1 DEF Keeps
  <2>. QED
    BY <2>1, <2>2
<1>. HIDE DEF h
<1>4. v = IF c.cmd = "FLUSH" THEN h ELSE Dispatch(TrimTo(h, WaterMark))
  BY DEF Outcome, h, Start
<1>5. Settled(h, v)
  <2>1. CASE c.cmd = "FLUSH"
    BY <1>3, <1>4, <2>1, SoundSettled
  <2>2. CASE c.cmd # "FLUSH"
    <3>. DEFINE t == TrimTo(h, WaterMark)
    <3>1. Keeps(h, t) /\ Sound(t)
      BY <1>3, TrimKeeps, SuperBufAssumption DEF Keeps
    <3>. HIDE DEF t
    <3>2. Settled(t, Dispatch(t))
      BY <3>1, DispatchSettles
    <3>. QED
      BY <1>4, <2>2, <3>1, <3>2 DEF Settled, Keeps, t
  <2>. QED
    BY <2>1, <2>2
<1>. HIDE DEF v
<1>. QED
  BY <1>3, <1>5 DEF Settled, v

-----------------------------------------------------------------------------
(* Who has a buffer.                                                        *)
Ref(x) == IF x THEN 1 ELSE 0

\* The frames among the commands of the channel's thread, and the buffers they
\* carry, the streams' threads have still to call the HAL with, and are calling
\* it with.
DataAt(q)  == {i \in DOMAIN q : q[i].cmd = "DATA"}
InCmds(q)  == {q[i].slot.buf : i \in DataAt(q)}
InApps(a)  == {b \in Bufs : \E s \in Streams : b \in ToSet(a[s])}
InCalls(c) == {b \in Bufs : \E s \in Streams : c[s] = b}

CmdSeq == Seq(GoodFrame \cup Commands)

BufType ==
    /\ kernel \subseteq Bufs /\ refcnt \in [Bufs -> Nat] /\ held \in [Bufs -> Nat]
    /\ next \in [Streams -> Nat \ {0}] /\ epoch \in 0..MaxEpoch /\ fresh \in BOOLEAN
    /\ polled \in [Streams -> Bufs \cup {Nothing}]
    /\ \A s \in Streams : polled[s] \in BufsOf[s] \cup {Nothing}
    /\ appq \in [Streams -> Seq(Bufs)] /\ \A s \in Streams : appq[s] \in Seq(BufsOf[s])
    /\ calling \in [Streams -> Bufs \cup {Nothing}]
    /\ \A s \in Streams : calling[s] \in BufsOf[s] \cup {Nothing}
    /\ cmdq \in CmdSeq /\ queue \in QueueType /\ chan \in ChanType /\ cbq \in Seq(GoodNode)

\* A buffer's count says in how many places it is ...
Counted ==
    /\ \A b \in Bufs :
         refcnt[b] = Ref(b \in InCmds(cmdq)) + Ref(b \in SlotsIn(queue.nodes)) + Ref(b \in SlotsIn(cbq))
                     + held[b] + Ref(b \in InCalls(polled)) + Ref(b \in InCalls(calling)) + Ref(b \in InApps(appq))
    /\ \A b \in Bufs : b \in kernel <=> refcnt[b] = 0

\* ... and it is once at most with the channel, and once at most with its stream.
OnceIn(q) == \A i, j \in DataAt(q) : q[i].slot.buf = q[j].slot.buf => i = j

OnceInChannel ==
    /\ OnceIn(cmdq) /\ Apart(queue.nodes) /\ Apart(cbq)
    /\ InCmds(cmdq) \cap SlotsIn(queue.nodes) = {} /\ InCmds(cmdq) \cap SlotsIn(cbq) = {}
    /\ SlotsIn(queue.nodes) \cap SlotsIn(cbq) = {}

OnceInStream ==
    /\ \A s \in Streams : IsInjective(appq[s])
    /\ InCalls(polled) \cap InCalls(calling) = {} /\ InCalls(polled) \cap InApps(appq) = {}
    /\ InCalls(calling) \cap InApps(appq) = {}

\* The frames of a stream come in the order of their numbers, to each other and
\* to those in the queue, as long as no numbering starts again in between.
Restarts(q, i, j) == \E k \in i..j : Resets(q[k])
Rising(q) ==
    \A i, j \in DataAt(q) : i < j /\ q[i].stream = q[j].stream =>
      q[i].frame < q[j].frame \/ Restarts(q, i + 1, j)
Passed(q, nx, fr) ==
    \A i \in DataAt(q) : fr \/ q[i].frame < nx[q[i].stream] \/ Restarts(q, i + 1, Len(q))
Behind(q, nx, fr, s, f) ==
    /\ \A j \in DataAt(q) : q[j].stream = s => f < q[j].frame \/ Restarts(q, 1, j)
    /\ fr \/ f < nx[s] \/ Restarts(q, 1, Len(q))

InOrder ==
    /\ Rising(cmdq) /\ Passed(cmdq, next, fresh)
    /\ \A s \in Streams, f \in Nat : Has(queue.nodes, s, f) => Behind(cmdq, next, fresh, s, f)

BufInv == BufType /\ Counted /\ OnceInChannel /\ OnceInStream /\ InOrder

-----------------------------------------------------------------------------
(* The commands of the channel's thread.                                    *)
LEMMA TailCmds ==
    ASSUME NEW S, NEW q \in Seq(S), q # <<>>
    PROVE  /\ Tail(q) \in Seq(S) /\ Head(q) \in S
           /\ Len(q) \in Nat /\ Len(q) >= 1 /\ Len(Tail(q)) = Len(q) - 1
           /\ Head(q) = q[1] /\ DOMAIN q = 1..Len(q) /\ DOMAIN Tail(q) = 1..(Len(q) - 1)
           /\ \A i \in 1..(Len(q) - 1) : Tail(q)[i] = q[i + 1]
           /\ \A i \in DataAt(Tail(q)) : i \in 1..(Len(q) - 1) /\ i + 1 \in DataAt(q)
           /\ \A i \in DataAt(q) : i # 1 => i - 1 \in DataAt(Tail(q))
           /\ 1 \in DataAt(q) <=> Head(q).cmd = "DATA"
<1>. DEFINE t == Tail(q)
            n == Len(q)
<1>1. /\ t \in Seq(S) /\ Head(q) \in S /\ n \in Nat /\ n >= 1 /\ Len(t) = n - 1
      /\ Head(q) = q[1] /\ DOMAIN q = 1..n
      /\ \A i \in 1..(n - 1) : t[i] = q[i + 1]
  BY HeadTailProperties
<1>2. DOMAIN t = 1..(n - 1)
  BY <1>1
<1>. HIDE DEF t, n
<1>3. \A i \in DataAt(t) : i \in 1..(n - 1) /\ i + 1 \in DataAt(q)
  BY <1>1, <1>2 DEF DataAt
<1>4. ASSUME NEW i \in DataAt(q), i # 1
      PROVE  i - 1 \in DataAt(t)
  <2>1. i \in 1..n /\ q[i].cmd = "DATA" /\ i - 1 \in 1..(n - 1) /\ (i - 1) + 1 = i
    BY <1>1, <1>4 DEF DataAt
  <2>. QED
    BY <1>1, <1>2, <2>1 DEF DataAt
<1>5. 1 \in DataAt(q) <=> Head(q).cmd = "DATA"
  BY <1>1 DEF DataAt
<1>. QED
  BY <1>1, <1>2, <1>3, <1>4, <1>5 DEF t, n

LEMMA TailOnce ==
    ASSUME NEW q \in CmdSeq, q # <<>>, OnceIn(q)
    PROVE  /\ OnceIn(Tail(q))
           /\ InCmds(q) = InCmds(Tail(q)) \cup (IF Head(q).cmd = "DATA" THEN {Head(q).slot.buf} ELSE {})
           /\ Head(q).cmd = "DATA" => Head(q).slot.buf \notin InCmds(Tail(q))
<1>. DEFINE t == Tail(q)
            n == Len(q)
<1>1. /\ n \in Nat /\ Head(q) = q[1]
      /\ \A i \in 1..(n - 1) : t[i] = q[i + 1]
      /\ \A i \in DataAt(t) : i \in 1..(n - 1) /\ i + 1 \in DataAt(q)
      /\ \A i \in DataAt(q) : i # 1 => i - 1 \in DataAt(t)
      /\ 1 \in DataAt(q) <=> Head(q).cmd = "DATA"
      /\ DOMAIN q = 1..n
  BY TailCmds DEF CmdSeq
<1>. HIDE DEF t, n
<1>2. \A i \in DataAt(t) : t[i] = q[i + 1] /\ i + 1 \in DataAt(q) /\ i + 1 # 1 /\ i \in Nat
  BY <1>1
<1>3. \A i \in DataAt(q) : i # 1 => i - 1 \in DataAt(t) /\ t[i - 1] = q[i]
  <2>1. TAKE i \in DataAt(q)
  <2>2. i \in 1..n
    BY <1>1 DEF DataAt
  <2>. QED
    BY <1>1, <1>2, <2>2
<1>4. OnceIn(t)
  <2>1. SUFFICES ASSUME NEW i \in DataAt(t), NEW j \in DataAt(t), t[i].slot.buf = t[j].slot.buf
                 PROVE  i = j
    BY DEF OnceIn
  <2>2. i + 1 = j + 1
    BY <1>2, <2>1 DEF OnceIn
  <2>. QED
    BY <1>2, <2>2
<1>5. InCmds(t) \subseteq InCmds(q)
  BY <1>2 DEF InCmds
<1>6. \A x \in InCmds(q) : x \in InCmds(t) \/ (Head(q).cmd = "DATA" /\ x = Head(q).slot.buf)
  <2>1. TAKE x \in InCmds(q)
  <2>2. PICK i \in DataAt(q) : x = q[i].slot.buf
    BY DEF InCmds
  <2>. QED
    BY <1>1, <1>3, <2>2 DEF InCmds
<1>7. Head(q).cmd = "DATA" => Head(q).slot.buf \in InCmds(q) /\ Head(q).slot.buf \notin InCmds(t)
  <2>1. SUFFICES ASSUME Head(q).cmd = "DATA"
                 PROVE  Head(q).slot.buf \in InCmds(q) /\ Head(q).slot.buf \notin InCmds(t)
    OBVIOUS
  <2>2. \A i \in DataAt(t) : t[i].slot.buf # q[1].slot.buf
    BY <1>1, <1>2, <2>1 DEF OnceIn
  <2>. QED
    BY <1>1, <2>1, <2>2 DEF InCmds
<1>. QED
  BY <1>4, <1>5, <1>6, <1>7 DEF t

LEMMA TailOrder ==
    ASSUME NEW q \in CmdSeq, q # <<>>, NEW nx, NEW fr, Rising(q), Passed(q, nx, fr)
    PROVE  /\ Rising(Tail(q)) /\ Passed(Tail(q), nx, fr)
           /\ Head(q).cmd = "DATA" => Behind(Tail(q), nx, fr, Head(q).stream, Head(q).frame)
           /\ \A s, f : Behind(q, nx, fr, s, f) =>
                /\ ~Resets(Head(q)) => Behind(Tail(q), nx, fr, s, f)
                /\ Head(q).cmd = "DATA" /\ Head(q).stream = s /\ ~Resets(Head(q)) => f < Head(q).frame
<1>. DEFINE t == Tail(q)
            n == Len(q)
<1>1. /\ n \in Nat /\ n >= 1 /\ Len(t) = n - 1 /\ Head(q) = q[1] /\ DOMAIN q = 1..n
      /\ \A i \in 1..(n - 1) : t[i] = q[i + 1]
      /\ \A i \in DataAt(t) : i \in 1..(n - 1) /\ i + 1 \in DataAt(q)
      /\ 1 \in DataAt(q) <=> Head(q).cmd = "DATA"
  BY TailCmds DEF CmdSeq
<1>. HIDE DEF t, n
<1>2. \A i \in DataAt(t) : t[i] = q[i + 1] /\ i + 1 \in DataAt(q) /\ i \in Nat /\ i >= 1 /\ i <= n - 1
  BY <1>1
\* A frame that starts a numbering again, seen from behind it.
<1>3. ASSUME NEW a \in Nat, NEW b \in Nat, b <= n - 1, Restarts(q, a + 1, b + 1), a >= 1
      PROVE  Restarts(t, a, b)
  <2>1. PICK k \in (a + 1)..(b + 1) : Resets(q[k])
    BY <1>3 DEF Restarts
  <2>2. k - 1 \in a..b /\ k - 1 \in 1..(n - 1) /\ (k - 1) + 1 = k
    BY <1>1, <1>3, <2>1
  <2>3. t[k - 1] = q[k]
    BY <1>1, <2>2
  <2>. QED
    BY <2>1, <2>2, <2>3 DEF Restarts
<1>4. Rising(t)
  <2>1. SUFFICES ASSUME NEW i \in DataAt(t), NEW j \in DataAt(t), i < j, t[i].stream = t[j].stream,
                        ~(t[i].frame < t[j].frame)
                 PROVE  Restarts(t, i + 1, j)
    BY DEF Rising
  <2>2. Restarts(q, (i + 1) + 1, j + 1)
    BY <1>2, <2>1 DEF Rising
  <2>. QED
    BY <1>2, <1>3, <2>1, <2>2
<1>5. Passed(t, nx, fr)
  <2>1. SUFFICES ASSUME NEW i \in DataAt(t), ~fr, ~(t[i].frame < nx[t[i].stream])
                 PROVE  Restarts(t, i + 1, Len(t))
    BY DEF Passed
  <2>2. Restarts(q, (i + 1) + 1, n)
    BY <1>2, <2>1 DEF Passed, n
  <2>3. n = (n - 1) + 1
    BY <1>1
  <2>. QED
    BY <1>1, <1>2, <1>3, <2>2, <2>3
<1>6. Head(q).cmd = "DATA" => Behind(t, nx, fr, Head(q).stream, Head(q).frame)
  <2>1. SUFFICES ASSUME 1 \in DataAt(q)
                 PROVE  Behind(t, nx, fr, q[1].stream, q[1].frame)
    BY <1>1
  <2>2. ASSUME NEW j \in DataAt(t), t[j].stream = q[1].stream, ~(q[1].frame < t[j].frame)
        PROVE  Restarts(t, 1, j)
    <3>1. Restarts(q, 1 + 1, j + 1)
      BY <1>2, <2>1, <2>2 DEF Rising
    <3>. QED
      BY <1>2, <1>3, <2>2, <3>1
  <2>3. ASSUME ~fr, ~(q[1].frame < nx[q[1].stream])
        PROVE  Restarts(t, 1, Len(t))
    <3>1. Restarts(q, 1 + 1, n)
      BY <2>1, <2>3 DEF Passed, n
    <3>2. n = (n - 1) + 1
      BY <1>1
    <3>. QED
      BY <1>1, <1>3, <3>1, <3>2
  <2>. QED
    BY <2>2, <2>3 DEF Behind
<1>7. ASSUME NEW s, NEW f, Behind(q, nx, fr, s, f), ~Resets(Head(q))
      PROVE  /\ Behind(t, nx, fr, s, f)
             /\ Head(q).cmd = "DATA" /\ Head(q).stream = s => f < Head(q).frame
  <2>1. ASSUME NEW b \in Nat, b <= n - 1, Restarts(q, 1, b + 1)
        PROVE  Restarts(t, 1, b)
    <3>1. Restarts(q, 1 + 1, b + 1)
      BY <1>1, <1>7, <2>1 DEF Restarts
    <3>. QED
      BY <1>3, <2>1, <3>1
  <2>2. ASSUME NEW j \in DataAt(t), t[j].stream = s, ~(f < t[j].frame)
        PROVE  Restarts(t, 1, j)
    <3>1. Restarts(q, 1, j + 1)
      BY <1>2, <1>7, <2>2 DEF Behind
    <3>. QED
      BY <1>2, <2>1, <2>2, <3>1
  <2>3. ASSUME ~fr, ~(f < nx[s])
        PROVE  Restarts(t, 1, Len(t))
    <3>1. Restarts(q, 1, n)
      BY <1>7, <2>3 DEF Behind, n
    <3>2. n = (n - 1) + 1
      BY <1>1
    <3>. QED
      BY <1>1, <2>1, <3>1, <3>2
  <2>4. Head(q).cmd = "DATA" /\ Head(q).stream = s => f < Head(q).frame
    <3>1. SUFFICES ASSUME 1 \in DataAt(q), q[1].stream = s
                   PROVE  f < q[1].frame
      BY <1>1
    <3>2. \A k \in 1..1 : k = 1
      OBVIOUS
    <3>. QED
      BY <1>1, <1>7, <3>1, <3>2 DEF Behind, Restarts
  <2>. QED
    BY <2>2, <2>3, <2>4 DEF Behind
<1>. QED
  BY <1>4, <1>5, <1>6, <1>7 DEF t

\* A command comes after those there are.
LEMMA AppendCmds ==
    ASSUME NEW S, NEW q \in Seq(S), NEW c \in S
    PROVE  /\ Append(q, c) \in Seq(S)
           /\ \A i \in DataAt(q) : /\ i \in DataAt(Append(q, c)) /\ i \in 1..Len(q) /\ Len(q) \in Nat
                                   /\ Append(q, c)[i] = q[i]
           /\ \A i \in DataAt(Append(q, c)) : i \in DataAt(q) \/ (i = Len(q) + 1 /\ c.cmd = "DATA")
           /\ Append(q, c)[Len(q) + 1] = c /\ Len(Append(q, c)) = Len(q) + 1 /\ Len(q) \in Nat
           /\ \A i, j \in Nat : i >= 1 /\ j <= Len(q) /\ Restarts(q, i, j) => Restarts(Append(q, c), i, j)
           /\ c.cmd = "DATA" => Len(q) + 1 \in DataAt(Append(q, c))
<1>. DEFINE a == Append(q, c)
            n == Len(q)
<1>1. /\ a \in Seq(S) /\ n \in Nat /\ Len(a) = n + 1 /\ a[n + 1] = c
      /\ \A i \in 1..n : a[i] = q[i]
      /\ DOMAIN q = 1..n /\ DOMAIN a = 1..(n + 1)
  OBVIOUS
<1>. HIDE DEF a, n
<1>2. \A i \in DataAt(q) : i \in DataAt(a) /\ i \in 1..n /\ a[i] = q[i]
  BY <1>1 DEF DataAt
<1>3. \A i \in DataAt(a) : i \in DataAt(q) \/ (i = n + 1 /\ c.cmd = "DATA")
  <2>1. TAKE i \in DataAt(a)
  <2>2. i \in 1..(n + 1) /\ a[i].cmd = "DATA"
    BY <1>1 DEF DataAt
  <2>3. CASE i \in 1..n
    BY <1>1, <2>2, <2>3 DEF DataAt
  <2>4. CASE i = n + 1
    BY <1>1, <2>2, <2>4
  <2>. QED
    BY <1>1, <2>2, <2>3, <2>4
<1>4. \A i, j \in Nat : i >= 1 /\ j <= n /\ Restarts(q, i, j) => Restarts(a, i, j)
  <2>1. SUFFICES ASSUME NEW i \in Nat, NEW j \in Nat, i >= 1, j <= n, NEW k \in i..j, Resets(q[k])
                 PROVE  Restarts(a, i, j)
    BY DEF Restarts
  <2>2. k \in 1..n
    BY <1>1, <2>1
  <2>. QED
    BY <1>1, <2>1, <2>2 DEF Restarts
<1>5. c.cmd = "DATA" => n + 1 \in DataAt(a)
  BY <1>1 DEF DataAt
<1>. QED
  BY <1>1, <1>2, <1>3, <1>4, <1>5 DEF a, n

LEMMA RestartsWider ==
    ASSUME NEW q, NEW i \in Nat, NEW j \in Nat, NEW k \in Nat, NEW l \in Nat, k <= i, j <= l, Restarts(q, i, j)
    PROVE  Restarts(q, k, l)
<1>1. PICK x \in i..j : Resets(q[x])
  BY DEF Restarts
<1>2. x \in k..l
  OBVIOUS
<1>. QED
  BY <1>1, <1>2 DEF Restarts

LEMMA AppendOnce ==
    ASSUME NEW q \in CmdSeq, NEW c \in GoodFrame \cup Commands, OnceIn(q),
           c.cmd = "DATA" => c.slot.buf \notin InCmds(q)
    PROVE  /\ OnceIn(Append(q, c))
           /\ InCmds(Append(q, c)) = InCmds(q) \cup (IF c.cmd = "DATA" THEN {c.slot.buf} ELSE {})
<1>. DEFINE a == Append(q, c)
            n == Len(q)
<1>1. /\ \A i \in DataAt(q) : i \in DataAt(a) /\ i \in 1..n /\ a[i] = q[i]
      /\ \A i \in DataAt(a) : i \in DataAt(q) \/ (i = n + 1 /\ c.cmd = "DATA")
      /\ a[n + 1] = c /\ n \in Nat
      /\ c.cmd = "DATA" => n + 1 \in DataAt(a)
  BY AppendCmds DEF CmdSeq
<1>. HIDE DEF a, n
<1>2. \A i \in DataAt(q) : q[i].slot.buf \in InCmds(q)
  BY DEF InCmds
<1>3. OnceIn(a)
  <2>1. SUFFICES ASSUME NEW i \in DataAt(a), NEW j \in DataAt(a), a[i].slot.buf = a[j].slot.buf
                 PROVE  i = j
    BY DEF OnceIn
  <2>2. CASE i \in DataAt(q) /\ j \in DataAt(q)
    BY <1>1, <2>1, <2>2 DEF OnceIn
  <2>3. CASE i \notin DataAt(q) /\ j \notin DataAt(q)
    BY <1>1, <2>3
  <2>4. CASE i \in DataAt(q) /\ j \notin DataAt(q)
    BY <1>1, <1>2, <2>1, <2>4
  <2>5. CASE i \notin DataAt(q) /\ j \in DataAt(q)
    BY <1>1, <1>2, <2>1, <2>5
  <2>. QED
    BY <2>2, <2>3, <2>4, <2>5
<1>4. InCmds(a) = InCmds(q) \cup (IF c.cmd = "DATA" THEN {c.slot.buf} ELSE {})
  <2>1. InCmds(q) \subseteq InCmds(a)
    BY <1>1 DEF InCmds
  <2>2. c.cmd = "DATA" => c.slot.buf \in InCmds(a)
    BY <1>1 DEF InCmds
  <2>3. \A x \in InCmds(a) : x \in InCmds(q) \/ (c.cmd = "DATA" /\ x = c.slot.buf)
    <3>1. TAKE x \in InCmds(a)
    <3>2. PICK i \in DataAt(a) : x = a[i].slot.buf
      BY DEF InCmds
    <3>. QED
      BY <1>1, <1>2, <3>2
  <2>. QED
    BY <2>1, <2>2, <2>3
<1>. QED
  BY <1>3, <1>4 DEF a

\* A command that is no frame changes no order.
LEMMA AppendOrder ==
    ASSUME NEW q \in CmdSeq, NEW c \in GoodFrame \cup Commands, c.cmd # "DATA", NEW nx, NEW fr,
           Rising(q), Passed(q, nx, fr)
    PROVE  /\ Rising(Append(q, c)) /\ Passed(Append(q, c), nx, fr)
           /\ \A s, f : Behind(q, nx, fr, s, f) => Behind(Append(q, c), nx, fr, s, f)
<1>. DEFINE a == Append(q, c)
            n == Len(q)
<1>1. /\ \A i \in DataAt(q) : i \in DataAt(a) /\ i \in 1..n /\ a[i] = q[i]
      /\ \A i \in DataAt(a) : i \in DataAt(q)
      /\ Len(a) = n + 1 /\ n \in Nat
      /\ \A i, j \in Nat : i >= 1 /\ j <= n /\ Restarts(q, i, j) => Restarts(a, i, j)
  BY AppendCmds DEF CmdSeq
<1>. HIDE DEF a, n
<1>2. \A i \in DataAt(a) : i \in Nat /\ i + 1 \in Nat /\ i >= 1 /\ i + 1 >= 1 /\ i <= n
  BY <1>1
<1>3. \A i \in Nat : i >= 1 /\ Restarts(q, i, n) => Restarts(a, i, n + 1)
  BY <1>1, RestartsWider
<1>4. Rising(a)
  BY <1>1, <1>2 DEF Rising
<1>5. Passed(a, nx, fr)
  BY <1>1, <1>2, <1>3 DEF Passed, n
<1>6. \A s, f : Behind(q, nx, fr, s, f) => Behind(a, nx, fr, s, f)
  BY <1>1, <1>2, <1>3 DEF Behind, n
<1>. QED
  BY <1>4, <1>5, <1>6 DEF a

\* A frame that has its number from the driver comes behind those of its stream,
\* or the numbering starts again with it.
LEMMA NotifyOrder ==
    ASSUME NEW q \in CmdSeq, NEW c \in GoodFrame, NEW nx \in [Streams -> Nat], NEW fr,
           Rising(q), Passed(q, nx, fr), nx[c.stream] <= c.frame, fr => Resets(c)
    PROVE  LET my == [nx EXCEPT ![c.stream] = c.frame + 1] IN
           /\ Rising(Append(q, c)) /\ Passed(Append(q, c), my, FALSE)
           /\ \A s \in Streams, f \in Nat : Behind(q, nx, fr, s, f) => Behind(Append(q, c), my, FALSE, s, f)
<1>. DEFINE a == Append(q, c)
            n == Len(q)
            my == [nx EXCEPT ![c.stream] = c.frame + 1]
<1>1. /\ c.cmd = "DATA" /\ c.stream \in Streams /\ c.frame \in Nat
      /\ \A i \in DataAt(q) : q[i].stream \in Streams /\ q[i].frame \in Nat
  <2>1. \A i \in DataAt(q) : q[i] \in GoodFrame \cup Commands /\ q[i].cmd = "DATA"
    BY DEF DataAt, CmdSeq
  <2>2. \A x \in Commands : x.cmd # "DATA"
    BY SuperBufAssumption DEF CommandType
  <2>. QED
    BY <2>1, <2>2 DEF GoodFrame, Frame
<1>2. /\ \A i \in DataAt(q) : i \in DataAt(a) /\ i \in 1..n /\ a[i] = q[i]
      /\ \A i \in DataAt(a) : i \in DataAt(q) \/ i = n + 1
      /\ Len(a) = n + 1 /\ n \in Nat /\ a[n + 1] = c
      /\ \A i, j \in Nat : i >= 1 /\ j <= n /\ Restarts(q, i, j) => Restarts(a, i, j)
  BY AppendCmds DEF CmdSeq
<1>. HIDE DEF a, n
<1>3. \A i \in DataAt(q) : i \in Nat /\ i + 1 \in Nat /\ i >= 1 /\ i + 1 >= 1 /\ i <= n /\ i + 1 <= n + 1
  BY <1>2
<1>4. \A i \in Nat : i >= 1 /\ Restarts(q, i, n) => Restarts(a, i, n + 1)
  BY <1>2, RestartsWider
<1>5. fr => \A i \in Nat : i <= n + 1 => Restarts(a, i, n + 1)
  <2>1. SUFFICES ASSUME fr, NEW i \in Nat, i <= n + 1
                 PROVE  Restarts(a, i, n + 1)
    OBVIOUS
  <2>2. n + 1 \in i..(n + 1) /\ Resets(a[n + 1])
    BY <1>2, <2>1
  <2>. QED
    BY <2>2 DEF Restarts
<1>6. \A s \in Streams : my[s] \in Nat /\ nx[s] \in Nat /\ nx[s] <= my[s]
  BY <1>1
<1>7. my[c.stream] = c.frame + 1
  BY <1>1
<1>. HIDE DEF my
<1>8. ASSUME NEW i \in DataAt(a), NEW j \in DataAt(a), i < j, a[i].stream = a[j].stream
      PROVE  a[i].frame < a[j].frame \/ Restarts(a, i + 1, j)
  <2>1. CASE j \in DataAt(q)
    <3>1. i \in DataAt(q)
      BY <1>2, <1>3, <1>8, <2>1
    <3>. QED
      BY <1>2, <1>3, <1>8, <2>1, <3>1 DEF Rising
  <2>2. CASE j = n + 1
    <3>1. i \in DataAt(q)
      BY <1>2, <1>3, <1>8, <2>2
    <3>2. a[i] = q[i] /\ a[j] = c /\ q[i].stream = c.stream
      BY <1>2, <1>8, <2>2, <3>1
    <3>3. fr \/ q[i].frame < nx[c.stream] \/ Restarts(q, i + 1, n)
      BY <3>1, <3>2 DEF Passed, n
    <3>4. CASE fr
      BY <1>3, <1>5, <2>2, <3>1, <3>4
    <3>5. CASE q[i].frame < nx[c.stream]
      BY <1>1, <1>6, <3>1, <3>2, <3>5
    <3>6. CASE Restarts(q, i + 1, n)
      BY <1>3, <1>4, <2>2, <3>1, <3>6
    <3>. QED
      BY <3>3, <3>4, <3>5, <3>6
  <2>. QED
    BY <1>2, <2>1, <2>2
<1>9. ASSUME NEW i \in DataAt(a)
      PROVE  a[i].frame < my[a[i].stream] \/ Restarts(a, i + 1, n + 1)
  <2>1. CASE i \in DataAt(q)
    <3>1. a[i] = q[i] /\ q[i].stream \in Streams /\ q[i].frame \in Nat
      BY <1>1, <1>2, <2>1
    <3>2. fr \/ q[i].frame < nx[q[i].stream] \/ Restarts(q, i + 1, n)
      BY <2>1 DEF Passed, n
    <3>3. q[i].frame < nx[q[i].stream] => q[i].frame < my[q[i].stream]
      BY <1>6, <3>1
    <3>. QED
      BY <1>3, <1>4, <1>5, <2>1, <3>1, <3>2, <3>3
  <2>2. CASE i = n + 1
    BY <1>1, <1>2, <1>7, <2>2
  <2>. QED
    BY <1>2, <2>1, <2>2
<1>10. ASSUME NEW s \in Streams, NEW f \in Nat, Behind(q, nx, fr, s, f)
       PROVE  Behind(a, my, FALSE, s, f)
  <2>1. fr \/ f < nx[s] \/ Restarts(q, 1, n)
    BY <1>10 DEF Behind, n
  <2>2. f < nx[s] => f < my[s]
    BY <1>6
  <2>3. f < nx[s] \/ Restarts(a, 1, n + 1)
    BY <1>2, <1>4, <1>5, <2>1
  <2>4. ASSUME NEW j \in DataAt(a), a[j].stream = s
        PROVE  f < a[j].frame \/ Restarts(a, 1, j)
    <3>1. CASE j \in DataAt(q)
      BY <1>2, <1>3, <1>10, <2>4, <3>1 DEF Behind
    <3>2. CASE j = n + 1
      <4>1. f < nx[s] => f < c.frame
        BY <1>1, <1>2, <1>6, <2>4, <3>2
      <4>. QED
        BY <1>2, <2>3, <3>2, <4>1
    <3>. QED
      BY <1>2, <3>1, <3>2
  <2>5. f < my[s] \/ Restarts(a, 1, Len(a))
    BY <1>2, <2>2, <2>3
  <2>. QED
    BY <2>4, <2>5 DEF Behind
<1>11. Rising(a) /\ Passed(a, my, FALSE)
  BY <1>2, <1>8, <1>9 DEF Rising, Passed
<1>. QED
  BY <1>10, <1>11 DEF a, my

-----------------------------------------------------------------------------
(* The invariant holds at the start, and every action keeps it.             *)
LEMMA BufsKnown ==
    /\ Nothing \notin Bufs
    /\ \A s \in Streams : BufsOf[s] \subseteq Bufs
    /\ \A s, t \in Streams : \A b : b \in BufsOf[s] /\ b \in BufsOf[t] => s = t
    /\ \A b \in Bufs : \E s \in Streams : b \in BufsOf[s]
  BY SuperBufAssumption DEF Bufs

LEMMA InvStarts == ASSUME FramesCountFromOne, Init PROVE BufInv
<1>1. /\ FirstFrame \in Nat \ {0} /\ MaxEpoch \in Nat /\ Mode \in {"BURST", "CONTINUOUS"}
  BY SuperBufAssumption DEF FramesCountFromOne
<1>2. /\ \A s : ToSet(<<>>) = {} /\ SlotsIn(<<>>) = {} /\ InCmds(<<>>) = {} /\ DataAt(<<>>) = {}
      /\ Apart(<<>>) /\ IsInjective(<<>>) /\ \A s, f : ~Has(<<>>, s, f)
  BY DEF ToSet, SlotsIn, InCmds, DataAt, Apart, IsInjective, Has
<1>3. /\ kernel = Bufs /\ refcnt = [b \in Bufs |-> 0] /\ held = [b \in Bufs |-> 0]
      /\ next = [s \in Streams |-> FirstFrame] /\ epoch = 0 /\ fresh = FALSE
      /\ polled = [s \in Streams |-> Nothing]
      /\ appq = [s \in Streams |-> <<>>] /\ calling = [s \in Streams |-> Nothing]
      /\ cmdq = <<>> /\ cbq = <<>> /\ queue.nodes = <<>>
  BY DEF Init
<1>4. queue \in QueueType /\ chan \in ChanType
  BY <1>1 DEF Init, QueueType, ChanType
<1>5. BufType
  <2>1. epoch \in 0..MaxEpoch /\ next \in [Streams -> Nat \ {0}]
    BY <1>1, <1>3
  <2>2. /\ appq \in [Streams -> Seq(Bufs)] /\ \A s \in Streams : appq[s] \in Seq(BufsOf[s])
        /\ cmdq \in CmdSeq /\ cbq \in Seq(GoodNode)
    BY <1>3 DEF CmdSeq
  <2>3. kernel \subseteq Bufs /\ refcnt \in [Bufs -> Nat] /\ held \in [Bufs -> Nat]
    BY <1>3
  <2>4. /\ calling \in [Streams -> Bufs \cup {Nothing}] /\ polled \in [Streams -> Bufs \cup {Nothing}]
        /\ \A s \in Streams : calling[s] \in BufsOf[s] \cup {Nothing}
        /\ \A s \in Streams : polled[s] \in BufsOf[s] \cup {Nothing}
    BY <1>3
  <2>. QED
    BY <1>3, <1>4, <2>1, <2>2, <2>3, <2>4 DEF BufType
<1>6. InApps(appq) = {} /\ InCalls(calling) = {} /\ InCalls(polled) = {}
  BY <1>2, <1>3, BufsKnown DEF InApps, InCalls
<1>7. Counted
  BY <1>2, <1>3, <1>6, BufsKnown DEF Counted, Ref
<1>8. OnceInChannel /\ OnceInStream
  BY <1>2, <1>3, <1>6 DEF OnceInChannel, OnceInStream, OnceIn
<1>9. InOrder
  BY <1>2, <1>3 DEF InOrder, Rising, Passed
<1>. QED
  BY <1>5, <1>7, <1>8, <1>9 DEF BufInv

\* Who lets go of a buffer that is counted.
LEMMA BufDoneIs ==
    ASSUME NEW rel \in SUBSET Bufs, kernel \subseteq Bufs, refcnt \in [Bufs -> Nat],
           \A b \in Bufs : b \in kernel <=> refcnt[b] = 0,
           \A b \in rel : refcnt[b] > 0, BufDone(rel)
    PROVE  /\ kernel' \subseteq Bufs /\ refcnt' \in [Bufs -> Nat]
           /\ \A b \in Bufs : refcnt'[b] + Ref(b \in rel) = refcnt[b]
           /\ \A b \in Bufs : b \in kernel' <=> refcnt'[b] = 0
<1>1. /\ refcnt' = [b \in Bufs |-> IF b \in rel /\ refcnt[b] > 0 THEN refcnt[b] - 1 ELSE refcnt[b]]
      /\ kernel' = kernel \cup {b \in rel : refcnt[b] = 1}
  BY DEF BufDone
<1>2. \A b \in Bufs : refcnt'[b] = IF b \in rel THEN refcnt[b] - 1 ELSE refcnt[b]
  BY <1>1
<1>3. \A b \in Bufs : b \in rel => refcnt[b] >= 1
  OBVIOUS
<1>. QED
  BY <1>1, <1>2, <1>3 DEF Ref

LEMMA RefType == \A x \in BOOLEAN : Ref(x) \in {0, 1} /\ (x => Ref(x) = 1) /\ (~x => Ref(x) = 0)
  BY DEF Ref

\* A buffer with the driver is nowhere else, and one that is somewhere is counted.
LEMMA CountsAll ==
    ASSUME BufType, Counted, NEW b \in Bufs
    PROVE  /\ b \in kernel => /\ b \notin InCmds(cmdq) /\ b \notin SlotsIn(queue.nodes) /\ b \notin SlotsIn(cbq)
                              /\ held[b] = 0 /\ b \notin InCalls(polled) /\ b \notin InCalls(calling)
                              /\ b \notin InApps(appq) /\ refcnt[b] = 0
           /\ \/ b \in InCmds(cmdq) \/ b \in SlotsIn(queue.nodes) \/ b \in SlotsIn(cbq) \/ held[b] > 0
              \/ b \in InCalls(polled) \/ b \in InCalls(calling) \/ b \in InApps(appq)
              => refcnt[b] > 0
<1>1. held[b] \in Nat
  BY DEF BufType
<1>2. refcnt[b] = Ref(b \in InCmds(cmdq)) + Ref(b \in SlotsIn(queue.nodes)) + Ref(b \in SlotsIn(cbq))
                  + held[b] + Ref(b \in InCalls(polled)) + Ref(b \in InCalls(calling)) + Ref(b \in InApps(appq))
  BY DEF Counted
<1>3. b \in kernel <=> refcnt[b] = 0
  BY DEF Counted
<1>. QED
  BY <1>1, <1>2, <1>3 DEF Ref

LEMMA ProcessKeeps ==
    ASSUME WholeFlushes, BufInv, Process
    PROVE  BufInv'
<1>. DEFINE c == Head(cmdq)
            v == Outcome(c)
<1>1. /\ cmdq # <<>> /\ queue' = v.q /\ chan' = v.ch /\ cbq' = cbq \o v.out /\ BufDone(v.rel)
      /\ cmdq' = Tail(cmdq)
      /\ UNCHANGED <<next, epoch, fresh, polled, appq, calling, held, posted>>
  BY DEF Process, sensor, stream
<1>2. /\ BufType /\ Counted /\ OnceInChannel /\ OnceInStream /\ InOrder
  BY DEF BufInv
<1>3. /\ cmdq \in CmdSeq /\ cmdq' \in CmdSeq /\ c \in GoodFrame \cup Commands
  BY <1>1, <1>2, TailCmds DEF BufType, CmdSeq
<1>4. /\ OnceIn(cmdq')
      /\ InCmds(cmdq) = InCmds(cmdq') \cup (IF c.cmd = "DATA" THEN {c.slot.buf} ELSE {})
      /\ c.cmd = "DATA" => c.slot.buf \notin InCmds(cmdq')
  BY <1>1, <1>2, <1>3, TailOnce DEF OnceInChannel
<1>5. /\ Rising(cmdq') /\ Passed(cmdq', next, fresh)
      /\ c.cmd = "DATA" => Behind(cmdq', next, fresh, c.stream, c.frame)
      /\ \A s, f : Behind(cmdq, next, fresh, s, f) =>
           /\ ~Resets(c) => Behind(cmdq', next, fresh, s, f)
           /\ c.cmd = "DATA" /\ c.stream = s /\ ~Resets(c) => f < c.frame
  BY <1>1, <1>2, <1>3, TailOrder DEF InOrder
<1>6. /\ queue \in QueueType /\ chan \in ChanType /\ Apart(queue.nodes)
      /\ c.cmd = "DATA" => c.slot.buf \notin SlotsIn(queue.nodes)
  BY <1>2, <1>4 DEF BufType, OnceInChannel
<1>7. c.cmd = "DATA" /\ ~Resets(c) => \A f \in Nat : Has(queue.nodes, c.stream, f) => f < c.frame
  <2>1. c.cmd = "DATA" => c.stream \in Streams
    BY <1>3, SuperBufAssumption DEF GoodFrame, Frame, CommandType
  <2>. QED
    BY <1>2, <1>5, <2>1 DEF InOrder
<1>. HIDE DEF c
<1>8. /\ v \in WorkType /\ Apart(v.q.nodes) /\ Apart(v.out)
      /\ SlotsIn(v.q.nodes) \cap SlotsIn(v.out) = {}
      /\ SlotsIn(v.q.nodes) \cap v.rel = {} /\ SlotsIn(v.out) \cap v.rel = {}
      /\ SlotsIn(v.q.nodes) \cup SlotsIn(v.out) \cup v.rel =
           IF c.cmd = "DATA" THEN SlotsIn(queue.nodes) \cup {c.slot.buf} ELSE SlotsIn(queue.nodes)
      /\ \A s \in Streams, f \in Nat : Has(v.q.nodes, s, f) =>
           \/ Has(queue.nodes, s, f) /\ ~Resets(c)
           \/ c.cmd = "DATA" /\ s = c.stream /\ f = c.frame
  BY <1>3, <1>6, <1>7, SuperBufAssumption, OutcomeSettles
<1>9. v.q \in QueueType /\ v.ch \in ChanType /\ v.rel \in SUBSET Bufs /\ v.out \in Seq(GoodNode)
  BY <1>8 DEF WorkType
<1>. HIDE DEF v
<1>. DEFINE Q == SlotsIn(queue.nodes)
            B == SlotsIn(cbq)
            C == InCmds(cmdq)
            Q2 == SlotsIn(v.q.nodes)
            O2 == SlotsIn(v.out)
            C2 == InCmds(cmdq')
            D == IF c.cmd = "DATA" THEN {c.slot.buf} ELSE {}
<1>10. /\ C = C2 \cup D /\ C2 \cap D = {} /\ Q2 \cup O2 \cup v.rel = Q \cup D
       /\ Q2 \cap O2 = {} /\ Q2 \cap v.rel = {} /\ O2 \cap v.rel = {}
       /\ C \cap Q = {} /\ C \cap B = {} /\ Q \cap B = {}
  BY <1>2, <1>4, <1>8 DEF OnceInChannel
<1>11. cbq \in Seq(GoodNode) /\ Apart(cbq)
  BY <1>2 DEF BufType, OnceInChannel
<1>12. /\ cbq' \in Seq(GoodNode) /\ Apart(cbq') /\ SlotsIn(cbq') = B \cup O2
  <2>1. B \cap O2 = {}
    BY <1>10
  <2>. QED
    BY <1>1, <1>8, <1>9, <1>11, <2>1, Together
<1>. HIDE DEF Q, B, C, Q2, O2, C2, D
<1>13. \A b \in v.rel : refcnt[b] > 0
  <2>1. \A b \in v.rel : b \in Bufs /\ (b \in C \/ b \in Q)
    BY <1>9, <1>10
  <2>. QED
    BY <1>2, <2>1, CountsAll DEF C, Q
<1>14. /\ kernel' \subseteq Bufs /\ refcnt' \in [Bufs -> Nat]
       /\ \A b \in Bufs : refcnt'[b] + Ref(b \in v.rel) = refcnt[b]
       /\ \A b \in Bufs : b \in kernel' <=> refcnt'[b] = 0
  BY <1>1, <1>2, <1>9, <1>13, BufDoneIs DEF BufType, Counted
<1>15. BufType'
  BY <1>1, <1>2, <1>3, <1>9, <1>12, <1>14 DEF BufType
<1>16. Counted'
  <2>1. SUFFICES ASSUME NEW b \in Bufs
                 PROVE  refcnt'[b] = Ref(b \in C2) + Ref(b \in Q2) + Ref(b \in B \cup O2)
                          + held[b] + Ref(b \in InCalls(polled)) + Ref(b \in InCalls(calling)) + Ref(b \in InApps(appq))
    BY <1>1, <1>12, <1>14 DEF Counted, C2, Q2
  <2>2. refcnt[b] = Ref(b \in C) + Ref(b \in Q) + Ref(b \in B)
                    + held[b] + Ref(b \in InCalls(polled)) + Ref(b \in InCalls(calling)) + Ref(b \in InApps(appq))
    BY <1>2 DEF Counted, C, Q, B
  <2>3. Ref(b \in C) + Ref(b \in Q) + Ref(b \in B) = Ref(b \in C2) + Ref(b \in Q2) + Ref(b \in B \cup O2) + Ref(b \in v.rel)
    BY <1>10 DEF Ref
  <2>4. refcnt'[b] \in Nat /\ refcnt[b] \in Nat /\ held[b] \in Nat /\ refcnt'[b] + Ref(b \in v.rel) = refcnt[b]
    BY <1>2, <1>14 DEF BufType
  <2>. QED
    BY <2>2, <2>3, <2>4 DEF Ref
<1>17. OnceInChannel'
  <2>1. C2 \cap Q2 = {} /\ C2 \cap (B \cup O2) = {} /\ Q2 \cap (B \cup O2) = {}
    BY <1>10
  <2>. QED
    BY <1>1, <1>4, <1>8, <1>12, <2>1 DEF OnceInChannel, C2, Q2
<1>18. OnceInStream'
  BY <1>1, <1>2 DEF OnceInStream
<1>19. InOrder'
  <2>1. ASSUME NEW s \in Streams, NEW f \in Nat, Has(v.q.nodes, s, f)
        PROVE  Behind(cmdq', next, fresh, s, f)
    BY <1>2, <1>5, <1>8, <2>1 DEF InOrder
  <2>. QED
    BY <1>1, <1>5, <2>1 DEF InOrder
<1>. QED
  BY <1>15, <1>16, <1>17, <1>18, <1>19 DEF BufInv

\* Buffers wait for a stream's thread, one behind the other.
LEMMA Waits ==
    ASSUME NEW a \in [Streams -> Seq(Bufs)], \A t \in Streams : a[t] \in Seq(BufsOf[t]),
           NEW s \in Streams, NEW b \in BufsOf[s]
    PROVE  LET c == [a EXCEPT ![s] = Append(@, b)] IN
           /\ c \in [Streams -> Seq(Bufs)] /\ \A t \in Streams : c[t] \in Seq(BufsOf[t])
           /\ InApps(c) = InApps(a) \cup {b}
           /\ (\A t \in Streams : IsInjective(a[t])) /\ b \notin InApps(a) => \A t \in Streams : IsInjective(c[t])
<1>. DEFINE q == a[s]
            r == Append(q, b)
            n == Len(q)
            c == [a EXCEPT ![s] = r]
<1>1. /\ q \in Seq(BufsOf[s]) /\ n \in Nat /\ DOMAIN q = 1..n /\ r \in Seq(BufsOf[s]) /\ r \in Seq(Bufs)
      /\ DOMAIN r = 1..(n + 1) /\ (\A i \in 1..n : r[i] = q[i]) /\ r[n + 1] = b
  <2>1. q \in Seq(BufsOf[s]) /\ q \in Seq(Bufs) /\ b \in Bufs
    BY BufsKnown
  <2>. QED
    BY <2>1
<1>2. b \in Bufs
  BY BufsKnown
<1>3. c \in [Streams -> Seq(Bufs)] /\ c[s] = r /\ \A t \in Streams : t # s => c[t] = a[t]
  BY <1>1
<1>. HIDE DEF r, c, n
<1>4. \A i \in 1..(n + 1) : i \in 1..n \/ i = n + 1
  BY <1>1
<1>5. ToSet(r) = ToSet(q) \cup {b}
  <2>1. \A i \in 1..n : i \in 1..(n + 1)
    BY <1>1
  <2>2. n + 1 \in 1..(n + 1)
    BY <1>1
  <2>. QED
    BY <1>1, <1>4, <2>1, <2>2 DEF ToSet
<1>6. InApps(c) = InApps(a) \cup {b}
  BY <1>2, <1>3, <1>5 DEF InApps
<1>7. ASSUME IsInjective(q), b \notin ToSet(q)
      PROVE  IsInjective(r)
  <2>1. \A i \in 1..n : r[i] \in ToSet(q)
    BY <1>1 DEF ToSet
  <2>2. \A i, j \in 1..n : r[i] = r[j] => i = j
    BY <1>1, <1>7 DEF IsInjective
  <2>3. \A i, j \in 1..(n + 1) : r[i] = r[j] => i = j
    BY <1>1, <1>4, <1>7, <2>1, <2>2
  <2>. QED
    BY <1>1, <2>3 DEF IsInjective
<1>8. b \notin InApps(a) => b \notin ToSet(q)
  BY <1>2 DEF InApps
<1>. QED
  BY <1>1, <1>3, <1>6, <1>7, <1>8 DEF c, r

\* The first of them is taken.
LEMMA Taken ==
    ASSUME NEW a \in [Streams -> Seq(Bufs)], \A t \in Streams : a[t] \in Seq(BufsOf[t]),
           \A t \in Streams : IsInjective(a[t]), NEW s \in Streams, a[s] # <<>>
    PROVE  LET c == [a EXCEPT ![s] = Tail(@)] IN
           /\ Head(a[s]) \in BufsOf[s] /\ Head(a[s]) \in InApps(a)
           /\ c \in [Streams -> Seq(Bufs)] /\ \A t \in Streams : c[t] \in Seq(BufsOf[t])
           /\ InApps(c) = InApps(a) \ {Head(a[s])}
           /\ \A t \in Streams : IsInjective(c[t])
<1>. DEFINE q == a[s]
            r == Tail(q)
            n == Len(q)
            b == Head(q)
            c == [a EXCEPT ![s] = r]
<1>1. /\ n \in Nat /\ n >= 1 /\ DOMAIN q = 1..n /\ r \in Seq(BufsOf[s]) /\ r \in Seq(Bufs)
      /\ DOMAIN r = 1..(n - 1) /\ (\A i \in 1..(n - 1) : r[i] = q[i + 1])
      /\ b = q[1] /\ b \in BufsOf[s] /\ b \in Bufs
  <2>1. q \in Seq(BufsOf[s]) /\ q \in Seq(Bufs)
    OBVIOUS
  <2>2. n \in Nat /\ n >= 1 /\ DOMAIN q = 1..n /\ b = q[1]
    BY <2>1
  <2>3. r \in Seq(BufsOf[s]) /\ Len(r) = n - 1 /\ \A i \in 1..(n - 1) : r[i] = q[i + 1]
    BY <2>1, HeadTailProperties
  <2>4. r \in Seq(Bufs) /\ b \in BufsOf[s]
    BY <2>1, HeadTailProperties
  <2>. HIDE DEF r
  <2>. QED
    BY <2>2, <2>3, <2>4, BufsKnown
<1>2. c \in [Streams -> Seq(Bufs)] /\ c[s] = r /\ \A t \in Streams : t # s => c[t] = a[t]
  BY <1>1
<1>3. \A i, j \in 1..n : q[i] = q[j] => i = j
  BY <1>1 DEF IsInjective
<1>4. \A t \in Streams : t # s => b \notin ToSet(a[t])
  <2>1. \A t \in Streams : ToSet(a[t]) \subseteq BufsOf[t]
    BY DEF ToSet
  <2>. QED
    BY <1>1, <2>1, BufsKnown
<1>. HIDE DEF r, c, n, b
<1>5. \A i \in 1..n : i # 1 => i - 1 \in 1..(n - 1) /\ r[i - 1] = q[i]
  <2>1. TAKE i \in 1..n
  <2>2. i # 1 => i - 1 \in 1..(n - 1) /\ (i - 1) + 1 = i
    BY <1>1
  <2>. QED
    BY <1>1, <2>2
<1>6. \A i \in 1..(n - 1) : i + 1 \in 1..n /\ i + 1 # 1 /\ r[i] = q[i + 1]
  BY <1>1
<1>7. ToSet(q) = ToSet(r) \cup {b} /\ b \notin ToSet(r)
  <2>1. 1 \in 1..n
    BY <1>1
  <2>2. ToSet(q) \subseteq ToSet(r) \cup {b}
    <3>1. SUFFICES ASSUME NEW i \in 1..n
                   PROVE  q[i] \in ToSet(r) \cup {b}
      BY <1>1 DEF ToSet
    <3>2. \A k \in 1..(n - 1) : r[k] \in ToSet(r)
      BY <1>1 DEF ToSet
    <3>3. i # 1 => q[i] \in ToSet(r)
      BY <1>5, <3>2
    <3>. QED
      BY <1>1, <3>3
  <2>3. ToSet(r) \subseteq ToSet(q) /\ b \in ToSet(q)
    BY <1>1, <1>6, <2>1 DEF ToSet
  <2>4. b \notin ToSet(r)
    BY <1>1, <1>3, <1>6, <2>1 DEF ToSet
  <2>. QED
    BY <2>2, <2>3, <2>4
<1>8. IsInjective(r)
  <2>1. \A i, j \in 1..(n - 1) : r[i] = r[j] => i + 1 = j + 1
    BY <1>3, <1>6
  <2>2. \A i, j \in 1..(n - 1) : i + 1 = j + 1 => i = j
    BY <1>1
  <2>. QED
    BY <1>1, <2>1, <2>2 DEF IsInjective
<1>9. InApps(c) = InApps(a) \ {b} /\ b \in InApps(a)
  <2>1. \A t \in Streams : ToSet(c[t]) = ToSet(a[t]) \ {b}
    BY <1>2, <1>4, <1>7
  <2>2. b \in InApps(a)
    BY <1>1, <1>7 DEF InApps
  <2>3. \A x : x \in InApps(c) <=> x \in InApps(a) /\ x # b
    BY <2>1 DEF InApps
  <2>. QED
    BY <2>2, <2>3
<1>. QED
  BY <1>1, <1>2, <1>8, <1>9 DEF c, r, b

LEMMA Calls ==
    ASSUME NEW c \in [Streams -> Bufs \cup {Nothing}], \A t \in Streams : c[t] \in BufsOf[t] \cup {Nothing},
           NEW s \in Streams, NEW b \in BufsOf[s] \cup {Nothing}
    PROVE  /\ [c EXCEPT ![s] = b] \in [Streams -> Bufs \cup {Nothing}]
           /\ \A t \in Streams : [c EXCEPT ![s] = b][t] \in BufsOf[t] \cup {Nothing}
           /\ c[s] = Nothing /\ b # Nothing => InCalls([c EXCEPT ![s] = b]) = InCalls(c) \cup {b}
           /\ c[s] # Nothing /\ b = Nothing =>
                c[s] \in InCalls(c) /\ InCalls([c EXCEPT ![s] = b]) = InCalls(c) \ {c[s]}
<1>. DEFINE d == [c EXCEPT ![s] = b]
<1>1. /\ d \in [Streams -> Bufs \cup {Nothing}] /\ d[s] = b /\ \A t \in Streams : t # s => d[t] = c[t]
  BY BufsKnown
<1>. HIDE DEF d
<1>2. \A x : /\ x \in InCalls(d) <=> x \in Bufs /\ \E t \in Streams : d[t] = x
             /\ x \in InCalls(c) <=> x \in Bufs /\ \E t \in Streams : c[t] = x
  BY DEF InCalls
<1>3. ASSUME c[s] = Nothing, b # Nothing
      PROVE  InCalls(d) = InCalls(c) \cup {b}
  <2>1. b \in Bufs
    BY <1>3, BufsKnown
  <2>2. \A x : x \in InCalls(d) <=> x \in InCalls(c) \/ x = b
    BY <1>1, <1>2, <1>3, <2>1, BufsKnown
  <2>. QED
    BY <2>2
<1>4. ASSUME c[s] # Nothing, b = Nothing
      PROVE  c[s] \in InCalls(c) /\ InCalls(d) = InCalls(c) \ {c[s]}
  <2>1. c[s] \in BufsOf[s] /\ c[s] \in Bufs
    BY <1>4, BufsKnown
  <2>2. \A t \in Streams : t # s => c[t] # c[s]
    BY <2>1, BufsKnown
  <2>3. \A x : x \in InCalls(d) <=> x \in InCalls(c) /\ x # c[s]
    BY <1>1, <1>2, <1>4, <2>1, <2>2, BufsKnown
  <2>. QED
    BY <1>2, <2>1, <2>3
<1>. QED
  BY <1>1, <1>3, <1>4 DEF d

LEMMA CallsSame ==
    ASSUME NEW c \in [Streams -> Bufs \cup {Nothing}], NEW s \in Streams, c[s] = Nothing
    PROVE  InCalls([c EXCEPT ![s] = Nothing]) = InCalls(c)
<1>1. [c EXCEPT ![s] = Nothing] = c
  OBVIOUS
<1>. QED
  BY <1>1

LEMMA NotifyKeeps ==
    ASSUME BufInv, NEW s \in Streams, Notify(s)
    PROVE  BufInv'
<1>1. PICK b \in kernel \cap BufsOf[s], f \in next[s]..MaxFrame, m \in IF s = Meta THEN Metadata ELSE {Plain} :
        /\ kernel' = kernel \ {b}
        /\ refcnt' = [refcnt EXCEPT ![b] = @ + References(s)]
        /\ next' = [next EXCEPT ![s] = f + 1]
        /\ cmdq' = Append(cmdq,
             [cmd |-> "DATA", stream |-> s, frame |-> f, slot |-> [buf |-> b, epoch |-> epoch],
              meta |-> IF fresh THEN [m EXCEPT !.reset = TRUE] ELSE m])
        /\ polled' = [polled EXCEPT ![s] = IF s \in HasCb THEN b ELSE Nothing]
  BY DEF Notify
<1>2. /\ polled[s] = Nothing /\ (fresh => s = Meta) /\ fresh' = FALSE
      /\ UNCHANGED <<epoch, appq, calling, queue, chan, cbq, held, flushing, posted>>
  BY DEF Notify, channel, Polls
<1>3. /\ BufType /\ Counted /\ OnceInChannel /\ OnceInStream /\ InOrder
  BY DEF BufInv
<1>. DEFINE e == IF fresh THEN [m EXCEPT !.reset = TRUE] ELSE m
            c == [cmd |-> "DATA", stream |-> s, frame |-> f, slot |-> [buf |-> b, epoch |-> epoch], meta |-> e]
<1>4. /\ b \in Bufs /\ b \in BufsOf[s] /\ b \in kernel /\ b # Nothing
      /\ f \in Nat /\ f > 0 /\ next[s] \in Nat /\ next[s] <= f
      /\ next \in [Streams -> Nat]
  <2>1. next[s] \in Nat \ {0} /\ next \in [Streams -> Nat \ {0}]
    BY <1>3 DEF BufType
  <2>2. MaxFrame \in Nat
    BY SuperBufAssumption
  <2>. QED
    BY <2>1, <2>2, BufsKnown
<1>5. e \in SaysType /\ (fresh => e.reset)
  <2>1. m \in SaysType
    <3>1. Plain \in SaysType
      BY DEF SaysType, Plain
    <3>2. CASE s = Meta
      BY <3>2, SuperBufAssumption
    <3>3. CASE s # Meta
      BY <3>1, <3>3
    <3>. QED
      BY <3>2, <3>3
  <2>. QED
    BY <2>1 DEF SaysType
<1>. HIDE DEF e
<1>6. c \in GoodFrame /\ c.cmd = "DATA" /\ c.stream = s /\ c.frame = f /\ c.slot.buf = b /\ (fresh => Resets(c))
  <2>1. epoch \in 0..MaxEpoch
    BY <1>3 DEF BufType
  <2>. QED
    BY <1>2, <1>4, <1>5, <2>1 DEF GoodFrame, Frame, Slot, Resets
<1>7. cmdq' = Append(cmdq, c)
  BY <1>1 DEF e
<1>. HIDE DEF c
<1>8. /\ b \notin InCmds(cmdq) /\ b \notin SlotsIn(queue.nodes) /\ b \notin SlotsIn(cbq)
      /\ held[b] = 0 /\ b \notin InCalls(polled) /\ b \notin InCalls(calling)
      /\ b \notin InApps(appq) /\ refcnt[b] = 0
  BY <1>3, <1>4, CountsAll
<1>9. cmdq \in CmdSeq /\ cmdq' \in CmdSeq
  BY <1>3, <1>6, <1>7, AppendCmds DEF BufType, CmdSeq
<1>10. OnceIn(cmdq') /\ InCmds(cmdq') = InCmds(cmdq) \cup {b}
  BY <1>3, <1>6, <1>7, <1>8, <1>9, AppendOnce DEF OnceInChannel
<1>11. /\ Rising(cmdq') /\ Passed(cmdq', next', FALSE)
       /\ \A t \in Streams, g \in Nat : Behind(cmdq, next, fresh, t, g) => Behind(cmdq', next', FALSE, t, g)
  <2>1. Rising(cmdq) /\ Passed(cmdq, next, fresh) /\ next[c.stream] <= c.frame
    BY <1>3, <1>4, <1>6 DEF InOrder
  <2>2. next' = [next EXCEPT ![c.stream] = c.frame + 1]
    BY <1>1, <1>6
  <2>. QED
    BY <1>4, <1>6, <1>7, <1>9, <2>1, <2>2, NotifyOrder
<1>12. /\ polled' \in [Streams -> Bufs \cup {Nothing}] /\ \A t \in Streams : polled'[t] \in BufsOf[t] \cup {Nothing}
       /\ InCalls(polled') \subseteq InCalls(polled) \cup {b} /\ InCalls(polled) \subseteq InCalls(polled')
       /\ References(s) \in Nat /\ References(s) = 1 + Ref(b \in InCalls(polled'))
  <2>. DEFINE v == IF s \in HasCb THEN b ELSE Nothing
              d == [polled EXCEPT ![s] = v]
  <2>1. /\ polled \in [Streams -> Bufs \cup {Nothing}] /\ \A t \in Streams : polled[t] \in BufsOf[t] \cup {Nothing}
        /\ v \in BufsOf[s] \cup {Nothing}
    BY <1>3, <1>4 DEF BufType
  <2>2. polled' = d
    BY <1>1
  <2>3. v # Nothing <=> s \in HasCb
    BY <1>4
  <2>4. v # Nothing => v = b
    OBVIOUS
  <2>. HIDE DEF v
  <2>5. /\ d \in [Streams -> Bufs \cup {Nothing}] /\ \A t \in Streams : d[t] \in BufsOf[t] \cup {Nothing}
        /\ polled[s] = Nothing /\ v # Nothing => InCalls(d) = InCalls(polled) \cup {v}
    BY <2>1, Calls
  <2>8. polled[s] = Nothing /\ v = Nothing => InCalls(d) = InCalls(polled)
    BY <2>1, CallsSame
  <2>. HIDE DEF d
  <2>6. CASE s \in HasCb
    <3>1. InCalls(polled') = InCalls(polled) \cup {b} /\ References(s) = 2
      BY <1>2, <2>2, <2>3, <2>4, <2>5, <2>6 DEF References
    <3>. QED
      BY <2>2, <2>5, <3>1 DEF Ref
  <2>7. CASE s \notin HasCb
    <3>1. InCalls(polled') = InCalls(polled) /\ References(s) = 1
      BY <1>2, <2>2, <2>3, <2>7, <2>8 DEF References
    <3>. QED
      BY <1>8, <2>2, <2>5, <3>1 DEF Ref
  <2>. QED
    BY <2>6, <2>7
<1>13. BufType'
  <2>1. refcnt' \in [Bufs -> Nat] /\ kernel' \subseteq Bufs
    BY <1>1, <1>3, <1>12 DEF BufType
  <2>2. next' \in [Streams -> Nat \ {0}]
    <3>1. f + 1 \in Nat \ {0}
      BY <1>4
    <3>. QED
      BY <1>1, <1>3, <3>1 DEF BufType
  <2>. QED
    BY <1>2, <1>3, <1>9, <1>12, <2>1, <2>2 DEF BufType
<1>14. Counted'
  <2>1. ASSUME NEW x \in Bufs
        PROVE  /\ refcnt'[x] = Ref(x \in InCmds(cmdq')) + Ref(x \in SlotsIn(queue.nodes)) + Ref(x \in SlotsIn(cbq))
                      + held[x] + Ref(x \in InCalls(polled')) + Ref(x \in InCalls(calling)) + Ref(x \in InApps(appq))
               /\ x \in kernel' <=> refcnt'[x] = 0
    <3>1. refcnt[x] = Ref(x \in InCmds(cmdq)) + Ref(x \in SlotsIn(queue.nodes)) + Ref(x \in SlotsIn(cbq))
                      + held[x] + Ref(x \in InCalls(polled)) + Ref(x \in InCalls(calling)) + Ref(x \in InApps(appq))
          /\ (x \in kernel <=> refcnt[x] = 0)
      BY <1>3 DEF Counted
    <3>2. held[x] \in Nat /\ refcnt[x] \in Nat
      BY <1>2, <1>3, BufsKnown DEF BufType
    <3>3. CASE x = b
      <4>1. refcnt'[x] = References(s)
        <5>1. refcnt'[b] = refcnt[b] + References(s)
          BY <1>1, <1>3, <1>4 DEF BufType
        <5>. QED
          BY <1>8, <1>12, <3>3, <5>1
      <4>2. /\ Ref(x \in InCmds(cmdq')) = 1 /\ Ref(x \in SlotsIn(queue.nodes)) = 0 /\ Ref(x \in SlotsIn(cbq)) = 0
            /\ held[x] = 0 /\ Ref(x \in InCalls(calling)) = 0 /\ Ref(x \in InApps(appq)) = 0
        BY <1>8, <1>10, <3>3 DEF Ref
      <4>3. Ref(x \in InCalls(polled')) \in {0, 1} /\ References(s) = 1 + Ref(x \in InCalls(polled'))
        BY <1>12, <3>3 DEF Ref
      <4>4. x \notin kernel'
        BY <1>1, <3>3
      <4>5. refcnt'[x] # 0
        BY <4>1, <4>3
      <4>6. References(s) = 1 + 0 + 0 + 0 + Ref(x \in InCalls(polled')) + 0 + 0
        BY <4>3
      <4>. QED
        BY <4>1, <4>2, <4>4, <4>5, <4>6
    <3>4. CASE x # b
      <4>1. refcnt'[x] = refcnt[x] /\ (x \in kernel' <=> x \in kernel)
        BY <1>1, <1>3, <3>4 DEF BufType
      <4>2. x \in InCalls(polled') <=> x \in InCalls(polled)
        BY <1>12, <3>4
      <4>3. x \in InCmds(cmdq') <=> x \in InCmds(cmdq)
        BY <1>10, <3>4
      <4>. QED
        BY <3>1, <4>1, <4>2, <4>3 DEF Ref
    <3>. QED
      BY <3>3, <3>4
  <2>. QED
    BY <1>2, <2>1 DEF Counted
<1>15. OnceInChannel' /\ OnceInStream'
  <2>1. OnceInChannel'
    BY <1>2, <1>3, <1>8, <1>10 DEF OnceInChannel
  <2>2. InCalls(polled') \cap InCalls(calling) = {} /\ InCalls(polled') \cap InApps(appq) = {}
    BY <1>3, <1>8, <1>12 DEF OnceInStream
  <2>. QED
    BY <1>2, <1>3, <2>1, <2>2 DEF OnceInStream
<1>16. InOrder'
  BY <1>2, <1>3, <1>11 DEF InOrder
<1>. QED
  BY <1>13, <1>14, <1>15, <1>16 DEF BufInv

LEMMA AppCallbackKeeps ==
    ASSUME BufInv, NEW s \in Streams, AppCallback(s)
    PROVE  BufInv'
<1>. DEFINE b == Head(appq[s])
<1>1. /\ calling[s] = Nothing /\ appq[s] # <<>>
      /\ refcnt' = [refcnt EXCEPT ![b] = @ + 1] /\ held' = [held EXCEPT ![b] = @ + 1]
      /\ calling' = [calling EXCEPT ![s] = b] /\ appq' = [appq EXCEPT ![s] = Tail(@)]
      /\ UNCHANGED <<kernel, next, epoch, fresh, polled, cmdq, queue, chan, cbq>>
  BY DEF AppCallback, sensor, channel
<1>2. /\ BufType /\ Counted /\ OnceInChannel /\ OnceInStream /\ InOrder
  BY DEF BufInv
<1>3. /\ b \in BufsOf[s] /\ b \in InApps(appq)
      /\ appq' \in [Streams -> Seq(Bufs)] /\ \A t \in Streams : appq'[t] \in Seq(BufsOf[t])
      /\ InApps(appq') = InApps(appq) \ {b} /\ \A t \in Streams : IsInjective(appq'[t])
  BY <1>1, <1>2, Taken DEF BufType, OnceInStream
<1>. HIDE DEF b
<1>4. b \in Bufs /\ b # Nothing
  BY <1>3, BufsKnown
<1>5. /\ calling' \in [Streams -> Bufs \cup {Nothing}] /\ \A t \in Streams : calling'[t] \in BufsOf[t] \cup {Nothing}
      /\ InCalls(calling') = InCalls(calling) \cup {b}
  <2>. DEFINE d == [calling EXCEPT ![s] = b]
  <2>1. /\ calling \in [Streams -> Bufs \cup {Nothing}] /\ \A t \in Streams : calling[t] \in BufsOf[t] \cup {Nothing}
        /\ b \in BufsOf[s] \cup {Nothing}
    BY <1>2, <1>3 DEF BufType
  <2>2. /\ d \in [Streams -> Bufs \cup {Nothing}] /\ \A t \in Streams : d[t] \in BufsOf[t] \cup {Nothing}
        /\ calling[s] = Nothing /\ b # Nothing => InCalls(d) = InCalls(calling) \cup {b}
    BY <2>1, Calls
  <2>3. calling' = d
    BY <1>1
  <2>. HIDE DEF d
  <2>. QED
    BY <1>1, <1>4, <2>2, <2>3
<1>6. b \notin InCalls(calling) /\ b \notin InCalls(polled)
  BY <1>2, <1>3 DEF OnceInStream
<1>7. BufType'
  <2>1. refcnt' \in [Bufs -> Nat]
    BY <1>1, <1>2, <1>4, SMTT(30) DEF BufType
  <2>2. held' \in [Bufs -> Nat]
    BY <1>1, <1>2, <1>4, SMTT(30) DEF BufType
  <2>. QED
    BY <1>1, <1>2, <1>3, <1>5, <2>1, <2>2 DEF BufType
<1>8. Counted'
  <2>1. ASSUME NEW x \in Bufs
        PROVE  /\ refcnt'[x] = Ref(x \in InCmds(cmdq)) + Ref(x \in SlotsIn(queue.nodes)) + Ref(x \in SlotsIn(cbq))
                      + held'[x] + Ref(x \in InCalls(polled)) + Ref(x \in InCalls(calling')) + Ref(x \in InApps(appq'))
               /\ x \in kernel <=> refcnt'[x] = 0
    <3>1. refcnt[x] = Ref(x \in InCmds(cmdq)) + Ref(x \in SlotsIn(queue.nodes)) + Ref(x \in SlotsIn(cbq))
                      + held[x] + Ref(x \in InCalls(polled)) + Ref(x \in InCalls(calling)) + Ref(x \in InApps(appq))
          /\ (x \in kernel <=> refcnt[x] = 0)
      BY <1>2 DEF Counted
    <3>2. held[x] \in Nat /\ refcnt[x] \in Nat
      BY <1>2 DEF BufType
    <3>3. CASE x = b
      <4>1. refcnt'[x] = refcnt[x] + 1 /\ held'[x] = held[x] + 1
        BY <1>1, <1>2, <3>3 DEF BufType
      <4>2. refcnt[x] > 0
        BY <1>2, <1>3, <3>3, CountsAll
      <4>. QED
        BY <1>3, <1>5, <1>6, <3>1, <3>2, <3>3, <4>1, <4>2 DEF Ref
    <3>4. CASE x # b
      <4>1. refcnt'[x] = refcnt[x] /\ held'[x] = held[x]
        BY <1>1, <1>2, <3>4 DEF BufType
      <4>. QED
        BY <1>3, <1>5, <3>1, <3>4, <4>1
    <3>. QED
      BY <3>3, <3>4
  <2>. QED
    BY <1>1, <2>1 DEF Counted
<1>9. OnceInChannel' /\ InOrder'
  BY <1>1, <1>2 DEF OnceInChannel, InOrder
<1>10. OnceInStream'
  BY <1>1, <1>2, <1>3, <1>5, <1>6 DEF OnceInStream
<1>. QED
  BY <1>7, <1>8, <1>9, <1>10 DEF BufInv
\* One holder lets go of one buffer.
LEMMA Dropped ==
    ASSUME BufType, Counted, NEW b \in Bufs, BufDone({b}),
           held[b] > 0 \/ b \in InCalls(polled) \/ b \in InCalls(calling)
    PROVE  /\ kernel' \subseteq Bufs /\ refcnt' \in [Bufs -> Nat]
           /\ \A x \in Bufs : refcnt'[x] + Ref(x = b) = refcnt[x]
           /\ \A x \in Bufs : x \in kernel' <=> refcnt'[x] = 0
<1>. DEFINE rel == {b}
<1>1. rel \in SUBSET Bufs /\ \A x \in rel : refcnt[x] > 0
  BY CountsAll
<1>2. kernel \subseteq Bufs /\ refcnt \in [Bufs -> Nat] /\ \A x \in Bufs : x \in kernel <=> refcnt[x] = 0
  BY DEF BufType, Counted
<1>3. \A x : x \in rel <=> x = b
  OBVIOUS
<1>4. BufDone(rel)
  OBVIOUS
<1>. HIDE DEF rel
<1>5. /\ kernel' \subseteq Bufs /\ refcnt' \in [Bufs -> Nat]
      /\ \A x \in Bufs : refcnt'[x] + Ref(x \in rel) = refcnt[x]
      /\ \A x \in Bufs : x \in kernel' <=> refcnt'[x] = 0
  BY <1>1, <1>2, <1>4, BufDoneIs
<1>6. \A x : Ref(x \in rel) = Ref(x = b)
  BY <1>3 DEF Ref
<1>. QED
  BY <1>5, <1>6

LEMMA AppDoneKeeps ==
    ASSUME BufInv, NEW s \in Streams, AppDone(s)
    PROVE  BufInv'
<1>. DEFINE b == calling[s]
            d == [calling EXCEPT ![s] = Nothing]
<1>1. /\ b # Nothing /\ BufDone({b}) /\ calling' = d
      /\ UNCHANGED <<next, epoch, fresh, polled, appq, cmdq, queue, chan, cbq, held>>
  BY DEF AppDone, sensor, channel
<1>2. /\ BufType /\ Counted /\ OnceInChannel /\ OnceInStream /\ InOrder
  BY DEF BufInv
<1>3. /\ d \in [Streams -> Bufs \cup {Nothing}] /\ \A t \in Streams : d[t] \in BufsOf[t] \cup {Nothing}
      /\ b \in InCalls(calling) /\ InCalls(d) = InCalls(calling) \ {b}
  <2>1. /\ calling \in [Streams -> Bufs \cup {Nothing}] /\ \A t \in Streams : calling[t] \in BufsOf[t] \cup {Nothing}
        /\ Nothing \in BufsOf[s] \cup {Nothing}
    BY <1>2 DEF BufType
  <2>. QED
    BY <1>1, <2>1, Calls
<1>. HIDE DEF b, d
<1>4. b \in Bufs
  BY <1>3 DEF InCalls
<1>5. /\ kernel' \subseteq Bufs /\ refcnt' \in [Bufs -> Nat]
      /\ \A x \in Bufs : refcnt'[x] + Ref(x = b) = refcnt[x]
      /\ \A x \in Bufs : x \in kernel' <=> refcnt'[x] = 0
  BY <1>1, <1>2, <1>3, <1>4, Dropped
<1>6. BufType'
  BY <1>1, <1>2, <1>3, <1>5 DEF BufType
<1>7. Counted'
  <2>1. ASSUME NEW x \in Bufs
        PROVE  refcnt'[x] = Ref(x \in InCmds(cmdq)) + Ref(x \in SlotsIn(queue.nodes)) + Ref(x \in SlotsIn(cbq))
                      + held[x] + Ref(x \in InCalls(polled)) + Ref(x \in InCalls(d)) + Ref(x \in InApps(appq))
    <3>1. refcnt[x] = Ref(x \in InCmds(cmdq)) + Ref(x \in SlotsIn(queue.nodes)) + Ref(x \in SlotsIn(cbq))
                      + held[x] + Ref(x \in InCalls(polled)) + Ref(x \in InCalls(calling)) + Ref(x \in InApps(appq))
      BY <1>2 DEF Counted
    <3>2. held[x] \in Nat /\ refcnt[x] \in Nat /\ refcnt'[x] \in Nat /\ refcnt'[x] + Ref(x = b) = refcnt[x]
      BY <1>2, <1>5 DEF BufType
    <3>3. Ref(x \in InCalls(calling)) = Ref(x \in InCalls(d)) + Ref(x = b)
      BY <1>3 DEF Ref
    <3>. QED
      BY <3>1, <3>2, <3>3 DEF Ref
  <2>. QED
    BY <1>1, <1>5, <2>1 DEF Counted
<1>8. OnceInChannel' /\ InOrder'
  BY <1>1, <1>2 DEF OnceInChannel, InOrder
<1>9. OnceInStream'
  BY <1>1, <1>2, <1>3 DEF OnceInStream
<1>. QED
  BY <1>6, <1>7, <1>8, <1>9 DEF BufInv

LEMMA QBufKeeps ==
    ASSUME BufInv, NEW b \in Bufs, QBuf(b)
    PROVE  BufInv'
<1>1. /\ held[b] > 0 /\ BufDone({b}) /\ held' = [held EXCEPT ![b] = @ - 1]
      /\ UNCHANGED <<next, epoch, fresh, polled, appq, calling, cmdq, queue, chan, cbq>>
  BY DEF QBuf, sensor, stream, channel
<1>2. /\ BufType /\ Counted /\ OnceInChannel /\ OnceInStream /\ InOrder
  BY DEF BufInv
<1>3. /\ kernel' \subseteq Bufs /\ refcnt' \in [Bufs -> Nat]
      /\ \A x \in Bufs : refcnt'[x] + Ref(x = b) = refcnt[x]
      /\ \A x \in Bufs : x \in kernel' <=> refcnt'[x] = 0
  BY <1>1, <1>2, Dropped
<1>4. held' \in [Bufs -> Nat] /\ \A x \in Bufs : held'[x] + Ref(x = b) = held[x]
  <2>1. held \in [Bufs -> Nat]
    BY <1>2 DEF BufType
  <2>2. held[b] - 1 \in Nat
    BY <1>1, <2>1
  <2>3. held' \in [Bufs -> Nat] /\ held'[b] = held[b] - 1 /\ \A x \in Bufs : x # b => held'[x] = held[x]
    BY <1>1, <2>1, <2>2
  <2>. QED
    BY <2>1, <2>3 DEF Ref
<1>5. BufType'
  BY <1>1, <1>2, <1>3, <1>4 DEF BufType
<1>6. Counted'
  <2>1. ASSUME NEW x \in Bufs
        PROVE  refcnt'[x] = Ref(x \in InCmds(cmdq)) + Ref(x \in SlotsIn(queue.nodes)) + Ref(x \in SlotsIn(cbq))
                      + held'[x] + Ref(x \in InCalls(polled)) + Ref(x \in InCalls(calling)) + Ref(x \in InApps(appq))
    <3>1. refcnt[x] = Ref(x \in InCmds(cmdq)) + Ref(x \in SlotsIn(queue.nodes)) + Ref(x \in SlotsIn(cbq))
                      + held[x] + Ref(x \in InCalls(polled)) + Ref(x \in InCalls(calling)) + Ref(x \in InApps(appq))
      BY <1>2 DEF Counted
    <3>2. held[x] \in Nat /\ held'[x] \in Nat /\ refcnt[x] \in Nat /\ refcnt'[x] \in Nat
          /\ refcnt'[x] + Ref(x = b) = refcnt[x] /\ held'[x] + Ref(x = b) = held[x]
      BY <1>2, <1>3, <1>4 DEF BufType
    <3>. QED
      BY <3>1, <3>2 DEF Ref
  <2>. QED
    BY <1>1, <1>3, <2>1 DEF Counted
<1>7. OnceInChannel' /\ OnceInStream' /\ InOrder'
  BY <1>1, <1>2 DEF OnceInChannel, OnceInStream, InOrder
<1>. QED
  BY <1>5, <1>6, <1>7 DEF BufInv

LEMMA ForwardKeeps ==
    ASSUME BufInv, NEW s \in Streams, Forward(s)
    PROVE  BufInv'
<1>. DEFINE b == polled[s]
            d == [polled EXCEPT ![s] = Nothing]
<1>1. /\ b # Nothing /\ polled' = d
      /\ UNCHANGED <<next, epoch, fresh, calling, cmdq, queue, cbq, held>>
  BY DEF Forward, sensor
<1>2. \/ /\ s = Preview /\ chan.skip > 0
         /\ chan' = [chan EXCEPT !.skip = @ - 1]
         /\ BufDone({b})
         /\ UNCHANGED appq
      \/ /\ appq' = [appq EXCEPT ![s] = Append(@, b)]
         /\ UNCHANGED <<chan, kernel, refcnt>>
  BY DEF Forward, bufVars
<1>3. /\ BufType /\ Counted /\ OnceInChannel /\ OnceInStream /\ InOrder
  BY DEF BufInv
<1>4. /\ b \in BufsOf[s] /\ b \in Bufs
      /\ d \in [Streams -> Bufs \cup {Nothing}] /\ \A t \in Streams : d[t] \in BufsOf[t] \cup {Nothing}
      /\ b \in InCalls(polled) /\ InCalls(d) = InCalls(polled) \ {b}
  <2>1. /\ polled \in [Streams -> Bufs \cup {Nothing}] /\ \A t \in Streams : polled[t] \in BufsOf[t] \cup {Nothing}
        /\ Nothing \in BufsOf[s] \cup {Nothing}
    BY <1>3 DEF BufType
  <2>2. b \in BufsOf[s] /\ b \in Bufs
    BY <1>1, <2>1, BufsKnown
  <2>. QED
    BY <1>1, <2>1, <2>2, Calls
<1>. HIDE DEF b, d
<1>5. /\ InCalls(d) \cap InCalls(calling) = {} /\ InCalls(d) \cap InApps(appq) = {}
      /\ b \notin InCalls(calling) /\ b \notin InApps(appq) /\ b \notin InCalls(d)
      /\ \A x \in Bufs : Ref(x \in InCalls(polled)) = Ref(x \in InCalls(d)) + Ref(x = b)
  <2>1. InCalls(polled) \cap InCalls(calling) = {} /\ InCalls(polled) \cap InApps(appq) = {}
    BY <1>3 DEF OnceInStream
  <2>. QED
    BY <1>4, <2>1 DEF Ref
<1>6. OnceInChannel' /\ InOrder'
  BY <1>1, <1>3 DEF OnceInChannel, InOrder
<1>7. CASE /\ s = Preview /\ chan.skip > 0 /\ chan' = [chan EXCEPT !.skip = @ - 1]
           /\ BufDone({b}) /\ UNCHANGED appq
  <2>1. /\ kernel' \subseteq Bufs /\ refcnt' \in [Bufs -> Nat]
        /\ \A x \in Bufs : refcnt'[x] + Ref(x = b) = refcnt[x]
        /\ \A x \in Bufs : x \in kernel' <=> refcnt'[x] = 0
    BY <1>3, <1>4, <1>7, Dropped
  <2>2. chan' \in ChanType
    <3>1. chan \in ChanType
      BY <1>3 DEF BufType
    <3>2. chan.skip - 1 \in Nat
      BY <1>7, <3>1 DEF ChanType
    <3>. QED
      BY <1>7, <3>1, <3>2 DEF ChanType
  <2>3. BufType'
    BY <1>1, <1>3, <1>4, <1>7, <2>1, <2>2 DEF BufType
  <2>4. Counted'
    <3>1. ASSUME NEW x \in Bufs
          PROVE  refcnt'[x] = Ref(x \in InCmds(cmdq)) + Ref(x \in SlotsIn(queue.nodes)) + Ref(x \in SlotsIn(cbq))
                        + held[x] + Ref(x \in InCalls(d)) + Ref(x \in InCalls(calling)) + Ref(x \in InApps(appq))
      <4>1. refcnt[x] = Ref(x \in InCmds(cmdq)) + Ref(x \in SlotsIn(queue.nodes)) + Ref(x \in SlotsIn(cbq))
                        + held[x] + Ref(x \in InCalls(polled)) + Ref(x \in InCalls(calling)) + Ref(x \in InApps(appq))
        BY <1>3 DEF Counted
      <4>2. held[x] \in Nat /\ refcnt[x] \in Nat /\ refcnt'[x] \in Nat /\ refcnt'[x] + Ref(x = b) = refcnt[x]
        BY <1>3, <2>1 DEF BufType
      <4>. QED
        BY <1>5, <4>1, <4>2 DEF Ref
    <3>. QED
      BY <1>1, <1>7, <2>1, <3>1 DEF Counted
  <2>5. OnceInStream'
    BY <1>1, <1>3, <1>5, <1>7 DEF OnceInStream
  <2>. QED
    BY <1>6, <2>3, <2>4, <2>5 DEF BufInv
<1>8. CASE appq' = [appq EXCEPT ![s] = Append(@, b)] /\ UNCHANGED <<chan, kernel, refcnt>>
  <2>1. /\ appq \in [Streams -> Seq(Bufs)] /\ \A t \in Streams : appq[t] \in Seq(BufsOf[t])
        /\ \A t \in Streams : IsInjective(appq[t])
        /\ b \notin InApps(appq)
    BY <1>3, <1>5 DEF BufType, OnceInStream
  <2>. DEFINE c == [appq EXCEPT ![s] = Append(@, b)]
  <2>2. /\ c \in [Streams -> Seq(Bufs)] /\ \A t \in Streams : c[t] \in Seq(BufsOf[t])
        /\ InApps(c) = InApps(appq) \cup {b}
        /\ \A t \in Streams : IsInjective(c[t])
    BY <1>4, <2>1, Waits
  <2>. HIDE DEF c
  <2>3. appq' = c
    BY <1>8 DEF c
  <2>4. BufType'
    BY <1>1, <1>3, <1>4, <1>8, <2>2, <2>3 DEF BufType
  <2>5. Counted'
    <3>1. ASSUME NEW x \in Bufs
          PROVE  refcnt[x] = Ref(x \in InCmds(cmdq)) + Ref(x \in SlotsIn(queue.nodes)) + Ref(x \in SlotsIn(cbq))
                        + held[x] + Ref(x \in InCalls(d)) + Ref(x \in InCalls(calling)) + Ref(x \in InApps(c))
      <4>1. refcnt[x] = Ref(x \in InCmds(cmdq)) + Ref(x \in SlotsIn(queue.nodes)) + Ref(x \in SlotsIn(cbq))
                        + held[x] + Ref(x \in InCalls(polled)) + Ref(x \in InCalls(calling)) + Ref(x \in InApps(appq))
        BY <1>3 DEF Counted
      <4>2. Ref(x \in InApps(c)) = Ref(x \in InApps(appq)) + Ref(x = b)
        BY <2>1, <2>2 DEF Ref
      <4>3. held[x] \in Nat
        BY <1>3 DEF BufType
      <4>. QED
        BY <1>5, <4>1, <4>2, <4>3 DEF Ref
    <3>. QED
      BY <1>1, <1>3, <1>8, <2>3, <3>1 DEF Counted
  <2>6. OnceInStream'
    <3>1. InCalls(calling) \cap InApps(c) = {} /\ InCalls(d) \cap InApps(c) = {}
      BY <1>3, <1>5, <2>2 DEF OnceInStream
    <3>2. InCalls(polled') = InCalls(d)
      BY <1>1
    <3>. QED
      BY <1>1, <1>3, <1>5, <2>2, <2>3, <3>1, <3>2 DEF OnceInStream
  <2>. QED
    BY <1>6, <2>4, <2>5, <2>6 DEF BufInv
<1>. QED
  BY <1>2, <1>7, <1>8
LEMMA DispatchKeeps ==
    ASSUME BufInv, DispatchSuperBuf
    PROVE  BufInv'
<1>. DEFINE n == Head(cbq)
            r == Tail(cbq)
<1>1. /\ cbq # <<>> /\ cbq' = r
      /\ held' = [b \in Bufs |-> held[b] + (IF b \in Slots(n) THEN 1 ELSE 0)]
      /\ UNCHANGED <<kernel, refcnt, next, epoch, fresh, polled, appq, calling, cmdq, queue, chan>>
  BY DEF DispatchSuperBuf, bufVars, sensor, stream
<1>2. /\ BufType /\ Counted /\ OnceInChannel /\ OnceInStream /\ InOrder
  BY DEF BufInv
<1>3. /\ r \in Seq(GoodNode) /\ Apart(r)
      /\ Slots(n) \cup SlotsIn(r) = SlotsIn(cbq) /\ Slots(n) \cap SlotsIn(r) = {}
  <2>1. cbq \in Seq(GoodNode) /\ Apart(cbq)
    BY <1>2 DEF BufType, OnceInChannel
  <2>2. Len(cbq) \in Nat /\ 1 \in 0..Len(cbq) /\ n = cbq[1]
    BY <1>1, <2>1
  <2>3. r = After(cbq, 1)
    <3>1. r = SubSeq(cbq, 2, Len(cbq))
      BY <1>1, <2>1, TailIsSubSeq
    <3>. QED
      BY <3>1 DEF After
  <2>. DEFINE a == Leading(cbq, 1)
  <2>4. a \in Seq(GoodNode) /\ Len(a) = 1 /\ a[1] = n
    <3>1. a \in Seq(GoodNode) /\ Len(a) = 1 /\ \A i \in 1..1 : a[i] = cbq[i]
      BY <2>1, <2>2, Parts
    <3>. HIDE DEF a
    <3>2. 1 \in 1..1
      OBVIOUS
    <3>. QED
      BY <2>2, <3>1, <3>2
  <2>5. /\ After(cbq, 1) \in Seq(GoodNode) /\ Apart(After(cbq, 1))
        /\ SlotsIn(a) \cup SlotsIn(After(cbq, 1)) = SlotsIn(cbq)
        /\ SlotsIn(a) \cap SlotsIn(After(cbq, 1)) = {}
    BY <2>1, <2>2, Cut
  <2>. HIDE DEF a
  <2>6. SlotsIn(a) = Slots(n)
    <3>1. \A b : b \in SlotsIn(a) <=> \E i \in 1..1 : b \in Slots(a[i])
      BY <2>4, InSlotsIn
    <3>2. \A b : b \in SlotsIn(a) <=> b \in Slots(n)
      BY <2>4, <3>1
    <3>. QED
      BY <3>2
  <2>. HIDE DEF r
  <2>. QED
    BY <2>3, <2>5, <2>6
<1>. HIDE DEF n, r
<1>4. held' \in [Bufs -> Nat] /\ \A b \in Bufs : held'[b] = held[b] + Ref(b \in Slots(n))
  BY <1>1, <1>2 DEF BufType, Ref
<1>5. BufType'
  BY <1>1, <1>2, <1>3, <1>4 DEF BufType
<1>6. Counted'
  <2>1. ASSUME NEW x \in Bufs
        PROVE  refcnt[x] = Ref(x \in InCmds(cmdq)) + Ref(x \in SlotsIn(queue.nodes)) + Ref(x \in SlotsIn(r))
                      + held'[x] + Ref(x \in InCalls(polled)) + Ref(x \in InCalls(calling)) + Ref(x \in InApps(appq))
    <3>1. refcnt[x] = Ref(x \in InCmds(cmdq)) + Ref(x \in SlotsIn(queue.nodes)) + Ref(x \in SlotsIn(cbq))
                      + held[x] + Ref(x \in InCalls(polled)) + Ref(x \in InCalls(calling)) + Ref(x \in InApps(appq))
      BY <1>2 DEF Counted
    <3>2. Ref(x \in SlotsIn(cbq)) = Ref(x \in Slots(n)) + Ref(x \in SlotsIn(r))
      BY <1>3 DEF Ref
    <3>3. held[x] \in Nat /\ held'[x] = held[x] + Ref(x \in Slots(n))
      BY <1>2, <1>4 DEF BufType
    <3>. QED
      BY <3>1, <3>2, <3>3 DEF Ref
  <2>. QED
    BY <1>1, <1>2, <2>1 DEF Counted
<1>7. OnceInChannel'
  <2>1. InCmds(cmdq) \cap SlotsIn(r) = {} /\ SlotsIn(queue.nodes) \cap SlotsIn(r) = {}
    BY <1>2, <1>3 DEF OnceInChannel
  <2>. QED
    BY <1>1, <1>2, <1>3, <2>1 DEF OnceInChannel
<1>8. OnceInStream' /\ InOrder'
  BY <1>1, <1>2 DEF OnceInStream, InOrder
<1>. QED
  BY <1>5, <1>6, <1>7, <1>8 DEF BufInv

LEMMA PostKeeps ==
    ASSUME BufInv, Post
    PROVE  BufInv'
<1>1. PICK c \in Commands : cmdq' = Append(cmdq, c)
  BY DEF Post
<1>2. UNCHANGED <<kernel, refcnt, next, epoch, fresh, polled, appq, calling, queue, chan, cbq, held>>
  BY DEF Post, bufVars, sensor, stream, channel
<1>3. /\ BufType /\ Counted /\ OnceInChannel /\ OnceInStream /\ InOrder
  BY DEF BufInv
<1>4. c.cmd # "DATA" /\ c \in GoodFrame \cup Commands
  BY SuperBufAssumption DEF CommandType
<1>5. cmdq \in CmdSeq /\ cmdq' \in CmdSeq
  BY <1>1, <1>3, <1>4, AppendCmds DEF BufType, CmdSeq
<1>6. OnceIn(cmdq') /\ InCmds(cmdq') = InCmds(cmdq)
  BY <1>1, <1>3, <1>4, <1>5, AppendOnce DEF OnceInChannel
<1>7. /\ Rising(cmdq') /\ Passed(cmdq', next, fresh)
      /\ \A s, f : Behind(cmdq, next, fresh, s, f) => Behind(cmdq', next, fresh, s, f)
  BY <1>1, <1>3, <1>4, <1>5, AppendOrder DEF InOrder
<1>8. BufType' /\ Counted' /\ OnceInChannel' /\ OnceInStream'
  BY <1>2, <1>3, <1>5, <1>6 DEF BufType, Counted, OnceInChannel, OnceInStream
<1>9. InOrder'
  BY <1>2, <1>3, <1>7 DEF InOrder
<1>. QED
  BY <1>8, <1>9 DEF BufInv

LEMMA RenumberKeeps ==
    ASSUME FramesCountFromOne, BufInv, Renumber
    PROVE  BufInv'
<1>1. /\ epoch < MaxEpoch /\ epoch' = epoch + 1 /\ fresh' = TRUE /\ next' = [s \in Streams |-> FirstFrame]
      /\ UNCHANGED <<kernel, refcnt, polled, appq, calling, cmdq, queue, chan, cbq, held>>
  BY DEF Renumber, bufVars, stream, channel
<1>2. /\ BufType /\ Counted /\ OnceInChannel /\ OnceInStream /\ InOrder
  BY DEF BufInv
<1>3. BufType'
  <2>1. FirstFrame \in Nat \ {0} /\ MaxEpoch \in Nat
    BY SuperBufAssumption DEF FramesCountFromOne
  <2>2. epoch' \in 0..MaxEpoch /\ next' \in [Streams -> Nat \ {0}]
    BY <1>1, <1>2, <2>1 DEF BufType
  <2>. QED
    BY <1>1, <1>2, <2>2 DEF BufType
<1>4. Counted' /\ OnceInChannel' /\ OnceInStream'
  BY <1>1, <1>2 DEF Counted, OnceInChannel, OnceInStream
<1>5. InOrder'
  <2>1. \A s, f : Behind(cmdq, next, fresh, s, f) => Behind(cmdq, next', TRUE, s, f)
    BY DEF Behind
  <2>2. Passed(cmdq, next', TRUE)
    BY DEF Passed
  <2>. QED
    BY <1>1, <1>2, <2>1, <2>2 DEF InOrder
<1>. QED
  BY <1>3, <1>4, <1>5 DEF BufInv

LEMMA StepKeeps ==
    ASSUME FramesCountFromOne, WholeFlushes, BufInv, [Next]_vars
    PROVE  BufInv'
<1>1. CASE Next
  BY <1>1, NotifyKeeps, AppCallbackKeeps, AppDoneKeeps, ForwardKeeps, ProcessKeeps,
     DispatchKeeps, PostKeeps, RenumberKeeps, QBufKeeps DEF Next
<1>2. CASE UNCHANGED vars
  BY <1>2 DEF vars, BufInv, BufType, Counted, OnceInChannel, OnceInStream, InOrder
<1>. QED
  BY <1>1, <1>2

-----------------------------------------------------------------------------
(* What has at most one member counts as one or none.                       *)
LEMMA AtMostOne ==
    ASSUME NEW D, \A i, j \in D : i = j
    PROVE  Cardinality(D) = Ref(D # {})
<1>1. CASE D = {}
  BY <1>1, FS_EmptySet DEF Ref
<1>2. CASE D # {}
  <2>1. PICK i \in D : TRUE
    BY <1>2
  <2>2. D = {i}
    BY <2>1
  <2>3. Cardinality({i}) = 1
    BY FS_Singleton
  <2>. QED
    BY <1>2, <2>2, <2>3 DEF Ref
<1>. QED
  BY <1>1, <1>2

LEMMA NodesWith ==
    ASSUME NEW ns \in Seq(GoodNode), Apart(ns), NEW b
    PROVE  Cardinality({i \in DOMAIN ns : b \in Slots(ns[i])}) = Ref(b \in SlotsIn(ns))
<1>. DEFINE D == {i \in DOMAIN ns : b \in Slots(ns[i])}
<1>1. \A i, j \in D : i = j
  BY DEF Apart
<1>2. D # {} <=> b \in SlotsIn(ns)
  BY DEF SlotsIn
<1>3. Cardinality(D) = Ref(D # {})
  <2>. HIDE DEF D
  <2>. QED
    BY <1>1, AtMostOne
<1>. HIDE DEF D
<1>4. Ref(D # {}) = Ref(b \in SlotsIn(ns))
  BY <1>2 DEF Ref
<1>5. Cardinality(D) = Ref(b \in SlotsIn(ns))
  BY <1>3, <1>4
<1>. QED
  BY <1>5 DEF D

LEMMA CountedAreHolders ==
    ASSUME BufInv
    PROVE  RefsAreHolders
<1>1. /\ BufType /\ Counted /\ OnceInChannel /\ OnceInStream
  BY DEF BufInv
<1>2. SUFFICES ASSUME NEW b \in Bufs
               PROVE  refcnt[b] = Holders(b)
  BY <1>1 DEF RefsAreHolders, Counted
<1>. DEFINE C == {i \in DOMAIN cmdq : cmdq[i].cmd = "DATA" /\ cmdq[i].slot.buf = b}
            K == {s \in Streams : calling[s] = b}
            P == {s \in Streams : polled[s] = b}
            A == {s \in Streams : b \in ToSet(appq[s])}
            Q == {i \in DOMAIN queue.nodes : b \in Slots(queue.nodes[i])}
            B == {i \in DOMAIN cbq : b \in Slots(cbq[i])}
<1>3. Cardinality(C) = Ref(b \in InCmds(cmdq))
  <2>1. \A i, j \in C : i = j
    BY <1>1 DEF OnceInChannel, OnceIn, DataAt
  <2>2. C # {} <=> b \in InCmds(cmdq)
    BY DEF InCmds, DataAt
  <2>. HIDE DEF C
  <2>3. Cardinality(C) = Ref(C # {})
    BY <2>1, AtMostOne
  <2>4. Ref(C # {}) = Ref(b \in InCmds(cmdq))
    BY <2>2 DEF Ref
  <2>. QED
    BY <2>3, <2>4
<1>4. Cardinality(K) = Ref(b \in InCalls(calling))
  <2>1. \A s \in K : b \in BufsOf[s] /\ s \in Streams
    BY <1>1, BufsKnown DEF BufType
  <2>2. \A s, t \in K : s = t
    BY <2>1, BufsKnown
  <2>3. K # {} <=> b \in InCalls(calling)
    BY DEF InCalls
  <2>. HIDE DEF K
  <2>4. Cardinality(K) = Ref(K # {})
    BY <2>2, AtMostOne
  <2>5. Ref(K # {}) = Ref(b \in InCalls(calling))
    BY <2>3 DEF Ref
  <2>. QED
    BY <2>4, <2>5
<1>5. Cardinality(A) = Ref(b \in InApps(appq))
  <2>1. \A s \in A : b \in BufsOf[s] /\ s \in Streams
    <3>1. \A s \in Streams : appq[s] \in Seq(BufsOf[s])
      BY <1>1 DEF BufType
    <3>2. \A s \in Streams : ToSet(appq[s]) \subseteq BufsOf[s]
      BY <3>1 DEF ToSet
    <3>. QED
      BY <3>2
  <2>2. \A s, t \in A : s = t
    BY <2>1, BufsKnown
  <2>3. A # {} <=> b \in InApps(appq)
    BY DEF InApps
  <2>. HIDE DEF A
  <2>4. Cardinality(A) = Ref(A # {})
    BY <2>2, AtMostOne
  <2>5. Ref(A # {}) = Ref(b \in InApps(appq))
    BY <2>3 DEF Ref
  <2>. QED
    BY <2>4, <2>5
<1>6. Cardinality(Q) = Ref(b \in SlotsIn(queue.nodes)) /\ Cardinality(B) = Ref(b \in SlotsIn(cbq))
  <2>1. queue.nodes \in Seq(GoodNode) /\ cbq \in Seq(GoodNode) /\ Apart(queue.nodes) /\ Apart(cbq)
    BY <1>1 DEF BufType, OnceInChannel, QueueType
  <2>. QED
    BY <2>1, NodesWith
<1>7. Holders(b) = Cardinality(C) + Cardinality(Q) + Cardinality(B) + held[b]
                   + Cardinality(P) + Cardinality(K) + Cardinality(A)
  BY DEF Holders
<1>8. refcnt[b] = Ref(b \in InCmds(cmdq)) + Ref(b \in SlotsIn(queue.nodes)) + Ref(b \in SlotsIn(cbq))
                  + held[b] + Ref(b \in InCalls(polled)) + Ref(b \in InCalls(calling)) + Ref(b \in InApps(appq))
  BY <1>1 DEF Counted
<1>9. Cardinality(P) = Ref(b \in InCalls(polled))
  <2>1. \A s \in P : b \in BufsOf[s] /\ s \in Streams
    BY <1>1, BufsKnown DEF BufType
  <2>2. \A s, t \in P : s = t
    BY <2>1, BufsKnown
  <2>3. P # {} <=> b \in InCalls(polled)
    BY DEF InCalls
  <2>. HIDE DEF P
  <2>4. Cardinality(P) = Ref(P # {})
    BY <2>2, AtMostOne
  <2>5. Ref(P # {}) = Ref(b \in InCalls(polled))
    BY <2>3 DEF Ref
  <2>. QED
    BY <2>4, <2>5
<1>. HIDE DEF C, K, P, A, Q, B
<1>. QED
  BY <1>3, <1>4, <1>5, <1>6, <1>7, <1>8, <1>9

-----------------------------------------------------------------------------
(* Theorems.                                                                *)

\* BufInv is an invariant: where a buffer is counted it is once, and the frames
\* of a stream reach the channel's thread in the order in which they were taken.
LEMMA BufInvariant == ASSUME FramesCountFromOne, WholeFlushes PROVE Spec => []BufInv
<1>1. Init => BufInv
  BY InvStarts
<1>2. BufInv /\ [Next]_vars => BufInv'
  BY StepKeeps
<1>. QED
  BY <1>1, <1>2, PTL DEF Spec

\* The count of every buffer is the number of its holders - the commands, the
\* queue, the callback thread, the stream's thread, the poll threads and the HAL,
\* for the channel's own streams and for those of another that are linked to it -
\* and the driver has the buffer exactly when there is none: whatever the order
\* in which mm_stream_data_notify, mm_channel_process_stream_buf, the callback
\* threads and mm_channel_qbuf take and drop references, no frame is overwritten
\* while somebody looks at it and no buffer is lost.  It needs frames that count
\* from one, and flushes that name the types of all the streams.
THEOREM BuffersAreCounted ==
    ASSUME FramesCountFromOne, WholeFlushes
    PROVE  Spec => []RefsAreHolders
<1>1. BufInv => RefsAreHolders
  BY CountedAreHolders
<1>2. Spec => []BufInv
  BY BufInvariant
<1>. QED
  BY <1>1, <1>2, PTL

-----------------------------------------------------------------------------
(* The queue as a line of nodes.                                            *)
LineNode == {n \in Node : /\ n.frame <= MaxFrame
                          /\ \A s \in Streams : n.slot[s] # Empty => n.slot[s].buf \in BufsOf[s]}

Alone == \E s : Streams = {s}

\* The first cnt nodes are matched, whole and in the order of their frames, the
\* others are not and are in the order of theirs; all are of the numbering e ...
Row(ns, cnt, e) ==
    /\ ns \in Seq(LineNode) /\ cnt \in 0..Len(ns)
    /\ \A i \in 1..Len(ns) : ns[i].matched <=> i <= cnt
    /\ \A i, j \in 1..Len(ns) : i < j /\ (j <= cnt \/ i > cnt) => ns[i].frame < ns[j].frame
    /\ \A i \in 1..Len(ns), s \in Streams : ns[i].slot[s] # Empty => ns[i].slot[s].epoch = e
    /\ \A i \in 1..cnt, s \in Streams : ns[i].slot[s] # Empty

\* ... and those that are not matched are few.
Line(ns, cnt, e) ==
    Row(ns, cnt, e) /\ Len(ns) - cnt <= MaxUnmatched + 1 /\ (Alone => cnt = Len(ns))

LEMMA LineNodes ==
    ASSUME NEW ns \in Seq(LineNode)
    PROVE  /\ DOMAIN ns = 1..Len(ns) /\ Len(ns) \in Nat
           /\ \A i \in 1..Len(ns) : /\ ns[i] \in LineNode /\ ns[i].frame \in Nat
                                    /\ ns[i].matched \in BOOLEAN
                                    /\ Slots(ns[i]) \subseteq Bufs /\ Filled(ns[i]) \subseteq Bufs
           /\ SlotsIn(ns) \subseteq Bufs
<1>1. DOMAIN ns = 1..Len(ns) /\ Len(ns) \in Nat /\ \A i \in 1..Len(ns) : ns[i] \in LineNode
  OBVIOUS
<1>2. ASSUME NEW n \in LineNode
      PROVE  n.frame \in Nat /\ n.matched \in BOOLEAN /\ Slots(n) \subseteq Bufs /\ Filled(n) \subseteq Bufs
  BY DEF LineNode, Node, Slot, Slots, Filled
<1>. QED
  BY <1>1, <1>2 DEF SlotsIn

LEMMA LineIs ==
    ASSUME NEW ns, NEW cnt, NEW e, Line(ns, cnt, e)
    PROVE  /\ Unmatched(ns) = (cnt + 1)..Len(ns)
           /\ MatchedPrefix(ns) = cnt
           /\ Cardinality(Unmatched(ns)) = Len(ns) - cnt
           /\ Cardinality(DOMAIN ns \ Unmatched(ns)) = cnt
<1>1. /\ DOMAIN ns = 1..Len(ns) /\ Len(ns) \in Nat /\ cnt \in Nat /\ cnt <= Len(ns)
      /\ \A i \in 1..Len(ns) : ns[i].matched <=> i <= cnt
  BY LineNodes DEF Line, Row
<1>. DEFINE l == Len(ns)
            T == {k \in 0..l : \A i \in 1..k : ns[i].matched}
<1>. HIDE DEF l
<1>2. Unmatched(ns) = (cnt + 1)..l /\ DOMAIN ns \ Unmatched(ns) = 1..cnt
  BY <1>1 DEF Unmatched, l
<1>3. T = 0..cnt
  BY <1>1 DEF l
<1>4. MatchedPrefix(ns) = Max(T)
  BY DEF MatchedPrefix, l
<1>. HIDE DEF T
<1>5. Max(0..cnt) = cnt
  BY <1>1 DEF Max
<1>6. Cardinality((cnt + 1)..l) = l - cnt /\ Cardinality(1..cnt) = cnt
  <2>1. \A a, b \in Int : Cardinality(a..b) = IF a > b THEN 0 ELSE b - a + 1
    BY FS_Interval
  <2>2. /\ Cardinality((cnt + 1)..l) = IF cnt + 1 > l THEN 0 ELSE l - (cnt + 1) + 1
        /\ Cardinality(1..cnt) = IF 1 > cnt THEN 0 ELSE cnt - 1 + 1
    <3>1. cnt + 1 \in Int /\ l \in Int /\ cnt \in Int /\ 1 \in Int
      BY <1>1 DEF l
    <3>. QED
      BY <2>1, <3>1
  <2>3. l \in Nat /\ cnt <= l
    BY <1>1 DEF l
  <2>. QED
    BY <1>1, <2>2, <2>3
<1>. QED
  BY <1>2, <1>3, <1>4, <1>5, <1>6 DEF l

\* ms is the line ns, cnt of whose nodes are matched, without its first nodes,
\* or empty; g says by how much the places move.
Shorter(ns, cnt, ms, d) ==
    /\ ms \in Seq(LineNode) /\ d \in Nat
    /\ \/ ms = <<>> /\ d = 0
       \/ \E k \in 0..cnt : /\ d = cnt - k /\ Len(ms) = Len(ns) - k
                            /\ \A i \in 1..Len(ms) : ms[i] = ns[i + k]

LEMMA ShorterLine ==
    ASSUME NEW ns, NEW cnt, NEW e, Line(ns, cnt, e), NEW ms, NEW d, Shorter(ns, cnt, ms, d)
    PROVE  /\ Line(ms, d, e)
           /\ \A s, f : Has(ms, s, f) => Has(ns, s, f)
           /\ \A i \in 1..d : \E j \in 1..cnt : ms[i].frame = ns[j].frame
<1>1. /\ DOMAIN ns = 1..Len(ns) /\ Len(ns) \in Nat /\ cnt \in Nat /\ cnt <= Len(ns)
      /\ DOMAIN ms = 1..Len(ms) /\ Len(ms) \in Nat /\ MaxUnmatched \in Nat
      /\ ms \in Seq(LineNode) /\ d \in Nat
  BY LineNodes, SuperBufAssumption DEF Line, Row, Shorter
<1>2. CASE ms = <<>> /\ d = 0
  <2>1. Len(ms) = 0 /\ DOMAIN ms = {} /\ d = 0
    BY <1>2
  <2>2. \A i \in 1..Len(ms) : FALSE
    BY <2>1
  <2>3. d \in 0..Len(ms) /\ Len(ms) - d <= MaxUnmatched + 1 /\ (Alone => d = Len(ms))
    BY <1>1, <2>1
  <2>4. \A i \in 1..d : FALSE
    BY <2>1
  <2>5. Line(ms, d, e)
    BY <1>1, <2>2, <2>3, <2>4 DEF Line, Row
  <2>. QED
    BY <2>1, <2>4, <2>5 DEF Has
<1>3. ASSUME NEW k \in 0..cnt, d = cnt - k, Len(ms) = Len(ns) - k, \A i \in 1..Len(ms) : ms[i] = ns[i + k]
      PROVE  /\ Line(ms, d, e)
             /\ \A s, f : Has(ms, s, f) => Has(ns, s, f)
             /\ \A i \in 1..d : \E j \in 1..cnt : ms[i].frame = ns[j].frame
  <2>1. \A i \in 1..Len(ms) : /\ i + k \in 1..Len(ns) /\ ms[i] = ns[i + k]
                              /\ (i + k <= cnt <=> i <= d) /\ (i + k > cnt <=> i > d)
    BY <1>1, <1>3
  <2>2. \A i \in 1..d : i \in 1..Len(ms) /\ i + k \in 1..cnt
    BY <1>1, <1>3
  <2>3. d \in 0..Len(ms) /\ Len(ms) - d = Len(ns) - cnt
    BY <1>1, <1>3
  <2>4. \A i \in 1..Len(ms) : ms[i].matched <=> i <= d
    BY <2>1 DEF Line, Row
  <2>5. \A i, j \in 1..Len(ms) : i < j /\ (j <= d \/ i > d) => ms[i].frame < ms[j].frame
    <3>1. \A i, j \in 1..Len(ms) : i < j => i + k < j + k
      BY <1>1, <1>3
    <3>. QED
      BY <2>1, <3>1, SMTT(30) DEF Line, Row
  <2>6. Len(ms) - d <= MaxUnmatched + 1 /\ (Alone => d = Len(ms))
    BY <1>1, <1>3, <2>3 DEF Line, Row
  <2>7. \A i \in 1..Len(ms), s \in Streams : ms[i].slot[s] # Empty => ms[i].slot[s].epoch = e
    BY <2>1 DEF Line, Row
  <2>8. \A i \in 1..d, s \in Streams : ms[i].slot[s] # Empty
    BY <2>1, <2>2 DEF Line, Row
  <2>9. \A s, f : Has(ms, s, f) => Has(ns, s, f)
    BY <1>1, <2>1 DEF Has
  <2>10. \A i \in 1..d : \E j \in 1..cnt : ms[i].frame = ns[j].frame
    BY <2>1, <2>2
  <2>. QED
    BY <1>1, <2>3, <2>4, <2>5, <2>6, <2>7, <2>8, <2>9, <2>10 DEF Line, Row
<1>. QED
  BY <1>2, <1>3 DEF Shorter

LEMMA ShorterShorter ==
    ASSUME NEW ns, NEW cnt \in Nat, Len(ns) \in Nat, NEW ms, NEW d, NEW ls, NEW c,
           Shorter(ns, cnt, ms, d), Shorter(ms, d, ls, c)
    PROVE  Shorter(ns, cnt, ls, c)
<1>1. ls \in Seq(LineNode) /\ c \in Nat /\ ms \in Seq(LineNode) /\ d \in Nat
      /\ Len(ls) \in Nat /\ Len(ms) \in Nat
  BY DEF Shorter
<1>2. CASE ls = <<>> /\ c = 0
  BY <1>1, <1>2 DEF Shorter
<1>3. ASSUME NEW k \in 0..d, c = d - k, Len(ls) = Len(ms) - k, \A i \in 1..Len(ls) : ls[i] = ms[i + k]
      PROVE  Shorter(ns, cnt, ls, c)
  <2>1. CASE ms = <<>> /\ d = 0
    <3>3. k = 0 /\ Len(ms) = 0 /\ d = 0
      BY <2>1
    <3>1. Len(ls) = 0 /\ c = 0
      BY <1>1, <1>3, <3>3
    <3>2. ls = <<>>
      BY <1>1, <3>1
    <3>. QED
      BY <1>1, <3>1, <3>2 DEF Shorter
  <2>2. ASSUME NEW j \in 0..cnt, d = cnt - j, Len(ms) = Len(ns) - j, \A i \in 1..Len(ms) : ms[i] = ns[i + j]
        PROVE  Shorter(ns, cnt, ls, c)
    <3>1. j + k \in 0..cnt /\ c = cnt - (j + k) /\ Len(ls) = Len(ns) - (j + k)
      BY <1>1, <1>3, <2>2
    <3>2. \A i \in 1..Len(ls) : i + k \in 1..Len(ms) /\ (i + k) + j = i + (j + k)
      BY <1>1, <1>3, <2>2
    <3>3. \A i \in 1..Len(ls) : ls[i] = ns[i + (j + k)]
      BY <1>3, <2>2, <3>2
    <3>. QED
      BY <1>1, <3>1, <3>3 DEF Shorter
  <2>. QED
    BY <2>1, <2>2 DEF Shorter
<1>. QED
  BY <1>2, <1>3 DEF Shorter

-----------------------------------------------------------------------------
(* What a command makes of the line.                                        *)
LineQueue == [nodes : Seq(LineNode), match_cnt : Int, expected : Nat, noLed : Nat]
LineWork == [q : LineQueue, ch : ChanType, rel : SUBSET Bufs, out : Seq(LineNode)]

Straight(w, e) == /\ w \in LineWork /\ w.out = <<>>
                  /\ Line(w.q.nodes, w.q.match_cnt, e)

\* From w to v the line loses nodes at its head, or all of them ...
Sheds(w, v) == /\ v \in LineWork /\ v.out = w.out
               /\ Shorter(w.q.nodes, w.q.match_cnt, v.q.nodes, v.q.match_cnt)

\* ... or none.
Alters(w, v) == /\ v \in LineWork /\ v.out = w.out
                /\ v.q.nodes = w.q.nodes /\ v.q.match_cnt = w.q.match_cnt

LEMMA WorkIs ==
    ASSUME NEW w, NEW e, Straight(w, e)
    PROVE  /\ w \in LineWork /\ w.out = <<>> /\ w.q \in LineQueue /\ w.ch \in ChanType
           /\ w.rel \in SUBSET Bufs /\ w.q.nodes \in Seq(LineNode) /\ w.q.match_cnt \in Nat
           /\ Line(w.q.nodes, w.q.match_cnt, e)
           /\ Len(w.q.nodes) \in Nat /\ w.q.match_cnt <= Len(w.q.nodes)
           /\ w.q.expected \in Nat /\ w.q.noLed \in Nat
<1>1. w \in LineWork /\ w.out = <<>> /\ Line(w.q.nodes, w.q.match_cnt, e)
  BY DEF Straight
<1>2. w.q \in LineQueue /\ w.ch \in ChanType /\ w.rel \in SUBSET Bufs
  BY <1>1 DEF LineWork
<1>3. w.q.nodes \in Seq(LineNode) /\ w.q.expected \in Nat /\ w.q.noLed \in Nat
  BY <1>2 DEF LineQueue
<1>4. Len(w.q.nodes) \in Nat /\ w.q.match_cnt \in 0..Len(w.q.nodes)
  BY <1>1, <1>3 DEF Line, Row
<1>. QED
  BY <1>1, <1>2, <1>3, <1>4

LEMMA AltersSheds ==
    ASSUME NEW w, NEW v, NEW e, Straight(w, e), Alters(w, v)
    PROVE  Sheds(w, v) /\ Straight(v, e)
<1>. DEFINE ns == w.q.nodes
            cnt == w.q.match_cnt
<1>1. ns \in Seq(LineNode) /\ cnt \in Nat /\ Len(ns) \in Nat
  BY WorkIs
<1>. HIDE DEF ns, cnt
<1>2. Shorter(ns, cnt, ns, cnt)
  <2>1. 0 \in 0..cnt /\ cnt = cnt - 0 /\ Len(ns) = Len(ns) - 0 /\ \A i \in 1..Len(ns) : ns[i] = ns[i + 0]
    BY <1>1
  <2>. QED
    BY <1>1, <2>1 DEF Shorter
<1>. QED
  BY <1>2 DEF Sheds, Alters, Straight, ns, cnt

LEMMA ShedsStraight ==
    ASSUME NEW w, NEW v, NEW e, Straight(w, e), Sheds(w, v)
    PROVE  Straight(v, e)
  BY ShorterLine DEF Straight, Sheds

LEMMA ShedsSheds ==
    ASSUME NEW u, NEW v, NEW w, NEW e, Straight(u, e), Sheds(u, v), Sheds(v, w)
    PROVE  Sheds(u, w)
<1>1. u.q.match_cnt \in Nat /\ Len(u.q.nodes) \in Nat
  BY WorkIs
<1>. QED
  BY <1>1, ShorterShorter DEF Sheds

\* v is w without its first k nodes, which are in rel or out.
LEMMA DropSheds ==
    ASSUME NEW w, NEW e, Straight(w, e), NEW k \in 0..w.q.match_cnt
    PROVE  /\ Sheds(w, Dequeue(w, k)) /\ Dequeue(w, k).ch = w.ch /\ Dequeue(w, k).rel = w.rel
           /\ Dequeue(w, k).q.match_cnt = w.q.match_cnt - k
           /\ Dequeue(w, k).q.nodes = After(w.q.nodes, k)
           /\ Dequeue(w, k).q \in LineQueue
           /\ Sheds(w, Discard(w, k)) /\ Discard(w, k).ch = w.ch
           /\ Discard(w, k).q.match_cnt = w.q.match_cnt - k
           /\ Leading(w.q.nodes, k) \in Seq(LineNode) /\ Len(Leading(w.q.nodes, k)) = k
           /\ \A i \in 1..k : Leading(w.q.nodes, k)[i] = w.q.nodes[i]
<1>. DEFINE ns == w.q.nodes
            cnt == w.q.match_cnt
            d == Dequeue(w, k)
            x == Discard(w, k)
            lead == Leading(ns, k)
            aft == After(ns, k)
<1>1. /\ w \in LineWork /\ ns \in Seq(LineNode) /\ cnt \in Nat /\ Len(ns) \in Nat /\ cnt <= Len(ns)
      /\ w.rel \in SUBSET Bufs
  BY WorkIs
<1>2. k \in 0..Len(ns)
  <2>. HIDE DEF ns
  <2>. QED
    BY <1>1
<1>3. /\ lead \in Seq(LineNode) /\ Len(lead) = k /\ \A i \in 1..k : lead[i] = ns[i]
      /\ aft \in Seq(LineNode) /\ Len(aft) = Len(ns) - k /\ \A i \in 1..(Len(ns) - k) : aft[i] = ns[i + k]
  BY <1>1, <1>2, Parts, ZenonT(40)
<1>4. d = [w EXCEPT !.q.nodes = aft, !.q.match_cnt = @ - k]
  BY DEF Dequeue
<1>5. x = [d EXCEPT !.rel = @ \cup SlotsIn(lead)]
  BY DEF Discard
<1>6. SlotsIn(lead) \subseteq Bufs
  BY <1>3, LineNodes
<1>. HIDE DEF d, x, lead, aft, ns
<1>7. cnt - k \in Nat
  BY <1>1
<1>8. d \in LineWork /\ d.out = w.out /\ d.q.nodes = aft /\ d.q.match_cnt = cnt - k /\ d.ch = w.ch /\ d.rel = w.rel
  <2>. DEFINE m == cnt - k
  <2>1. m \in Int /\ d = [w EXCEPT !.q.nodes = aft, !.q.match_cnt = m]
    BY <1>4, <1>7
  <2>. HIDE DEF m
  <2>2. d \in LineWork /\ d.out = w.out /\ d.q.nodes = aft /\ d.q.match_cnt = m /\ d.ch = w.ch /\ d.rel = w.rel
    BY <1>1, <1>3, <2>1 DEF LineWork, LineQueue
  <2>. QED
    BY <2>2 DEF m
<1>9. x \in LineWork /\ x.out = w.out /\ x.q = d.q /\ x.ch = w.ch
  BY <1>5, <1>6, <1>8 DEF LineWork
<1>. HIDE DEF cnt
<1>10. Shorter(ns, cnt, aft, cnt - k)
  <2>1. Len(ns) - k \in Nat /\ \A i \in 1..Len(aft) : aft[i] = ns[i + k]
    BY <1>3
  <2>. QED
    BY <1>3, <1>7, <2>1 DEF Shorter, cnt
<1>11. d.q \in LineQueue
  BY <1>8 DEF LineWork
<1>. QED
  BY <1>3, <1>8, <1>9, <1>10, <1>11 DEF Sheds, ns, cnt, d, x, lead, aft

LEMMA TrimSheds ==
    ASSUME NEW w, NEW e, Straight(w, e), NEW mark \in Nat
    PROVE  /\ Sheds(w, TrimTo(w, mark)) /\ TrimTo(w, mark).ch = w.ch
           /\ w.ch.mode = "BURST" => TrimTo(w, mark).q.match_cnt <= mark
<1>. DEFINE cnt == w.q.match_cnt
            T == {cnt - mark, MatchedPrefix(w.q.nodes)}
<1>1. cnt \in Nat /\ MatchedPrefix(w.q.nodes) = cnt /\ w \in LineWork
  BY WorkIs, LineIs
<1>. HIDE DEF cnt
<1>2. CASE ~(w.ch.mode = "CONTINUOUS" \/ cnt <= mark)
  <2>2. cnt - mark \in Nat /\ cnt - mark <= cnt /\ T = {cnt - mark, cnt} /\ cnt - (cnt - mark) = mark
    BY <1>1, <1>2
  <2>. HIDE DEF T
  <2>3. Min(T) \in T /\ \A y \in T : Min(T) <= y
    <3>1. T \in SUBSET Nat /\ T # {}
      BY <1>1, <2>2
    <3>. QED
      BY <3>1, MinIn
  <2>4. Min(T) = cnt - mark
    <3>1. Min(T) <= cnt - mark /\ (Min(T) = cnt - mark \/ Min(T) = cnt)
      BY <2>2, <2>3
    <3>. QED
      BY <1>1, <2>2, <3>1
  <2>5. TrimTo(w, mark) = Discard(w, cnt - mark)
    BY <1>2, <2>4 DEF TrimTo, T, cnt
  <2>6. cnt - mark \in 0..w.q.match_cnt
    BY <1>1, <2>2 DEF cnt
  <2>7. /\ Sheds(w, Discard(w, cnt - mark)) /\ Discard(w, cnt - mark).ch = w.ch
        /\ Discard(w, cnt - mark).q.match_cnt = cnt - (cnt - mark)
    BY <2>6, DropSheds DEF cnt
  <2>. QED
    BY <2>2, <2>5, <2>7
<1>3. CASE w.ch.mode = "CONTINUOUS" \/ cnt <= mark
  <2>1. TrimTo(w, mark) = w
    BY <1>3 DEF TrimTo, cnt
  <2>2. Alters(w, w)
    BY <1>1 DEF Alters
  <2>. QED
    BY <1>3, <2>1, <2>2, AltersSheds DEF cnt
<1>. QED
  BY <1>2, <1>3

LEMMA FlushMatchedSheds ==
    ASSUME NEW w, NEW e, Straight(w, e)
    PROVE  Sheds(w, FlushMatched(w)) /\ FlushMatched(w).ch = w.ch
<1>1. w.q.match_cnt \in Nat /\ MatchedPrefix(w.q.nodes) = w.q.match_cnt
  BY WorkIs, LineIs
<1>2. w.q.match_cnt \in 0..w.q.match_cnt
  BY <1>1
<1>. QED
  BY <1>1, <1>2, DropSheds DEF FlushMatched

LEMMA FlushSheds ==
    ASSUME NEW w, NEW e, Straight(w, e), NEW types
    PROVE  /\ Sheds(w, Flush(w, types)) /\ Flush(w, types).ch = w.ch
           /\ Flush(w, types).q.nodes = <<>> /\ Flush(w, types).q.match_cnt = 0
<1>. DEFINE ns == w.q.nodes
            v == Flush(w, types)
            gone == {b \in SlotsIn(ns) : \E t \in types : b \in BufsOf[t]}
            c == Cardinality(DOMAIN ns \ Unmatched(ns))
<1>1. w \in LineWork /\ ns \in Seq(LineNode) /\ w.q.match_cnt \in Nat /\ c = w.q.match_cnt
      /\ w.rel \in SUBSET Bufs
  BY WorkIs, LineIs
<1>2. gone \subseteq Bufs
  BY <1>1, LineNodes
<1>3. v = [w EXCEPT !.q.nodes = <<>>, !.q.match_cnt = @ - c, !.rel = @ \cup gone]
  BY DEF Flush
<1>. HIDE DEF v, ns, gone, c
<1>4. w.q.match_cnt - c = 0 /\ <<>> \in Seq(LineNode)
  BY <1>1
<1>5. v \in LineWork /\ v.out = w.out /\ v.q.nodes = <<>> /\ v.q.match_cnt = 0 /\ v.ch = w.ch
  <2>. DEFINE none == <<>>
              r == w.rel \cup gone
              m == w.q.match_cnt - c
  <2>1. v = [w EXCEPT !.q.nodes = none, !.q.match_cnt = m, !.rel = r]
    BY <1>3
  <2>2. none \in Seq(LineNode) /\ r \in SUBSET Bufs /\ m \in Int
    BY <1>1, <1>2, <1>4
  <2>. HIDE DEF none, r, m
  <2>3. v \in LineWork /\ v.out = w.out /\ v.q.nodes = none /\ v.q.match_cnt = m /\ v.ch = w.ch
    BY <1>1, <2>1, <2>2 DEF LineWork, LineQueue
  <2>. QED
    BY <1>4, <2>3 DEF none, m
<1>6. Shorter(ns, w.q.match_cnt, <<>>, 0)
  BY <1>4 DEF Shorter
<1>. QED
  BY <1>5, <1>6 DEF Sheds, v, ns

LEMMA ShedsAlters ==
    ASSUME NEW w, NEW v, NEW u, NEW e, Straight(w, e), Sheds(w, v), Alters(v, u)
    PROVE  Sheds(w, u)
<1>1. Straight(v, e)
  BY ShedsStraight
<1>2. Sheds(v, u)
  BY <1>1, AltersSheds
<1>. QED
  BY <1>2, ShedsSheds

LEMMA MetadataSheds ==
    ASSUME NEW w, NEW e, Straight(w, e), NEW f \in Nat, NEW m \in SaysType
    PROVE  /\ Sheds(w, HandleMetadata(w, f, m))
           /\ m.reset => HandleMetadata(w, f, m).q.nodes = <<>>
<1>. DEFINE fl == Flush(w, Streams)
            rn == Renumbered(w)
            v == IF m.reset THEN rn ELSE w
            later == [v EXCEPT !.q.expected = @ + FutureOffset]
            z0 == [v EXCEPT !.ch.zoom1x = FALSE, !.q.expected = f + 1]
            z1 == FlushMatched(later)
            l0 == [Flush(later, Streams) EXCEPT !.ch.needLED = TRUE]
            l1 == [v EXCEPT !.ch.needLED = FALSE]
            r0 == [v EXCEPT !.q.expected = m.range[1], !.q.noLed = m.range[2]]
            r1 == [v EXCEPT !.q.expected = m.range[1], !.ch.bracketing = "ACTIVE"]
            h == HandleMetadata(w, f, m)
<1>1. w \in LineWork /\ FutureOffset \in Nat
  BY SuperBufAssumption, WorkIs
<1>2. Sheds(w, fl) /\ fl.q.nodes = <<>> /\ fl \in LineWork
  BY FlushSheds DEF Sheds
<1>3. Alters(fl, rn) /\ rn.q.nodes = <<>>
  <2>1. rn = [fl EXCEPT !.q.expected = 1]
    BY DEF Renumbered
  <2>. HIDE DEF fl, rn
  <2>. QED
    BY <1>2, <2>1 DEF Alters, LineWork, LineQueue
<1>4. Sheds(w, v) /\ (m.reset => v.q.nodes = <<>>)
  <2>1. Sheds(w, rn)
    BY <1>2, <1>3, ShedsAlters
  <2>2. Alters(w, w)
    BY <1>1 DEF Alters
  <2>3. Sheds(w, w)
    BY <2>2, AltersSheds
  <2>. QED
    BY <1>3, <2>1, <2>3
<1>5. Straight(v, e) /\ v \in LineWork
  BY <1>4, ShedsStraight DEF Sheds
<1>6. m.range # <<>> => m.range[1] \in Nat /\ m.range[2] \in Nat
  BY DEF SaysType
<1>7. h \in {v, z0, z1, l0, l1} \/ (m.range # <<>> /\ h \in {r0, r1})
  BY DEF HandleMetadata
<1>. HIDE DEF v, h
<1>8. Alters(v, later) /\ Alters(v, v) /\ Alters(v, z0) /\ Alters(v, l1)
  <2>1. v.q.expected + FutureOffset \in Nat /\ f + 1 \in Nat
    BY <1>1, <1>5 DEF LineWork, LineQueue
  <2>2. Alters(v, later)
    BY <1>5, <2>1 DEF Alters, LineWork, LineQueue
  <2>3. Alters(v, z0)
    BY <1>5, <2>1 DEF Alters, LineWork, LineQueue, ChanType
  <2>4. Alters(v, l1) /\ Alters(v, v)
    BY <1>5 DEF Alters, LineWork, ChanType
  <2>. QED
    BY <2>2, <2>3, <2>4
<1>9. m.range # <<>> => Alters(v, r0) /\ Alters(v, r1)
  BY <1>5, <1>6 DEF Alters, LineWork, LineQueue, ChanType
<1>10. Sheds(v, later) /\ Straight(later, e)
  BY <1>5, <1>8, AltersSheds
<1>. HIDE DEF later
<1>11. Sheds(v, z1)
  BY <1>5, <1>10, FlushMatchedSheds, ShedsSheds
<1>12. Sheds(v, l0)
  <2>. DEFINE u == Flush(later, Streams)
  <2>1. Sheds(later, u) /\ u \in LineWork
    BY <1>10, FlushSheds DEF Sheds
  <2>. HIDE DEF u
  <2>2. l0 = [u EXCEPT !.ch.needLED = TRUE]
    BY DEF u
  <2>. HIDE DEF l0
  <2>3. Alters(u, l0)
    BY <2>1, <2>2 DEF Alters, LineWork, ChanType
  <2>4. Sheds(later, l0)
    BY <1>10, <2>1, <2>3, ShedsAlters
  <2>. QED
    BY <1>5, <1>10, <2>4, ShedsSheds
<1>. HIDE DEF z0, z1, l0, l1, r0, r1
<1>13. Sheds(v, h)
  BY <1>5, <1>7, <1>8, <1>9, <1>11, <1>12, AltersSheds
<1>14. Sheds(w, h)
  BY <1>4, <1>13, ShedsSheds
<1>15. v.q.nodes = <<>> => h.q.nodes = <<>>
  <2>1. SUFFICES ASSUME v.q.nodes = <<>>
                 PROVE  h.q.nodes = <<>>
    OBVIOUS
  <2>2. v.q.match_cnt = 0 /\ Len(v.q.nodes) = 0
    <3>1. v.q.match_cnt \in Nat /\ v.q.match_cnt <= Len(v.q.nodes)
      BY <1>5, WorkIs
    <3>. QED
      BY <2>1, <3>1
  <2>3. h.q.nodes \in Seq(LineNode) /\ (h.q.nodes = <<>> \/ Len(h.q.nodes) = 0)
    BY <1>13, <2>2 DEF Sheds, Shorter
  <2>. QED
    BY <2>3
<1>. QED
  BY <1>4, <1>14, <1>15 DEF h

LEMMA RequestSheds ==
    ASSUME NEW w, NEW e, Straight(w, e), NEW n \in Nat
    PROVE  Sheds(w, Request(w, n))
<1>. DEFINE u == [w EXCEPT !.ch.pending = n]
            v == TrimTo(u, LookBack)
            on == [v EXCEPT !.ch.started = TRUE, !.ch.needLED = FALSE, !.ch.skip = 0]
            off == [v EXCEPT !.ch.started = FALSE, !.ch.needLED = FALSE, !.ch.bracketing = "OFF"]
            r == Request(w, n)
<1>1. w \in LineWork /\ LookBack \in Nat
  BY SuperBufAssumption, WorkIs
<1>2. Alters(w, u)
  BY <1>1 DEF Alters, LineWork, ChanType
<1>3. Sheds(w, u) /\ Straight(u, e)
  BY <1>2, AltersSheds
<1>4. r \in {v, on, off}
  BY DEF Request
<1>. HIDE DEF u, r
<1>5. Sheds(u, v) /\ v \in LineWork
  BY <1>1, <1>3, TrimSheds DEF Sheds
<1>. HIDE DEF v
<1>6. Alters(v, on) /\ Alters(v, off) /\ Alters(v, v)
  BY <1>5 DEF Alters, LineWork, ChanType
<1>. HIDE DEF on, off
<1>7. Sheds(u, r)
  BY <1>3, <1>4, <1>5, <1>6, ShedsAlters
<1>. QED
  BY <1>3, <1>7, ShedsSheds DEF r

LEMMA GeneralSheds ==
    ASSUME NEW w, NEW e, Straight(w, e), NEW type \in {"BRACKETING", "FLASH", "ZOOM_1X"}, NEW on \in BOOLEAN
    PROVE  Sheds(w, General(w, type, on))
<1>. DEFINE u == Flush(w, Streams)
            p == IF on THEN "WAIT" ELSE "OFF"
            g == General(w, type, on)
<1>1. w \in LineWork
  BY WorkIs
<1>2. Sheds(w, u) /\ u \in LineWork
  BY FlushSheds DEF Sheds
<1>3. CASE type = "BRACKETING"
  <2>1. g = [u EXCEPT !.ch.bracketing = p] /\ p \in {"WAIT", "OFF"}
    BY <1>3 DEF General
  <2>. HIDE DEF g, u, p
  <2>2. Alters(u, g)
    BY <1>2, <2>1 DEF Alters, LineWork, ChanType
  <2>. QED
    BY <1>2, <2>2, ShedsAlters DEF g
<1>4. CASE type = "FLASH"
  <2>1. g = [w EXCEPT !.ch.flash = on]
    BY <1>4 DEF General
  <2>. HIDE DEF g
  <2>2. Alters(w, g)
    BY <1>1, <2>1 DEF Alters, LineWork, ChanType
  <2>. QED
    BY <2>2, AltersSheds DEF g
<1>5. CASE type = "ZOOM_1X"
  <2>1. g = [w EXCEPT !.ch.zoom1x = on]
    BY <1>5 DEF General
  <2>. HIDE DEF g
  <2>2. Alters(w, g)
    BY <1>1, <2>1 DEF Alters, LineWork, ChanType
  <2>. QED
    BY <2>2, AltersSheds DEF g
<1>. QED
  BY <1>3, <1>4, <1>5

LEMMA CommandSheds ==
    ASSUME NEW w, NEW e, Straight(w, e), NEW c \in Commands
    PROVE  Sheds(w, Handle(w, c)) /\ (c.cmd = "FLUSH" => Handle(w, c).q.nodes = <<>>)
<1>. DEFINE h == Handle(w, c)
<1>1. c \in CommandType /\ w \in LineWork
  BY SuperBufAssumption, WorkIs
<1>2. CASE c.cmd = "REQUEST"
  <2>1. c.n \in Nat /\ h = Request(w, c.n)
    BY <1>1, <1>2 DEF CommandType, Handle
  <2>. QED
    BY <1>2, <2>1, RequestSheds
<1>3. CASE c.cmd \in {"START_ZSL", "STOP_ZSL"}
  <2>1. h = [w EXCEPT !.ch.manual = TRUE] \/ h = [w EXCEPT !.ch.manual = FALSE]
    BY <1>3 DEF Handle
  <2>2. PICK on \in BOOLEAN : h = [w EXCEPT !.ch.manual = on]
    BY <2>1
  <2>. HIDE DEF h
  <2>3. Alters(w, h)
    BY <1>1, <2>2 DEF Alters, LineWork, ChanType
  <2>. QED
    BY <1>3, <2>3, AltersSheds DEF h
<1>4. CASE c.cmd = "NOTIFY"
  <2>. DEFINE m == c.mode
  <2>1. m \in {"BURST", "CONTINUOUS"} /\ h = [w EXCEPT !.ch.mode = m]
    BY <1>1, <1>4 DEF CommandType, Handle
  <2>. HIDE DEF h, m
  <2>2. Alters(w, h)
    BY <1>1, <2>1 DEF Alters, LineWork, ChanType
  <2>. QED
    BY <1>4, <2>2, AltersSheds DEF h
<1>5. CASE c.cmd = "GENERAL"
  <2>1. /\ c.type \in {"BRACKETING", "FLASH", "ZOOM_1X"} /\ c.start \in BOOLEAN
        /\ h = General(w, c.type, c.start)
    BY <1>1, <1>5 DEF CommandType, Handle
  <2>. QED
    BY <1>5, <2>1, GeneralSheds
<1>6. CASE c.cmd = "FLUSH"
  <2>. DEFINE f == c.frame
              u == [w EXCEPT !.q.expected = f]
  <2>1. f \in Nat /\ h = Flush(u, c.types)
    BY <1>1, <1>6 DEF CommandType, Handle
  <2>. HIDE DEF f
  <2>2. Alters(w, u)
    BY <1>1, <2>1 DEF Alters, LineWork, LineQueue
  <2>3. Sheds(w, u) /\ Straight(u, e)
    BY <2>2, AltersSheds
  <2>. HIDE DEF u
  <2>. QED
    BY <2>1, <2>3, FlushSheds, ShedsSheds
<1>7. c.cmd \in {"REQUEST", "START_ZSL", "STOP_ZSL", "NOTIFY", "GENERAL", "FLUSH"}
  BY <1>1 DEF CommandType
<1>. QED
  BY <1>2, <1>3, <1>4, <1>5, <1>6, <1>7

-----------------------------------------------------------------------------
(* What a frame makes of the line.                                          *)

\* The stream s has no buffer of the frame f, or of a later one, in the line.
Follows(ns, s, f) == \A g \in Nat : Has(ns, s, g) => g < f

\* From w to v the frame f of the stream s has come, or been given back.
Comes(w, v, s, f, e) ==
    /\ Straight(v, e)
    /\ \A t \in Streams : \A g : Has(v.q.nodes, t, g) => Has(w.q.nodes, t, g) \/ (t = s /\ g = f)
    /\ \A i \in 1..v.q.match_cnt : \/ v.q.nodes[i].frame = f
                                   \/ \E j \in 1..w.q.match_cnt : v.q.nodes[i].frame = w.q.nodes[j].frame

LEMMA MatchedBehind ==
    ASSUME NEW w, NEW e, Straight(w, e), NEW s \in Streams, NEW f, Follows(w.q.nodes, s, f)
    PROVE  \A i \in 1..w.q.match_cnt : w.q.nodes[i].frame < f
<1>1. TAKE i \in 1..w.q.match_cnt
<1>2. i \in DOMAIN w.q.nodes /\ w.q.nodes[i].frame \in Nat /\ w.q.nodes[i].slot[s] # Empty
  <2>1. i \in 1..Len(w.q.nodes) /\ w.q.nodes[i].slot[s] # Empty
    BY WorkIs DEF Line, Row
  <2>. QED
    BY <2>1, WorkIs, LineNodes
<1>. QED
  BY <1>2 DEF Follows, Has

LEMMA GivenBackComes ==
    ASSUME NEW w, NEW e, Straight(w, e), NEW s, NEW f, NEW b \in Bufs
    PROVE  Comes(w, [w EXCEPT !.rel = @ \cup {b}], s, f, e)
<1>. DEFINE v == [w EXCEPT !.rel = @ \cup {b}]
<1>1. w \in LineWork /\ w.out = <<>> /\ Line(w.q.nodes, w.q.match_cnt, e)
  BY WorkIs
<1>2. v \in LineWork /\ v.q = w.q /\ v.out = w.out
  BY <1>1 DEF LineWork
<1>. HIDE DEF v
<1>3. Straight(v, e)
  BY <1>1, <1>2 DEF Straight
<1>. QED
  BY <1>2, <1>3 DEF Comes, v

\* The node at i, which has no buffer of s, takes one: it stays where it is ...
LEMMA PutLine ==
    ASSUME NEW ns, NEW cnt, NEW e, Line(ns, cnt, e), NEW i \in Unmatched(ns), NEW n \in LineNode,
           n.frame = ns[i].frame, n.matched = ns[i].matched, NEW s \in Streams,
           \A t \in Streams : t # s => n.slot[t] = ns[i].slot[t],
           n.slot[s] # Empty => n.slot[s].epoch = e
    PROVE  /\ Line(Put(ns, i, n), cnt, e)
           /\ \A t \in Streams : \A f : Has(Put(ns, i, n), t, f) => Has(ns, t, f) \/ (t = s /\ f = n.frame)
           /\ \A j \in 1..cnt : Put(ns, i, n)[j] = ns[j]
<1>. DEFINE ms == Put(ns, i, n)
            l == Len(ns)
<1>1. /\ ns \in Seq(LineNode) /\ l \in Nat /\ DOMAIN ns = 1..l /\ cnt \in Nat /\ cnt <= l
      /\ Unmatched(ns) = (cnt + 1)..l /\ i \in 1..l /\ i > cnt
  <2>1. ns \in Seq(LineNode) /\ l \in Nat /\ DOMAIN ns = 1..l /\ cnt \in Nat /\ cnt <= l
    BY LineNodes DEF Line, Row
  <2>2. Unmatched(ns) = (cnt + 1)..l
    BY LineIs
  <2>. HIDE DEF l
  <2>. QED
    BY <2>1, <2>2
<1>2. ms \in Seq(LineNode) /\ Len(ms) = l /\ \A j \in 1..l : ms[j] = IF j = i THEN n ELSE ns[j]
  BY <1>1 DEF Put
<1>3. DOMAIN ms = 1..l
  BY <1>2, LineNodes
<1>. HIDE DEF ms, l
<1>4. \A j \in 1..l : ms[j].frame = ns[j].frame /\ ms[j].matched = ns[j].matched
  BY <1>2
<1>5. \A j \in 1..cnt : ms[j] = ns[j] /\ j \in 1..l
  BY <1>1, <1>2
<1>6. /\ \A j \in 1..l : ms[j].matched <=> j <= cnt
      /\ \A j, k \in 1..l : j < k /\ (k <= cnt \/ j > cnt) => ms[j].frame < ms[k].frame
      /\ \A j \in 1..cnt, t \in Streams : ms[j].slot[t] # Empty
      /\ l - cnt <= MaxUnmatched + 1 /\ (Alone => cnt = l)
  BY <1>4, <1>5 DEF Line, Row, l
<1>7. \A j \in 1..l, t \in Streams : ms[j].slot[t] # Empty => ms[j].slot[t].epoch = e
  <2>1. \A j \in 1..l, t \in Streams : ns[j].slot[t] # Empty => ns[j].slot[t].epoch = e
    BY DEF Line, Row, l
  <2>. QED
    BY <1>1, <1>2, <2>1
<1>8. Line(ms, cnt, e)
  BY <1>1, <1>2, <1>6, <1>7 DEF Line, Row
<1>9. ASSUME NEW t \in Streams, NEW f, Has(ms, t, f)
      PROVE  Has(ns, t, f) \/ (t = s /\ f = n.frame)
  <2>1. PICK j \in 1..l : ms[j].frame = f /\ ms[j].slot[t] # Empty
    BY <1>3, <1>9 DEF Has
  <2>2. CASE j = i /\ t = s
    BY <1>1, <1>2, <2>1, <2>2
  <2>3. CASE ~(j = i /\ t = s)
    <3>1. ns[j].frame = f /\ ns[j].slot[t] # Empty
      BY <1>2, <1>4, <2>1, <2>3
    <3>. QED
      BY <1>1, <3>1 DEF Has
  <2>. QED
    BY <2>2, <2>3
<1>. QED
  BY <1>5, <1>8, <1>9 DEF ms

\* ... or is complete: it comes behind the matched ones and those before it go.
LEMMA CompleteLine ==
    ASSUME NEW ns, NEW cnt, NEW e, Line(ns, cnt, e), NEW i \in Unmatched(ns), NEW n \in LineNode,
           n.frame = ns[i].frame, n.matched, NEW s \in Streams,
           \A t \in Streams : t # s => n.slot[t] = ns[i].slot[t],
           \A t \in Streams : n.slot[t] # Empty, n.slot[s].epoch = e,
           \A j \in 1..cnt : ns[j].frame < n.frame
    PROVE  /\ Line(Splice(ns, cnt, n, i), cnt + 1, e)
           /\ \A t \in Streams : \A f : Has(Splice(ns, cnt, n, i), t, f) => Has(ns, t, f) \/ (t = s /\ f = n.frame)
           /\ \A j \in 1..(cnt + 1) : \/ Splice(ns, cnt, n, i)[j].frame = n.frame
                                      \/ \E k \in 1..cnt : Splice(ns, cnt, n, i)[j].frame = ns[k].frame
<1>. DEFINE ms == Splice(ns, cnt, n, i)
            l == Len(ns)
            m == cnt + 1 + (l - i)
            g(j) == j - (cnt + 1) + i
<1>1. /\ ns \in Seq(LineNode) /\ l \in Nat /\ DOMAIN ns = 1..l /\ cnt \in Nat /\ cnt <= l
      /\ Unmatched(ns) = (cnt + 1)..l /\ i \in 1..l /\ i > cnt
  <2>1. ns \in Seq(LineNode) /\ l \in Nat /\ DOMAIN ns = 1..l /\ cnt \in Nat /\ cnt <= l
    BY LineNodes DEF Line, Row
  <2>2. Unmatched(ns) = (cnt + 1)..l
    BY LineIs
  <2>. HIDE DEF l
  <2>. QED
    BY <2>1, <2>2
<1>2. /\ ms \in Seq(LineNode) /\ Len(ms) = m
      /\ \A j \in 1..m : ms[j] = IF j <= cnt THEN ns[j] ELSE IF j = cnt + 1 THEN n ELSE ns[g(j)]
  <2>1. Splices(LineNode, ns, cnt, n, i)
    BY <1>1 DEF Splices
  <2>. QED
    BY <2>1, Around
<1>3. DOMAIN ms = 1..m
  BY <1>2, LineNodes
<1>. HIDE DEF ms, l
<1>4. /\ \A j \in 1..m : j > cnt + 1 => g(j) \in 1..l /\ g(j) > i /\ g(j) > cnt
      /\ \A j, k \in 1..m : j < k => g(j) < g(k)
      /\ cnt + 1 \in 1..m /\ m \in Nat /\ \A j \in 1..m : j <= cnt => j \in 1..l
      /\ \A j \in 1..cnt : j \in 1..m /\ j \in 1..l
      /\ m - (cnt + 1) < l - cnt /\ l - cnt \in Nat
  BY <1>1
<1>. HIDE DEF g, m
<1>5. \A j \in 1..m : ms[j].matched <=> j <= cnt + 1
  <2>1. TAKE j \in 1..m
  <2>2. CASE j <= cnt
    <3>1. j \in 1..l /\ ms[j] = ns[j] /\ j <= cnt + 1
      BY <1>1, <1>2, <1>4, <2>2
    <3>. QED
      BY <2>2, <3>1 DEF Line, Row, l
  <2>3. CASE j = cnt + 1
    BY <1>1, <1>2, <2>3
  <2>4. CASE j > cnt + 1
    <3>1. ms[j] = ns[g(j)] /\ g(j) \in 1..l /\ ~(g(j) <= cnt) /\ ~(j <= cnt + 1)
      <4>1. ~(j <= cnt) /\ j # cnt + 1 /\ ~(j <= cnt + 1) /\ g(j) \in 1..l /\ g(j) > cnt
        BY <1>1, <1>4, <2>4
      <4>2. ms[j] = ns[g(j)]
        BY <1>2, <4>1
      <4>. QED
        BY <1>1, <4>1, <4>2
    <3>. QED
      BY <3>1 DEF Line, Row, l
  <2>. QED
    BY <1>1, <2>2, <2>3, <2>4
<1>6. \A j, k \in 1..m : j < k /\ (k <= cnt + 1 \/ j > cnt + 1) => ms[j].frame < ms[k].frame
  <2>1. SUFFICES ASSUME NEW j \in 1..m, NEW k \in 1..m, j < k, k <= cnt + 1 \/ j > cnt + 1
                 PROVE  ms[j].frame < ms[k].frame
    OBVIOUS
  <2>2. CASE k <= cnt
    <3>1. j <= cnt /\ ms[j] = ns[j] /\ ms[k] = ns[k] /\ j \in 1..l /\ k \in 1..l
      BY <1>1, <1>2, <1>4, <2>1, <2>2
    <3>. QED
      BY <2>1, <2>2, <3>1 DEF Line, Row, l
  <2>3. CASE k = cnt + 1
    <3>1. j \in 1..cnt /\ ms[j] = ns[j] /\ ms[k] = n
      BY <1>1, <1>2, <1>4, <2>1, <2>3
    <3>. QED
      BY <3>1
  <2>4. CASE j > cnt + 1
    <3>1. k > cnt + 1
      BY <1>1, <2>1, <2>4
    <3>2. ~(j <= cnt) /\ j # cnt + 1 /\ ~(k <= cnt) /\ k # cnt + 1
      BY <1>1, <2>4, <3>1
    <3>3. ms[j] = ns[g(j)] /\ ms[k] = ns[g(k)]
      BY <1>2, <3>2
    <3>4. g(j) \in 1..l /\ g(k) \in 1..l /\ g(j) < g(k) /\ g(j) > cnt
      BY <1>4, <2>1, <2>4, <3>1
    <3>. QED
      BY <3>3, <3>4 DEF Line, Row, l
  <2>. QED
    BY <1>1, <2>1, <2>2, <2>3, <2>4
<1>7. \A j \in 1..m, t \in Streams : ms[j].slot[t] # Empty => ms[j].slot[t].epoch = e
  <2>1. \A j \in 1..l, t \in Streams : ns[j].slot[t] # Empty => ns[j].slot[t].epoch = e
    BY DEF Line, Row, l
  <2>2. \A t \in Streams : n.slot[t] # Empty => n.slot[t].epoch = e
    BY <1>1, <2>1
  <2>3. TAKE j \in 1..m
  <2>4. ms[j] = n \/ \E k \in 1..l : ms[j] = ns[k]
    BY <1>1, <1>2, <1>4
  <2>. QED
    BY <2>1, <2>2, <2>4
<1>8. \A j \in 1..(cnt + 1), t \in Streams : ms[j].slot[t] # Empty
  <2>1. TAKE j \in 1..(cnt + 1)
  <2>2. CASE j = cnt + 1
    BY <1>1, <1>2, <1>4, <2>2
  <2>3. CASE j \in 1..cnt
    <3>1. ms[j] = ns[j]
      BY <1>1, <1>2, <1>4, <2>3
    <3>. QED
      BY <2>3, <3>1 DEF Line, Row
  <2>. QED
    BY <1>1, <2>2, <2>3
<1>9. m - (cnt + 1) <= MaxUnmatched + 1 /\ ~Alone
  <2>1. l - cnt <= MaxUnmatched + 1 /\ (Alone => cnt = l) /\ MaxUnmatched \in Nat
    BY SuperBufAssumption DEF Line, Row, l
  <2>2. m - (cnt + 1) \in Int
    BY <1>1, <1>4
  <2>. QED
    BY <1>1, <1>4, <2>1, <2>2
<1>10. Line(ms, cnt + 1, e)
  <2>1. cnt + 1 \in 0..m
    BY <1>1, <1>4
  <2>. QED
    BY <1>2, <1>5, <1>6, <1>7, <1>8, <1>9, <2>1 DEF Line, Row
<1>11. ASSUME NEW t \in Streams, NEW f, Has(ms, t, f)
       PROVE  Has(ns, t, f) \/ (t = s /\ f = n.frame)
  <2>1. PICK j \in 1..m : ms[j].frame = f /\ ms[j].slot[t] # Empty
    BY <1>3, <1>11 DEF Has
  <2>2. ms[j] = n \/ \E k \in 1..l : ms[j] = ns[k]
    BY <1>1, <1>2, <1>4
  <2>3. CASE ms[j] = n /\ t # s
    BY <1>1, <2>1, <2>3 DEF Has
  <2>. QED
    BY <1>1, <2>1, <2>2, <2>3 DEF Has
<1>12. \A j \in 1..(cnt + 1) : ms[j].frame = n.frame \/ \E k \in 1..cnt : ms[j].frame = ns[k].frame
  <2>1. TAKE j \in 1..(cnt + 1)
  <2>2. CASE j = cnt + 1
    BY <1>1, <1>2, <1>4, <2>2
  <2>3. CASE j \in 1..cnt
    BY <1>1, <1>2, <1>4, <2>3
  <2>. QED
    BY <1>1, <2>2, <2>3
<1>. QED
  BY <1>10, <1>11, <1>12 DEF ms

\* The row ms is ns with the node n, or without one that is not matched.
Gains(ns, cnt, e, ms, n) ==
    /\ Row(ms, cnt, e) /\ Len(ms) = Len(ns) + 1
    /\ \A t \in Streams : \A f : Has(ms, t, f) => Has(ns, t, f) \/ (n.slot[t] # Empty /\ f = n.frame)
    /\ \A j \in 1..cnt : ms[j] = ns[j]

Loses(ns, cnt, e, ms) ==
    /\ Row(ms, cnt, e) /\ Len(ms) = Len(ns) - 1
    /\ \A t \in Streams : \A f : Has(ms, t, f) => Has(ns, t, f)
    /\ \A j \in 1..cnt : ms[j] = ns[j]

\* A node that is not matched comes into its place.
LEMMA InsertRow ==
    ASSUME NEW ns, NEW cnt, NEW e, Row(ns, cnt, e), NEW n \in LineNode, ~n.matched,
           NEW at \in (cnt + 1)..(Len(ns) + 1),
           \A k \in (cnt + 1)..Len(ns) : IF k < at THEN ns[k].frame < n.frame ELSE n.frame < ns[k].frame,
           \A t \in Streams : n.slot[t] # Empty => n.slot[t].epoch = e
    PROVE  Gains(ns, cnt, e, InsertAt(ns, at, n), n)
<1>. DEFINE ms == InsertAt(ns, at, n)
            l == Len(ns)
            u == Splice(ns, at - 1, n, at - 1)
<1>1. ns \in Seq(LineNode) /\ l \in Nat /\ DOMAIN ns = 1..l /\ cnt \in Nat /\ cnt <= l
  BY LineNodes DEF Row
<1>. HIDE DEF l
<1>2. at \in Nat /\ at >= 1 /\ at - 1 \in 0..l /\ at <= l + 1 /\ cnt < at /\ at - 1 \in (at - 1)..l
  BY <1>1 DEF l
<1>3. /\ ms \in Seq(LineNode) /\ Len(ms) = l + 1
      /\ \A j \in 1..(l + 1) : ms[j] = IF j < at THEN ns[j] ELSE IF j = at THEN n ELSE ns[j - 1]
  <2>1. ms = u
    <3>1. (at - 1) + 1 = at
      BY <1>2
    <3>. QED
      BY <3>1 DEF InsertAt, Leading, After, Splice
  <2>2. Splices(LineNode, ns, at - 1, n, at - 1)
    BY <1>1, <1>2 DEF Splices, l
  <2>. HIDE DEF ms, u
  <2>3. /\ u \in Seq(LineNode) /\ Len(u) = (at - 1) + 1 + (l - (at - 1))
        /\ \A j \in 1..((at - 1) + 1 + (l - (at - 1))) :
             u[j] = IF j <= at - 1 THEN ns[j]
                    ELSE IF j = (at - 1) + 1 THEN n ELSE ns[j - ((at - 1) + 1) + (at - 1)]
    BY <2>2, Around DEF u, l
  <2>4. (at - 1) + 1 + (l - (at - 1)) = l + 1 /\ (at - 1) + 1 = at
        /\ \A j \in 1..(l + 1) : (j <= at - 1 <=> j < at) /\ j - at + (at - 1) = j - 1
    BY <1>1, <1>2
  <2>. QED
    BY <2>1, <2>3, <2>4
<1>4. DOMAIN ms = 1..(l + 1)
  BY <1>3, LineNodes
<1>. HIDE DEF ms, u
<1>5. /\ \A j \in 1..(l + 1) : j < at => j \in 1..l /\ ms[j] = ns[j]
      /\ ms[at] = n /\ at \in 1..(l + 1)
      /\ \A j \in 1..(l + 1) : j > at => j - 1 \in 1..l /\ ms[j] = ns[j - 1] /\ j - 1 >= at /\ j - 1 > cnt
  <2>1. \A j \in 1..(l + 1) : j < at => j \in 1..l
    BY <1>1, <1>2
  <2>2. \A j \in 1..(l + 1) : j > at => j - 1 \in 1..l /\ j - 1 >= at /\ j - 1 > cnt /\ ~(j < at) /\ j # at
    BY <1>1, <1>2
  <2>3. at \in 1..(l + 1) /\ ~(at < at)
    BY <1>1, <1>2
  <2>. QED
    BY <1>3, <2>1, <2>2, <2>3
<1>6. \A j \in 1..cnt : j \in 1..(l + 1) /\ ms[j] = ns[j] /\ j \in 1..l
  <2>1. \A j \in 1..cnt : j \in 1..(l + 1) /\ j < at
    BY <1>1, <1>2
  <2>. QED
    BY <1>5, <2>1
<1>7. \A j \in 1..(l + 1) : ms[j].matched <=> j <= cnt
  <2>1. TAKE j \in 1..(l + 1)
  <2>2. CASE j < at
    BY <1>5, <2>2 DEF Row, l
  <2>3. CASE j = at
    BY <1>1, <1>2, <1>5, <2>3
  <2>4. CASE j > at
    <3>1. j - 1 \in 1..l /\ ms[j] = ns[j - 1] /\ j - 1 > cnt
      BY <1>5, <2>4
    <3>2. ~ns[j - 1].matched
      <4>1. ~(j - 1 <= cnt)
        BY <1>1, <3>1
      <4>. QED
        BY <3>1, <4>1 DEF Row, l
    <3>3. ~(j <= cnt)
      BY <1>1, <3>1
    <3>. QED
      BY <3>1, <3>2, <3>3
  <2>. QED
    BY <1>2, <2>2, <2>3, <2>4
<1>8. \A j, k \in 1..(l + 1) : j < k /\ (k <= cnt \/ j > cnt) => ms[j].frame < ms[k].frame
  <2>1. SUFFICES ASSUME NEW j \in 1..(l + 1), NEW k \in 1..(l + 1), j < k, k <= cnt \/ j > cnt
                 PROVE  ms[j].frame < ms[k].frame
    OBVIOUS
  <2>2. CASE k < at
    <3>1. j < at
      BY <1>2, <2>1, <2>2
    <3>. QED
      BY <1>5, <2>1, <2>2, <3>1 DEF Row, l
  <2>3. CASE k = at
    <3>1. j > cnt /\ j < at
      BY <1>1, <1>2, <2>1, <2>3
    <3>2. j \in (cnt + 1)..Len(ns) /\ ms[j] = ns[j] /\ ms[k] = n
      BY <1>1, <1>5, <2>3, <3>1 DEF l
    <3>. QED
      BY <3>1, <3>2
  <2>4. CASE k > at
    <3>1. k - 1 \in (cnt + 1)..Len(ns) /\ ms[k] = ns[k - 1] /\ ~(k - 1 < at) /\ k - 1 \in 1..l /\ j > cnt
          /\ k - 1 > cnt
      BY <1>1, <1>2, <1>5, <2>1, <2>4 DEF l
    <3>2. n.frame < ns[k - 1].frame
      BY <3>1
    <3>3. CASE j = at
      BY <1>5, <3>1, <3>2, <3>3
    <3>4. CASE j < at
      <4>1. j \in (cnt + 1)..Len(ns) /\ ms[j] = ns[j] /\ j \in 1..l
        BY <1>1, <1>5, <3>1, <3>4 DEF l
      <4>2. j < k - 1 \/ j = k - 1
        BY <1>1, <2>1
      <4>3. j # k - 1
        BY <3>1, <3>4
      <4>. QED
        BY <3>1, <4>1, <4>2, <4>3 DEF Row, l
    <3>5. CASE j > at
      <4>1. j - 1 \in 1..l /\ ms[j] = ns[j - 1] /\ j - 1 > cnt /\ j - 1 < k - 1
        BY <1>1, <1>2, <1>5, <2>1, <3>5
      <4>. QED
        BY <3>1, <4>1 DEF Row, l
    <3>. QED
      BY <1>2, <3>3, <3>4, <3>5
  <2>. QED
    BY <1>2, <2>1, <2>2, <2>3, <2>4
<1>9. \A j \in 1..(l + 1) : ms[j] = n \/ \E k \in 1..l : ms[j] = ns[k]
  <2>1. TAKE j \in 1..(l + 1)
  <2>2. CASE j < at
    BY <1>5, <2>2
  <2>3. CASE j = at
    BY <1>5, <2>3
  <2>4. CASE j > at
    BY <1>5, <2>4
  <2>. QED
    BY <1>2, <2>2, <2>3, <2>4
<1>10. \A j \in 1..(l + 1), t \in Streams : ms[j].slot[t] # Empty => ms[j].slot[t].epoch = e
  <2>1. \A j \in 1..l, t \in Streams : ns[j].slot[t] # Empty => ns[j].slot[t].epoch = e
    BY DEF Row, l
  <2>. QED
    BY <1>9, <2>1
<1>11. \A j \in 1..cnt, t \in Streams : ms[j].slot[t] # Empty
  BY <1>6 DEF Row
<1>12. Row(ms, cnt, e)
  <2>1. cnt \in 0..(l + 1)
    BY <1>1
  <2>. QED
    BY <1>3, <1>7, <1>8, <1>10, <1>11, <2>1 DEF Row
<1>13. ASSUME NEW t \in Streams, NEW f, Has(ms, t, f)
       PROVE  Has(ns, t, f) \/ (n.slot[t] # Empty /\ f = n.frame)
  <2>1. PICK j \in 1..(l + 1) : ms[j].frame = f /\ ms[j].slot[t] # Empty
    BY <1>4, <1>13 DEF Has
  <2>. QED
    BY <1>1, <1>9, <2>1 DEF Has
<1>. QED
  BY <1>3, <1>6, <1>12, <1>13 DEF Gains, ms, l

\* The first node that is not matched goes.
LEMMA RemoveRow ==
    ASSUME NEW ns, NEW cnt, NEW e, Row(ns, cnt, e), cnt < Len(ns)
    PROVE  Loses(ns, cnt, e, RemoveAt(ns, cnt + 1))
<1>. DEFINE ms == RemoveAt(ns, cnt + 1)
            l == Len(ns)
            g(j) == IF j < cnt + 1 THEN j ELSE j + 1
<1>1. ns \in Seq(LineNode) /\ l \in Nat /\ DOMAIN ns = 1..l /\ cnt \in Nat /\ cnt < l
  BY LineNodes DEF Row
<1>2. /\ ms \in Seq(LineNode) /\ Len(ms) = l - 1
      /\ \A j \in 1..(l - 1) : ms[j] = ns[g(j)]
  <2>1. cnt + 1 \in 1..Len(ns)
    BY <1>1
  <2>. QED
    BY <1>1, <2>1, RemovedIs
<1>3. DOMAIN ms = 1..(l - 1)
  BY <1>2, LineNodes
<1>. HIDE DEF ms, l
<1>4. /\ \A j \in 1..(l - 1) : g(j) \in 1..l /\ (g(j) <= cnt <=> j <= cnt)
      /\ \A j, k \in 1..(l - 1) : j < k => g(j) < g(k)
      /\ \A j \in 1..cnt : j \in 1..(l - 1) /\ g(j) = j
      /\ \A j \in 1..(l - 1) : g(j) > cnt <=> j > cnt
      /\ cnt \in 0..(l - 1)
  BY <1>1
<1>. HIDE DEF g
<1>5. \A j \in 1..(l - 1) : ms[j].matched <=> j <= cnt
  BY <1>2, <1>4 DEF Row, l
<1>6. \A j, k \in 1..(l - 1) : j < k /\ (k <= cnt \/ j > cnt) => ms[j].frame < ms[k].frame
  BY <1>2, <1>4 DEF Row, l
<1>7. \A j \in 1..(l - 1), t \in Streams : ms[j].slot[t] # Empty => ms[j].slot[t].epoch = e
  BY <1>2, <1>4 DEF Row, l
<1>8. \A j \in 1..cnt : ms[j] = ns[j]
  BY <1>2, <1>4
<1>9. \A j \in 1..cnt, t \in Streams : ms[j].slot[t] # Empty
  BY <1>8 DEF Row
<1>10. Row(ms, cnt, e)
  BY <1>2, <1>4, <1>5, <1>6, <1>7, <1>9 DEF Row
<1>11. \A t \in Streams : \A f : Has(ms, t, f) => Has(ns, t, f)
  BY <1>1, <1>2, <1>3, <1>4 DEF Has
<1>. QED
  BY <1>2, <1>8, <1>10, <1>11 DEF Loses, ms, l

\* A command's work with another line, and something given up.
Relined(u, ms, gone) == [u EXCEPT !.q.nodes = ms, !.rel = @ \cup gone]

Gives(v, ms, cnt, e) == Straight(v, e) /\ v.q.nodes = ms /\ v.q.match_cnt = cnt

LEMMA NewLine ==
    ASSUME NEW u \in LineWork, u.out = <<>>, NEW e, NEW ms, Line(ms, u.q.match_cnt, e), NEW gone \in SUBSET Bufs
    PROVE  Gives(Relined(u, ms, gone), ms, u.q.match_cnt, e)
<1>. DEFINE r == u.rel \cup gone
            v == Relined(u, ms, gone)
<1>1. ms \in Seq(LineNode) /\ r \in SUBSET Bufs
  BY DEF Line, Row, LineWork
<1>2. v = [u EXCEPT !.q.nodes = ms, !.rel = r]
  BY DEF Relined
<1>. HIDE DEF v, r
<1>3. v \in LineWork /\ v.out = <<>> /\ v.q.nodes = ms /\ v.q.match_cnt = u.q.match_cnt
  BY <1>1, <1>2 DEF LineWork, LineQueue
<1>. QED
  BY <1>3 DEF Gives, Straight, v

LEMMA JoinComes ==
    ASSUME NEW w, NEW e, Straight(w, e), NEW i \in Unmatched(w.q.nodes), NEW s \in Streams, NEW slot \in Slot,
           slot.buf \in BufsOf[s], slot.epoch = e, Follows(w.q.nodes, s, w.q.nodes[i].frame)
    PROVE  Comes(w, Join(w, i, s, slot), s, w.q.nodes[i].frame, e)
<1>. DEFINE ns == w.q.nodes
            cnt == w.q.match_cnt
            l == Len(ns)
            n == [ns[i] EXCEPT !.slot[s] = slot]
            older == {k \in Unmatched(ns) : k < i /\ ns[k].frame < n.frame}
            first == IF older = {} THEN i ELSE Min(older)
            full  == \A t \in Streams : n.frame # 0 /\ n.slot[t] # Empty
            nm == [n EXCEPT !.matched = TRUE]
            ms == Leading(ns, first - 1) \o <<nm>> \o After(ns, i)
            lost == UNION {Filled(ns[k]) : k \in first..(i - 1)}
            x == IF w.ch.flash THEN w.q.noLed ELSE n.frame + PostSkip
            v == Join(w, i, s, slot)
<1>1. /\ w \in LineWork /\ w.out = <<>> /\ ns \in Seq(LineNode) /\ w.rel \in SUBSET Bufs /\ Line(ns, cnt, e)
      /\ cnt \in Nat /\ w.q.noLed \in Nat /\ l \in Nat /\ cnt <= l
  BY WorkIs
<1>2. Unmatched(ns) = (cnt + 1)..l
  BY <1>1, LineIs
<1>. HIDE DEF ns, l, cnt
<1>3. i \in Unmatched(ns) /\ i \in 1..l /\ i > cnt /\ i \in Nat
  <2>1. i \in Unmatched(ns)
    BY DEF ns
  <2>. QED
    BY <1>1, <1>2, <2>1
<1>4. ns[i] \in LineNode /\ ns[i].frame \in Nat /\ DOMAIN ns = 1..l
  BY <1>1, <1>3, LineNodes DEF l
<1>5. /\ n \in LineNode /\ n.frame = ns[i].frame /\ n.matched = ns[i].matched /\ n.slot[s] = slot
      /\ \A t \in Streams : t # s => n.slot[t] = ns[i].slot[t]
  BY <1>4 DEF LineNode, Node
<1>6. \A j \in 1..cnt : ns[j].frame < n.frame
  BY <1>5, MatchedBehind DEF ns, cnt
<1>. HIDE DEF n
<1>7. CASE ~full
  <2>. DEFINE ms2 == Put(ns, i, n)
  <2>1. v = [w EXCEPT !.q.nodes = ms2]
    BY <1>7 DEF Join, ns, n, Put
  <2>2. /\ Line(ms2, cnt, e)
        /\ \A t \in Streams : \A f : Has(ms2, t, f) => Has(ns, t, f) \/ (t = s /\ f = n.frame)
        /\ \A j \in 1..cnt : ms2[j] = ns[j]
    BY <1>1, <1>3, <1>5, PutLine
  <2>. HIDE DEF ms2, v
  <2>3. v = [w EXCEPT !.q.nodes = ms2, !.rel = @ \cup {}]
    BY <1>1, <2>1 DEF LineWork
  <2>4. Straight(v, e) /\ v.q.nodes = ms2 /\ v.q.match_cnt = cnt
    <3>1. {} \in SUBSET Bufs /\ Line(ms2, w.q.match_cnt, e)
      BY <2>2 DEF cnt
    <3>2. v = Relined(w, ms2, {})
      BY <2>3 DEF Relined
    <3>3. w \in LineWork /\ w.out = <<>>
      BY <1>1
    <3>4. Gives(Relined(w, ms2, {}), ms2, w.q.match_cnt, e)
      BY <3>1, <3>3, NewLine
    <3>. QED
      BY <3>2, <3>4 DEF Gives, cnt
  <2>. QED
    BY <1>5, <2>2, <2>4 DEF Comes, v, ns, cnt
<1>8. CASE full
  <2>1. first = cnt + 1
    <3>1. older = (cnt + 1)..(i - 1)
      <4>1. \A k \in (cnt + 1)..l : k < i => ns[k].frame < ns[i].frame
        <5>1. \A j, k \in 1..l : j < k /\ j > cnt => ns[j].frame < ns[k].frame
          BY <1>1 DEF Line, Row, l
        <5>2. \A k \in (cnt + 1)..l : k \in 1..l /\ k > cnt
          BY <1>1
        <5>. QED
          BY <1>3, <5>1, <5>2
      <4>2. \A k : k \in (cnt + 1)..l /\ k < i <=> k \in (cnt + 1)..(i - 1)
        BY <1>1, <1>3
      <4>. QED
        BY <1>2, <1>5, <4>1, <4>2
    <3>. HIDE DEF older
    <3>2. CASE older = {}
      <4>1. cnt + 1 \notin (cnt + 1)..(i - 1)
        BY <3>1, <3>2
      <4>. QED
        BY <1>1, <1>3, <3>2, <4>1
    <3>3. CASE older # {}
      <4>1. older \in SUBSET Nat
        BY <1>1, <3>1
      <4>2. Min(older) \in older /\ \A y \in older : Min(older) <= y
        BY <3>3, <4>1, MinIn
      <4>3. cnt + 1 \in older
        <5>1. PICK y \in older : TRUE
          BY <3>3
        <5>. QED
          BY <1>1, <1>3, <3>1, <5>1
      <4>4. Min(older) >= cnt + 1 /\ Min(older) <= cnt + 1 /\ Min(older) \in Nat
        BY <1>1, <3>1, <4>1, <4>2, <4>3
      <4>. QED
        BY <1>1, <3>3, <4>4
    <3>. QED
      BY <3>2, <3>3
  <2>2. /\ nm \in LineNode /\ nm.frame = n.frame /\ nm.slot = n.slot /\ nm.matched
    BY <1>5 DEF LineNode, Node
  <2>3. v = [w EXCEPT !.q.nodes = ms, !.q.match_cnt = @ + 1, !.q.expected = x,
                      !.ch.flash = FALSE, !.rel = @ \cup lost]
    BY <1>8 DEF Join, ns, n
  <2>4. lost \in SUBSET Bufs
    <3>1. \A k \in first..(i - 1) : k \in 1..l
      BY <1>1, <1>3, <2>1
    <3>. HIDE DEF first
    <3>2. \A k \in 1..l : Filled(ns[k]) \subseteq Bufs
      BY <1>1, LineNodes DEF l
    <3>. QED
      BY <3>1, <3>2
  <2>5. x \in Nat
    <3>1. n.frame + PostSkip \in Nat
      BY <1>4, <1>5, SuperBufAssumption
    <3>. QED
      BY <1>1, <3>1
  <2>6. ms = Splice(ns, cnt, nm, i)
    <3>1. first - 1 = cnt
      BY <1>1, <2>1
    <3>. HIDE DEF first
    <3>. QED
      BY <3>1 DEF Splice
  <2>. HIDE DEF v, nm, ms, lost, x, first
  <2>7. /\ Line(ms, cnt + 1, e)
        /\ \A t \in Streams : \A f : Has(ms, t, f) => Has(ns, t, f) \/ (t = s /\ f = n.frame)
        /\ \A j \in 1..(cnt + 1) : ms[j].frame = n.frame \/ \E k \in 1..cnt : ms[j].frame = ns[k].frame
    <3>1. /\ nm.frame = ns[i].frame /\ \A t \in Streams : t # s => nm.slot[t] = ns[i].slot[t]
          /\ \A t \in Streams : nm.slot[t] # Empty
          /\ nm.slot[s].epoch = e
          /\ \A j \in 1..cnt : ns[j].frame < nm.frame
      BY <1>5, <1>6, <1>8, <2>2
    <3>2. /\ Line(Splice(ns, cnt, nm, i), cnt + 1, e)
          /\ \A t \in Streams : \A f : Has(Splice(ns, cnt, nm, i), t, f) =>
               Has(ns, t, f) \/ (t = s /\ f = nm.frame)
          /\ \A j \in 1..(cnt + 1) : \/ Splice(ns, cnt, nm, i)[j].frame = nm.frame
                                     \/ \E k \in 1..cnt : Splice(ns, cnt, nm, i)[j].frame = ns[k].frame
      BY <1>1, <1>3, <2>2, <3>1, CompleteLine, SMTT(30)
    <3>. QED
      BY <2>2, <2>6, <3>2
  <2>8. Straight(v, e) /\ v.q.nodes = ms /\ v.q.match_cnt = cnt + 1
    <3>. DEFINE m == cnt + 1
                r == w.rel \cup lost
    <3>1. m \in Int /\ r \in SUBSET Bufs /\ ms \in Seq(LineNode)
      BY <1>1, <2>4, <2>7 DEF Line, Row
    <3>2. v = [w EXCEPT !.q.nodes = ms, !.q.match_cnt = m, !.q.expected = x, !.ch.flash = FALSE, !.rel = r]
      BY <2>3 DEF cnt
    <3>. HIDE DEF m, r
    <3>3. v \in LineWork /\ v.out = <<>> /\ v.q.nodes = ms /\ v.q.match_cnt = m
      BY <1>1, <2>5, <3>1, <3>2 DEF LineWork, LineQueue, ChanType
    <3>. QED
      BY <2>7, <3>3 DEF Straight, m
  <2>. QED
    BY <1>5, <2>7, <2>8 DEF Comes, v, ns, cnt
<1>. QED
  BY <1>7, <1>8

LEMMA InsertComes ==
    ASSUME NEW w, NEW e, Straight(w, e), NEW s \in Streams, NEW slot \in Slot,
           slot.buf \in BufsOf[s], slot.epoch = e, NEW f \in 0..MaxFrame, Follows(w.q.nodes, s, f),
           \A i \in Unmatched(w.q.nodes) : w.q.nodes[i].frame # f
    PROVE  Comes(w, Insert(w, s, slot, f), s, f, e)
<1>. DEFINE ns == w.q.nodes
            cnt == w.q.match_cnt
            l == Len(ns)
            older == {k \in Unmatched(ns) : ns[k].frame < f}
            newer == {k \in Unmatched(ns) : ns[k].frame > f}
            at == Place(ns, f)
            alone == Streams = {s}
            n == [frame |-> f, matched |-> alone,
                  slot |-> [t \in Streams |-> IF t = s THEN slot ELSE Empty]]
            longer == InsertAt(ns, at, n)
            oldest == Min(older)
            x == f + PostSkip
            added == IF alone THEN [w EXCEPT !.q.match_cnt = @ + 1, !.q.expected = x] ELSE w
            d == IF oldest < at THEN oldest ELSE oldest + 1
            v == Insert(w, s, slot, f)
<1>1. /\ w \in LineWork /\ w.out = <<>> /\ ns \in Seq(LineNode) /\ w.rel \in SUBSET Bufs /\ Line(ns, cnt, e)
      /\ cnt \in Nat /\ l \in Nat /\ cnt <= l
  BY WorkIs
<1>2. /\ Unmatched(ns) = (cnt + 1)..l /\ Cardinality(Unmatched(ns)) = l - cnt /\ MaxUnmatched \in Nat
      /\ PostSkip \in Nat /\ x \in Nat
  <2>1. Unmatched(ns) = (cnt + 1)..l /\ Cardinality(Unmatched(ns)) = l - cnt
    BY <1>1, LineIs
  <2>2. MaxUnmatched \in Nat /\ PostSkip \in Nat /\ f \in Nat
    BY SuperBufAssumption
  <2>. QED
    BY <2>1, <2>2
<1>3. /\ slot # Empty /\ slot.buf \in Bufs /\ f \in Nat
      /\ n \in LineNode /\ n.frame = f /\ n.matched = alone /\ n.slot[s] = slot
      /\ \A t \in Streams : t # s => n.slot[t] = Empty
  <2>1. slot # Empty /\ slot.buf \in Bufs /\ f \in Nat /\ f <= MaxFrame
    BY SuperBufAssumption DEF Slot
  <2>. QED
    BY <2>1 DEF LineNode, Node
<1>4. \A j \in 1..cnt : ns[j].frame < f
  BY <1>3, MatchedBehind
<1>5. \A t \in Streams : n.slot[t] # Empty => t = s /\ n.slot[t].epoch = e
  BY <1>3
<1>6. \/ Crowded(ns) /\ older = {} /\ v = [w EXCEPT !.rel = @ \cup {slot.buf}]
      \/ Crowded(ns) /\ older # {} /\ v = [added EXCEPT !.q.nodes = RemoveAt(longer, d), !.rel = @ \cup Filled(ns[oldest])]
      \/ ~Crowded(ns) /\ v = [added EXCEPT !.q.nodes = longer]
  BY DEF Insert
<1>7. Crowded(ns) <=> MaxUnmatched < l - cnt
  BY <1>2 DEF Crowded
<1>8. l - cnt <= MaxUnmatched + 1 /\ (alone => cnt = l)
  BY <1>1 DEF Line, Alone
<1>9. at = IF newer = {} THEN l + 1 ELSE Min(newer)
  BY DEF Place
<1>. HIDE DEF n, v, at, x
<1>10. CASE Crowded(ns) /\ older = {} /\ v = [w EXCEPT !.rel = @ \cup {slot.buf}]
  BY <1>3, <1>10, GivenBackComes DEF v
<1>11. CASE alone
  <2>. DEFINE m == cnt + 1
  <2>1. /\ ~Crowded(ns) /\ newer = {} /\ at = l + 1 /\ cnt = l
    <3>1. cnt = l /\ ~(MaxUnmatched < l - cnt) /\ (cnt + 1)..l = {}
      BY <1>1, <1>2, <1>8, <1>11
    <3>2. newer = {}
      BY <1>2, <3>1
    <3>. QED
      BY <1>7, <1>9, <3>1, <3>2
  <2>2. v = [w EXCEPT !.q.match_cnt = m, !.q.expected = x, !.q.nodes = longer]
    BY <1>1, <1>6, <1>11, <2>1
  <2>3. longer = ns \o <<n>>
    <3>1. SubSeq(ns, 1, l) = ns /\ SubSeq(ns, l + 1, l) = <<>> /\ (l + 1) - 1 = l
      <4>1. SubSeq(ns, 1, Len(ns)) = ns
        BY <1>1
      <4>2. SubSeq(ns, l + 1, l) = <<>>
        BY <1>1
      <4>. QED
        BY <1>1, <4>1, <4>2
    <3>2. longer = SubSeq(ns, 1, (l + 1) - 1) \o <<n>> \o SubSeq(ns, l + 1, l)
      BY <2>1 DEF InsertAt
    <3>3. ns \o <<n>> \in Seq(LineNode)
      BY <1>1, <1>3
    <3>. HIDE DEF ns, l, longer
    <3>4. longer = (ns \o <<n>>) \o <<>>
      BY <3>1, <3>2
    <3>. QED
      BY <3>3, <3>4
  <2>4. /\ longer \in Seq(LineNode) /\ Len(longer) = l + 1 /\ longer[l + 1] = n
        /\ \A j \in 1..l : longer[j] = ns[j]
    <3>. HIDE DEF longer, ns
    <3>. QED
      BY <1>1, <1>3, <2>3
  <2>5. DOMAIN longer = 1..(l + 1) /\ DOMAIN ns = 1..l
    <3>. HIDE DEF longer, ns
    <3>. QED
      BY <1>1, <2>4, LineNodes
  <2>. HIDE DEF longer, ns, l
  <2>6. Line(longer, m, e)
    <3>1. \A j \in 1..(l + 1) : j \in 1..l \/ j = l + 1
      BY <1>1
    <3>2. \A j \in 1..(l + 1) : longer[j].matched /\ j <= m
      <4>1. \A j \in 1..l : ns[j].matched
        BY <1>1, <2>1 DEF Line, Row, l
      <4>2. \A j \in 1..(l + 1) : j <= m
        BY <1>1, <2>1
      <4>. QED
        BY <1>3, <1>11, <2>4, <3>1, <4>1, <4>2
    <3>3. \A j, k \in 1..(l + 1) : j < k => longer[j].frame < longer[k].frame
      <4>1. \A j, k \in 1..l : j < k => ns[j].frame < ns[k].frame
        BY <1>1, <2>1 DEF Line, Row, l
      <4>2. \A j, k \in 1..(l + 1) : j < k => j \in 1..l /\ (k \in 1..l \/ k = l + 1)
        BY <1>1
      <4>. QED
        BY <1>3, <1>4, <2>1, <2>4, <4>1, <4>2
    <3>4. \A j \in 1..(l + 1), t \in Streams : longer[j].slot[t] # Empty => longer[j].slot[t].epoch = e
      <4>1. \A j \in 1..l, t \in Streams : ns[j].slot[t] # Empty => ns[j].slot[t].epoch = e
        BY <1>1 DEF Line, Row, l
      <4>. QED
        BY <1>5, <2>4, <3>1, <4>1
    <3>5. \A j \in 1..m, t \in Streams : longer[j].slot[t] # Empty
      <4>1. \A j \in 1..l, t \in Streams : ns[j].slot[t] # Empty
        BY <1>1, <2>1 DEF Line, Row
      <4>. QED
        BY <1>3, <1>11, <2>1, <2>4, <3>1, <4>1
    <3>6. m = l + 1 /\ m \in 0..(l + 1) /\ (l + 1) - m <= MaxUnmatched + 1
      BY <1>1, <1>2, <2>1
    <3>. HIDE DEF m
    <3>. QED
      BY <2>4, <3>2, <3>3, <3>4, <3>5, <3>6 DEF Line, Row
  <2>7. Straight(v, e) /\ v.q.nodes = longer /\ v.q.match_cnt = m
    <3>1. m \in Int
      BY <1>1
    <3>. HIDE DEF m
    <3>2. v \in LineWork /\ v.out = <<>> /\ v.q.nodes = longer /\ v.q.match_cnt = m
      BY <1>1, <1>2, <2>2, <2>4, <3>1 DEF LineWork, LineQueue
    <3>. QED
      BY <2>6, <3>2 DEF Straight
  <2>8. \A t \in Streams : \A g : Has(longer, t, g) => Has(ns, t, g) \/ (t = s /\ g = f)
    <3>1. \A j \in 1..(l + 1) : j \in 1..l \/ j = l + 1
      BY <1>1
    <3>. QED
      BY <1>3, <2>4, <2>5, <3>1 DEF Has
  <2>9. \A j \in 1..m : longer[j].frame = f \/ \E k \in 1..cnt : longer[j].frame = ns[k].frame
    <3>1. \A j \in 1..m : j \in 1..l \/ j = l + 1
      BY <1>1, <2>1
    <3>. QED
      BY <1>3, <2>1, <2>4, <3>1
  <2>. QED
    BY <2>7, <2>8, <2>9 DEF Comes, v, ns
<1>12. CASE ~alone /\ ~(Crowded(ns) /\ older = {})
  <2>1. /\ at \in (cnt + 1)..(l + 1)
        /\ \A k \in (cnt + 1)..l : IF k < at THEN ns[k].frame < f ELSE f < ns[k].frame
    <3>0. \A k \in (cnt + 1)..l : /\ ns[k].frame \in Nat /\ ns[k].frame # f
                                  /\ k \in newer <=> ns[k].frame > f
      <4>1. \A k \in (cnt + 1)..l : k \in 1..l
        BY <1>1
      <4>2. \A k \in 1..l : ns[k].frame \in Nat
        BY <1>1, LineNodes
      <4>3. \A k \in (cnt + 1)..l : ns[k].frame # f
        BY <1>2
      <4>. QED
        BY <1>2, <4>1, <4>2, <4>3
    <3>1. CASE newer = {}
      <4>1. at = l + 1
        BY <1>9, <3>1
      <4>2. \A k \in (cnt + 1)..l : ns[k].frame < f /\ k < at
        BY <1>1, <1>3, <3>0, <3>1, <4>1
      <4>3. at \in (cnt + 1)..(l + 1)
        BY <1>1, <4>1
      <4>. QED
        BY <4>2, <4>3
    <3>2. CASE newer # {}
      <4>1. newer \in SUBSET Nat /\ newer \subseteq (cnt + 1)..l
        BY <1>1, <1>2
      <4>2. at \in newer /\ \A y \in newer : at <= y
        BY <1>9, <3>2, <4>1, MinIn
      <4>3. at \in (cnt + 1)..l /\ ns[at].frame > f
        BY <4>1, <4>2
      <4>4. \A k \in (cnt + 1)..l : k < at => ns[k].frame < f
        <5>1. TAKE k \in (cnt + 1)..l
        <5>2. k < at => k \notin newer
          BY <1>1, <4>1, <4>2
        <5>. QED
          BY <1>3, <3>0, <5>2
      <4>5. \A k \in (cnt + 1)..l : ~(k < at) => f < ns[k].frame
        <5>1. TAKE k \in (cnt + 1)..l
        <5>2. CASE k = at
          BY <4>3, <5>2
        <5>3. CASE k > at
          <6>1. \A i, j \in 1..l : i < j /\ i > cnt => ns[i].frame < ns[j].frame
            BY <1>1 DEF Line, Row
          <6>2. at \in 1..l /\ k \in 1..l /\ at > cnt
            BY <1>1, <4>3
          <6>3. ns[at].frame < ns[k].frame
            BY <5>3, <6>1, <6>2
          <6>. QED
            BY <1>3, <3>0, <4>3, <6>3
        <5>. QED
          BY <1>1, <4>3, <5>2, <5>3
      <4>6. at \in (cnt + 1)..(l + 1)
        BY <1>1, <4>3
      <4>. QED
        BY <4>4, <4>5, <4>6
    <3>. QED
      BY <3>1, <3>2
  <2>2. /\ Row(longer, cnt, e) /\ Len(longer) = l + 1
        /\ \A t \in Streams : \A g : Has(longer, t, g) => Has(ns, t, g) \/ (n.slot[t] # Empty /\ g = n.frame)
        /\ \A j \in 1..cnt : longer[j] = ns[j]
    <3>1. Row(ns, cnt, e) /\ ~n.matched
      BY <1>1, <1>3, <1>12 DEF Line
    <3>. HIDE DEF ns, cnt
    <3>2. \A t \in Streams : n.slot[t] # Empty => n.slot[t].epoch = e
      BY <1>5
    <3>3. Gains(ns, cnt, e, longer, n)
      BY <1>3, <2>1, <3>1, <3>2, InsertRow
    <3>. QED
      BY <3>3 DEF Gains
  <2>3. \A t \in Streams : \A g : Has(longer, t, g) => Has(ns, t, g) \/ (t = s /\ g = f)
    BY <1>3, <1>5, <2>2
  <2>4. ~Alone
    BY <1>12 DEF Alone
  <2>5. added = w
    BY <1>12
  <2>. DEFINE ms == IF Crowded(ns) THEN RemoveAt(longer, d) ELSE longer
              gone == IF Crowded(ns) THEN Filled(ns[oldest]) ELSE {}
  <2>6. Crowded(ns) => d = cnt + 1 /\ oldest \in 1..l
    <3>1. SUFFICES ASSUME Crowded(ns) PROVE d = cnt + 1 /\ oldest \in 1..l
      OBVIOUS
    <3>2. older # {} /\ older \in SUBSET Nat /\ older \subseteq (cnt + 1)..l
      <4>1. older # {} /\ older \subseteq (cnt + 1)..l
        BY <1>2, <1>12, <3>1
      <4>2. \A y \in (cnt + 1)..l : y \in Nat
        BY <1>1
      <4>. QED
        BY <4>1, <4>2
    <3>3. oldest \in older /\ \A y \in older : oldest <= y
      BY <3>2, MinIn
    <3>4. oldest \in (cnt + 1)..l /\ ns[oldest].frame < f
      BY <3>2, <3>3
    <3>. HIDE DEF oldest
    <3>5. cnt + 1 \in older
      <4>1. CASE oldest = cnt + 1
        BY <3>3, <4>1
      <4>2. CASE oldest # cnt + 1
        <5>1. \A i, j \in 1..l : i < j /\ i > cnt => ns[i].frame < ns[j].frame
          BY <1>1 DEF Line, Row
        <5>2. cnt + 1 \in 1..l /\ oldest \in 1..l /\ cnt + 1 < oldest /\ cnt + 1 > cnt /\ cnt + 1 \in (cnt + 1)..l
          BY <1>1, <3>4, <4>2
        <5>3. ns[cnt + 1].frame < ns[oldest].frame
          BY <5>1, <5>2
        <5>4. ns[cnt + 1].frame \in Nat /\ ns[oldest].frame \in Nat
          BY <1>1, <5>2, LineNodes
        <5>5. ns[cnt + 1].frame < f
          BY <1>3, <3>4, <5>3, <5>4
        <5>. QED
          BY <1>2, <5>2, <5>5
      <4>. QED
        BY <4>1, <4>2
    <3>6. oldest = cnt + 1
      BY <1>1, <3>3, <3>4, <3>5
    <3>7. oldest < at
      <4>1. IF oldest < at THEN ns[oldest].frame < f ELSE f < ns[oldest].frame
        BY <2>1, <3>4
      <4>2. ns[oldest].frame \in Nat
        BY <1>1, <3>4, LineNodes
      <4>. QED
        BY <1>3, <3>4, <4>1, <4>2
    <3>8. oldest \in 1..l
      BY <1>1, <3>4
    <3>. QED
      BY <3>6, <3>7, <3>8
  <2>7. /\ Line(ms, cnt, e)
        /\ \A t \in Streams : \A g : Has(ms, t, g) => Has(ns, t, g) \/ (t = s /\ g = f)
        /\ \A j \in 1..cnt : ms[j] = ns[j]
    <3>. HIDE DEF longer, ns, cnt
    <3>1. CASE Crowded(ns)
      <4>1. cnt < Len(longer) /\ ms = RemoveAt(longer, cnt + 1)
        BY <1>1, <2>2, <2>6, <3>1
      <4>. HIDE DEF ms
      <4>2. /\ Row(ms, cnt, e) /\ Len(ms) = Len(longer) - 1
            /\ \A t \in Streams : \A g : Has(ms, t, g) => Has(longer, t, g)
            /\ \A j \in 1..cnt : ms[j] = longer[j]
        <5>1. Loses(longer, cnt, e, ms)
          BY <2>2, <4>1, RemoveRow
        <5>. QED
          BY <5>1 DEF Loses
      <4>3. Len(ms) = l
        BY <1>1, <2>2, <4>1, <4>2
      <4>. HIDE DEF l
      <4>. QED
        BY <1>8, <2>2, <2>3, <2>4, <4>1, <4>2, <4>3 DEF Line
    <3>2. CASE ~Crowded(ns)
      <4>1. (l + 1) - cnt <= MaxUnmatched + 1
        BY <1>1, <1>2, <1>7, <3>2
      <4>. HIDE DEF l
      <4>. QED
        BY <2>2, <2>3, <2>4, <3>2, <4>1 DEF Line
    <3>. QED
      BY <3>1, <3>2
  <2>8. gone \in SUBSET Bufs
    <3>. HIDE DEF oldest
    <3>. QED
      BY <1>1, <2>6, LineNodes
  <2>9. v = [w EXCEPT !.q.nodes = ms, !.rel = @ \cup gone]
    <3>1. CASE Crowded(ns)
      BY <1>6, <1>12, <2>5, <3>1
    <3>2. CASE ~Crowded(ns)
      <4>. HIDE DEF added, longer, ns
      <4>1. v = [w EXCEPT !.q.nodes = longer]
        BY <1>6, <2>5, <3>2
      <4>2. ms = longer /\ gone = {} /\ w.rel \cup {} = w.rel
        BY <3>2
      <4>. QED
        BY <1>1, <4>1, <4>2 DEF LineWork
    <3>. QED
      BY <3>1, <3>2
  <2>. HIDE DEF ms, gone, v
  <2>10. Straight(v, e) /\ v.q.nodes = ms /\ v.q.match_cnt = cnt
    <3>1. v = Relined(w, ms, gone)
      BY <2>9 DEF Relined
    <3>2. w \in LineWork /\ w.out = <<>>
      BY <1>1
    <3>3. Gives(Relined(w, ms, gone), ms, w.q.match_cnt, e)
      BY <2>7, <2>8, <3>2, NewLine
    <3>. QED
      BY <3>1, <3>3 DEF Gives
  <2>. QED
    BY <2>7, <2>10 DEF Comes, v, ns, cnt
<1>. QED
  BY <1>10, <1>11, <1>12, <1>6

\* A frame, of whatever number, whose buffer is one of its stream's.
LineFrame == {c \in Frame : c.frame <= MaxFrame /\ c.slot.buf \in BufsOf[c.stream]}

\* The frame c comes after what its stream has in the line, and is of its numbering,
\* or the numbering starts again with it.
Arrives(w, e, c) == Resets(c) \/ (c.slot.epoch = e /\ Follows(w.q.nodes, c.stream, c.frame))

\* What a command has left of the queue: the line was ns, and c may be a frame.
Handled(ns, cnt, ms, d, c) ==
    /\ \A t \in Streams : \A g : Has(ms, t, g) =>
         \/ ~Resets(c) /\ Has(ns, t, g)
         \/ c.cmd = "DATA" /\ t = c.stream /\ g = c.frame
    /\ \A i \in 1..d : \/ c.cmd = "DATA" /\ ms[i].frame = c.frame
                       \/ ~Resets(c) /\ \E j \in 1..cnt : ms[i].frame = ns[j].frame

LEMMA EnqueueComes ==
    ASSUME NEW w, NEW e, Straight(w, e), NEW c \in LineFrame, Arrives(w, e, c)
    PROVE  LET v == CompAndEnqueue(w, c) IN
           /\ Straight(v, c.slot.epoch)
           /\ Handled(w.q.nodes, w.q.match_cnt, v.q.nodes, v.q.match_cnt, c)
<1>. DEFINE b == c.slot.buf
            s == c.stream
            f == c.frame
            d == c.slot.epoch
            u == IF s = Meta THEN HandleMetadata(w, f, c.meta) ELSE w
            ns == u.q.nodes
            same == {i \in Unmatched(ns) : ns[i].frame = f}
            x == CompAndEnqueue(w, c)
<1>1. /\ s \in Streams /\ f \in 0..MaxFrame /\ f \in Nat /\ c.slot \in Slot /\ b \in BufsOf[s] /\ b \in Bufs
      /\ c.meta \in SaysType /\ c.cmd = "DATA"
  BY SuperBufAssumption DEF LineFrame, Frame, Bufs
<1>2. Sheds(w, u) /\ (Resets(c) => ns = <<>>)
  <2>1. Sheds(w, w)
    <3>1. Alters(w, w)
      BY WorkIs DEF Alters
    <3>. QED
      BY <3>1, AltersSheds
  <2>2. CASE s = Meta
    BY <1>1, <2>2, MetadataSheds DEF Resets
  <2>3. CASE s # Meta
    BY <2>1, <2>3 DEF Resets
  <2>. QED
    BY <2>2, <2>3
<1>. HIDE DEF u
<1>3. Straight(u, e)
  BY <1>2, ShedsStraight
<1>4. /\ \A t, g : Has(ns, t, g) => Has(w.q.nodes, t, g)
      /\ \A i \in 1..u.q.match_cnt : \E j \in 1..w.q.match_cnt : ns[i].frame = w.q.nodes[j].frame
  <2>1. Line(w.q.nodes, w.q.match_cnt, e) /\ Shorter(w.q.nodes, w.q.match_cnt, ns, u.q.match_cnt)
    BY <1>2 DEF Straight, Sheds
  <2>. QED
    BY <2>1, ShorterLine
<1>5. Resets(c) => /\ u.q.match_cnt = 0 /\ \A t, g : ~Has(ns, t, g)
                   /\ Straight(u, d)
  <2>1. SUFFICES ASSUME ns = <<>>
                 PROVE  u.q.match_cnt = 0 /\ (\A t, g : ~Has(ns, t, g)) /\ Straight(u, d)
    BY <1>2
  <2>2. u.q.match_cnt = 0 /\ DOMAIN ns = {} /\ Len(ns) = 0
    <3>1. u.q.match_cnt \in Nat /\ u.q.match_cnt <= Len(ns)
      BY <1>3, WorkIs
    <3>. QED
      BY <2>1, <3>1
  <2>3. \A t, g : ~Has(ns, t, g)
    BY <2>2 DEF Has
  <2>4. Straight(u, d)
    <3>1. \A i \in 1..0 : FALSE
      OBVIOUS
    <3>2. Line(ns, u.q.match_cnt, e)
      BY <1>3 DEF Straight
    <3>3. Line(ns, u.q.match_cnt, d)
      BY <2>2, <3>1, <3>2 DEF Line, Row
    <3>. QED
      BY <1>3, <3>3 DEF Straight
  <2>. QED
    BY <2>2, <2>3, <2>4
<1>6. Straight(u, d) /\ Follows(ns, s, f)
  <2>1. CASE Resets(c)
    BY <1>5, <2>1 DEF Follows
  <2>2. CASE ~Resets(c)
    BY <1>3, <1>4, <2>2 DEF Arrives, Follows
  <2>. QED
    BY <2>1, <2>2
<1>7. same # {} => Min(same) \in same
  <2>1. same \in SUBSET Nat
    <3>1. ns \in Seq(LineNode)
      BY <1>3, WorkIs
    <3>2. \A i \in Unmatched(ns) : i \in Nat
      BY <3>1 DEF Unmatched
    <3>. QED
      BY <3>2
  <2>. HIDE DEF same
  <2>. QED
    BY <2>1, MinIn
<1>8. \/ x = [u EXCEPT !.rel = @ \cup {b}]
      \/ same # {} /\ x = Join(u, Min(same), s, c.slot)
      \/ same = {} /\ x = Insert(u, s, c.slot, f)
  BY DEF CompAndEnqueue, u
<1>. HIDE DEF x
<1>9. Comes(u, x, s, f, d)
  <2>1. CASE x = [u EXCEPT !.rel = @ \cup {b}]
    BY <1>1, <1>6, <2>1, GivenBackComes
  <2>2. CASE same # {} /\ x = Join(u, Min(same), s, c.slot)
    <3>. DEFINE i == Min(same)
    <3>1. i \in Unmatched(ns) /\ ns[i].frame = f
      BY <1>7, <2>2
    <3>. HIDE DEF i
    <3>. QED
      BY <1>1, <1>6, <2>2, <3>1, JoinComes DEF i
  <2>3. CASE same = {} /\ x = Insert(u, s, c.slot, f)
    <3>1. \A i \in Unmatched(ns) : ns[i].frame # f
      BY <2>3
    <3>. QED
      BY <1>1, <1>6, <2>3, <3>1, InsertComes
  <2>. QED
    BY <1>8, <2>1, <2>2, <2>3
<1>10. \A t \in Streams : \A g : Has(x.q.nodes, t, g) =>
         \/ ~Resets(c) /\ Has(w.q.nodes, t, g)
         \/ c.cmd = "DATA" /\ t = c.stream /\ g = c.frame
  BY <1>1, <1>4, <1>5, <1>9 DEF Comes
<1>11. \A i \in 1..x.q.match_cnt : \/ c.cmd = "DATA" /\ x.q.nodes[i].frame = c.frame
                                   \/ ~Resets(c) /\ \E j \in 1..w.q.match_cnt : x.q.nodes[i].frame = w.q.nodes[j].frame
  <2>1. TAKE i \in 1..x.q.match_cnt
  <2>2. CASE x.q.nodes[i].frame = f
    BY <1>1, <2>2
  <2>3. ASSUME NEW j \in 1..u.q.match_cnt, x.q.nodes[i].frame = ns[j].frame
        PROVE  ~Resets(c) /\ \E k \in 1..w.q.match_cnt : x.q.nodes[i].frame = w.q.nodes[k].frame
    <3>1. ~Resets(c)
      BY <1>5
    <3>. QED
      BY <1>4, <2>3, <3>1
  <2>. QED
    BY <1>9, <2>2, <2>3 DEF Comes
<1>. QED
  BY <1>9, <1>10, <1>11 DEF Comes, Handled, x

\* The first k nodes of the line go to the callback thread.
Sends(ns, cnt, k, out, ms, d) ==
    /\ k \in 0..cnt /\ d = cnt - k
    /\ out \in Seq(LineNode) /\ Len(out) = k /\ \A i \in 1..k : out[i] = ns[i]
    /\ ms \in Seq(LineNode) /\ Len(ms) = Len(ns) - k /\ \A i \in 1..Len(ms) : ms[i] = ns[i + k]

\* What is left undone when a command has been handled (ServedAtOnce).
Served(q, ch) ==
    IF ch.mode = "BURST" THEN q.match_cnt <= WaterMark /\ (ch.pending > 0 => q.match_cnt = 0)
                         ELSE q.match_cnt = 0

LEMMA DispatchSends ==
    ASSUME NEW w, NEW e, Straight(w, e), w.ch.mode = "BURST" => w.q.match_cnt <= WaterMark
    PROVE  LET v == Dispatch(w) IN
           /\ v.q \in LineQueue /\ v.ch \in ChanType /\ v.rel = w.rel /\ Served(v.q, v.ch)
           /\ \E k \in 0..w.q.match_cnt :
                Sends(w.q.nodes, w.q.match_cnt, k, v.out, v.q.nodes, v.q.match_cnt)
<1>. DEFINE ns    == w.q.nodes
            cnt   == w.q.match_cnt
            ready == MatchedPrefix(ns)
            burst == w.ch.mode = "BURST"
            pend  == w.ch.pending
            k     == IF burst THEN Min({pend, ready}) ELSE ready
            left  == IF burst THEN pend - k ELSE pend
            done  == burst /\ k > 0 /\ left = 0 /\ w.ch.started /\ ~w.ch.manual
            d     == Dequeue(w, k)
            lead  == Leading(ns, k)
            sent  == [d EXCEPT !.out = lead, !.ch.pending = left]
            v     == Dispatch(w)
<1>1. /\ w \in LineWork /\ ns \in Seq(LineNode) /\ pend \in Nat /\ w.out = <<>> /\ cnt \in Nat
      /\ Len(ns) \in Nat /\ cnt <= Len(ns) /\ w.ch \in ChanType
  BY WorkIs DEF ChanType
<1>2. v = IF ~done THEN sent
          ELSE [sent EXCEPT !.ch.skip = SkipCnt, !.ch.started = FALSE, !.ch.bracketing = "OFF"]
  BY DEF Dispatch
<1>. HIDE DEF v
<1>3. ready = cnt
  BY WorkIs, LineIs
<1>. HIDE DEF ready, cnt, pend
<1>4. k \in 0..cnt /\ left \in Nat /\ (burst /\ left > 0 => cnt - k = 0) /\ (~burst => cnt - k = 0)
      /\ cnt - k <= cnt
  <2>. DEFINE T == {pend, ready}
  <2>1. T \in SUBSET Nat /\ T # {}
    BY <1>1, <1>3
  <2>. HIDE DEF T
  <2>2. Min(T) \in T /\ \A y \in T : Min(T) <= y
    BY <2>1, MinIn
  <2>3. (Min(T) = pend \/ Min(T) = cnt) /\ Min(T) <= pend /\ Min(T) <= cnt /\ Min(T) \in Nat
    BY <1>3, <2>1, <2>2 DEF T
  <2>4. CASE burst
    <3>1. k = Min(T) /\ left = pend - k
      BY <2>4 DEF T
    <3>. HIDE DEF k, left
    <3>. QED
      BY <1>1, <2>3, <2>4, <3>1
  <2>5. CASE ~burst
    <3>1. k = cnt /\ left = pend
      BY <1>3, <2>5
    <3>. HIDE DEF k, left
    <3>. QED
      BY <1>1, <2>5, <3>1
  <2>. QED
    BY <2>4, <2>5
<1>. HIDE DEF k, left, done
<1>5. /\ Sheds(w, d) /\ d.ch = w.ch /\ d.rel = w.rel /\ d.q.match_cnt = cnt - k /\ d.q \in LineQueue
      /\ d.q.nodes = After(ns, k)
      /\ lead \in Seq(LineNode) /\ Len(lead) = k /\ \A i \in 1..k : lead[i] = ns[i]
  BY <1>4, DropSheds DEF cnt
<1>6. d \in LineWork
  BY <1>5 DEF Sheds
<1>7. /\ After(ns, k) \in Seq(LineNode) /\ Len(After(ns, k)) = Len(ns) - k
      /\ \A i \in 1..(Len(ns) - k) : After(ns, k)[i] = ns[i + k]
  <2>1. k \in 0..Len(ns)
    BY <1>1, <1>4
  <2>. HIDE DEF ns
  <2>. QED
    BY <1>1, <2>1, Parts
<1>. HIDE DEF d, lead, ns
<1>8. sent \in LineWork /\ sent.q = d.q /\ sent.rel = w.rel /\ sent.out = lead /\ sent.ch.mode = w.ch.mode
      /\ sent.ch.pending = left
  BY <1>4, <1>5, <1>6 DEF LineWork, ChanType
<1>. HIDE DEF sent
<1>9. v \in LineWork /\ v.q = d.q /\ v.rel = w.rel /\ v.out = lead /\ v.ch.mode = w.ch.mode
      /\ v.ch.pending = left
  <2>1. SkipCnt \in Nat
    BY SuperBufAssumption
  <2>. QED
    BY <1>2, <1>8, <2>1 DEF LineWork, ChanType
<1>10. Served(v.q, v.ch)
  <2>1. WaterMark \in Nat
    BY SuperBufAssumption
  <2>2. burst => cnt <= WaterMark
    BY DEF cnt
  <2>3. k \in Nat
    BY <1>1, <1>4
  <2>. QED
    BY <1>1, <1>4, <1>5, <1>9, <2>1, <2>2, <2>3 DEF Served
<1>11. Sends(ns, cnt, k, v.out, v.q.nodes, v.q.match_cnt)
  <2>. DEFINE aft == After(ns, k)
              m   == cnt - k
  <2>1. v.out = lead /\ v.q.nodes = aft /\ v.q.match_cnt = m
    BY <1>5, <1>9
  <2>2. /\ aft \in Seq(LineNode) /\ Len(aft) = Len(ns) - k
        /\ \A i \in 1..(Len(ns) - k) : aft[i] = ns[i + k]
    BY <1>7
  <2>. HIDE DEF aft
  <2>3. \A i \in 1..Len(aft) : aft[i] = ns[i + k]
    BY <2>2
  <2>4. Sends(ns, cnt, k, lead, aft, m)
    BY <1>4, <1>5, <2>2, <2>3 DEF Sends
  <2>. HIDE DEF m
  <2>. QED
    BY <2>1, <2>4
<1>12. v.q \in LineQueue /\ v.ch \in ChanType
  BY <1>9 DEF LineWork
<1>. QED
  BY <1>4, <1>9, <1>10, <1>11, <1>12 DEF v, ns, cnt

\* What a command works on, and what it leaves.
LEMMA OutcomeSends ==
    ASSUME queue \in LineQueue, chan \in ChanType, NEW e, Line(queue.nodes, queue.match_cnt, e),
           NEW c \in LineFrame \cup Commands, c.cmd = "DATA" => Arrives(Start, e, c)
    PROVE  LET v == Outcome(c) IN
           /\ v.q \in LineQueue /\ v.ch \in ChanType /\ v.rel \in SUBSET Bufs /\ Served(v.q, v.ch)
           /\ \E ns, cnt, k :
                /\ Line(ns, cnt, IF c.cmd = "DATA" THEN c.slot.epoch ELSE e)
                /\ Handled(queue.nodes, queue.match_cnt, ns, cnt, c)
                /\ Sends(ns, cnt, k, v.out, v.q.nodes, v.q.match_cnt)
<1>. DEFINE h == Handle(Start, c)
            v == Outcome(c)
            d == IF c.cmd = "DATA" THEN c.slot.epoch ELSE e
            t == TrimTo(h, WaterMark)
<1>1. Straight(Start, e) /\ Start.q = queue
  BY DEF Start, Straight, LineWork
<1>2. c.cmd = "DATA" <=> c \in LineFrame
  BY SuperBufAssumption DEF LineFrame, Frame, CommandType
<1>3. Straight(h, d) /\ Handled(queue.nodes, queue.match_cnt, h.q.nodes, h.q.match_cnt, c)
      /\ (c.cmd = "FLUSH" => h.q.nodes = <<>>)
  <2>1. CASE c.cmd = "DATA"
    <3>1. h = CompAndEnqueue(Start, c)
      BY <2>1 DEF Handle
    <3>. QED
      BY <1>1, <1>2, <2>1, <3>1, EnqueueComes
  <2>2. CASE c.cmd # "DATA"
    <3>1. Sheds(Start, h) /\ (c.cmd = "FLUSH" => h.q.nodes = <<>>)
      BY <1>1, <1>2, <2>2, CommandSheds
    <3>. HIDE DEF h
    <3>2. Straight(h, e)
      BY <1>1, <3>1, ShedsStraight
    <3>3. /\ \A s, f : Has(h.q.nodes, s, f) => Has(queue.nodes, s, f)
          /\ \A i \in 1..h.q.match_cnt : \E j \in 1..queue.match_cnt : h.q.nodes[i].frame = queue.nodes[j].frame
      <4>1. Shorter(queue.nodes, queue.match_cnt, h.q.nodes, h.q.match_cnt)
        BY <1>1, <3>1 DEF Sheds
      <4>. QED
        BY <4>1, ShorterLine
    <3>4. Handled(queue.nodes, queue.match_cnt, h.q.nodes, h.q.match_cnt, c)
      BY <2>2, <3>3 DEF Handled, Resets
    <3>. QED
      BY <2>2, <3>1, <3>2, <3>4
  <2>. QED
    BY <2>1, <2>2
<1>. HIDE DEF h, d
<1>4. v = IF c.cmd = "FLUSH" THEN h ELSE Dispatch(t)
  BY DEF Outcome, h, Start
<1>5. CASE c.cmd = "FLUSH"
  <2>1. v = h /\ h.q.nodes = <<>>
    BY <1>3, <1>4, <1>5
  <2>. HIDE DEF v
  <2>2. /\ h.q \in LineQueue /\ h.ch \in ChanType /\ h.rel \in SUBSET Bufs /\ h.out = <<>>
        /\ h.q.match_cnt \in Nat /\ h.q.match_cnt <= Len(h.q.nodes) /\ h.q.nodes \in Seq(LineNode)
        /\ Line(h.q.nodes, h.q.match_cnt, d)
    BY <1>3, WorkIs
  <2>3. h.q.match_cnt = 0
    BY <2>1, <2>2
  <2>4. Served(h.q, h.ch)
    <3>1. WaterMark \in Nat
      BY SuperBufAssumption
    <3>. QED
      BY <2>3, <3>1 DEF Served
  <2>5. Sends(h.q.nodes, h.q.match_cnt, 0, h.out, h.q.nodes, h.q.match_cnt)
    <3>1. Len(h.q.nodes) = 0 /\ Len(h.out) = 0 /\ h.out \in Seq(LineNode)
      BY <2>1, <2>2
    <3>. QED
      BY <2>2, <2>3, <3>1 DEF Sends
  <2>. QED
    BY <1>3, <2>1, <2>2, <2>4, <2>5 DEF v, d
<1>6. CASE c.cmd # "FLUSH"
  <2>1. /\ Sheds(h, t) /\ t.ch = h.ch /\ (t.ch.mode = "BURST" => t.q.match_cnt <= WaterMark)
    BY <1>3, TrimSheds, SuperBufAssumption
  <2>2. v = Dispatch(t)
    BY <1>4, <1>6
  <2>. HIDE DEF t, v
  <2>3. Straight(t, d) /\ Line(t.q.nodes, t.q.match_cnt, d) /\ t.rel \in SUBSET Bufs
    <3>1. Straight(t, d)
      BY <1>3, <2>1, ShedsStraight
    <3>. QED
      BY <3>1, WorkIs
  <2>4. Handled(queue.nodes, queue.match_cnt, t.q.nodes, t.q.match_cnt, c)
    <3>1. Shorter(h.q.nodes, h.q.match_cnt, t.q.nodes, t.q.match_cnt) /\ Line(h.q.nodes, h.q.match_cnt, d)
      BY <1>3, <2>1 DEF Sheds, Straight
    <3>2. /\ \A s, f : Has(t.q.nodes, s, f) => Has(h.q.nodes, s, f)
          /\ \A i \in 1..t.q.match_cnt : \E j \in 1..h.q.match_cnt : t.q.nodes[i].frame = h.q.nodes[j].frame
      BY <3>1, ShorterLine
    <3>. QED
      BY <1>3, <3>2 DEF Handled
  <2>5. /\ v.q \in LineQueue /\ v.ch \in ChanType /\ v.rel = t.rel /\ Served(v.q, v.ch)
        /\ \E k \in 0..t.q.match_cnt :
             Sends(t.q.nodes, t.q.match_cnt, k, v.out, v.q.nodes, v.q.match_cnt)
    BY <2>1, <2>2, <2>3, DispatchSends
  <2>. QED
    BY <2>3, <2>4, <2>5 DEF v, d
<1>. QED
  BY <1>5, <1>6
-----------------------------------------------------------------------------
(* The frames on their way to the channel's thread, and what the HAL gets.   *)
LineSeq == Seq(LineFrame \cup Commands)

\* A frame comes before another by its numbering, then by its number.
Earlier(e, f, d, g) == e < d \/ (e = d /\ f < g)

\* What follows place i of q, and what the driver will give next, is of later
\* frames of the stream s than f of the numbering e ...
Leads(q, i, s, e, f, ep, nx) ==
    /\ \A j \in DataAt(q) : i < j /\ q[j].stream = s => Earlier(e, f, q[j].slot.epoch, q[j].frame)
    /\ Earlier(e, f, ep, nx[s])

\* ... and is of that numbering, unless the numbering starts again on the way.
Renewed(q, i, e, ep, fr) ==
    /\ \A j \in DataAt(q) : i < j => \/ q[j].slot.epoch = e
                                     \/ e < q[j].slot.epoch /\ Restarts(q, i + 1, j)
    /\ e = ep \/ (e < ep /\ (fr \/ Restarts(q, i + 1, Len(q))))

\* Each frame of q is followed by later ones.
Lined(q, ep, fr, nx) ==
    \A i \in DataAt(q) : /\ Leads(q, i, q[i].stream, q[i].slot.epoch, q[i].frame, ep, nx)
                         /\ Renewed(q, i, q[i].slot.epoch, ep, fr)

LEMMA EarlierEarlier ==
    \A e, f, d, g, c, h \in Nat : Earlier(e, f, d, g) /\ Earlier(d, g, c, h) => Earlier(e, f, c, h)
  BY DEF Earlier

LEMMA FrameIs ==
    ASSUME NEW c \in LineFrame \cup Commands
    PROVE  /\ c.cmd = "DATA" <=> c \in LineFrame
           /\ c \in LineFrame => /\ c.stream \in Streams /\ c.frame \in Nat /\ c.frame <= MaxFrame
                                 /\ c.slot.epoch \in Nat /\ c.slot.epoch <= MaxEpoch
  BY SuperBufAssumption DEF LineFrame, Frame, CommandType, Slot

LEMMA DataIs ==
    ASSUME NEW q \in LineSeq, NEW i \in DataAt(q)
    PROVE  /\ q[i] \in LineFrame /\ i \in 1..Len(q) /\ i \in Nat /\ Len(q) \in Nat
           /\ q[i].stream \in Streams /\ q[i].frame \in Nat /\ q[i].slot.epoch \in Nat
<1>1. i \in 1..Len(q) /\ Len(q) \in Nat /\ q[i] \in LineFrame \cup Commands /\ q[i].cmd = "DATA"
  BY DEF DataAt, LineSeq
<1>. QED
  BY <1>1, FrameIs

LEMMA TailLined ==
    ASSUME NEW q \in LineSeq, q # <<>>, NEW ep, NEW fr, NEW nx
    PROVE  /\ \A i \in Nat : \A s, e, f : Leads(q, i, s, e, f, ep, nx) =>
                /\ i > 0 => Leads(Tail(q), i - 1, s, e, f, ep, nx)
                /\ i = 0 => Leads(Tail(q), 0, s, e, f, ep, nx)
                /\ i = 0 /\ Head(q).cmd = "DATA" /\ Head(q).stream = s =>
                     Earlier(e, f, Head(q).slot.epoch, Head(q).frame)
           /\ \A i \in Nat : \A e : Renewed(q, i, e, ep, fr) =>
                /\ i > 0 => Renewed(Tail(q), i - 1, e, ep, fr)
                /\ i = 0 /\ ~Resets(Head(q)) =>
                     Renewed(Tail(q), 0, e, ep, fr) /\ (Head(q).cmd = "DATA" => Head(q).slot.epoch = e)
<1>. DEFINE t == Tail(q)
            n == Len(q)
<1>1. /\ n \in Nat /\ n >= 1 /\ Len(t) = n - 1 /\ Head(q) = q[1]
      /\ \A i \in 1..(n - 1) : t[i] = q[i + 1]
      /\ \A i \in DataAt(t) : i \in 1..(n - 1) /\ i + 1 \in DataAt(q)
      /\ 1 \in DataAt(q) <=> Head(q).cmd = "DATA"
  BY TailCmds DEF LineSeq
<1>. HIDE DEF t, n
<1>2. \A i \in DataAt(t) : i \in Nat /\ i >= 1 /\ i <= n - 1 /\ t[i] = q[i + 1] /\ i + 1 \in DataAt(q)
  BY <1>1
<1>3. \A i, j \in Nat : 1 <= i /\ j <= n /\ Restarts(q, i, j) /\ (i = 1 => ~Resets(q[1])) =>
        Restarts(t, IF i = 1 THEN 1 ELSE i - 1, j - 1)
  <2>1. SUFFICES ASSUME NEW i \in Nat, NEW j \in Nat, 1 <= i, j <= n, NEW k \in i..j, Resets(q[k]),
                        i = 1 => ~Resets(q[1])
                 PROVE  Restarts(t, IF i = 1 THEN 1 ELSE i - 1, j - 1)
    BY DEF Restarts
  <2>2. k # 1
    BY <2>1
  <2>3. k - 1 \in 1..(n - 1) /\ (k - 1) + 1 = k /\ k - 1 \in (IF i = 1 THEN 1 ELSE i - 1)..(j - 1)
    BY <1>1, <2>1, <2>2
  <2>4. t[k - 1] = q[k]
    BY <1>1, <2>3
  <2>. QED
    BY <2>1, <2>3, <2>4 DEF Restarts
<1>4. ASSUME NEW i \in Nat, NEW s, NEW e, NEW f, Leads(q, i, s, e, f, ep, nx)
      PROVE  /\ i > 0 => Leads(t, i - 1, s, e, f, ep, nx)
             /\ i = 0 => Leads(t, 0, s, e, f, ep, nx)
             /\ i = 0 /\ Head(q).cmd = "DATA" /\ Head(q).stream = s =>
                  Earlier(e, f, Head(q).slot.epoch, Head(q).frame)
  <2>1. ASSUME NEW l \in Nat, l + 1 >= i
        PROVE  Leads(t, l, s, e, f, ep, nx)
    <3>1. \A j \in DataAt(t) : l < j => i < j + 1
      BY <1>2, <2>1
    <3>. QED
      BY <1>2, <1>4, <3>1 DEF Leads
  <2>2. (i > 0 => i - 1 \in Nat /\ (i - 1) + 1 >= i) /\ 0 \in Nat /\ (i = 0 => 0 + 1 >= i)
    OBVIOUS
  <2>3. i = 0 => i < 1
    OBVIOUS
  <2>. QED
    BY <1>1, <1>4, <2>1, <2>2, <2>3 DEF Leads
<1>5. ASSUME NEW i \in Nat, NEW e, Renewed(q, i, e, ep, fr)
      PROVE  /\ i > 0 => Renewed(t, i - 1, e, ep, fr)
             /\ i = 0 /\ ~Resets(Head(q)) =>
                  Renewed(t, 0, e, ep, fr) /\ (Head(q).cmd = "DATA" => Head(q).slot.epoch = e)
  <2>1. ASSUME NEW l \in Nat, l = IF i = 0 THEN 0 ELSE i - 1, i = 0 => ~Resets(q[1])
        PROVE  Renewed(t, l, e, ep, fr)
    <3>1. /\ i + 1 \in Nat /\ 1 <= i + 1 /\ (i + 1 = 1 => ~Resets(q[1]))
          /\ l + 1 = IF i + 1 = 1 THEN 1 ELSE (i + 1) - 1
      BY <2>1
    <3>2. \A j \in Nat : j <= n /\ Restarts(q, i + 1, j) => Restarts(t, l + 1, j - 1)
      BY <1>3, <3>1
    <3>3. ASSUME NEW j \in DataAt(t), l < j
          PROVE  t[j].slot.epoch = e \/ (e < t[j].slot.epoch /\ Restarts(t, l + 1, j))
      <4>1. i < j + 1 /\ j + 1 \in Nat /\ j + 1 <= n /\ (j + 1) - 1 = j
        BY <1>1, <1>2, <2>1, <3>3
      <4>2. q[j + 1].slot.epoch = e \/ (e < q[j + 1].slot.epoch /\ Restarts(q, i + 1, j + 1))
        BY <1>2, <1>5, <4>1 DEF Renewed
      <4>3. Restarts(q, i + 1, j + 1) => Restarts(t, l + 1, j)
        BY <3>2, <4>1
      <4>. QED
        BY <1>2, <4>2, <4>3
    <3>4. e = ep \/ (e < ep /\ (fr \/ Restarts(t, l + 1, Len(t))))
      <4>1. e = ep \/ (e < ep /\ (fr \/ Restarts(q, i + 1, n)))
        BY <1>5 DEF Renewed, n
      <4>2. Restarts(q, i + 1, n) => Restarts(t, l + 1, n - 1)
        BY <1>1, <3>2
      <4>. QED
        BY <1>1, <4>1, <4>2
    <3>. QED
      BY <3>3, <3>4 DEF Renewed
  <2>2. i > 0 => i - 1 \in Nat /\ (i - 1 = IF i = 0 THEN 0 ELSE i - 1)
    OBVIOUS
  <2>3. i = 0 /\ ~Resets(q[1]) /\ Head(q).cmd = "DATA" => q[1].slot.epoch = e
    <3>1. SUFFICES ASSUME i = 0, ~Resets(q[1]), Head(q).cmd = "DATA"
                   PROVE  q[1].slot.epoch = e
      OBVIOUS
    <3>2. ~Restarts(q, 0 + 1, 1)
      BY <3>1 DEF Restarts
    <3>3. 1 \in DataAt(q) /\ 0 < 1
      BY <1>1, <3>1
    <3>. QED
      BY <1>5, <3>1, <3>2, <3>3 DEF Renewed
  <2>. QED
    BY <1>1, <2>1, <2>2, <2>3
<1>. QED
  BY <1>4, <1>5 DEF t

\* A command that is no frame comes last.
LEMMA AppendLined ==
    ASSUME NEW q \in LineSeq, NEW c \in LineFrame \cup Commands, c.cmd # "DATA", NEW ep, NEW fr, NEW nx
    PROVE  /\ \A i \in Nat : \A s, e, f : Leads(q, i, s, e, f, ep, nx) => Leads(Append(q, c), i, s, e, f, ep, nx)
           /\ \A i \in Nat : \A e : Renewed(q, i, e, ep, fr) => Renewed(Append(q, c), i, e, ep, fr)
           /\ \A i \in DataAt(Append(q, c)) : i \in DataAt(q) /\ Append(q, c)[i] = q[i]
<1>. DEFINE a == Append(q, c)
            n == Len(q)
<1>1. /\ \A i \in DataAt(q) : i \in DataAt(a) /\ i \in 1..n /\ a[i] = q[i]
      /\ \A i \in DataAt(a) : i \in DataAt(q)
      /\ Len(a) = n + 1 /\ n \in Nat
      /\ \A i, j \in Nat : i >= 1 /\ j <= n /\ Restarts(q, i, j) => Restarts(a, i, j)
  BY AppendCmds DEF LineSeq
<1>. HIDE DEF a, n
<1>2. \A i \in DataAt(q) : i \in Nat /\ i <= n
  BY <1>1
<1>3. \A i \in Nat : /\ \A j \in DataAt(q) : Restarts(q, i + 1, j) => Restarts(a, i + 1, j)
                     /\ Restarts(q, i + 1, n) => Restarts(a, i + 1, n + 1)
  <2>1. TAKE i \in Nat
  <2>2. i + 1 \in Nat /\ i + 1 >= 1 /\ n <= n + 1 /\ n <= n
    BY <1>1
  <2>3. Restarts(a, i + 1, n) => Restarts(a, i + 1, n + 1)
    BY <1>1, <2>2, RestartsWider
  <2>. QED
    BY <1>1, <1>2, <2>2, <2>3
<1>4. \A i \in Nat : \A s, e, f : Leads(q, i, s, e, f, ep, nx) => Leads(a, i, s, e, f, ep, nx)
  BY <1>1 DEF Leads
<1>5. \A i \in Nat : \A e : Renewed(q, i, e, ep, fr) => Renewed(a, i, e, ep, fr)
  BY <1>1, <1>3 DEF Renewed, n
<1>. QED
  BY <1>1, <1>4, <1>5 DEF a

\* A frame that has its number from the driver comes last.
LEMMA NotifyLined ==
    ASSUME NEW q \in LineSeq, NEW c \in LineFrame, NEW ep \in Nat, NEW fr, NEW nx \in [Streams -> Nat],
           nx[c.stream] <= c.frame, c.slot.epoch = ep, fr => Resets(c)
    PROVE  LET my == [nx EXCEPT ![c.stream] = c.frame + 1] IN
           /\ \A i \in 0..Len(q) : \A s \in Streams : \A e, f \in Nat :
                Leads(q, i, s, e, f, ep, nx) => Leads(Append(q, c), i, s, e, f, ep, my)
           /\ \A i \in 0..Len(q) : \A e \in Nat :
                Renewed(q, i, e, ep, fr) => Renewed(Append(q, c), i, e, ep, FALSE)
           /\ Leads(Append(q, c), Len(q) + 1, c.stream, ep, c.frame, ep, my)
           /\ Renewed(Append(q, c), Len(q) + 1, ep, ep, FALSE)
           /\ \A i \in DataAt(Append(q, c)) : \/ i \in DataAt(q) /\ Append(q, c)[i] = q[i]
                                              \/ i = Len(q) + 1 /\ Append(q, c)[i] = c
<1>. DEFINE a == Append(q, c)
            n == Len(q)
            my == [nx EXCEPT ![c.stream] = c.frame + 1]
<1>1. c.cmd = "DATA" /\ c.stream \in Streams /\ c.frame \in Nat
  BY FrameIs
<1>2. /\ \A i \in DataAt(q) : i \in DataAt(a) /\ i \in 1..n /\ a[i] = q[i]
      /\ \A i \in DataAt(a) : i \in DataAt(q) \/ i = n + 1
      /\ Len(a) = n + 1 /\ n \in Nat /\ a[n + 1] = c
      /\ \A i, j \in Nat : i >= 1 /\ j <= n /\ Restarts(q, i, j) => Restarts(a, i, j)
  BY AppendCmds DEF LineSeq
<1>3. \A s \in Streams : my[s] \in Nat /\ nx[s] \in Nat /\ nx[s] <= my[s]
  BY <1>1
<1>4. my[c.stream] = c.frame + 1
  BY <1>1
<1>. HIDE DEF a, n, my
<1>5. \A i \in DataAt(q) : i \in Nat /\ i <= n
  BY <1>2
<1>6. \A i \in 0..n : /\ \A j \in DataAt(q) : Restarts(q, i + 1, j) => Restarts(a, i + 1, j)
                      /\ Restarts(q, i + 1, n) => Restarts(a, i + 1, n + 1)
                      /\ fr => Restarts(a, i + 1, n + 1)
  <2>1. TAKE i \in 0..n
  <2>2. i + 1 \in Nat /\ i + 1 >= 1 /\ n <= n + 1 /\ n <= n /\ n + 1 \in (i + 1)..(n + 1)
    BY <1>2
  <2>3. Restarts(a, i + 1, n) => Restarts(a, i + 1, n + 1)
    BY <1>2, <2>2, RestartsWider
  <2>4. fr => Restarts(a, i + 1, n + 1)
    BY <1>2, <2>2 DEF Restarts
  <2>. QED
    BY <1>2, <1>5, <2>2, <2>3, <2>4
<1>7. ASSUME NEW i \in 0..n, NEW s \in Streams, NEW e \in Nat, NEW f \in Nat, Leads(q, i, s, e, f, ep, nx)
      PROVE  Leads(a, i, s, e, f, ep, my)
  <2>1. Earlier(e, f, ep, nx[s])
    BY <1>7 DEF Leads
  <2>2. Earlier(e, f, ep, my[s])
    BY <1>3, <2>1 DEF Earlier
  <2>3. s = c.stream => Earlier(e, f, c.slot.epoch, c.frame)
    BY <1>1, <1>3, <2>1 DEF Earlier
  <2>4. ASSUME NEW j \in DataAt(a), i < j, a[j].stream = s
        PROVE  Earlier(e, f, a[j].slot.epoch, a[j].frame)
    BY <1>2, <1>7, <2>3, <2>4 DEF Leads
  <2>. QED
    BY <2>2, <2>4 DEF Leads
<1>8. ASSUME NEW i \in 0..n, NEW e \in Nat, Renewed(q, i, e, ep, fr)
      PROVE  Renewed(a, i, e, ep, FALSE)
  <2>1. e = ep \/ (e < ep /\ (fr \/ Restarts(q, i + 1, n)))
    BY <1>8 DEF Renewed, n
  <2>2. e = ep \/ (e < ep /\ Restarts(a, i + 1, n + 1))
    BY <1>6, <2>1
  <2>3. ASSUME NEW j \in DataAt(a), i < j
        PROVE  a[j].slot.epoch = e \/ (e < a[j].slot.epoch /\ Restarts(a, i + 1, j))
    <3>1. CASE j \in DataAt(q)
      <4>1. q[j].slot.epoch = e \/ (e < q[j].slot.epoch /\ Restarts(q, i + 1, j))
        BY <1>8, <2>3, <3>1 DEF Renewed
      <4>. QED
        BY <1>2, <1>6, <3>1, <4>1
    <3>2. CASE j = n + 1
      BY <1>2, <2>2, <3>2
    <3>. QED
      BY <1>2, <3>1, <3>2
  <2>. QED
    BY <1>2, <2>2, <2>3 DEF Renewed
<1>9. \A j \in DataAt(a) : ~(n + 1 < j)
  <2>1. TAKE j \in DataAt(a)
  <2>2. j \in Nat /\ j <= n + 1
    BY <1>2, <1>5
  <2>. QED
    BY <1>2, <2>2
<1>10. Leads(a, n + 1, c.stream, ep, c.frame, ep, my) /\ Renewed(a, n + 1, ep, ep, FALSE)
  <2>1. Earlier(ep, c.frame, ep, my[c.stream])
    BY <1>1, <1>4 DEF Earlier
  <2>. QED
    BY <1>9, <2>1 DEF Leads, Renewed
<1>11. \A i \in DataAt(a) : (i \in DataAt(q) /\ a[i] = q[i]) \/ (i = n + 1 /\ a[i] = c)
  BY <1>2
<1>. QED
  BY <1>7, <1>8, <1>10, <1>11 DEF a, n, my

\* The numbering starts again.
LEMMA RenumberLined ==
    ASSUME NEW q, NEW ep \in Nat, NEW fr, NEW nx, NEW my
    PROVE  /\ \A i : \A s \in Streams : \A e, f \in Nat :
                Leads(q, i, s, e, f, ep, nx) => Leads(q, i, s, e, f, ep + 1, my)
           /\ \A i : \A e \in Nat : Renewed(q, i, e, ep, fr) => Renewed(q, i, e, ep + 1, TRUE)
<1>1. \A e, f \in Nat : \A g, h : Earlier(e, f, ep, g) => Earlier(e, f, ep + 1, h)
  BY DEF Earlier
<1>2. \A e \in Nat : e = ep \/ e < ep => e < ep + 1
  OBVIOUS
<1>. QED
  BY <1>1, <1>2 DEF Leads, Renewed

-----------------------------------------------------------------------------
(* The queue between its threads.                                           *)

\* The shape of the state, and frames that are their streams'.
LineType ==
    /\ kernel \subseteq Bufs /\ refcnt \in [Bufs -> Nat] /\ held \in [Bufs -> Nat]
    /\ next \in [Streams -> Nat] /\ epoch \in 0..MaxEpoch /\ fresh \in BOOLEAN
    /\ polled \in [Streams -> Bufs \cup {Nothing}]
    /\ \A s \in Streams : polled[s] \in BufsOf[s] \cup {Nothing}
    /\ appq \in [Streams -> Seq(Bufs)] /\ calling \in [Streams -> Bufs \cup {Nothing}]
    /\ cmdq \in LineSeq /\ queue \in LineQueue /\ chan \in ChanType /\ cbq \in Seq(LineNode)
    /\ flushing \in BOOLEAN /\ posted \in 0..MaxCommands

\* Super buffers that are complete and of one numbering, one after the other.
Ep(n) == n.slot[Meta].epoch
Whole(ns) == \A i \in 1..Len(ns) : \A s \in Streams : ns[i].slot[s] # Empty /\ ns[i].slot[s].epoch = Ep(ns[i])
Sorted(ns) == \A i, j \in 1..Len(ns) : i < j => Earlier(Ep(ns[i]), ns[i].frame, Ep(ns[j]), ns[j].frame)

\* The callback thread has earlier ones than are complete in the queue, and what
\* comes later for the queue and for the callback thread comes later by its number.
Behinds(q, ns, e, ep, fr, nx) ==
    /\ Renewed(q, 0, e, ep, fr)
    /\ \A s \in Streams : \A f \in Nat : Has(ns, s, f) => Leads(q, 0, s, e, f, ep, nx)
Before(cs, ns, cnt, e) ==
    \A i \in 1..Len(cs) : \A j \in 1..cnt : Earlier(Ep(cs[i]), cs[i].frame, e, ns[j].frame)
Aheads(q, cs, ep, nx) ==
    \A i \in 1..Len(cs) : \A s \in Streams : Leads(q, 0, s, Ep(cs[i]), cs[i].frame, ep, nx)

Straightened(e) ==
    /\ e \in Nat /\ Line(queue.nodes, queue.match_cnt, e)
    /\ Behinds(cmdq, queue.nodes, e, epoch, fresh, next)
    /\ Before(cbq, queue.nodes, queue.match_cnt, e)

LineInv ==
    /\ LineType /\ Served(queue, chan)
    /\ Lined(cmdq, epoch, fresh, next)
    /\ Whole(cbq) /\ Sorted(cbq) /\ Aheads(cmdq, cbq, epoch, next)
    /\ \E e : Straightened(e)

LEMMA LineStarts == ASSUME Init PROVE LineInv
<1>1. /\ FirstFrame \in Nat /\ MaxEpoch \in Nat /\ MaxCommands \in Nat /\ MaxUnmatched \in Nat
      /\ WaterMark \in Nat /\ Mode \in {"BURST", "CONTINUOUS"}
  BY SuperBufAssumption
<1>2. LineType
  <2>1. \A S : <<>> \in Seq(S)
    OBVIOUS
  <2>2. queue \in LineQueue
    BY <2>1 DEF Init, LineQueue
  <2>3. chan \in ChanType
    BY <1>1 DEF Init, ChanType
  <2>4. cmdq \in LineSeq /\ cbq \in Seq(LineNode) /\ appq \in [Streams -> Seq(Bufs)]
    BY <2>1 DEF Init, LineSeq
  <2>5. kernel \subseteq Bufs /\ refcnt \in [Bufs -> Nat] /\ held \in [Bufs -> Nat]
    BY DEF Init
  <2>6. /\ next \in [Streams -> Nat] /\ epoch \in 0..MaxEpoch /\ fresh \in BOOLEAN
        /\ polled \in [Streams -> Bufs \cup {Nothing}] /\ calling \in [Streams -> Bufs \cup {Nothing}]
        /\ \A s \in Streams : polled[s] \in BufsOf[s] \cup {Nothing}
        /\ flushing \in BOOLEAN /\ posted \in 0..MaxCommands
    <3>1. next = [s \in Streams |-> FirstFrame] /\ calling = [s \in Streams |-> Nothing]
          /\ epoch = 0 /\ posted = 0 /\ polled = [s \in Streams |-> Nothing]
      BY DEF Init
    <3>2. fresh \in BOOLEAN /\ flushing \in BOOLEAN
      BY DEF Init
    <3>3. /\ next \in [Streams -> Nat] /\ calling \in [Streams -> Bufs \cup {Nothing}]
          /\ polled \in [Streams -> Bufs \cup {Nothing}] /\ \A s \in Streams : polled[s] \in BufsOf[s] \cup {Nothing}
      BY <1>1, <3>1
    <3>. QED
      BY <1>1, <3>1, <3>2, <3>3
  <2>. QED
    BY <2>2, <2>3, <2>4, <2>5, <2>6 DEF LineType
<1>3. cmdq = <<>> /\ cbq = <<>> /\ queue.nodes = <<>> /\ queue.match_cnt = 0 /\ epoch = 0
  BY DEF Init
<1>4. Len(<<>>) = 0 /\ \A i \in 1..0 : FALSE
  OBVIOUS
<1>5. DataAt(cmdq) = {} /\ \A s, f : ~Has(queue.nodes, s, f)
  BY <1>3 DEF DataAt, Has
<1>6. Line(queue.nodes, queue.match_cnt, 0)
  <2>1. <<>> \in Seq(LineNode) /\ 0 \in 0..0 /\ 0 - 0 <= MaxUnmatched + 1
    BY <1>1
  <2>. QED
    BY <1>3, <1>4, <2>1 DEF Line, Row
<1>7. Served(queue, chan)
  BY <1>1, <1>3 DEF Served
<1>8. Whole(cbq) /\ Sorted(cbq) /\ Aheads(cmdq, cbq, epoch, next) /\ Lined(cmdq, epoch, fresh, next)
  BY <1>3, <1>4, <1>5 DEF Whole, Sorted, Aheads, Lined
<1>9. Straightened(0)
  BY <1>3, <1>4, <1>5, <1>6 DEF Straightened, Behinds, Before, Renewed
<1>. QED
  BY <1>2, <1>7, <1>8, <1>9 DEF LineInv

\* Buffers let go of.
LEMMA DoneTypes ==
    ASSUME NEW rel \in SUBSET Bufs, kernel \subseteq Bufs, refcnt \in [Bufs -> Nat], BufDone(rel)
    PROVE  kernel' \subseteq Bufs /\ refcnt' \in [Bufs -> Nat]
<1>1. /\ refcnt' = [b \in Bufs |-> IF b \in rel /\ refcnt[b] > 0 THEN refcnt[b] - 1 ELSE refcnt[b]]
      /\ kernel' = kernel \cup {b \in rel : refcnt[b] = 1}
  BY DEF BufDone
<1>2. \A b \in Bufs : (IF b \in rel /\ refcnt[b] > 0 THEN refcnt[b] - 1 ELSE refcnt[b]) \in Nat
  OBVIOUS
<1>. QED
  BY <1>1, <1>2

\* What a step leaves of the queue and its order.
LineUnmoved == UNCHANGED <<next, epoch, fresh, cmdq, queue, cbq>> /\ chan.mode = chan'.mode /\ chan.pending = chan'.pending

LEMMA Unmoved ==
    ASSUME LineInv, LineUnmoved, LineType'
    PROVE  LineInv'
<1>1. Served(queue, chan)'
  BY DEF LineInv, LineUnmoved, Served
<1>2. \A e : Straightened(e) => Straightened(e)'
  BY DEF Straightened, LineUnmoved
<1>. QED
  BY <1>1, <1>2 DEF LineInv, LineUnmoved

LEMMA OthersStraight ==
    ASSUME LineInv,
           \/ \E s \in Streams : Forward(s) \/ AppCallback(s) \/ AppDone(s)
           \/ \E b \in Bufs : QBuf(b)
    PROVE  LineInv'
<1>1. LineType
  BY DEF LineInv
<1>2. ASSUME NEW s \in Streams, Forward(s)
      PROVE  LineInv'
  <2>. DEFINE b == polled[s]
              d == [polled EXCEPT ![s] = Nothing]
  <2>1. /\ b \in Bufs /\ polled' \in [Streams -> Bufs \cup {Nothing}]
        /\ \A t \in Streams : polled'[t] \in BufsOf[t] \cup {Nothing}
    <3>1. /\ polled \in [Streams -> Bufs \cup {Nothing}] /\ \A t \in Streams : polled[t] \in BufsOf[t] \cup {Nothing}
          /\ Nothing \in BufsOf[s] \cup {Nothing}
      BY <1>1 DEF LineType
    <3>2. b # Nothing /\ polled' = d
      BY <1>2 DEF Forward
    <3>. HIDE DEF d
    <3>3. d \in [Streams -> Bufs \cup {Nothing}] /\ \A t \in Streams : d[t] \in BufsOf[t] \cup {Nothing}
      BY <3>1, Calls DEF d
    <3>. QED
      BY <3>1, <3>2, <3>3
  <2>2. UNCHANGED <<next, epoch, fresh, calling, cmdq, queue, cbq, held, flushing, posted>>
    BY <1>2 DEF Forward, sensor
  <2>3. \/ /\ s = Preview /\ chan.skip > 0
           /\ chan' = [chan EXCEPT !.skip = @ - 1]
           /\ BufDone({b})
           /\ UNCHANGED appq
        \/ /\ appq' = [appq EXCEPT ![s] = Append(@, b)]
           /\ UNCHANGED <<chan, bufVars>>
    BY <1>2 DEF Forward
  <2>. HIDE DEF b
  <2>4. CASE s = Preview /\ chan.skip > 0 /\ chan' = [chan EXCEPT !.skip = @ - 1] /\ BufDone({b}) /\ UNCHANGED appq
    <3>1. kernel' \subseteq Bufs /\ refcnt' \in [Bufs -> Nat]
      BY <1>1, <2>1, <2>4, DoneTypes DEF LineType
    <3>2. chan' \in ChanType /\ chan'.mode = chan.mode /\ chan'.pending = chan.pending
      <4>1. chan \in ChanType
        BY <1>1 DEF LineType
      <4>2. chan.skip - 1 \in Nat
        BY <2>4, <4>1 DEF ChanType
      <4>. DEFINE m == chan.skip - 1
      <4>3. chan' = [chan EXCEPT !.skip = m] /\ m \in Nat
        BY <2>4, <4>2
      <4>. HIDE DEF m
      <4>. QED
        BY <4>1, <4>3 DEF ChanType
    <3>3. LineType'
      BY <1>1, <2>1, <2>2, <2>4, <3>1, <3>2 DEF LineType
    <3>. QED
      BY <2>2, <3>2, <3>3, Unmoved DEF LineUnmoved
  <2>5. CASE appq' = [appq EXCEPT ![s] = Append(@, b)] /\ UNCHANGED <<chan, bufVars>>
    <3>1. appq' \in [Streams -> Seq(Bufs)]
      <4>1. appq \in [Streams -> Seq(Bufs)] /\ appq[s] \in Seq(Bufs)
        BY <1>1 DEF LineType
      <4>2. Append(appq[s], b) \in Seq(Bufs)
        BY <2>1, <4>1
      <4>. QED
        BY <2>5, <4>1, <4>2
    <3>2. LineType'
      BY <1>1, <2>1, <2>2, <2>5, <3>1 DEF LineType, bufVars
    <3>. QED
      BY <2>2, <2>5, <3>2, Unmoved DEF LineUnmoved
  <2>. QED
    BY <2>3, <2>4, <2>5
<1>3. ASSUME NEW s \in Streams, AppCallback(s)
      PROVE  LineInv'
  <2>. DEFINE b == Head(appq[s])
  <2>1. /\ appq[s] # <<>> /\ refcnt' = [refcnt EXCEPT ![b] = @ + 1]
        /\ held' = [held EXCEPT ![b] = @ + 1] /\ calling' = [calling EXCEPT ![s] = b]
        /\ appq' = [appq EXCEPT ![s] = Tail(@)]
        /\ UNCHANGED <<kernel, next, epoch, fresh, polled, cmdq, queue, chan, cbq, flushing, posted>>
    BY <1>3 DEF AppCallback, sensor, channel
  <2>2. appq \in [Streams -> Seq(Bufs)] /\ appq[s] \in Seq(Bufs)
    BY <1>1 DEF LineType
  <2>3. b \in Bufs /\ Tail(appq[s]) \in Seq(Bufs)
    BY <2>1, <2>2
  <2>. HIDE DEF b
  <2>4. refcnt' \in [Bufs -> Nat] /\ held' \in [Bufs -> Nat]
    <3>1. refcnt \in [Bufs -> Nat] /\ held \in [Bufs -> Nat]
      BY <1>1 DEF LineType
    <3>2. refcnt[b] + 1 \in Nat /\ held[b] + 1 \in Nat
      BY <2>3, <3>1
    <3>. QED
      BY <2>1, <2>3, <3>1, <3>2
  <2>5. appq' \in [Streams -> Seq(Bufs)] /\ calling' \in [Streams -> Bufs \cup {Nothing}]
    <3>1. calling \in [Streams -> Bufs \cup {Nothing}]
      BY <1>1 DEF LineType
    <3>. QED
      BY <2>1, <2>2, <2>3, <3>1
  <2>6. LineType'
    BY <1>1, <2>1, <2>4, <2>5 DEF LineType
  <2>. QED
    BY <2>1, <2>6, Unmoved DEF LineUnmoved
<1>4. ASSUME NEW s \in Streams, AppDone(s)
      PROVE  LineInv'
  <2>1. /\ calling[s] # Nothing /\ BufDone({calling[s]}) /\ calling' = [calling EXCEPT ![s] = Nothing]
        /\ UNCHANGED <<next, epoch, fresh, polled, appq, cmdq, queue, chan, cbq, held, flushing, posted>>
    BY <1>4 DEF AppDone, sensor, channel
  <2>2. calling \in [Streams -> Bufs \cup {Nothing}] /\ calling[s] \in Bufs
    BY <1>1, <2>1 DEF LineType
  <2>3. kernel' \subseteq Bufs /\ refcnt' \in [Bufs -> Nat]
    BY <1>1, <2>1, <2>2, DoneTypes DEF LineType
  <2>4. LineType'
    BY <1>1, <2>1, <2>2, <2>3 DEF LineType
  <2>. QED
    BY <2>1, <2>4, Unmoved DEF LineUnmoved
<1>5. ASSUME NEW b \in Bufs, QBuf(b)
      PROVE  LineInv'
  <2>1. /\ held[b] > 0 /\ held' = [held EXCEPT ![b] = @ - 1] /\ BufDone({b})
        /\ UNCHANGED <<next, epoch, fresh, polled, appq, calling, cmdq, queue, chan, cbq, flushing, posted>>
    BY <1>5 DEF QBuf, sensor, stream, channel
  <2>2. held' \in [Bufs -> Nat]
    <3>1. held \in [Bufs -> Nat]
      BY <1>1 DEF LineType
    <3>2. held[b] - 1 \in Nat
      BY <2>1, <3>1
    <3>. QED
      BY <2>1, <3>1, <3>2
  <2>3. kernel' \subseteq Bufs /\ refcnt' \in [Bufs -> Nat]
    BY <1>1, <2>1, DoneTypes DEF LineType
  <2>4. LineType'
    BY <1>1, <2>1, <2>2, <2>3 DEF LineType
  <2>. QED
    BY <2>1, <2>4, Unmoved DEF LineUnmoved
<1>. QED
  BY <1>2, <1>3, <1>4, <1>5

LEMMA NotifyStraight ==
    ASSUME LineInv, NEW s \in Streams, Notify(s)
    PROVE  LineInv'
<1>1. PICK b \in kernel \cap BufsOf[s], f \in next[s]..MaxFrame, m \in IF s = Meta THEN Metadata ELSE {Plain} :
        /\ kernel' = kernel \ {b}
        /\ refcnt' = [refcnt EXCEPT ![b] = @ + References(s)]
        /\ next' = [next EXCEPT ![s] = f + 1]
        /\ cmdq' = Append(cmdq,
             [cmd |-> "DATA", stream |-> s, frame |-> f, slot |-> [buf |-> b, epoch |-> epoch],
              meta |-> IF fresh THEN [m EXCEPT !.reset = TRUE] ELSE m])
        /\ polled' = [polled EXCEPT ![s] = IF s \in HasCb THEN b ELSE Nothing]
  BY DEF Notify
<1>2. /\ (fresh => s = Meta) /\ fresh' = FALSE
      /\ UNCHANGED <<epoch, appq, calling, queue, chan, cbq, held, flushing, posted>>
  BY DEF Notify, channel
<1>3. /\ LineType /\ Served(queue, chan) /\ Lined(cmdq, epoch, fresh, next)
      /\ Whole(cbq) /\ Sorted(cbq) /\ Aheads(cmdq, cbq, epoch, next)
  BY DEF LineInv
<1>4. PICK e : Straightened(e)
  BY DEF LineInv
<1>. DEFINE x == IF fresh THEN [m EXCEPT !.reset = TRUE] ELSE m
            c == [cmd |-> "DATA", stream |-> s, frame |-> f, slot |-> [buf |-> b, epoch |-> epoch], meta |-> x]
            n == Len(cmdq)
<1>5. /\ b \in Bufs /\ b \in BufsOf[s] /\ f \in Nat /\ f <= MaxFrame /\ next[s] <= f
      /\ next \in [Streams -> Nat] /\ epoch \in Nat /\ epoch \in 0..MaxEpoch /\ cmdq \in LineSeq
  <2>1. /\ next[s] \in Nat /\ next \in [Streams -> Nat] /\ epoch \in 0..MaxEpoch /\ cmdq \in LineSeq
        /\ MaxFrame \in Nat /\ MaxEpoch \in Nat
    BY <1>3, SuperBufAssumption DEF LineType
  <2>. QED
    BY <2>1, BufsKnown
<1>6. x \in SaysType /\ (fresh => x.reset)
  <2>1. m \in SaysType
    <3>1. Plain \in SaysType
      BY DEF SaysType, Plain
    <3>2. CASE s = Meta
      BY <3>2, SuperBufAssumption
    <3>3. CASE s # Meta
      BY <3>1, <3>3
    <3>. QED
      BY <3>2, <3>3
  <2>. QED
    BY <2>1 DEF SaysType
<1>. HIDE DEF x
<1>7. c \in LineFrame /\ c.cmd = "DATA" /\ c.stream = s /\ c.frame = f /\ c.slot.epoch = epoch /\ (fresh => Resets(c))
  BY <1>2, <1>5, <1>6 DEF LineFrame, Frame, Slot, Resets
<1>8. cmdq' = Append(cmdq, c)
  BY <1>1 DEF x
<1>. HIDE DEF c
<1>9. next' = [next EXCEPT ![c.stream] = c.frame + 1] /\ next[c.stream] <= c.frame
  BY <1>1, <1>5, <1>7
<1>10. /\ \A i \in 0..n : \A t \in Streams : \A d, g \in Nat :
            Leads(cmdq, i, t, d, g, epoch, next) => Leads(cmdq', i, t, d, g, epoch, next')
       /\ \A i \in 0..n : \A d \in Nat :
            Renewed(cmdq, i, d, epoch, fresh) => Renewed(cmdq', i, d, epoch, FALSE)
       /\ Leads(cmdq', n + 1, c.stream, epoch, c.frame, epoch, next')
       /\ Renewed(cmdq', n + 1, epoch, epoch, FALSE)
       /\ \A i \in DataAt(cmdq') : \/ i \in DataAt(cmdq) /\ cmdq'[i] = cmdq[i]
                                   \/ i = n + 1 /\ cmdq'[i] = c
  BY <1>5, <1>7, <1>8, <1>9, NotifyLined
<1>11. n \in Nat /\ 0 \in 0..n /\ \A i \in DataAt(cmdq) : i \in 0..n
  <2>1. \A i \in DataAt(cmdq) : i \in 1..n
    BY <1>5, DataIs
  <2>2. n \in Nat
    BY <1>5 DEF LineSeq
  <2>. QED
    BY <2>1, <2>2
<1>. HIDE DEF n
<1>12. Lined(cmdq', epoch, FALSE, next')
  <2>1. ASSUME NEW i \in DataAt(cmdq')
        PROVE  /\ Leads(cmdq', i, cmdq'[i].stream, cmdq'[i].slot.epoch, cmdq'[i].frame, epoch, next')
               /\ Renewed(cmdq', i, cmdq'[i].slot.epoch, epoch, FALSE)
    <3>1. CASE i \in DataAt(cmdq) /\ cmdq'[i] = cmdq[i]
      <4>1. /\ cmdq[i].stream \in Streams /\ cmdq[i].frame \in Nat /\ cmdq[i].slot.epoch \in Nat
        BY <1>5, <3>1, DataIs
      <4>2. /\ Leads(cmdq, i, cmdq[i].stream, cmdq[i].slot.epoch, cmdq[i].frame, epoch, next)
            /\ Renewed(cmdq, i, cmdq[i].slot.epoch, epoch, fresh)
        BY <1>3, <3>1 DEF Lined
      <4>. QED
        BY <1>10, <1>11, <3>1, <4>1, <4>2
    <3>2. CASE i = n + 1 /\ cmdq'[i] = c
      BY <1>7, <1>10, <3>2
    <3>. QED
      BY <1>10, <3>1, <3>2
  <2>. QED
    BY <2>1 DEF Lined
<1>13. Aheads(cmdq', cbq, epoch, next')
  <2>1. \A i \in 1..Len(cbq) : Ep(cbq[i]) \in Nat /\ cbq[i].frame \in Nat
    <3>1. cbq \in Seq(LineNode)
      BY <1>3 DEF LineType
    <3>2. TAKE i \in 1..Len(cbq)
    <3>3. cbq[i] \in LineNode /\ cbq[i].slot[Meta] # Empty /\ Meta \in Streams
      BY <1>3, <3>1, SuperBufAssumption DEF Whole
    <3>. QED
      BY <3>3 DEF LineNode, Node, Slot, Ep
  <2>. QED
    BY <1>3, <1>10, <1>11, <2>1 DEF Aheads
<1>14. Straightened(e)'
  <2>1. /\ e \in Nat /\ Line(queue.nodes, queue.match_cnt, e)
        /\ Behinds(cmdq, queue.nodes, e, epoch, fresh, next)
        /\ Before(cbq, queue.nodes, queue.match_cnt, e)
    BY <1>4 DEF Straightened
  <2>2. Behinds(cmdq', queue.nodes, e, epoch, FALSE, next')
    BY <1>10, <1>11, <2>1 DEF Behinds
  <2>. QED
    BY <1>2, <2>1, <2>2 DEF Straightened
<1>15. LineType'
  <2>1. refcnt' \in [Bufs -> Nat] /\ kernel' \subseteq Bufs
    <3>1. refcnt \in [Bufs -> Nat] /\ kernel \subseteq Bufs /\ References(s) \in Nat
      BY <1>3 DEF LineType, References
    <3>2. refcnt[b] + References(s) \in Nat
      BY <1>5, <3>1
    <3>. QED
      BY <1>1, <1>5, <3>1, <3>2
  <2>2. next' \in [Streams -> Nat]
    <3>1. f + 1 \in Nat
      BY <1>5
    <3>. QED
      BY <1>1, <1>5, <3>1
  <2>4. polled' \in [Streams -> Bufs \cup {Nothing}] /\ \A t \in Streams : polled'[t] \in BufsOf[t] \cup {Nothing}
    <3>. DEFINE y == IF s \in HasCb THEN b ELSE Nothing
    <3>1. /\ polled \in [Streams -> Bufs \cup {Nothing}] /\ \A t \in Streams : polled[t] \in BufsOf[t] \cup {Nothing}
          /\ y \in BufsOf[s] \cup {Nothing} /\ polled' = [polled EXCEPT ![s] = y]
      BY <1>1, <1>3, <1>5 DEF LineType
    <3>. HIDE DEF y
    <3>. QED
      BY <3>1, Calls
  <2>3. cmdq' \in LineSeq
    BY <1>5, <1>7, <1>8 DEF LineSeq
  <2>. QED
    BY <1>2, <1>3, <2>1, <2>2, <2>3, <2>4 DEF LineType
<1>. QED
  BY <1>2, <1>3, <1>12, <1>13, <1>14, <1>15 DEF LineInv

LEMMA PostStraight ==
    ASSUME LineInv, Post
    PROVE  LineInv'
<1>1. PICK c \in Commands : cmdq' = Append(cmdq, c) /\ flushing' = (c.cmd = "FLUSH")
  BY DEF Post
<1>2. /\ posted < MaxCommands /\ posted' = posted + 1
      /\ UNCHANGED <<kernel, refcnt, next, epoch, fresh, polled, appq, calling, queue, chan, cbq, held>>
  BY DEF Post, bufVars, sensor, stream, channel
<1>3. /\ LineType /\ Served(queue, chan) /\ Lined(cmdq, epoch, fresh, next)
      /\ Whole(cbq) /\ Sorted(cbq) /\ Aheads(cmdq, cbq, epoch, next)
  BY DEF LineInv
<1>4. PICK e : Straightened(e)
  BY DEF LineInv
<1>5. cmdq \in LineSeq /\ c.cmd # "DATA" /\ c \in LineFrame \cup Commands
  BY <1>3, SuperBufAssumption DEF LineType, CommandType
<1>6. /\ \A i \in Nat : \A t, d, g : Leads(cmdq, i, t, d, g, epoch, next) => Leads(cmdq', i, t, d, g, epoch, next)
      /\ \A i \in Nat : \A d : Renewed(cmdq, i, d, epoch, fresh) => Renewed(cmdq', i, d, epoch, fresh)
      /\ \A i \in DataAt(cmdq') : i \in DataAt(cmdq) /\ cmdq'[i] = cmdq[i]
  BY <1>1, <1>5, AppendLined
<1>7. Lined(cmdq', epoch, fresh, next)
  <2>1. \A i \in DataAt(cmdq) : i \in Nat
    BY <1>5, DataIs
  <2>. QED
    BY <1>3, <1>6, <2>1 DEF Lined
<1>8. Aheads(cmdq', cbq, epoch, next)
  BY <1>3, <1>6 DEF Aheads
<1>9. Straightened(e)'
  <2>1. /\ e \in Nat /\ Line(queue.nodes, queue.match_cnt, e)
        /\ Behinds(cmdq, queue.nodes, e, epoch, fresh, next)
        /\ Before(cbq, queue.nodes, queue.match_cnt, e)
    BY <1>4 DEF Straightened
  <2>2. Behinds(cmdq', queue.nodes, e, epoch, fresh, next)
    BY <1>6, <2>1 DEF Behinds
  <2>. QED
    BY <1>2, <2>1, <2>2 DEF Straightened
<1>10. LineType'
  <2>1. cmdq' \in LineSeq
    BY <1>1, <1>5 DEF LineSeq
  <2>2. posted' \in 0..MaxCommands
    <3>1. posted \in 0..MaxCommands /\ MaxCommands \in Nat
      BY <1>3, SuperBufAssumption DEF LineType
    <3>. QED
      BY <1>2, <3>1
  <2>. QED
    BY <1>1, <1>2, <1>3, <2>1, <2>2 DEF LineType
<1>. QED
  BY <1>2, <1>3, <1>7, <1>8, <1>9, <1>10 DEF LineInv

LEMMA RenumberStraight ==
    ASSUME LineInv, Renumber
    PROVE  LineInv'
<1>1. /\ epoch < MaxEpoch /\ epoch' = epoch + 1 /\ fresh' = TRUE
      /\ next' = [s \in Streams |-> FirstFrame]
      /\ UNCHANGED <<kernel, refcnt, polled, appq, calling, cmdq, queue, chan, cbq, held, flushing, posted>>
  BY DEF Renumber, bufVars, stream, channel
<1>2. /\ LineType /\ Served(queue, chan) /\ Lined(cmdq, epoch, fresh, next)
      /\ Whole(cbq) /\ Sorted(cbq) /\ Aheads(cmdq, cbq, epoch, next)
  BY DEF LineInv
<1>3. PICK e : Straightened(e)
  BY DEF LineInv
<1>4. epoch \in Nat /\ epoch \in 0..MaxEpoch /\ MaxEpoch \in Nat /\ FirstFrame \in Nat /\ cmdq \in LineSeq
      /\ cbq \in Seq(LineNode)
  BY <1>2, SuperBufAssumption DEF LineType
<1>5. /\ \A i : \A t \in Streams : \A d, g \in Nat :
           Leads(cmdq, i, t, d, g, epoch, next) => Leads(cmdq, i, t, d, g, epoch', next')
      /\ \A i : \A d \in Nat : Renewed(cmdq, i, d, epoch, fresh) => Renewed(cmdq, i, d, epoch', TRUE)
  BY <1>1, <1>4, RenumberLined
<1>6. Lined(cmdq, epoch', TRUE, next')
  <2>1. \A i \in DataAt(cmdq) : cmdq[i].stream \in Streams /\ cmdq[i].frame \in Nat /\ cmdq[i].slot.epoch \in Nat
    BY <1>4, DataIs
  <2>. QED
    BY <1>2, <1>5, <2>1 DEF Lined
<1>7. Aheads(cmdq, cbq, epoch', next')
  <2>1. \A i \in 1..Len(cbq) : Ep(cbq[i]) \in Nat /\ cbq[i].frame \in Nat
    <3>2. TAKE i \in 1..Len(cbq)
    <3>3. cbq[i] \in LineNode /\ cbq[i].slot[Meta] # Empty /\ Meta \in Streams
      BY <1>2, <1>4, SuperBufAssumption DEF Whole
    <3>. QED
      BY <3>3 DEF LineNode, Node, Slot, Ep
  <2>. QED
    BY <1>2, <1>5, <2>1 DEF Aheads
<1>8. Straightened(e)'
  <2>1. /\ e \in Nat /\ Line(queue.nodes, queue.match_cnt, e)
        /\ Behinds(cmdq, queue.nodes, e, epoch, fresh, next)
        /\ Before(cbq, queue.nodes, queue.match_cnt, e)
    BY <1>3 DEF Straightened
  <2>2. Behinds(cmdq, queue.nodes, e, epoch', TRUE, next')
    BY <1>5, <2>1 DEF Behinds
  <2>. QED
    BY <1>1, <2>1, <2>2 DEF Straightened
<1>9. LineType'
  <2>1. epoch' \in 0..MaxEpoch /\ next' \in [Streams -> Nat]
    BY <1>1, <1>4
  <2>. QED
    BY <1>1, <1>2, <2>1 DEF LineType
<1>. QED
  BY <1>1, <1>2, <1>6, <1>7, <1>8, <1>9 DEF LineInv

LEMMA DispatchStraight ==
    ASSUME LineInv, DispatchSuperBuf
    PROVE  LineInv'
<1>1. /\ cbq # <<>> /\ cbq' = Tail(cbq)
      /\ held' = [b \in Bufs |-> held[b] + (IF b \in Slots(Head(cbq)) THEN 1 ELSE 0)]
      /\ UNCHANGED <<kernel, refcnt, next, epoch, fresh, polled, appq, calling, cmdq, queue, chan, flushing, posted>>
  BY DEF DispatchSuperBuf, bufVars, sensor, stream
<1>2. /\ LineType /\ Served(queue, chan) /\ Lined(cmdq, epoch, fresh, next)
      /\ Whole(cbq) /\ Sorted(cbq) /\ Aheads(cmdq, cbq, epoch, next)
  BY DEF LineInv
<1>3. PICK e : Straightened(e)
  BY DEF LineInv
<1>4. /\ cbq' \in Seq(LineNode) /\ Len(cbq) \in Nat /\ Len(cbq') = Len(cbq) - 1
      /\ \A i \in 1..(Len(cbq) - 1) : cbq'[i] = cbq[i + 1]
  <2>1. cbq \in Seq(LineNode)
    BY <1>2 DEF LineType
  <2>. QED
    BY <1>1, <2>1, TailCmds
<1>5. \A i \in 1..Len(cbq') : i \in Nat /\ i + 1 \in 1..Len(cbq) /\ cbq'[i] = cbq[i + 1]
  BY <1>4
<1>6. Whole(cbq') /\ Aheads(cmdq, cbq', epoch, next)
  BY <1>2, <1>5, SMTT(30) DEF Whole, Aheads
<1>7. Sorted(cbq')
  <2>1. \A i, j \in 1..Len(cbq') : i < j => i + 1 < j + 1
    BY <1>5
  <2>. QED
    BY <1>2, <1>5, <2>1 DEF Sorted
<1>8. Straightened(e)'
  <2>1. Before(cbq', queue.nodes, queue.match_cnt, e)
    BY <1>3, <1>5 DEF Straightened, Before
  <2>. QED
    BY <1>1, <1>3, <2>1 DEF Straightened
<1>9. LineType'
  <2>1. held' \in [Bufs -> Nat]
    <3>1. held \in [Bufs -> Nat]
      BY <1>2 DEF LineType
    <3>2. \A b \in Bufs : held[b] + (IF b \in Slots(Head(cbq)) THEN 1 ELSE 0) \in Nat
      BY <3>1
    <3>. QED
      BY <1>1, <3>2
  <2>. QED
    BY <1>1, <1>2, <1>4, <2>1 DEF LineType
<1>. QED
  BY <1>1, <1>2, <1>6, <1>7, <1>8, <1>9 DEF LineInv

\* Nodes of the line are behind what the callback thread has.
LEMMA CallbackGets ==
    ASSUME NEW cs \in Seq(LineNode), NEW ns, NEW cnt, NEW e \in Nat, Line(ns, cnt, e),
           NEW k, NEW out, NEW ms, NEW d, Sends(ns, cnt, k, out, ms, d),
           NEW q, NEW ep, NEW fr, NEW nx,
           Behinds(q, ns, e, ep, fr, nx), Before(cs, ns, cnt, e), Whole(cs), Sorted(cs), Aheads(q, cs, ep, nx)
    PROVE  /\ cs \o out \in Seq(LineNode) /\ Whole(cs \o out) /\ Sorted(cs \o out) /\ Aheads(q, cs \o out, ep, nx)
           /\ Line(ms, d, e) /\ Behinds(q, ms, e, ep, fr, nx) /\ Before(cs \o out, ms, d, e)
<1>. DEFINE a == cs \o out
            l == Len(cs)
            n == Len(ns)
<1>1. /\ ns \in Seq(LineNode) /\ n \in Nat /\ cnt \in Nat /\ cnt <= n /\ DOMAIN ns = 1..n
      /\ \A i, j \in 1..n : i < j /\ (j <= cnt \/ i > cnt) => ns[i].frame < ns[j].frame
      /\ \A i \in 1..cnt, s \in Streams : ns[i].slot[s] # Empty /\ ns[i].slot[s].epoch = e
      /\ \A i \in 1..n : ns[i].frame \in Nat
  <2>1. ns \in Seq(LineNode) /\ n \in Nat /\ cnt \in 0..n
    BY DEF Line, Row
  <2>2. \A i \in 1..cnt : i \in 1..n
    BY <2>1
  <2>3. \A i \in 1..n : ns[i].frame \in Nat
    BY <2>1, LineNodes
  <2>. QED
    BY <2>1, <2>2, <2>3 DEF Line, Row
<1>2. /\ k \in 0..cnt /\ d = cnt - k /\ out \in Seq(LineNode) /\ Len(out) = k
      /\ \A i \in 1..k : out[i] = ns[i]
      /\ ms \in Seq(LineNode) /\ Len(ms) = n - k /\ \A i \in 1..Len(ms) : ms[i] = ns[i + k]
  BY DEF Sends
<1>3. /\ l \in Nat /\ k \in Nat /\ a \in Seq(LineNode) /\ Len(a) = l + k
      /\ \A i \in 1..(l + k) : a[i] = IF i <= l THEN cs[i] ELSE out[i - l]
  <2>1. l \in Nat /\ k \in Nat
    BY <1>1, <1>2
  <2>2. a \in Seq(LineNode) /\ Len(a) = l + Len(out)
        /\ \A i \in 1..(l + Len(out)) : a[i] = IF i <= l THEN cs[i] ELSE out[i - l]
    <3>1. out \in Seq(LineNode)
      BY <1>2
    <3>. QED
      BY <3>1, ConcatProperties
  <2>. HIDE DEF a, l
  <2>. QED
    BY <1>2, <2>1, <2>2
<1>. HIDE DEF a, l, n
<1>4. \A i \in 1..Len(a) : \/ i \in 1..l /\ a[i] = cs[i]
                           \/ i > l /\ i - l \in 1..k /\ i - l \in 1..cnt /\ i - l \in 1..n /\ a[i] = ns[i - l]
  <2>1. TAKE i \in 1..Len(a)
  <2>2. CASE i <= l
    BY <1>3, <2>2
  <2>3. CASE i > l
    <3>1. i - l \in 1..k /\ i - l \in 1..cnt /\ i - l \in 1..n
      BY <1>1, <1>2, <1>3, <2>3
    <3>2. a[i] = out[i - l]
      BY <1>3, <2>3
    <3>. QED
      BY <1>2, <2>3, <3>1, <3>2
  <2>. QED
    BY <1>3, <2>2, <2>3
<1>5. \A i \in 1..cnt : Ep(ns[i]) = e
  BY <1>1, SuperBufAssumption DEF Ep
<1>6. Whole(a)
  <2>1. \A i \in 1..l : \A s \in Streams : cs[i].slot[s] # Empty /\ cs[i].slot[s].epoch = Ep(cs[i])
    BY DEF Whole, l
  <2>. QED
    BY <1>1, <1>4, <1>5, <2>1 DEF Whole
<1>7. Sorted(a)
  <2>1. SUFFICES ASSUME NEW i \in 1..Len(a), NEW j \in 1..Len(a), i < j
                 PROVE  Earlier(Ep(a[i]), a[i].frame, Ep(a[j]), a[j].frame)
    BY DEF Sorted
  <2>2. CASE j \in 1..l
    <3>1. i \in 1..l /\ a[i] = cs[i] /\ a[j] = cs[j]
      BY <1>3, <1>4, <2>1, <2>2
    <3>. QED
      BY <2>1, <2>2, <3>1 DEF Sorted, l
  <2>3. CASE j \notin 1..l
    <3>1. j > l /\ j - l \in 1..cnt /\ j - l \in 1..n /\ a[j] = ns[j - l] /\ Ep(a[j]) = e
      BY <1>4, <1>5, <2>3
    <3>2. CASE i \in 1..l
      <4>1. a[i] = cs[i]
        BY <1>3, <1>4, <3>2
      <4>. QED
        BY <3>1, <3>2, <4>1 DEF Before, l
    <3>3. CASE i \notin 1..l
      <4>1. i > l /\ i - l \in 1..cnt /\ i - l \in 1..n /\ a[i] = ns[i - l] /\ Ep(a[i]) = e
        BY <1>4, <1>5, <3>3
      <4>2. i - l < j - l /\ j - l <= cnt
        BY <1>1, <1>3, <2>1, <3>1, <4>1, SMTT(30)
      <4>3. ns[i - l].frame < ns[j - l].frame
        BY <1>1, <3>1, <4>1, <4>2
      <4>. QED
        BY <3>1, <4>1, <4>3 DEF Earlier
    <3>. QED
      BY <3>2, <3>3
  <2>. QED
    BY <2>2, <2>3
<1>8. Aheads(q, a, ep, nx)
  <2>1. ASSUME NEW i \in 1..Len(a), NEW s \in Streams
        PROVE  Leads(q, 0, s, Ep(a[i]), a[i].frame, ep, nx)
    <3>1. CASE i \in 1..l /\ a[i] = cs[i]
      BY <3>1 DEF Aheads, l
    <3>2. CASE i - l \in 1..cnt /\ i - l \in 1..n /\ a[i] = ns[i - l]
      <4>1. Has(ns, s, a[i].frame) /\ a[i].frame \in Nat /\ Ep(a[i]) = e
        BY <1>1, <1>5, <3>2 DEF Has
      <4>. QED
        BY <4>1 DEF Behinds
    <3>. QED
      BY <1>4, <3>1, <3>2
  <2>. QED
    BY <2>1 DEF Aheads
<1>9. Shorter(ns, cnt, ms, d)
  <2>1. d \in Nat
    BY <1>1, <1>2
  <2>. QED
    BY <1>2, <2>1 DEF Shorter, n
<1>10. Line(ms, d, e) /\ (\A s, f : Has(ms, s, f) => Has(ns, s, f))
  BY <1>9, ShorterLine
<1>11. Behinds(q, ms, e, ep, fr, nx)
  BY <1>10 DEF Behinds
<1>12. Before(a, ms, d, e)
  <2>1. SUFFICES ASSUME NEW i \in 1..Len(a), NEW j \in 1..d
                 PROVE  Earlier(Ep(a[i]), a[i].frame, e, ms[j].frame)
    BY DEF Before
  <2>2. j + k \in 1..cnt /\ j + k \in 1..n /\ ms[j] = ns[j + k] /\ j \in Nat
    BY <1>1, <1>2
  <2>3. CASE i \in 1..l /\ a[i] = cs[i]
    BY <2>2, <2>3 DEF Before, l
  <2>4. CASE i - l \in 1..k /\ i - l \in 1..cnt /\ i - l \in 1..n /\ a[i] = ns[i - l]
    <3>1. i - l < j + k /\ j + k <= cnt
      BY <1>1, <1>3, <2>2, <2>4
    <3>2. ns[i - l].frame < ns[j + k].frame
      BY <1>1, <2>2, <2>4, <3>1
    <3>. QED
      BY <1>5, <2>2, <2>4, <3>2 DEF Earlier
  <2>. QED
    BY <1>4, <2>3, <2>4
<1>. QED
  BY <1>3, <1>6, <1>7, <1>8, <1>10, <1>11, <1>12 DEF a

\* A frame that is taken from the commands comes after those of its stream in the
\* line, or the numbering starts again with it.
LEMMA HeadArrives ==
    ASSUME NEW q \in LineSeq, q # <<>>, Head(q).cmd = "DATA", ~Resets(Head(q)),
           NEW ns, NEW e \in Nat, NEW ep, NEW fr, NEW nx, Behinds(q, ns, e, ep, fr, nx)
    PROVE  Head(q).slot.epoch = e /\ Follows(ns, Head(q).stream, Head(q).frame)
<1>. DEFINE c == Head(q)
<1>1. /\ \A s, a, f : Leads(q, 0, s, a, f, ep, nx) => (c.stream = s => Earlier(a, f, c.slot.epoch, c.frame))
      /\ \A a : Renewed(q, 0, a, ep, fr) => c.slot.epoch = a
  <2>1. 0 \in Nat
    OBVIOUS
  <2>. QED
    BY <2>1, TailLined
<1>2. c.stream \in Streams /\ c.frame \in Nat
  <2>1. c \in LineFrame \cup Commands
    BY TailCmds DEF LineSeq
  <2>. QED
    BY <2>1, FrameIs
<1>. HIDE DEF c
<1>3. c.slot.epoch = e
  BY <1>1 DEF Behinds
<1>4. ASSUME NEW g \in Nat, Has(ns, c.stream, g)
      PROVE  g < c.frame
  <2>1. Earlier(e, g, c.slot.epoch, c.frame)
    BY <1>1, <1>2, <1>4 DEF Behinds
  <2>. QED
    BY <1>2, <1>3, <1>4, <2>1 DEF Earlier
<1>. QED
  BY <1>3, <1>4 DEF Follows, c

\* The line of a frame's numbering, behind what the callback thread has.
LEMMA HandledBehind ==
    ASSUME NEW q \in LineSeq, q # <<>>, NEW cs \in Seq(LineNode), NEW ns, NEW cnt, NEW e \in Nat, NEW ms, NEW d,
           NEW ep, NEW fr, NEW nx,
           Lined(q, ep, fr, nx), Behinds(q, ns, e, ep, fr, nx), Before(cs, ns, cnt, e), Whole(cs),
           Aheads(q, cs, ep, nx), Handled(ns, cnt, ms, d, Head(q))
    PROVE  LET c == Head(q)
               x == IF c.cmd = "DATA" THEN c.slot.epoch ELSE e
           IN /\ Behinds(Tail(q), ms, x, ep, fr, nx) /\ Before(cs, ms, d, x) /\ x \in Nat
              /\ Aheads(Tail(q), cs, ep, nx) /\ Lined(Tail(q), ep, fr, nx)
<1>. DEFINE c == Head(q)
            t == Tail(q)
            x == IF c.cmd = "DATA" THEN c.slot.epoch ELSE e
<1>1. /\ \A i \in Nat : \A s, a, f : Leads(q, i, s, a, f, ep, nx) =>
           /\ i > 0 => Leads(t, i - 1, s, a, f, ep, nx)
           /\ i = 0 => Leads(t, 0, s, a, f, ep, nx)
           /\ i = 0 /\ c.cmd = "DATA" /\ c.stream = s => Earlier(a, f, c.slot.epoch, c.frame)
      /\ \A i \in Nat : \A a : Renewed(q, i, a, ep, fr) =>
           /\ i > 0 => Renewed(t, i - 1, a, ep, fr)
           /\ i = 0 /\ ~Resets(c) => Renewed(t, 0, a, ep, fr) /\ (c.cmd = "DATA" => c.slot.epoch = a)
  BY TailLined
<1>2. /\ c = q[1] /\ c \in LineFrame \cup Commands
      /\ \A i \in DataAt(t) : i \in 1..(Len(q) - 1) /\ i + 1 \in DataAt(q) /\ t[i] = q[i + 1]
      /\ 1 \in DataAt(q) <=> c.cmd = "DATA"
  BY TailCmds DEF LineSeq
<1>3. c.cmd = "DATA" => c.stream \in Streams /\ c.frame \in Nat /\ c.slot.epoch \in Nat
  BY <1>2, FrameIs
<1>. HIDE DEF c, t
<1>4. Lined(t, ep, fr, nx)
  <2>1. SUFFICES ASSUME NEW i \in DataAt(t)
                 PROVE  /\ Leads(t, i, t[i].stream, t[i].slot.epoch, t[i].frame, ep, nx)
                        /\ Renewed(t, i, t[i].slot.epoch, ep, fr)
    BY DEF Lined
  <2>2. i + 1 \in DataAt(q) /\ t[i] = q[i + 1] /\ i + 1 \in Nat /\ i + 1 > 0 /\ (i + 1) - 1 = i
    <3>1. Len(q) \in Nat
      BY DEF LineSeq
    <3>. QED
      BY <1>2, <3>1
  <2>3. /\ Leads(q, i + 1, t[i].stream, t[i].slot.epoch, t[i].frame, ep, nx)
        /\ Renewed(q, i + 1, t[i].slot.epoch, ep, fr)
    BY <2>2 DEF Lined
  <2>. QED
    BY <1>1, <2>2, <2>3
<1>5. Aheads(t, cs, ep, nx)
  BY <1>1 DEF Aheads
<1>6. c.cmd = "DATA" /\ ~Resets(c) => c.slot.epoch = e
  BY <1>1 DEF Behinds
<1>7. x \in Nat /\ (~Resets(c) => x = e)
  BY <1>3, <1>6
<1>8. Renewed(t, 0, x, ep, fr)
  <2>1. CASE c.cmd = "DATA"
    <3>1. Renewed(q, 1, c.slot.epoch, ep, fr)
      BY <1>2, <2>1 DEF Lined
    <3>2. 1 \in Nat /\ 1 > 0 /\ 1 - 1 = 0
      OBVIOUS
    <3>. QED
      BY <1>1, <2>1, <3>1, <3>2
  <2>2. CASE c.cmd # "DATA"
    BY <1>1, <2>2 DEF Behinds, Resets
  <2>. QED
    BY <2>1, <2>2
<1>9. c.cmd = "DATA" => Leads(t, 0, c.stream, x, c.frame, ep, nx)
  <2>1. SUFFICES ASSUME c.cmd = "DATA"
                 PROVE  Leads(t, 0, c.stream, x, c.frame, ep, nx)
    OBVIOUS
  <2>2. Leads(q, 1, c.stream, c.slot.epoch, c.frame, ep, nx)
    BY <1>2, <2>1 DEF Lined
  <2>3. 1 \in Nat /\ 1 > 0 /\ 1 - 1 = 0
    OBVIOUS
  <2>. QED
    BY <1>1, <2>1, <2>2, <2>3
<1>10. Behinds(t, ms, x, ep, fr, nx)
  <2>1. ASSUME NEW s \in Streams, NEW f \in Nat, Has(ms, s, f)
        PROVE  Leads(t, 0, s, x, f, ep, nx)
    <3>1. CASE ~Resets(c) /\ Has(ns, s, f)
      BY <1>1, <1>7, <3>1 DEF Behinds
    <3>2. CASE c.cmd = "DATA" /\ s = c.stream /\ f = c.frame
      BY <1>9, <3>2
    <3>. QED
      BY <2>1, <3>1, <3>2 DEF Handled, c
  <2>. QED
    BY <1>8, <2>1 DEF Behinds
<1>11. Before(cs, ms, d, x)
  <2>1. SUFFICES ASSUME NEW i \in 1..Len(cs), NEW j \in 1..d
                 PROVE  Earlier(Ep(cs[i]), cs[i].frame, x, ms[j].frame)
    BY DEF Before
  <2>2. CASE c.cmd = "DATA" /\ ms[j].frame = c.frame
    <3>1. Leads(q, 0, c.stream, Ep(cs[i]), cs[i].frame, ep, nx)
      BY <1>3, <2>2 DEF Aheads
    <3>2. Earlier(Ep(cs[i]), cs[i].frame, c.slot.epoch, c.frame)
      BY <1>1, <2>2, <3>1
    <3>. QED
      BY <2>2, <3>2
  <2>3. ASSUME NEW k \in 1..cnt, ~Resets(c), ms[j].frame = ns[k].frame
        PROVE  Earlier(Ep(cs[i]), cs[i].frame, x, ms[j].frame)
    BY <1>7, <2>3 DEF Before
  <2>. QED
    BY <2>2, <2>3 DEF Handled, c
<1>. QED
  BY <1>4, <1>5, <1>7, <1>10, <1>11 DEF c, t

LEMMA ProcessStraight ==
    ASSUME LineInv, Process
    PROVE  LineInv'
<1>. DEFINE c == Head(cmdq)
            v == Outcome(c)
<1>1. /\ cmdq # <<>> /\ queue' = v.q /\ chan' = v.ch /\ cbq' = cbq \o v.out /\ BufDone(v.rel)
      /\ cmdq' = Tail(cmdq) /\ flushing' = (flushing /\ c.cmd # "FLUSH")
      /\ UNCHANGED <<next, epoch, fresh, polled, appq, calling, held, posted>>
  BY DEF Process, sensor, stream
<1>2. /\ LineType /\ Served(queue, chan) /\ Lined(cmdq, epoch, fresh, next)
      /\ Whole(cbq) /\ Sorted(cbq) /\ Aheads(cmdq, cbq, epoch, next)
  BY DEF LineInv
<1>3. PICK e : Straightened(e)
  BY DEF LineInv
<1>4. /\ e \in Nat /\ Line(queue.nodes, queue.match_cnt, e)
      /\ Behinds(cmdq, queue.nodes, e, epoch, fresh, next)
      /\ Before(cbq, queue.nodes, queue.match_cnt, e)
  BY <1>3 DEF Straightened
<1>5. /\ cmdq \in LineSeq /\ queue \in LineQueue /\ chan \in ChanType /\ cbq \in Seq(LineNode)
      /\ kernel \subseteq Bufs /\ refcnt \in [Bufs -> Nat]
  BY <1>2 DEF LineType
<1>6. c \in LineFrame \cup Commands /\ cmdq' \in LineSeq
  BY <1>1, <1>5, TailCmds DEF LineSeq
<1>7. c.cmd = "DATA" => Arrives(Start, e, c)
  <2>1. c.cmd = "DATA" /\ ~Resets(c) => c.slot.epoch = e /\ Follows(queue.nodes, c.stream, c.frame)
    BY <1>1, <1>4, <1>5, HeadArrives
  <2>. QED
    BY <2>1 DEF Arrives, Start
<1>8. /\ v.q \in LineQueue /\ v.ch \in ChanType /\ v.rel \in SUBSET Bufs /\ Served(v.q, v.ch)
      /\ \E ns, cnt, k :
           /\ Line(ns, cnt, IF c.cmd = "DATA" THEN c.slot.epoch ELSE e)
           /\ Handled(queue.nodes, queue.match_cnt, ns, cnt, c)
           /\ Sends(ns, cnt, k, v.out, v.q.nodes, v.q.match_cnt)
  BY <1>4, <1>5, <1>6, <1>7, OutcomeSends
<1>. DEFINE d == IF c.cmd = "DATA" THEN c.slot.epoch ELSE e
<1>9. PICK ns, cnt, k : /\ Line(ns, cnt, d)
                        /\ Handled(queue.nodes, queue.match_cnt, ns, cnt, c)
                        /\ Sends(ns, cnt, k, v.out, v.q.nodes, v.q.match_cnt)
  BY <1>8
<1>10. /\ Behinds(cmdq', ns, d, epoch, fresh, next) /\ Before(cbq, ns, cnt, d) /\ d \in Nat
       /\ Aheads(cmdq', cbq, epoch, next) /\ Lined(cmdq', epoch, fresh, next)
  BY <1>1, <1>2, <1>4, <1>5, <1>9, HandledBehind
<1>. HIDE DEF c, v, d
<1>11. /\ cbq' \in Seq(LineNode) /\ Whole(cbq') /\ Sorted(cbq') /\ Aheads(cmdq', cbq', epoch, next)
       /\ Line(v.q.nodes, v.q.match_cnt, d)
       /\ Behinds(cmdq', v.q.nodes, d, epoch, fresh, next)
       /\ Before(cbq', v.q.nodes, v.q.match_cnt, d)
  BY <1>1, <1>2, <1>5, <1>9, <1>10, CallbackGets
<1>12. \E f : Straightened(f)'
  <2>1. ASSUME NEW f \in Nat, f = d
        PROVE  Straightened(f)'
    BY <1>1, <1>10, <1>11, <2>1 DEF Straightened
  <2>. QED
    BY <1>10, <2>1
<1>13. LineType'
  <2>1. kernel' \subseteq Bufs /\ refcnt' \in [Bufs -> Nat]
    BY <1>1, <1>5, <1>8, DoneTypes
  <2>2. flushing' \in BOOLEAN
    BY <1>1
  <2>. QED
    BY <1>1, <1>2, <1>6, <1>8, <1>11, <2>1, <2>2 DEF LineType
<1>. QED
  BY <1>1, <1>8, <1>10, <1>11, <1>12, <1>13 DEF LineInv

LEMMA LineStays ==
    ASSUME LineInv, [Next]_vars
    PROVE  LineInv'
<1>1. CASE Next
  BY <1>1, NotifyStraight, OthersStraight, ProcessStraight, DispatchStraight, PostStraight,
     RenumberStraight DEF Next
<1>2. CASE UNCHANGED vars
  BY <1>2 DEF vars, LineInv, LineType, Straightened
<1>. QED
  BY <1>1, <1>2

LEMMA LineInvariant == Spec => []LineInv
<1>1. Init => LineInv
  BY LineStarts
<1>2. LineInv /\ [Next]_vars => LineInv'
  BY LineStays
<1>. QED
  BY <1>1, <1>2, PTL DEF Spec

LEMMA LineIsServed ==
    ASSUME LineInv
    PROVE  TypeOK /\ ServedAtOnce /\ MatchedFirst
<1>1. LineType /\ Served(queue, chan)
  BY DEF LineInv
<1>2. PICK e : Line(queue.nodes, queue.match_cnt, e)
  BY DEF LineInv, Straightened
<1>. DEFINE ns == queue.nodes
            cnt == queue.match_cnt
<1>3. /\ ns \in Seq(LineNode) /\ cnt \in 0..Len(ns) /\ cnt \in Nat /\ Len(ns) \in Nat /\ DOMAIN ns = 1..Len(ns)
      /\ \A i \in 1..Len(ns) : ns[i].matched <=> i <= cnt
      /\ \A i, j \in 1..Len(ns) : i < j /\ (j <= cnt \/ i > cnt) => ns[i].frame < ns[j].frame
      /\ Unmatched(ns) = (cnt + 1)..Len(ns)
  <2>1. ns \in Seq(LineNode) /\ cnt \in 0..Len(ns)
    BY <1>2 DEF Line, Row
  <2>2. Unmatched(ns) = (cnt + 1)..Len(ns)
    BY <1>2, LineIs
  <2>3. Row(ns, cnt, e)
    BY <1>2 DEF Line
  <2>. HIDE DEF ns, cnt
  <2>. QED
    BY <2>1, <2>2, <2>3 DEF Row
<1>4. TypeOK
  <2>1. queue \in [nodes : Seq(Node), match_cnt : Nat, expected : Nat, noLed : Nat]
    <3>1. queue \in LineQueue /\ ns \in Seq(Node) /\ cnt \in Nat
      <4>1. ns \in Seq(Node)
        BY <1>3 DEF LineNode
      <4>. QED
        BY <1>1, <1>3, <4>1 DEF LineType
    <3>. QED
      BY <3>1 DEF LineQueue
  <2>2. cbq \in Seq(Node) /\ cmdq \in Seq(Frame \cup Commands)
    <3>1. cbq \in Seq(LineNode) /\ cmdq \in Seq(LineFrame \cup Commands)
      BY <1>1 DEF LineType, LineSeq
    <3>2. LineNode \subseteq Node /\ LineFrame \cup Commands \subseteq Frame \cup Commands
      BY DEF LineNode, LineFrame
    <3>. QED
      BY <3>1, <3>2
  <2>. QED
    BY <1>1, <2>1, <2>2 DEF LineType, TypeOK, ChanType
<1>5. MatchedFirst
  <2>. HIDE DEF ns, cnt
  <2>1. \A i, j \in Unmatched(ns) : i < j => ns[i].frame < ns[j].frame
    <3>1. \A i \in (cnt + 1)..Len(ns) : i \in 1..Len(ns) /\ i > cnt
      BY <1>3
    <3>. QED
      BY <1>3, <3>1
  <2>. QED
    BY <1>3, <2>1 DEF MatchedFirst, ns, cnt
<1>6. ServedAtOnce
  BY <1>1 DEF Served, ServedAtOnce
<1>. QED
  BY <1>4, <1>5, <1>6

LEMMA LineIsInOrder ==
    ASSUME LineInv
    PROVE  WholeAndInOrder
<1>. DEFINE ns == queue.nodes
            cnt == queue.match_cnt
            lead == Leading(ns, MatchedPrefix(ns))
            ready == cbq \o lead
            M == MaxFrame + 1
<1>1. PICK e : Straightened(e)
  BY DEF LineInv
<1>2. /\ e \in Nat /\ Line(ns, cnt, e) /\ Behinds(cmdq, ns, e, epoch, fresh, next) /\ Before(cbq, ns, cnt, e)
      /\ cbq \in Seq(LineNode) /\ Whole(cbq) /\ Sorted(cbq) /\ Aheads(cmdq, cbq, epoch, next)
  BY <1>1 DEF Straightened, LineInv, LineType
<1>3. MatchedPrefix(ns) = cnt /\ ns \in Seq(LineNode) /\ Len(ns) \in Nat /\ cnt \in 0..Len(ns)
  <2>1. ns \in Seq(LineNode) /\ cnt \in 0..Len(ns)
    BY <1>2 DEF Line, Row
  <2>2. MatchedPrefix(ns) = cnt
    BY <1>2, LineIs
  <2>. HIDE DEF ns, cnt
  <2>. QED
    BY <2>1, <2>2
<1>4. /\ lead \in Seq(LineNode) /\ Len(lead) = cnt /\ \A i \in 1..cnt : lead[i] = ns[i]
      /\ After(ns, cnt) \in Seq(LineNode) /\ Len(After(ns, cnt)) = Len(ns) - cnt
      /\ \A i \in 1..(Len(ns) - cnt) : After(ns, cnt)[i] = ns[i + cnt]
  <2>. HIDE DEF ns, cnt
  <2>. QED
    BY <1>3, Parts
<1>. HIDE DEF ns, cnt, lead
<1>5. Sends(ns, cnt, cnt, lead, After(ns, cnt), 0)
  <2>1. cnt \in 0..cnt /\ 0 = cnt - cnt
    BY <1>3
  <2>. DEFINE aft == After(ns, cnt)
  <2>2. aft \in Seq(LineNode) /\ Len(aft) = Len(ns) - cnt /\ \A i \in 1..(Len(ns) - cnt) : aft[i] = ns[i + cnt]
    BY <1>4
  <2>. HIDE DEF aft
  <2>3. Sends(ns, cnt, cnt, lead, aft, 0)
    BY <1>4, <2>1, <2>2 DEF Sends
  <2>. QED
    BY <2>3 DEF aft
<1>6. ready \in Seq(LineNode) /\ Whole(ready) /\ Sorted(ready)
  BY <1>2, <1>5, CallbackGets
<1>. HIDE DEF ready
<1>7. MaxFrame \in Nat /\ M \in Nat /\ MaxFrame < M
  BY SuperBufAssumption
<1>8. \A i \in 1..Len(ready) : Ep(ready[i]) \in Nat /\ ready[i].frame \in Nat /\ ready[i].frame < M
  <2>1. TAKE i \in 1..Len(ready)
  <2>2. ready[i] \in LineNode /\ ready[i].slot[Meta] # Empty /\ Meta \in Streams
    BY <1>6, SuperBufAssumption DEF Whole
  <2>. QED
    BY <1>7, <2>2 DEF LineNode, Node, Slot, Ep
<1>. HIDE DEF M
<1>9. \A a, b, f, g \in Nat : f < M /\ Earlier(a, f, b, g) => a * M + f < b * M + g
  <2>1. SUFFICES ASSUME NEW a \in Nat, NEW b \in Nat, NEW f \in Nat, NEW g \in Nat, f < M, Earlier(a, f, b, g)
                 PROVE  a * M + f < b * M + g
    OBVIOUS
  <2>2. CASE a = b /\ f < g
    <3>1. a * M \in Nat /\ a * M = b * M
      BY <1>7, <2>2
    <3>. QED
      BY <2>2, <3>1
  <2>3. CASE a < b
    <3>1. PICK k \in Nat : b = a + 1 + k
      <4>1. b - a - 1 \in Nat /\ b = a + 1 + (b - a - 1)
        BY <2>3
      <4>. QED
        BY <4>1
    <3>2. b * M = a * M + M + k * M /\ a * M \in Nat /\ k * M \in Nat /\ b * M \in Nat
      BY <1>7, <3>1
    <3>. QED
      BY <1>7, <2>1, <3>2
  <2>. QED
    BY <2>1, <2>2, <2>3 DEF Earlier
<1>10. \A i \in 1..Len(ready) : Exposure(ready[i]) = Ep(ready[i]) * M + ready[i].frame
  BY DEF Exposure, Ep, M
<1>11. \A i, j \in 1..Len(ready) : i < j => Exposure(ready[i]) < Exposure(ready[j])
  <2>1. SUFFICES ASSUME NEW i \in 1..Len(ready), NEW j \in 1..Len(ready), i < j
                 PROVE  Exposure(ready[i]) < Exposure(ready[j])
    OBVIOUS
  <2>2. Earlier(Ep(ready[i]), ready[i].frame, Ep(ready[j]), ready[j].frame)
    BY <1>6, <2>1 DEF Sorted
  <2>3. Ep(ready[i]) * M + ready[i].frame < Ep(ready[j]) * M + ready[j].frame
    BY <1>8, <1>9, <2>2
  <2>. QED
    BY <1>10, <2>3
<1>12. DOMAIN ready = 1..Len(ready)
  BY <1>6
<1>13. \A i \in 1..Len(ready) : \A s \in Streams :
         ready[i].slot[s] # Empty /\ ready[i].slot[s].epoch = ready[i].slot[Meta].epoch
  BY <1>6 DEF Whole, Ep
<1>. QED
  BY <1>11, <1>12, <1>13 DEF WholeAndInOrder, ready, lead, ns

LEMMA LineLeavesBuffers ==
    ASSUME LineInv, RoomBeyondQueue
    PROVE  QueueLeavesBuffers
<1>. DEFINE ns == queue.nodes
            l == Len(ns)
<1>1. PICK e : Line(queue.nodes, queue.match_cnt, e)
  BY DEF LineInv, Straightened
<1>2. SUFFICES ASSUME chan.mode = "BURST", NEW s \in Streams, \A b \in BufsOf[s] : b \in SlotsIn(ns)
               PROVE  FALSE
  BY DEF QueueLeavesBuffers
<1>3. /\ ns \in Seq(LineNode) /\ l \in Nat /\ DOMAIN ns = 1..l /\ queue.match_cnt \in Nat
      /\ WaterMark \in Nat /\ MaxUnmatched \in Nat /\ l - queue.match_cnt <= MaxUnmatched + 1
  <2>1. ns \in Seq(LineNode) /\ queue.match_cnt \in 0..l
    BY <1>1 DEF Line, Row
  <2>2. l - queue.match_cnt <= MaxUnmatched + 1
    BY <1>1 DEF Line
  <2>. QED
    BY <2>1, <2>2, SuperBufAssumption, SMTT(30)
<1>4. queue.match_cnt <= WaterMark
  BY <1>2 DEF LineInv, Served
<1>5. l <= WaterMark + MaxUnmatched + 1
  BY <1>3, <1>4
<1>6. IsFiniteSet(BufsOf[s]) /\ Cardinality(BufsOf[s]) \in Nat /\ Cardinality(BufsOf[s]) > WaterMark + MaxUnmatched + 1
  <2>1. IsFiniteSet(BufsOf[s])
    BY SuperBufAssumption
  <2>2. Cardinality(BufsOf[s]) \in Nat
    BY <2>1, FS_CardinalityType
  <2>. QED
    BY <2>1, <2>2 DEF RoomBeyondQueue
<1>7. \A b \in BufsOf[s] : \E i \in 1..l : ns[i].slot[s] # Empty /\ ns[i].slot[s].buf = b
  <2>1. TAKE b \in BufsOf[s]
  <2>2. PICK i \in 1..l : b \in Slots(ns[i])
    BY <1>2, <1>3 DEF SlotsIn
  <2>3. PICK t \in Streams : ns[i].slot[t] # Empty /\ b = ns[i].slot[t].buf
    BY <2>2 DEF Slots
  <2>4. b \in BufsOf[t]
    BY <1>3, <2>3 DEF LineNode
  <2>5. t = s
    BY <2>4, BufsKnown
  <2>. QED
    BY <2>2, <2>3, <2>5
<1>. DEFINE f == [b \in BufsOf[s] |-> CHOOSE i \in 1..l : ns[i].slot[s] # Empty /\ ns[i].slot[s].buf = b]
<1>8. \A b \in BufsOf[s] : f[b] \in 1..l /\ ns[f[b]].slot[s].buf = b
  BY <1>7
<1>9. f \in [BufsOf[s] -> 1..l] /\ \A a, b \in BufsOf[s] : f[a] = f[b] => a = b
  <2>1. f \in [BufsOf[s] -> 1..l]
    BY <1>8
  <2>. HIDE DEF f
  <2>. QED
    BY <1>8, <2>1
<1>10. IsFiniteSet(1..l) /\ Cardinality(1..l) = l
  <2>1. \A a, b \in Int : IsFiniteSet(a..b) /\ Cardinality(a..b) = IF a > b THEN 0 ELSE b - a + 1
    BY FS_Interval
  <2>2. 1 \in Int /\ l \in Int
    BY <1>3
  <2>. HIDE DEF l
  <2>3. IsFiniteSet(1..l) /\ Cardinality(1..l) = IF 1 > l THEN 0 ELSE l - 1 + 1
    BY <2>1, <2>2
  <2>. QED
    BY <1>3, <2>3
<1>. HIDE DEF f, l
<1>11. Cardinality(1..l) < Cardinality(BufsOf[s])
  BY <1>3, <1>5, <1>6, <1>10
<1>12. \E a, b \in BufsOf[s] : a # b /\ f[a] = f[b]
  BY <1>6, <1>9, <1>10, <1>11, FS_PigeonHole
<1>. QED
  BY <1>9, <1>12

-----------------------------------------------------------------------------
(* Theorems on the queue.                                                   *)

\* Whatever is asked in whatever order, nothing that can be served is left
\* undone when mm_channel_process_stream_buf has handled a command: in burst mode
\* a request waits only while no super buffer is complete, and no more of them
\* than the water mark are kept; in continuous mode none is.
THEOREM QueueIsServed == Spec => []AnyServed
<1>1. LineInv => AnyServed
  BY LineIsServed DEF AnyServed
<1>. QED
  BY <1>1, LineInvariant, PTL

\* The HAL is handed complete super buffers, of one exposure and in the order of
\* the exposures, though each stream delivers at its own pace, metadata may move
\* the expected frame back and the numbering may start again; the complete ones
\* come first in the queue, by which the loops of mm_channel_superbuf_bufdone_
\* overflow and _skip end; in burst mode the driver is left some buffers of each
\* stream; and the counts of the buffers are those of their holders.  It needs
\* frames that count from one, flushes that name the types of all the streams,
\* and streams with more buffers than the queue may keep.
THEOREM SuperBufsAreInOrder ==
    ASSUME FramesCountFromOne, WholeFlushes, RoomBeyondQueue
    PROVE  Spec => []ZslOrder
<1>1. LineInv /\ BufInv => ZslOrder
  BY LineIsServed, LineIsInOrder, LineLeavesBuffers, CountedAreHolders DEF ZslOrder
<1>. QED
  BY <1>1, LineInvariant, BufInvariant, PTL
=============================================================================

------------------------------ MODULE BufMemory ------------------------------
(***************************************************************************)
(* Where the memory of the streams' buffers comes from and goes to          *)
(* (QCameraMem.cpp): ION, the pool in which a stream's buffers wait for the *)
(* next stream of their type, and the objects that hold them.  The thread   *)
(* of the state machine, the deferred-work thread and the threads that      *)
(* allocate the rest of a snapshot stream's buffers come here at once; the  *)
(* pool's lock is held for one buffer at a time.                            *)
(***************************************************************************)
EXTENDS Naturals, Sequences, SequencesExt

CONSTANTS
  Mems,       \* the memory objects
  MemTypes,   \* the stream types
  Pooled,     \* those whose memory comes from the pool; a video stream's does not
  Ions,       \* bound: ION buffers, numbered
  Sizes,      \* bytes asked for
  Page,       \* ION rounds up to this
  MaxCount,   \* buffers of one request
  MaxFails,   \* bound: ION's refusals
  None

BufMemoryAssumption ==
  /\ Pooled \subseteq MemTypes /\ MemTypes # {} /\ Ions \subseteq Nat
  /\ Sizes \subseteq Nat \ {0} /\ Page \in Nat \ {0} /\ MaxCount \in Nat \ {0} /\ MaxFails \in Nat
  /\ None \notin MemTypes /\ Mems \cap MemTypes = {}

VARIABLES
  live,    \* ION's buffers, with their sizes: 0 is a buffer that is not there
  pool,    \* mPools[type]
  memInfo, \* mMemInfo of each object, as far as it is filled
  count,   \* mBufferCount
  type,    \* mStreamType: what the object is for, None when there is no object
  ask,     \* the request an object is working on: its size and how many are to come
  fails,   \* (bound)
  shared   \* the buffers given back while their object kept them: a refusal falls on an
           \* object that had some (only the properties look at it)

memVars == <<live, pool, memInfo, count, type, ask, fails, shared>>

NoAsk == [size |-> 0, left |-> 0]

memInit ==
  /\ live = [i \in Ions |-> 0]
  /\ pool = [t \in MemTypes |-> <<>>]
  /\ memInfo = [m \in Mems |-> <<>>] /\ count = [m \in Mems |-> 0]
  /\ type = [m \in Mems |-> None] /\ ask = [m \in Mems |-> NoAsk]
  /\ fails = 0 /\ shared = {}

Round(size) == ((size + Page - 1) \div Page) * Page

-----------------------------------------------------------------------------
\* allocateStreamBuf: a new object, and alloc begins with all it needs.
Allocate(m, t, n, size) ==
  /\ type[m] = None
  /\ type' = [type EXCEPT ![m] = t]
  /\ ask' = [ask EXCEPT ![m] = [size |-> size, left |-> n]]
  /\ UNCHANGED <<live, pool, memInfo, count, fails, shared>>

\* allocateMoreStreamBuf, for a snapshot stream that was given too few.
AllocateMore(m, n, size) ==
  /\ count[m] > 0 /\ ask[m] = NoAsk /\ count[m] + n <= MaxCount
  /\ type[m] = "SNAPSHOT"
  /\ ask' = [ask EXCEPT ![m] = [size |-> size, left |-> n]]
  /\ UNCHANGED <<live, pool, memInfo, count, type, fails, shared>>

\* findBufferLocked: any that is big enough, but the size must be just right for
\* a reprocessing stream.
Fits(i, size, t) == IF t = "OFFLINE_PROC" THEN live[i] = size ELSE live[i] >= size

InPool(t, size) == {k \in DOMAIN pool[t] : Fits(pool[t][k], size, t)}

Filled(m, i) ==
  /\ memInfo' = [memInfo EXCEPT ![m] = Append(@, i)]
  /\ ask' = [ask EXCEPT ![m].left = @ - 1]

\* One turn of alloc's loop: the first of the pool that fits ...
TakePooled(m) ==
  /\ ask[m].left > 0 /\ type[m] \in Pooled
  /\ LET t == type[m]  fit == InPool(t, ask[m].size) IN
       \E k \in fit :
         /\ \A j \in fit : k <= j
         /\ Filled(m, pool[t][k])
         /\ pool' = [pool EXCEPT ![t] = RemoveAt(@, k)]
  /\ UNCHANGED <<live, count, type, fails, shared>>

\* ... or a new one from ION (allocOneBuffer).
TakeNew(m) ==
  /\ ask[m].left > 0
  /\ type[m] \in Pooled => InPool(type[m], ask[m].size) = {}
  /\ \E i \in Ions :
       /\ live[i] = 0 /\ \A j \in Ions : live[j] = 0 => i <= j
       /\ live' = [live EXCEPT ![i] = Round(ask[m].size)]
       /\ Filled(m, i)
  /\ UNCHANGED <<pool, count, type, fails, shared>>

\* (mutant: buffers that go to the pool are freed as well)
ReleaseFrees(m, s) ==
  /\ live' = [i \in Ions |-> IF i \in ToSet(s) THEN 0 ELSE live[i]]
  /\ pool' = IF type[m] \in Pooled THEN [pool EXCEPT ![type[m]] = @ \o s] ELSE pool

\* releaseBuffer one by one, or deallocOneBuffer when there is no pool.
Release(m, s) ==
  IF type[m] \in Pooled
    THEN pool' = [pool EXCEPT ![type[m]] = @ \o s] /\ UNCHANGED live
    ELSE live' = [i \in Ions |-> IF i \in ToSet(s) THEN 0 ELSE live[i]] /\ UNCHANGED pool

\* ION refuses: alloc gives back every buffer of the object, the last one first,
\* those it had before the request included; the count stays, and so do their places in
\* mMemInfo.  What the copies stand for once such a buffer is freed is not followed:
\* the code goes on with a stale handle, and an ION buffer of that number.
TakeFails(m) ==
  /\ ask[m].left > 0 /\ fails < MaxFails /\ fails' = fails + 1
  /\ type[m] \in Pooled => InPool(type[m], ask[m].size) = {}
  /\ Release(m, Reverse(memInfo[m]))
  /\ shared' = shared \cup ToSet(SubSeq(memInfo[m], 1, count[m]))
  /\ ask' = [ask EXCEPT ![m] = NoAsk]
  /\ IF count[m] = 0
       THEN type' = [type EXCEPT ![m] = None] /\ memInfo' = [memInfo EXCEPT ![m] = <<>>]
       ELSE UNCHANGED type /\ memInfo' = [memInfo EXCEPT ![m] = SubSeq(@, 1, count[m])]
  /\ UNCHANGED count

\* The request is served.
Allocated(m) ==
  /\ ask[m].size > 0 /\ ask[m].left = 0
  /\ count' = [count EXCEPT ![m] = Len(memInfo[m])]
  /\ ask' = [ask EXCEPT ![m] = NoAsk]
  /\ UNCHANGED <<live, pool, memInfo, type, fails, shared>>

\* deallocate: the stream is done with its buffers (its allocating thread has
\* been joined) and the object is deleted.
Deallocate(m) ==
  /\ count[m] > 0 /\ ask[m] = NoAsk
  /\ Release(m, SubSeq(memInfo[m], 1, count[m]))
  /\ memInfo' = [memInfo EXCEPT ![m] = <<>>] /\ count' = [count EXCEPT ![m] = 0]
  /\ type' = [type EXCEPT ![m] = None]
  /\ UNCHANGED <<ask, fails, shared>>

\* clear, when a preview ends or the sizes change.
Clear ==
  /\ \E t \in MemTypes : pool[t] # <<>>
  /\ live' = [i \in Ions |-> IF \E t \in MemTypes : i \in ToSet(pool[t]) THEN 0 ELSE live[i]]
  /\ pool' = [t \in MemTypes |-> <<>>]
  /\ UNCHANGED <<memInfo, count, type, ask, fails, shared>>

MemSteps(m) ==
  \/ \E t \in MemTypes, n \in 1..MaxCount, size \in Sizes : Allocate(m, t, n, size)
  \/ \E n \in 1..MaxCount, size \in Sizes : AllocateMore(m, n, size)
  \/ TakePooled(m) \/ TakeNew(m) \/ TakeFails(m) \/ Allocated(m) \/ Deallocate(m)

memNext == Clear \/ \E m \in Mems : MemSteps(m)

memSpec == memInit /\ [][memNext]_memVars

-----------------------------------------------------------------------------
(* Properties.                                                              *)

memTypeOK ==
  /\ live \in [Ions -> Nat] /\ fails \in 0..MaxFails /\ shared \subseteq Ions
  /\ pool \in [MemTypes -> Seq(Ions)] /\ memInfo \in [Mems -> Seq(Ions)]
  /\ count \in [Mems -> 0..MaxCount] /\ type \in [Mems -> MemTypes \cup {None}]
  /\ ask \in [Mems -> [size : Nat, left : 0..MaxCount]]

\* What holds buffers: the objects and, by type, the pool.
Holders == Mems \cup MemTypes
HeldBy(h) == IF h \in Mems THEN memInfo[h] ELSE pool[h]

\* Every ION buffer that is there is in one object or in one pool, once, and what
\* they hold is there: no two streams share memory, none is freed under a stream,
\* none is forgotten, however the threads' requests, releases, refusals and the
\* clearing of the pool fall.  The buffers of a stream that was refused more of them are
\* not among these: alloc gives them back and the stream keeps them (QCameraMem.cpp:342).
\* No other buffer suffers from that.
Sound == Ions \ shared
OnceIn(s, B) == \A j, k \in DOMAIN s : s[j] = s[k] /\ s[j] \in B => j = k
OneHolder ==
  /\ \A h \in Holders : OnceIn(HeldBy(h), Sound)
  /\ \A g, h \in Holders : g # h => ToSet(HeldBy(g)) \cap ToSet(HeldBy(h)) \cap Sound = {}
  /\ \A i \in Sound : live[i] > 0 <=> \E h \in Holders : i \in ToSet(HeldBy(h))

\* A buffer is as big as the stream it was given to wants, also when an earlier
\* stream of other sizes left it in the pool; but for the same ones, which may be freed.
BigEnough ==
  \A m \in Mems : ask[m].size > 0 =>
    \A k \in (count[m] + 1)..Len(memInfo[m]) :
      memInfo[m][k] \in Sound => live[memInfo[m][k]] >= ask[m].size
=============================================================================

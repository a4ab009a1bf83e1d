---------------------------- MODULE BufferProofs ----------------------------
(***************************************************************************)
(* Proofs about the HAL's channels, streams and buffers.                    *)
(*   Their memory (BufMemory): every ION buffer that is there is in one      *)
(* object or once in one pool, unless an allocation failed halfway and both   *)
(* the pool and the object have it; and a buffer is as big as the stream it   *)
(* is given to wants, for every number of objects, types, buffers and sizes.  *)
(* MemInv is inductive.                                                      *)
(*   Their way (HalStream): a buffer of a running stream is in one hand, for *)
(* every kind of stream and number of buffers.  StreamInv is inductive.      *)
(*   Their channels (Capture): the deferred-work thread works for a channel  *)
(* that is there, and no frame meets the postprocessor before it is started, *)
(* for every number of jobs, pictures and failures.  CapInv is inductive.    *)
(***************************************************************************)
EXTENDS BufMemory, HalStream, Capture, SequenceTheorems, TLAPS

(* What an object has been asked for, and what it has.                      *)
Counted ==
    \A m \in Mems :
      /\ count[m] <= Len(memInfo[m]) /\ Len(memInfo[m]) + ask[m].left <= MaxCount
      /\ ask[m] = NoAsk => count[m] = Len(memInfo[m])
      /\ ask[m].size = 0 => ask[m] = NoAsk
      /\ type[m] = None => ask[m] = NoAsk /\ count[m] = 0

MemInv == memTypeOK /\ Counted /\ OneHolder /\ BigEnough

-----------------------------------------------------------------------------
(* Lists of buffers.                                                        *)
LEMMA Appended ==
    ASSUME NEW S, NEW s \in Seq(S), NEW x \in S
    PROVE  /\ Append(s, x) \in Seq(S) /\ Len(Append(s, x)) = Len(s) + 1
           /\ \A k \in 1..Len(s) : Append(s, x)[k] = s[k]
           /\ Append(s, x)[Len(s) + 1] = x
           /\ ToSet(Append(s, x)) = ToSet(s) \cup {x}
           /\ IsInjective(s) /\ x \notin ToSet(s) => IsInjective(Append(s, x))
<1>. DEFINE a == Append(s, x)
            n == Len(s)
<1>1. /\ a \in Seq(S) /\ n \in Nat /\ DOMAIN s = 1..n /\ DOMAIN a = 1..(n + 1) /\ Len(a) = n + 1
      /\ \A i \in 1..n : a[i] = s[i]
      /\ a[n + 1] = x
  OBVIOUS
<1>. HIDE DEF a
<1>2. \A i \in 1..(n + 1) : i \in 1..n \/ i = n + 1
  BY <1>1
<1>3. ToSet(a) = ToSet(s) \cup {x}
  BY <1>1, <1>2 DEF ToSet
<1>4. ASSUME IsInjective(s), x \notin ToSet(s), NEW i \in 1..(n + 1), NEW j \in 1..(n + 1), a[i] = a[j]
      PROVE  i = j
  <2>1. \A k \in 1..n : a[k] \in ToSet(s)
    BY <1>1 DEF ToSet
  <2>2. CASE i \in 1..n /\ j \in 1..n
    BY <1>1, <1>4, <2>2 DEF IsInjective
  <2>. QED
    BY <1>1, <1>2, <1>4, <2>1, <2>2
<1>. QED
  BY <1>1, <1>3, <1>4 DEF a, IsInjective

LEMMA HeadGone ==
    ASSUME NEW S, NEW s \in Seq(S), s # <<>>
    PROVE  /\ Tail(s) \in Seq(S) /\ Head(s) \in S
           /\ ToSet(s) = ToSet(Tail(s)) \cup {Head(s)}
           /\ IsInjective(s) => IsInjective(Tail(s)) /\ Head(s) \notin ToSet(Tail(s))
<1>. DEFINE t == Tail(s)
            n == Len(s)
<1>1. /\ t \in Seq(S) /\ n \in Nat /\ n > 0 /\ DOMAIN s = 1..n /\ DOMAIN t = 1..(n - 1)
      /\ Head(s) = s[1] /\ \A i \in 1..(n - 1) : t[i] = s[i + 1]
      /\ Head(s) \in S
  OBVIOUS
<1>. HIDE DEF t
<1>2. /\ \A i \in 1..n : i = 1 \/ i - 1 \in 1..(n - 1)
      /\ \A i \in 1..(n - 1) : i + 1 \in 1..n /\ i + 1 # 1
      /\ \A i \in 1..n : i - 1 + 1 = i
  BY <1>1
<1>3. \A i \in 1..n : i = 1 \/ s[i] = t[i - 1]
  BY <1>1, <1>2
<1>4. ToSet(s) = ToSet(t) \cup {Head(s)}
  <2>1. \A i \in 1..n : s[i] \in {t[j] : j \in 1..(n - 1)} \cup {s[1]}
    BY <1>2, <1>3
  <2>2. \A j \in 1..(n - 1) : t[j] \in {s[i] : i \in 1..n}
    BY <1>1, <1>2
  <2>3. s[1] \in {s[i] : i \in 1..n}
    BY <1>1
  <2>4. ToSet(s) = {s[i] : i \in 1..n} /\ ToSet(t) = {t[j] : j \in 1..(n - 1)}
    BY <1>1 DEF ToSet
  <2>. QED
    BY <1>1, <2>1, <2>2, <2>3, <2>4
<1>5. ASSUME IsInjective(s) PROVE IsInjective(t)
  <2>. SUFFICES ASSUME NEW i \in 1..(n - 1), NEW j \in 1..(n - 1), t[i] = t[j] PROVE i = j
    BY <1>1 DEF IsInjective
  <2>0. s[i + 1] = s[j + 1] /\ i + 1 \in DOMAIN s /\ j + 1 \in DOMAIN s
    BY <1>1, <1>2
  <2>1. i + 1 = j + 1
    BY <1>5, <2>0 DEF IsInjective
  <2>. QED
    BY <2>1
<1>6. ASSUME IsInjective(s) PROVE Head(s) \notin ToSet(t)
  <2>. SUFFICES ASSUME NEW i \in 1..(n - 1), t[i] = s[1] PROVE FALSE
    BY <1>1 DEF ToSet
  <2>1. s[i + 1] = s[1] /\ i + 1 \in 1..n /\ 1 \in 1..n /\ i + 1 # 1
    BY <1>1, <1>2
  <2>. QED
    BY <1>1, <1>6, <2>1 DEF IsInjective
<1>. QED
  BY <1>1, <1>4, <1>5, <1>6 DEF t

LEMMA Nobody == ASSUME NEW S, NEW s \in Seq(S) PROVE ToSet(s) \subseteq S /\ ToSet(<<>>) = {} /\ IsInjective(<<>>)
BY DEF ToSet, IsInjective

LEMMA Concatenated ==
    ASSUME NEW S, NEW s \in Seq(S), NEW t \in Seq(S)
    PROVE  /\ s \o t \in Seq(S)
           /\ ToSet(s \o t) = ToSet(s) \cup ToSet(t)
           /\ IsInjective(s) /\ IsInjective(t) /\ ToSet(s) \cap ToSet(t) = {} => IsInjective(s \o t)
<1>. DEFINE r == s \o t
            n == Len(s)
            l == Len(t)
<1>1. /\ n \in Nat /\ l \in Nat /\ DOMAIN s = 1..n /\ DOMAIN t = 1..l
  OBVIOUS
<1>2. /\ r \in Seq(S) /\ Len(r) = n + l
      /\ \A i \in 1..(n + l) : r[i] = IF i <= n THEN s[i] ELSE t[i - n]
  BY ConcatProperties, Zenon
<1>3. DOMAIN r = 1..(n + l)
  BY <1>2
<1>. HIDE DEF r, n, l
<1>4. \A i \in 1..(n + l) : i \in 1..n \/ (~(i <= n) /\ i - n \in 1..l)
  BY <1>1
<1>5. /\ \A i \in 1..n : i \in 1..(n + l) /\ r[i] = s[i]
      /\ \A i \in 1..l : n + i \in 1..(n + l) /\ r[n + i] = t[i]
  <2>1. \A i \in 1..n : i \in 1..(n + l) /\ i <= n
    BY <1>1
  <2>2. \A i \in 1..l : n + i \in 1..(n + l) /\ ~(n + i <= n) /\ (n + i) - n = i
    BY <1>1
  <2>. QED
    BY <1>2, <2>1, <2>2
<1>6. \A i \in 1..(n + l) : IF i \in 1..n THEN r[i] = s[i] ELSE i - n \in 1..l /\ r[i] = t[i - n]
  BY <1>1, <1>2, <1>4, <1>5
<1>7. ToSet(r) = ToSet(s) \cup ToSet(t)
  BY <1>1, <1>3, <1>5, <1>6 DEF ToSet
<1>8. ASSUME IsInjective(s), IsInjective(t), ToSet(s) \cap ToSet(t) = {},
             NEW i \in 1..(n + l), NEW j \in 1..(n + l), r[i] = r[j]
      PROVE  i = j
  <2>1. /\ \A k \in 1..n : s[k] \in ToSet(s)
        /\ \A k \in 1..l : t[k] \in ToSet(t)
    BY <1>1 DEF ToSet
  <2>2. CASE i \in 1..n /\ j \in 1..n
    BY <1>1, <1>6, <1>8, <2>2 DEF IsInjective
  <2>3. CASE i \notin 1..n /\ j \notin 1..n
    <3>1. i - n \in 1..l /\ j - n \in 1..l /\ t[i - n] = t[j - n]
      BY <1>6, <1>8, <2>3
    <3>2. i - n = j - n
      BY <1>1, <1>8, <3>1 DEF IsInjective
    <3>. QED
      BY <1>1, <3>2
  <2>. QED
    BY <1>6, <1>8, <2>1, <2>2, <2>3
<1>. QED
  BY <1>2, <1>3, <1>7, <1>8 DEF r, IsInjective

LEMMA Removed ==
    ASSUME NEW S, NEW s \in Seq(S), NEW k \in DOMAIN s, NEW B, OnceIn(s, B)
    PROVE  /\ RemoveAt(s, k) \in Seq(S)
           /\ \A x : x # s[k] => (x \in ToSet(RemoveAt(s, k)) <=> x \in ToSet(s))
           /\ s[k] \in B => s[k] \notin ToSet(RemoveAt(s, k))
           /\ OnceIn(RemoveAt(s, k), B)
<1>. DEFINE r == RemoveAt(s, k)
            n == Len(s)
            a == SubSeq(s, 1, k - 1)
            b == SubSeq(s, k + 1, n)
            at(i) == IF i < k THEN i ELSE i + 1
<1>1. n \in Nat /\ DOMAIN s = 1..n /\ k \in 1..n
  OBVIOUS
<1>. HIDE DEF n
<1>2. a \in Seq(S) /\ Len(a) = k - 1 /\ \A i \in 1..(k - 1) : a[i] = s[i]
  <2>1. \A i \in 1..(k - 1) : s[i] \in S
    BY <1>1
  <2>2. /\ a \in Seq(S) /\ Len(a) = IF 1 <= k - 1 THEN (k - 1) - 1 + 1 ELSE 0
        /\ \A i \in 1..((k - 1) - 1 + 1) : a[i] = s[1 + i - 1]
    BY <1>1, <2>1, SubSeqProperties
  <2>. HIDE DEF a
  <2>. QED
    BY <1>1, <2>2
<1>3. b \in Seq(S) /\ Len(b) = n - k /\ \A i \in 1..(n - k) : b[i] = s[k + i]
  <2>1. \A i \in (k + 1)..n : s[i] \in S
    BY <1>1
  <2>2. /\ b \in Seq(S) /\ Len(b) = IF k + 1 <= n THEN n - (k + 1) + 1 ELSE 0
        /\ \A i \in 1..(n - (k + 1) + 1) : b[i] = s[(k + 1) + i - 1]
    BY <1>1, <2>1, SubSeqProperties
  <2>. HIDE DEF b
  <2>3. n - (k + 1) + 1 = n - k /\ \A i \in 1..(n - k) : (k + 1) + i - 1 = k + i
    BY <1>1
  <2>4. Len(b) = n - k
    BY <1>1, <2>2
  <2>. QED
    BY <2>2, <2>3, <2>4
<1>. HIDE DEF a, b
<1>4. /\ r \in Seq(S) /\ Len(r) = n - 1 /\ DOMAIN r = 1..(n - 1)
      /\ \A i \in 1..(n - 1) : r[i] = IF i <= k - 1 THEN a[i] ELSE b[i - (k - 1)]
  <2>1. r = a \o b
    BY DEF a, b, n, RemoveAt
  <2>2. /\ r \in Seq(S) /\ Len(r) = Len(a) + Len(b)
        /\ \A i \in 1..(Len(a) + Len(b)) : r[i] = IF i <= Len(a) THEN a[i] ELSE b[i - Len(a)]
    <3>1. a \in Seq(S) /\ b \in Seq(S)
      BY <1>2, <1>3
    <3>. QED
      BY <2>1, <3>1, ConcatProperties, ZenonT(40)
  <2>3. Len(a) + Len(b) = n - 1 /\ Len(a) = k - 1
    BY <1>1, <1>2, <1>3
  <2>4. DOMAIN r = 1..Len(r)
    BY <2>2
  <2>5. \A i \in 1..(n - 1) : r[i] = IF i <= k - 1 THEN a[i] ELSE b[i - (k - 1)]
    BY <2>2, <2>3, Zenon
  <2>. QED
    BY <2>2, <2>3, <2>4, <2>5
<1>5. ASSUME NEW i \in 1..(n - 1)
      PROVE  r[i] = s[at(i)] /\ at(i) \in 1..n /\ at(i) # k
  <2>1. CASE i < k
    BY <1>1, <1>2, <1>4, <1>5, <2>1
  <2>2. CASE ~(i < k)
    <3>1. i - (k - 1) \in 1..(n - k) /\ k + (i - (k - 1)) = i + 1 /\ ~(i <= k - 1)
      BY <1>1, <1>5, <2>2
    <3>2. r[i] = b[i - (k - 1)] /\ b[i - (k - 1)] = s[k + (i - (k - 1))]
      BY <1>3, <1>4, <1>5, <3>1
    <3>3. at(i) = i + 1 /\ i + 1 \in 1..n /\ i + 1 # k
      BY <1>1, <1>5, <2>2
    <3>. QED
      BY <3>1, <3>2, <3>3
  <2>. QED
    BY <2>1, <2>2
<1>6. /\ \A i, j \in 1..(n - 1) : at(i) = at(j) => i = j
      /\ \A j \in 1..n : j # k => \E i \in 1..(n - 1) : at(i) = j
  <2>1. ASSUME NEW j \in 1..n, j # k PROVE \E i \in 1..(n - 1) : at(i) = j
    <3>1. CASE j < k
      BY <1>1, <3>1
    <3>2. CASE ~(j < k)
      <4>1. j - 1 \in 1..(n - 1) /\ at(j - 1) = j
        BY <1>1, <2>1, <3>2
      <4>. QED
        BY <4>1
    <3>. QED
      BY <3>1, <3>2
  <2>. QED
    BY <1>1, <2>1
<1>7. DOMAIN r = 1..(n - 1)
  BY <1>4
<1>. HIDE DEF at, r
<1>8. s[k] \in B => s[k] \notin ToSet(r)
  <2>1. s[k] \in B => \A i \in 1..n : s[i] = s[k] => i = k
    BY <1>1 DEF OnceIn
  <2>2. s[k] \in B => \A i \in 1..(n - 1) : r[i] # s[k]
    BY <1>5, <2>1
  <2>. QED
    BY <1>7, <2>2 DEF ToSet
<1>9. \A x : x # s[k] => (x \in ToSet(r) <=> x \in ToSet(s))
  <2>1. \A i \in 1..(n - 1) : r[i] \in ToSet(s)
    BY <1>1, <1>5 DEF ToSet
  <2>2. ASSUME NEW j \in 1..n, s[j] # s[k] PROVE \E i \in 1..(n - 1) : r[i] = s[j]
    BY <1>5, <1>6, <2>2
  <2>3. ToSet(r) \subseteq ToSet(s)
    BY <1>7, <2>1 DEF ToSet
  <2>4. ASSUME NEW x \in ToSet(s), x # s[k] PROVE x \in ToSet(r)
    <3>1. PICK j \in 1..n : x = s[j]
      BY <1>1, <2>4 DEF ToSet
    <3>. QED
      BY <1>7, <2>2, <2>4, <3>1 DEF ToSet
  <2>. QED
    BY <2>3, <2>4
<1>10. OnceIn(r, B)
  BY <1>1, <1>5, <1>6, <1>7 DEF OnceIn
<1>. QED
  BY <1>4, <1>8, <1>9, <1>10 DEF r

LEMMA Reversed ==
    ASSUME NEW S, NEW s \in Seq(S), NEW B
    PROVE  /\ Reverse(s) \in Seq(S) /\ ToSet(Reverse(s)) = ToSet(s)
           /\ OnceIn(s, B) => OnceIn(Reverse(s), B)
<1>. DEFINE r == Reverse(s)
            n == Len(s)
<1>1. n \in Nat /\ DOMAIN s = 1..n /\ \A i \in 1..n : s[i] \in S
  OBVIOUS
<1>2. DOMAIN r = 1..n /\ \A i \in 1..n : r[i] = s[(n - i) + 1] /\ (n - i) + 1 \in 1..n
  BY <1>1 DEF Reverse
<1>3. r \in Seq(S)
  BY <1>1 DEF Reverse
<1>. HIDE DEF r, n
<1>4. \A j \in 1..n : (n - j) + 1 \in 1..n /\ r[(n - j) + 1] = s[j]
  <2>1. \A j \in 1..n : (n - j) + 1 \in 1..n /\ (n - ((n - j) + 1)) + 1 = j
    BY <1>1
  <2>. QED
    BY <1>2, <2>1
<1>5. ToSet(r) = ToSet(s)
  BY <1>1, <1>2, <1>4 DEF ToSet
<1>6. ASSUME OnceIn(s, B), NEW i \in 1..n, NEW j \in 1..n, r[i] = r[j], r[i] \in B PROVE i = j
  <2>1. (n - i) + 1 = (n - j) + 1
    BY <1>1, <1>2, <1>6 DEF OnceIn
  <2>. QED
    BY <1>1, <2>1
<1>. QED
  BY <1>2, <1>3, <1>5, <1>6 DEF r, OnceIn

LEMMA OnceAppended ==
    ASSUME NEW S, NEW s \in Seq(S), NEW x \in S, NEW B, OnceIn(s, B), x \in B => x \notin ToSet(s)
    PROVE  OnceIn(Append(s, x), B)
<1>. DEFINE a == Append(s, x)
            n == Len(s)
<1>1. n \in Nat /\ DOMAIN s = 1..n /\ DOMAIN a = 1..(n + 1) /\ (\A i \in 1..n : a[i] = s[i]) /\ a[n + 1] = x
  OBVIOUS
<1>2. \A i \in 1..(n + 1) : i \in 1..n \/ i = n + 1
  BY <1>1
<1>3. \A k \in 1..n : a[k] \in ToSet(s)
  BY <1>1 DEF ToSet
<1>. HIDE DEF a
<1>4. ASSUME NEW i \in 1..(n + 1), NEW j \in 1..(n + 1), a[i] = a[j], a[i] \in B PROVE i = j
  <2>1. CASE i \in 1..n /\ j \in 1..n
    BY <1>1, <1>4, <2>1 DEF OnceIn
  <2>. QED
    BY <1>1, <1>2, <1>3, <1>4, <2>1
<1>5. OnceIn(a, B)
  BY <1>1, <1>4 DEF OnceIn
<1>. QED
  BY <1>5 DEF a

LEMMA OnceJoined ==
    ASSUME NEW S, NEW s \in Seq(S), NEW t \in Seq(S), NEW B, OnceIn(s, B), OnceIn(t, B),
           ToSet(s) \cap ToSet(t) \cap B = {}
    PROVE  OnceIn(s \o t, B)
<1>. DEFINE r == s \o t
            n == Len(s)
            l == Len(t)
<1>1. /\ n \in Nat /\ l \in Nat /\ DOMAIN s = 1..n /\ DOMAIN t = 1..l
      /\ \A k \in 1..n : s[k] \in ToSet(s)
      /\ \A k \in 1..l : t[k] \in ToSet(t)
  BY DEF ToSet
<1>2. /\ r \in Seq(S) /\ Len(r) = n + l
      /\ \A i \in 1..(n + l) : r[i] = IF i <= n THEN s[i] ELSE t[i - n]
  BY ConcatProperties, Zenon
<1>3. DOMAIN r = 1..(n + l)
  BY <1>2
<1>. HIDE DEF r, n, l
<1>4. \A i \in 1..(n + l) : IF i \in 1..n THEN r[i] = s[i] ELSE i - n \in 1..l /\ r[i] = t[i - n]
  BY <1>1, <1>2
<1>5. ASSUME NEW i \in 1..(n + l), NEW j \in 1..(n + l), r[i] = r[j], r[i] \in B PROVE i = j
  <2>1. CASE i \in 1..n /\ j \in 1..n
    BY <1>1, <1>4, <1>5, <2>1 DEF OnceIn
  <2>2. CASE i \notin 1..n /\ j \notin 1..n
    <3>1. i - n \in 1..l /\ j - n \in 1..l /\ t[i - n] = t[j - n] /\ t[i - n] \in B
      BY <1>4, <1>5, <2>2
    <3>2. i - n = j - n
      BY <1>1, <3>1 DEF OnceIn
    <3>. QED
      BY <1>1, <3>2
  <2>. QED
    BY <1>1, <1>4, <1>5, <2>1, <2>2
<1>6. OnceIn(r, B)
  BY <1>3, <1>5 DEF OnceIn
<1>. QED
  BY <1>6 DEF r

(* Some of a list, and fewer buffers that count.                            *)
LEMMA OnceFewer ==
    ASSUME NEW s, NEW B, NEW C, OnceIn(s, B), C \subseteq B PROVE OnceIn(s, C) /\ OnceIn(<<>>, C)
BY DEF OnceIn

LEMMA FirstOf ==
    ASSUME NEW S, NEW s \in Seq(S), NEW n \in 0..Len(s)
    PROVE  /\ SubSeq(s, 1, n) \in Seq(S) /\ Len(SubSeq(s, 1, n)) = n
           /\ ToSet(SubSeq(s, 1, n)) \subseteq ToSet(s)
<1>1. \A i \in 1..n : s[i] \in S
  OBVIOUS
<1>. DEFINE r == SubSeq(s, 1, n)
<1>2. /\ r \in Seq(S) /\ Len(r) = IF 1 <= n THEN n - 1 + 1 ELSE 0
      /\ \A i \in 1..(n - 1 + 1) : r[i] = s[1 + i - 1]
  BY <1>1, SubSeqProperties
<1>. HIDE DEF r
<1>3. Len(r) = n
  BY <1>2
<1>4. \A i \in 1..n : i \in 1..Len(s) /\ r[i] = s[i]
  BY <1>2
<1>5. ToSet(r) \subseteq ToSet(s)
  BY <1>2, <1>3, <1>4 DEF ToSet
<1>. QED
  BY <1>2, <1>3, <1>5 DEF r

-----------------------------------------------------------------------------
(* ION rounds up.                                                           *)
LEMMA RoundsUp ==
    ASSUME BufMemoryAssumption, NEW size \in Nat PROVE Round(size) \in Nat /\ Round(size) >= size
<1>1. \A a \in Nat, b \in Nat \ {0} : a \div b \in Nat /\ (a \div b) * b > a - b
  OBVIOUS
<1>2. Page \in Nat \ {0} /\ size + Page - 1 \in Nat
  BY DEF BufMemoryAssumption
<1>3. Round(size) \in Nat /\ Round(size) > (size + Page - 1) - Page
  BY <1>1, <1>2 DEF Round
<1>. QED
  BY <1>2, <1>3

(* The lists of the holders, and OneHolder said of them.                    *)
Lists(i, p) == [h \in Holders |-> IF h \in Mems THEN i[h] ELSE p[h]]
InOneList(L, l, B) ==
    /\ \A h \in Holders : OnceIn(L[h], B)
    /\ \A g, h \in Holders : g # h => ToSet(L[g]) \cap ToSet(L[h]) \cap B = {}
    /\ \A i \in B : l[i] > 0 <=> \E h \in Holders : i \in ToSet(L[h])

LEMMA HoldersLists ==
    /\ OneHolder <=> InOneList(Lists(memInfo, pool), live, Sound)
    /\ OneHolder' <=> InOneList(Lists(memInfo', pool'), live', Sound')
BY DEF OneHolder, InOneList, Lists, HeldBy, Holders, Sound

LEMMA MemStarts == ASSUME BufMemoryAssumption, memInit PROVE MemInv
<1>1. memTypeOK
  BY DEF memInit, memTypeOK, BufMemoryAssumption, NoAsk
<1>2. Counted
  BY DEF memInit, Counted, BufMemoryAssumption, NoAsk
<1>3. OneHolder
  <2>1. \A h \in Holders : HeldBy(h) = <<>>
    BY DEF memInit, Holders, HeldBy
  <2>2. \A h \in Holders : ToSet(HeldBy(h)) = {} /\ OnceIn(HeldBy(h), Sound)
    BY <2>1 DEF ToSet, OnceIn
  <2>. QED
    BY <2>2 DEF OneHolder, memInit, Sound
<1>4. BigEnough
  BY DEF BigEnough, memInit, NoAsk
<1>. QED
  BY <1>1, <1>2, <1>3, <1>4 DEF MemInv

(* A request changes neither the lists nor ION's buffers.                   *)
LEMMA AskKeeps ==
    ASSUME BufMemoryAssumption, MemInv, NEW m \in Mems, NEW t \in MemTypes, NEW n \in 1..MaxCount,
           NEW size \in Sizes, Allocate(m, t, n, size) \/ AllocateMore(m, n, size)
    PROVE  MemInv'
<1>. USE DEF MemInv
<1>1. /\ ask[m] = NoAsk /\ count[m] + n <= MaxCount
      /\ ask' = [ask EXCEPT ![m] = [size |-> size, left |-> n]]
      /\ type' = type \/ type' = [type EXCEPT ![m] = t]
      /\ UNCHANGED <<live, pool, memInfo, count, fails, shared>>
      /\ size \in Nat /\ size > 0 /\ MaxCount \in Nat /\ None \notin MemTypes
      /\ type'[m] # None
  BY DEF Allocate, AllocateMore, Counted, memTypeOK, BufMemoryAssumption
<1>2. memTypeOK'
  <2>1. [size |-> size, left |-> n] \in [size : Nat, left : 0..MaxCount]
    BY <1>1
  <2>. QED
    BY <1>1, <2>1 DEF memTypeOK
<1>3. OneHolder'
  BY <1>1 DEF OneHolder, Holders, HeldBy, Sound
<1>4. Counted'
  BY <1>1, SMTT(30) DEF Counted, memTypeOK, NoAsk
<1>5. BigEnough'
  <2>1. ask'[m].size = size /\ \A q \in Mems \ {m} : ask'[q] = ask[q]
    BY <1>1 DEF memTypeOK
  <2>2. count[m] = Len(memInfo[m]) /\ Len(memInfo[m]) \in Nat
    BY <1>1 DEF Counted, memTypeOK
  <2>3. (count[m] + 1)..Len(memInfo[m]) = {}
    BY <2>2
  <2>. QED
    BY <1>1, <2>1, <2>3 DEF BigEnough, Sound
<1>. QED
  BY <1>2, <1>3, <1>4, <1>5

(* One more buffer for the request.                                         *)
LEMMA FilledKeeps ==
    ASSUME BufMemoryAssumption, memTypeOK, Counted, BigEnough,
           NEW m \in Mems, NEW i \in Ions, ask[m].left > 0, Filled(m, i),
           live' \in [Ions -> Nat], i \in Sound => live'[i] >= ask[m].size,
           \A j \in Ions : j # i => live'[j] = live[j],
           i \in Sound => \A q \in Mems : i \notin ToSet(memInfo[q]),
           pool' \in [MemTypes -> Seq(Ions)], UNCHANGED <<count, type, fails, shared>>
    PROVE  memTypeOK' /\ Counted' /\ BigEnough'
<1>1. /\ memInfo \in [Mems -> Seq(Ions)] /\ ask \in [Mems -> [size : Nat, left : 0..MaxCount]]
      /\ memInfo' = [memInfo EXCEPT ![m] = Append(@, i)]
      /\ ask' = [ask EXCEPT ![m].left = @ - 1]
  BY DEF Filled, memTypeOK
<1>2. /\ memInfo'[m] = Append(memInfo[m], i) /\ memInfo[m] \in Seq(Ions)
      /\ ask'[m].size = ask[m].size /\ ask'[m].left = ask[m].left - 1
      /\ ask[m].size \in Nat /\ ask[m].left \in 0..MaxCount /\ ask'[m].left \in 0..MaxCount
      /\ \A q \in Mems \ {m} : memInfo'[q] = memInfo[q] /\ ask'[q] = ask[q]
  <2>1. ask[m] \in [size : Nat, left : 0..MaxCount]
    BY <1>1
  <2>2. ask'[m] = [ask[m] EXCEPT !.left = @ - 1]
    BY <1>1
  <2>3. ask'[m].size = ask[m].size /\ ask'[m].left = ask[m].left - 1
    BY <2>1, <2>2
  <2>4. ask'[m].left \in 0..MaxCount
    BY <2>1, <2>3 DEF BufMemoryAssumption
  <2>5. memInfo'[m] = Append(memInfo[m], i) /\ memInfo[m] \in Seq(Ions)
        /\ \A q \in Mems \ {m} : memInfo'[q] = memInfo[q] /\ ask'[q] = ask[q]
    BY <1>1
  <2>. QED
    BY <2>1, <2>3, <2>4, <2>5
<1>3. /\ Append(memInfo[m], i) \in Seq(Ions) /\ Len(Append(memInfo[m], i)) = Len(memInfo[m]) + 1
      /\ \A k \in 1..Len(memInfo[m]) : Append(memInfo[m], i)[k] = memInfo[m][k]
      /\ Append(memInfo[m], i)[Len(memInfo[m]) + 1] = i
  BY <1>2, Appended
<1>4. memTypeOK'
  <2>1. memInfo' \in [Mems -> Seq(Ions)]
    BY <1>1, <1>2, <1>3
  <2>2. ask' \in [Mems -> [size : Nat, left : 0..MaxCount]]
    BY <1>1, <1>2
  <2>. QED
    BY <2>1, <2>2 DEF memTypeOK
<1>5. ask[m].size > 0 /\ ask'[m] # NoAsk
  BY <1>2 DEF Counted, NoAsk
<1>6. Counted'
  <2>1. \A q \in Mems \ {m} : count'[q] = count[q] /\ type'[q] = type[q] /\ ask'[q] = ask[q]
                              /\ memInfo'[q] = memInfo[q]
    BY <1>2
  <2>2. /\ count[m] \in Nat /\ Len(memInfo[m]) \in Nat /\ count'[m] = count[m] /\ type'[m] = type[m]
    BY <1>2 DEF memTypeOK
  <2>4. /\ count[m] <= Len(memInfo[m]) /\ Len(memInfo[m]) + ask[m].left <= MaxCount
        /\ type[m] # None /\ MaxCount \in Nat
    BY <1>2, <1>5 DEF Counted, BufMemoryAssumption, NoAsk
  <2>3. /\ count'[m] <= Len(memInfo'[m]) /\ Len(memInfo'[m]) + ask'[m].left <= MaxCount
        /\ ask'[m] = NoAsk => count'[m] = Len(memInfo'[m])
        /\ ask'[m].size = 0 => ask'[m] = NoAsk
        /\ type'[m] = None => ask'[m] = NoAsk /\ count'[m] = 0
    <3>1. /\ memInfo'[m] = Append(memInfo[m], i) /\ Len(memInfo'[m]) = Len(memInfo[m]) + 1
          /\ ask'[m].left = ask[m].left - 1 /\ ask[m].left \in Nat /\ ask'[m].size > 0
      BY <1>2, <1>3, <1>5, <2>4
    <3>2. ask'[m].size # 0 /\ type'[m] # None
      BY <2>2, <2>4, <3>1
    <3>3. count'[m] <= Len(memInfo'[m])
      BY <2>2, <2>4, <3>1
    <3>4. Len(memInfo'[m]) + ask'[m].left <= MaxCount
      BY <2>2, <2>4, <3>1
    <3>. QED
      BY <1>5, <3>2, <3>3, <3>4, Zenon
  <2>. QED
    BY <2>1, <2>3 DEF Counted
<1>7. BigEnough'
  <2>1. ASSUME NEW q \in Mems \ {m}, ask'[q].size > 0, NEW k \in (count'[q] + 1)..Len(memInfo'[q])
        PROVE  memInfo'[q][k] \in Sound => live'[memInfo'[q][k]] >= ask'[q].size
    <3>1. /\ memInfo'[q] = memInfo[q] /\ ask'[q] = ask[q] /\ count'[q] = count[q]
          /\ memInfo[q] \in Seq(Ions) /\ count[q] \in Nat
      BY <1>1, <1>2 DEF memTypeOK
    <3>2. k \in 1..Len(memInfo[q]) /\ memInfo[q][k] \in Ions /\ (memInfo[q][k] \in Sound => memInfo[q][k] # i)
      BY <2>1, <3>1 DEF ToSet
    <3>. QED
      BY <2>1, <3>1, <3>2 DEF BigEnough
  <2>2. ASSUME NEW k \in (count'[m] + 1)..Len(memInfo'[m])
        PROVE  memInfo'[m][k] \in Sound => live'[memInfo'[m][k]] >= ask'[m].size
    <3>1. count'[m] = count[m] /\ count[m] \in Nat /\ Len(memInfo[m]) \in Nat
      BY <1>2 DEF memTypeOK
    <3>2. CASE k = Len(memInfo[m]) + 1
      BY <1>2, <1>3, <3>2
    <3>3. CASE k # Len(memInfo[m]) + 1
      <4>1. k \in (count[m] + 1)..Len(memInfo[m]) /\ k \in 1..Len(memInfo[m])
        BY <1>2, <1>3, <2>2, <3>1, <3>3, SMTT(30)
      <4>2. memInfo[m][k] \in Ions /\ (memInfo[m][k] \in Sound => memInfo[m][k] # i)
        BY <1>2, <4>1 DEF ToSet
      <4>3. memInfo[m][k] \in Sound => live[memInfo[m][k]] >= ask[m].size
        BY <1>5, <4>1 DEF BigEnough
      <4>. QED
        BY <1>2, <1>3, <4>1, <4>2, <4>3
    <3>. QED
      BY <3>2, <3>3
  <2>. QED
    BY <2>1, <2>2 DEF BigEnough, Sound
<1>. QED
  BY <1>4, <1>6, <1>7

LEMMA TakeNewKeeps ==
    ASSUME BufMemoryAssumption, MemInv, NEW m \in Mems, TakeNew(m) PROVE MemInv'
<1>. USE DEF MemInv
<1>1. PICK i \in Ions : live[i] = 0 /\ live' = [live EXCEPT ![i] = Round(ask[m].size)] /\ Filled(m, i)
  BY DEF TakeNew
<1>2. /\ ask[m].left > 0 /\ UNCHANGED <<pool, count, type, fails, shared>>
      /\ live \in [Ions -> Nat] /\ ask[m].size \in Nat /\ ask[m].size > 0
  BY DEF TakeNew, memTypeOK, Counted, NoAsk
<1>3. /\ live' \in [Ions -> Nat] /\ live'[i] >= ask[m].size /\ live'[i] > 0
      /\ \A j \in Ions : j # i => live'[j] = live[j]
  BY <1>1, <1>2, RoundsUp
<1>. DEFINE A == Lists(memInfo, pool)
            Z == Lists(memInfo', pool')
<1>4. InOneList(A, live, Sound) /\ (i \in Sound => \A h \in Holders : i \notin ToSet(A[h]))
  BY <1>1, HoldersLists DEF InOneList
<1>5. i \in Sound => \A q \in Mems : i \notin ToSet(memInfo[q])
  BY <1>4 DEF Holders, Lists
<1>6. memTypeOK' /\ Counted' /\ BigEnough'
  BY <1>1, <1>2, <1>3, <1>5, FilledKeeps DEF memTypeOK
<1>7. /\ Z[m] = Append(A[m], i) /\ A[m] \in Seq(Ions) /\ m \in Holders
      /\ \A h \in Holders \ {m} : Z[h] = A[h]
  BY <1>1, <1>2 DEF Filled, memTypeOK, Holders, Lists
<1>. HIDE DEF A, Z
<1>9. Sound' = Sound /\ Sound \subseteq Ions
  BY <1>2 DEF Sound
<1>8. InOneList(Z, live', Sound)
  <2>1. ToSet(Z[m]) = ToSet(A[m]) \cup {i} /\ OnceIn(Z[m], Sound)
    BY <1>4, <1>7, Appended, OnceAppended DEF InOneList
  <2>2. \A h \in Holders : OnceIn(Z[h], Sound)
    BY <1>4, <1>7, <2>1 DEF InOneList
  <2>5. \A h \in Holders : ToSet(Z[h]) = IF h = m THEN ToSet(A[m]) \cup {i} ELSE ToSet(A[h])
    BY <1>7, <2>1
  <2>3. \A g, h \in Holders : g # h => ToSet(Z[g]) \cap ToSet(Z[h]) \cap Sound = {}
    BY <1>4, <2>5 DEF InOneList
  <2>4. \A j \in Sound : live'[j] > 0 <=> \E h \in Holders : j \in ToSet(Z[h])
    BY <1>3, <1>4, <1>7, <1>9, <2>1 DEF InOneList
  <2>. QED
    BY <2>2, <2>3, <2>4 DEF InOneList
<1>. QED
  BY <1>6, <1>8, <1>9, HoldersLists DEF Z

LEMMA TakePooledKeeps ==
    ASSUME BufMemoryAssumption, MemInv, NEW m \in Mems, TakePooled(m) PROVE MemInv'
<1>. USE DEF MemInv
<1>. DEFINE t == type[m]
            A == Lists(memInfo, pool)
            Z == Lists(memInfo', pool')
<1>1. t \in MemTypes /\ t \in Holders /\ m \in Holders /\ t \notin Mems /\ m # t
      /\ A[t] = pool[t] /\ pool[t] \in Seq(Ions)
  BY DEF TakePooled, BufMemoryAssumption, Holders, Lists, memTypeOK
<1>2. PICK k \in InPool(t, ask[m].size) :
        Filled(m, pool[t][k]) /\ pool' = [pool EXCEPT ![t] = RemoveAt(@, k)]
  BY DEF TakePooled
<1>. DEFINE i == pool[t][k]
<1>3. /\ ask[m].left > 0 /\ UNCHANGED <<live, count, type, fails, shared>>
      /\ live \in [Ions -> Nat] /\ ask[m].size \in Nat /\ ask[m].size > 0
      /\ pool \in [MemTypes -> Seq(Ions)] /\ memInfo \in [Mems -> Seq(Ions)]
  BY DEF TakePooled, memTypeOK, Counted, NoAsk
<1>4. k \in DOMAIN pool[t] /\ i \in Ions /\ i \in ToSet(A[t])
  BY <1>1, <1>2 DEF InPool, ToSet
<1>5. live[i] >= ask[m].size
  BY <1>2, <1>3, <1>4 DEF InPool, Fits
<1>6. Filled(m, i) /\ pool' = [pool EXCEPT ![t] = RemoveAt(pool[t], k)]
  BY <1>1, <1>2, <1>3
<1>7. i = pool[t][k]
  OBVIOUS
<1>. HIDE DEF t, i
<1>8. /\ InOneList(A, live, Sound) /\ OnceIn(pool[t], Sound)
      /\ i \in Sound => \A h \in Holders \ {t} : i \notin ToSet(A[h])
  BY <1>1, <1>4, HoldersLists DEF InOneList
<1>9. /\ RemoveAt(pool[t], k) \in Seq(Ions) /\ OnceIn(RemoveAt(pool[t], k), Sound)
      /\ \A x : x # i => (x \in ToSet(RemoveAt(pool[t], k)) <=> x \in ToSet(pool[t]))
      /\ i \in Sound => i \notin ToSet(RemoveAt(pool[t], k))
  BY <1>1, <1>4, <1>7, <1>8, Removed
<1>10. i \in Sound => \A q \in Mems : i \notin ToSet(memInfo[q])
  BY <1>1, <1>8 DEF Holders, Lists
<1>11. pool' \in [MemTypes -> Seq(Ions)]
  BY <1>3, <1>6, <1>9
<1>12. memTypeOK' /\ Counted' /\ BigEnough'
  <2>1. /\ live' \in [Ions -> Nat] /\ live'[i] >= ask[m].size
        /\ \A j \in Ions : j # i => live'[j] = live[j]
    BY <1>3, <1>5
  <2>. QED
    BY <1>3, <1>4, <1>6, <1>10, <1>11, <2>1, FilledKeeps
<1>13. /\ Z[m] = Append(A[m], i) /\ A[m] \in Seq(Ions)
       /\ Z[t] = RemoveAt(pool[t], k)
       /\ \A h \in Holders \ {m, t} : Z[h] = A[h]
  BY <1>1, <1>3, <1>6 DEF Filled, Holders, Lists
<1>. HIDE DEF A, Z
<1>15. Sound' = Sound
  BY <1>3 DEF Sound
<1>14. InOneList(Z, live', Sound)
  <2>1. ToSet(Z[m]) = ToSet(A[m]) \cup {i} /\ OnceIn(Z[m], Sound)
    BY <1>1, <1>4, <1>8, <1>13, Appended, OnceAppended DEF InOneList
  <2>2. /\ \A x : x # i => (x \in ToSet(Z[t]) <=> x \in ToSet(A[t]))
        /\ i \in Sound => i \notin ToSet(Z[t])
        /\ OnceIn(Z[t], Sound)
    BY <1>1, <1>9, <1>13
  <2>3. \A h \in Holders : OnceIn(Z[h], Sound)
    BY <1>8, <1>13, <2>1, <2>2 DEF InOneList
  <2>4. /\ \A h \in Holders, x \in Sound : x # i => (x \in ToSet(Z[h]) <=> x \in ToSet(A[h]))
        /\ i \in Sound => \A h \in Holders : i \in ToSet(Z[h]) <=> h = m
    BY <1>1, <1>8, <1>13, <2>1, <2>2
  <2>5. \A g, h \in Holders : g # h => ToSet(Z[g]) \cap ToSet(Z[h]) \cap Sound = {}
    BY <1>8, <2>4, SMTT(30) DEF InOneList
  <2>6. \A j \in Sound : (\E h \in Holders : j \in ToSet(Z[h])) <=> \E h \in Holders : j \in ToSet(A[h])
    BY <1>1, <1>4, <2>4
  <2>. QED
    BY <1>3, <1>8, <2>3, <2>5, <2>6 DEF InOneList
<1>. QED
  BY <1>12, <1>14, <1>15, HoldersLists DEF Z

(* An object gives back all its buffers; those that it keeps as well are     *)
(* sound no more.                                                           *)
LEMMA GivenBackKeeps ==
    ASSUME BufMemoryAssumption, MemInv, NEW m \in Mems, NEW s \in Seq(Ions),
           OnceIn(s, Sound), ToSet(s) = ToSet(memInfo[m]), type[m] # None, Release(m, s),
           NEW kept \in Seq(Ions), NEW u \in MemTypes \cup {None}, u = None => kept = <<>>,
           Len(kept) <= MaxCount, memInfo' = [memInfo EXCEPT ![m] = kept],
           type' = [type EXCEPT ![m] = u], ask' = [ask EXCEPT ![m] = NoAsk],
           count' = [count EXCEPT ![m] = Len(kept)], fails' \in 0..MaxFails,
           shared' = shared \cup ToSet(kept)
    PROVE  MemInv'
<1>. USE DEF MemInv
<1>. DEFINE t == type[m]
            A == Lists(memInfo, pool)
            Z == Lists(memInfo', pool')
<1>1. /\ t \in MemTypes /\ t \in Holders /\ m \in Holders /\ t \notin Mems /\ m # t
      /\ A[t] = pool[t] /\ pool[t] \in Seq(Ions) /\ A[m] = memInfo[m]
      /\ pool \in [MemTypes -> Seq(Ions)] /\ memInfo \in [Mems -> Seq(Ions)] /\ live \in [Ions -> Nat]
  BY DEF BufMemoryAssumption, Holders, Lists, memTypeOK
<1>2. /\ memInfo' \in [Mems -> Seq(Ions)] /\ memInfo'[m] = kept
      /\ \A q \in Mems \ {m} : memInfo'[q] = memInfo[q]
  BY <1>1
<1>13. shared' \subseteq Ions /\ ToSet(kept) \subseteq Ions
  BY DEF ToSet, memTypeOK
<1>14. Sound \subseteq Ions /\ Sound' \subseteq Sound /\ ToSet(kept) \cap Sound' = {}
  BY <1>13 DEF Sound
<1>3. InOneList(A, live, Sound)
  BY HoldersLists
<1>4. Z[m] = kept /\ ToSet(Z[m]) \cap Sound' = {} /\ OnceIn(Z[m], Sound')
  <2>1. Z[m] = kept
    BY <1>1, <1>2 DEF Lists
  <2>. HIDE DEF Z
  <2>2. \A k \in DOMAIN kept : kept[k] \notin Sound'
    BY <1>14 DEF ToSet
  <2>. QED
    BY <1>14, <2>1, <2>2 DEF OnceIn
<1>5. \A j \in Sound : j \in ToSet(s) => j \in ToSet(A[m]) /\ \A h \in Holders \ {m} : j \notin ToSet(A[h])
  BY <1>1, <1>3 DEF InOneList
<1>6. pool' \in [MemTypes -> Seq(Ions)] /\ live' \in [Ions -> Nat] /\ InOneList(Z, live', Sound')
      /\ \A j \in Ions : j \notin ToSet(s) => live'[j] = live[j]
  <2>1. CASE t \in Pooled
    <3>1. pool' = [pool EXCEPT ![t] = pool[t] \o s] /\ live' = live
      BY <1>1, <2>1 DEF Release
    <3>2. ToSet(pool[t]) \cap ToSet(s) \cap Sound = {} /\ OnceIn(pool[t], Sound)
      BY <1>1, <1>3 DEF InOneList
    <3>3. /\ pool[t] \o s \in Seq(Ions) /\ ToSet(pool[t] \o s) = ToSet(pool[t]) \cup ToSet(s)
          /\ OnceIn(pool[t] \o s, Sound')
      <4>1. OnceIn(pool[t] \o s, Sound)
        BY <1>1, <3>2, OnceJoined
      <4>. QED
        BY <1>1, <1>14, <4>1, Concatenated, OnceFewer
    <3>4. pool' \in [MemTypes -> Seq(Ions)]
      BY <1>1, <3>1, <3>3
    <3>5. Z[t] = pool[t] \o s /\ \A h \in Holders \ {m, t} : Z[h] = A[h]
      BY <1>1, <1>2, <3>1 DEF Lists, Holders
    <3>. HIDE DEF t, A, Z
    <3>6. \A h \in Holders, j \in Sound' :
            j \in ToSet(Z[h]) <=> IF h = m THEN FALSE
                                  ELSE IF h = t THEN j \in ToSet(A[t]) \/ j \in ToSet(A[m]) ELSE j \in ToSet(A[h])
      BY <1>1, <1>4, <3>3, <3>5
    <3>7. \A h \in Holders : OnceIn(Z[h], Sound')
      BY <1>3, <1>4, <1>14, <3>3, <3>5, OnceFewer DEF InOneList
    <3>8. \A g, h \in Holders : g # h => ToSet(Z[g]) \cap ToSet(Z[h]) \cap Sound' = {}
      <4>1. \A g, h \in Holders, j \in Sound' : g # h => ~(j \in ToSet(A[g]) /\ j \in ToSet(A[h]))
        BY <1>3, <1>14 DEF InOneList
      <4>. QED
        BY <1>1, <3>6, <4>1
    <3>9. \A j \in Sound' : (\E h \in Holders : j \in ToSet(Z[h])) <=> \E h \in Holders : j \in ToSet(A[h])
      BY <1>1, <3>6
    <3>. QED
      BY <1>1, <1>3, <1>14, <3>1, <3>4, <3>7, <3>8, <3>9 DEF InOneList
  <2>2. CASE t \notin Pooled
    <3>1. live' = [i \in Ions |-> IF i \in ToSet(s) THEN 0 ELSE live[i]] /\ pool' = pool
      BY <2>2 DEF Release
    <3>2. \A h \in Holders \ {m} : Z[h] = A[h]
      BY <1>1, <1>2, <3>1 DEF Lists, Holders
    <3>. HIDE DEF t, A, Z
    <3>3. \A h \in Holders, j \in Sound' : j \in ToSet(Z[h]) <=> h # m /\ j \in ToSet(A[h])
      BY <1>4, <3>2
    <3>4. \A h \in Holders : OnceIn(Z[h], Sound')
      BY <1>3, <1>4, <1>14, <3>2, OnceFewer DEF InOneList
    <3>5. \A g, h \in Holders : g # h => ToSet(Z[g]) \cap ToSet(Z[h]) \cap Sound' = {}
      BY <1>3, <1>14, <3>3 DEF InOneList
    <3>6. ASSUME NEW j \in Sound' PROVE live'[j] > 0 <=> \E h \in Holders : j \in ToSet(Z[h])
      <4>1. live[j] > 0 <=> \E h \in Holders : j \in ToSet(A[h])
        BY <1>3, <1>14 DEF InOneList
      <4>2. CASE j \in ToSet(s)
        <5>1. live'[j] = 0 /\ \A h \in Holders : j \notin ToSet(Z[h])
          BY <1>5, <1>14, <3>1, <3>3, <4>2
        <5>. QED
          BY <5>1
      <4>3. CASE j \notin ToSet(s)
        <5>1. live'[j] = live[j] /\ j \notin ToSet(A[m])
          BY <1>1, <1>14, <3>1, <4>3
        <5>2. \A h \in Holders : j \in ToSet(Z[h]) <=> j \in ToSet(A[h])
          BY <3>3, <5>1
        <5>. QED
          BY <4>1, <5>1, <5>2
      <4>. QED
        BY <4>2, <4>3
    <3>. QED
      BY <1>1, <3>1, <3>4, <3>5, <3>6 DEF InOneList
  <2>. QED
    BY <2>1, <2>2
<1>7. \A q \in Mems \ {m} : memInfo'[q] = memInfo[q] /\ count'[q] = count[q] /\ ask'[q] = ask[q]
                            /\ type'[q] = type[q]
  BY <1>2 DEF memTypeOK
<1>8. memInfo'[m] = kept /\ count'[m] = Len(kept) /\ ask'[m] = NoAsk /\ type'[m] = u
  BY <1>2 DEF memTypeOK
<1>9. MaxCount \in Nat
  BY DEF BufMemoryAssumption
<1>10. memTypeOK'
  <2>1. NoAsk \in [size : Nat, left : 0..MaxCount] /\ Len(kept) \in 0..MaxCount
    BY <1>9 DEF NoAsk
  <2>. QED
    BY <1>2, <1>6, <1>13, <2>1 DEF memTypeOK
<1>11. Counted'
  BY <1>7, <1>8, <1>9 DEF Counted, NoAsk
<1>12. BigEnough'
  <2>1. ASSUME NEW q \in Mems \ {m}, ask'[q].size > 0, NEW k \in (count'[q] + 1)..Len(memInfo'[q])
        PROVE  memInfo'[q][k] \in Sound' => live'[memInfo'[q][k]] >= ask'[q].size
    <3>1. /\ memInfo'[q] = memInfo[q] /\ ask'[q] = ask[q] /\ count'[q] = count[q]
          /\ memInfo[q] \in Seq(Ions) /\ count[q] \in Nat
      BY <1>7 DEF memTypeOK
    <3>2. k \in 1..Len(memInfo[q]) /\ memInfo[q][k] \in Ions /\ memInfo[q][k] \in ToSet(memInfo[q])
      BY <2>1, <3>1 DEF ToSet
    <3>3. q \in Holders /\ A[q] = memInfo[q] /\ q # m
      BY DEF Holders, Lists
    <3>4. memInfo[q][k] \in Sound' => memInfo[q][k] \notin ToSet(s) /\ memInfo[q][k] \in Sound
      BY <1>5, <1>14, <3>2, <3>3
    <3>. QED
      BY <1>6, <2>1, <3>1, <3>2, <3>4 DEF BigEnough
  <2>2. ~(ask'[m].size > 0)
    BY <1>8 DEF NoAsk
  <2>. QED
    BY <2>1, <2>2 DEF BigEnough
<1>. QED
  BY <1>6, <1>10, <1>11, <1>12, HoldersLists

(* ION's refusal: of an object that had no buffers, or of one that keeps those *)
(* it had.                                                                  *)
LEMMA TakeFailsKeeps ==
    ASSUME BufMemoryAssumption, MemInv, NEW m \in Mems, TakeFails(m) PROVE MemInv'
<1>. USE DEF MemInv
<1>. DEFINE kept == SubSeq(memInfo[m], 1, count[m])
            u == IF count[m] = 0 THEN None ELSE type[m]
<1>1. /\ fails' \in 0..MaxFails /\ type[m] # None /\ type[m] \in MemTypes
      /\ memInfo[m] \in Seq(Ions) /\ count' = count /\ count \in [Mems -> 0..MaxCount]
      /\ count[m] \in 0..Len(memInfo[m]) /\ count[m] <= MaxCount /\ type \in [Mems -> MemTypes \cup {None}]
  BY DEF TakeFails, memTypeOK, Counted, NoAsk, BufMemoryAssumption
<1>2. kept \in Seq(Ions) /\ Len(kept) = count[m] /\ (count[m] = 0 => kept = <<>>)
  <2>1. kept \in Seq(Ions) /\ Len(kept) = count[m]
    BY <1>1, FirstOf
  <2>. HIDE DEF kept
  <2>. QED
    BY <2>1
<1>3. /\ Release(m, Reverse(memInfo[m])) /\ ask' = [ask EXCEPT ![m] = NoAsk]
      /\ shared' = shared \cup ToSet(kept)
  BY DEF TakeFails
<1>4. memInfo' = [memInfo EXCEPT ![m] = kept]
  <2>1. CASE count[m] = 0
    <3>1. kept = <<>> /\ memInfo' = [memInfo EXCEPT ![m] = <<>>]
      BY <1>2, <2>1 DEF TakeFails
    <3>. QED
      BY <3>1
  <2>2. CASE count[m] # 0
    BY <2>2 DEF TakeFails
  <2>. QED
    BY <2>1, <2>2
<1>5. type' = [type EXCEPT ![m] = u]
  <2>1. CASE count[m] = 0
    BY <2>1 DEF TakeFails
  <2>2. CASE count[m] # 0
    BY <1>1, <2>2 DEF TakeFails
  <2>. QED
    BY <2>1, <2>2
<1>6. OnceIn(memInfo[m], Sound)
  BY DEF OneHolder, Holders, HeldBy
<1>7. /\ Reverse(memInfo[m]) \in Seq(Ions) /\ OnceIn(Reverse(memInfo[m]), Sound)
      /\ ToSet(Reverse(memInfo[m])) = ToSet(memInfo[m])
  BY <1>1, <1>6, Reversed
<1>8. count' = [count EXCEPT ![m] = Len(kept)] /\ Len(kept) <= MaxCount
  BY <1>1, <1>2
<1>9. u \in MemTypes \cup {None} /\ (u = None => kept = <<>>)
  BY <1>1, <1>2
<1>. DEFINE s == Reverse(memInfo[m])
<1>10. s \in Seq(Ions) /\ OnceIn(s, Sound) /\ ToSet(s) = ToSet(memInfo[m]) /\ Release(m, s)
  BY <1>3, <1>7
<1>. HIDE DEF kept, u, s
<1>. QED
  BY <1>1, <1>2, <1>3, <1>4, <1>5, <1>8, <1>9, <1>10, GivenBackKeeps

LEMMA DeallocateKeeps ==
    ASSUME BufMemoryAssumption, MemInv, NEW m \in Mems, Deallocate(m) PROVE MemInv'
<1>. USE DEF MemInv
<1>. DEFINE s == SubSeq(memInfo[m], 1, count[m])
<1>1. /\ count[m] = Len(memInfo[m]) /\ type[m] # None /\ memInfo[m] \in Seq(Ions)
      /\ ask \in [Mems -> [size : Nat, left : 0..MaxCount]] /\ ask[m] = NoAsk
  BY DEF Deallocate, Counted, memTypeOK
<1>2. s = memInfo[m]
  BY <1>1
<1>3. OnceIn(memInfo[m], Sound)
  BY DEF OneHolder, Holders, HeldBy
<1>4. /\ Release(m, s) /\ memInfo' = [memInfo EXCEPT ![m] = <<>>] /\ count' = [count EXCEPT ![m] = 0]
      /\ shared' = shared
      /\ type' = [type EXCEPT ![m] = None]
  BY DEF Deallocate
<1>5. ask' = [ask EXCEPT ![m] = NoAsk] /\ fails' \in 0..MaxFails
  BY <1>1 DEF Deallocate, memTypeOK
<1>6. /\ <<>> \in Seq(Ions) /\ Len(<<>>) = 0 /\ 0 <= MaxCount /\ shared' = shared \cup ToSet(<<>>)
      /\ None \in MemTypes \cup {None}
  BY <1>4 DEF ToSet, BufMemoryAssumption
<1>. HIDE DEF s
<1>. QED
  BY <1>1, <1>2, <1>3, <1>4, <1>5, <1>6, GivenBackKeeps

LEMMA AllocatedKeeps ==
    ASSUME BufMemoryAssumption, MemInv, NEW m \in Mems, Allocated(m) PROVE MemInv'
<1>. USE DEF MemInv
<1>1. /\ memInfo[m] \in Seq(Ions) /\ Len(memInfo[m]) \in 0..MaxCount /\ type[m] # None
      /\ count' = [count EXCEPT ![m] = Len(memInfo[m])] /\ ask' = [ask EXCEPT ![m] = NoAsk]
      /\ UNCHANGED <<live, pool, memInfo, type, fails, shared>> /\ MaxCount \in Nat
  BY DEF Allocated, Counted, memTypeOK, BufMemoryAssumption, NoAsk
<1>2. NoAsk \in [size : Nat, left : 0..MaxCount]
  BY <1>1 DEF NoAsk
<1>3. memTypeOK'
  BY <1>1, <1>2 DEF memTypeOK
<1>4. /\ count'[m] = Len(memInfo[m]) /\ ask'[m] = NoAsk
      /\ \A q \in Mems \ {m} : count'[q] = count[q] /\ ask'[q] = ask[q]
  BY <1>1 DEF memTypeOK
<1>5. Counted'
  BY <1>1, <1>4 DEF Counted, NoAsk
<1>6. OneHolder'
  BY <1>1 DEF OneHolder, Holders, HeldBy, Sound
<1>7. BigEnough'
  BY <1>1, <1>4 DEF BigEnough, NoAsk, Sound
<1>. QED
  BY <1>3, <1>5, <1>6, <1>7

(* The pool is emptied: no object holds what is in it.                      *)
LEMMA ClearKeeps == ASSUME BufMemoryAssumption, MemInv, Clear PROVE MemInv'
<1>. USE DEF MemInv
<1>. DEFINE A == Lists(memInfo, pool)
            Z == Lists(memInfo', pool')
<1>1. /\ live' = [i \in Ions |-> IF \E t \in MemTypes : i \in ToSet(pool[t]) THEN 0 ELSE live[i]]
      /\ pool' = [t \in MemTypes |-> <<>>]
      /\ UNCHANGED <<memInfo, count, type, ask, fails, shared>>
      /\ live \in [Ions -> Nat] /\ memInfo \in [Mems -> Seq(Ions)] /\ Mems \cap MemTypes = {}
  BY DEF Clear, memTypeOK, BufMemoryAssumption
<1>2. InOneList(A, live, Sound)
  BY HoldersLists
<1>3. /\ \A m \in Mems : Z[m] = memInfo[m] /\ A[m] = memInfo[m] /\ m \in Holders
      /\ \A t \in MemTypes : Z[t] = <<>> /\ A[t] = pool[t] /\ t \in Holders
      /\ \A h \in Holders : h \in Mems \/ h \in MemTypes
  BY <1>1 DEF Lists, Holders
<1>4. ToSet(<<>>) = {} /\ OnceIn(<<>>, Sound)
  BY DEF ToSet, OnceIn
<1>11. Sound' = Sound /\ Sound \subseteq Ions
  BY <1>1 DEF Sound
<1>. HIDE DEF A, Z
<1>5. \A h \in Holders : ToSet(Z[h]) = IF h \in Mems THEN ToSet(A[h]) ELSE {}
  BY <1>3, <1>4
<1>6. \A m \in Mems, j \in Sound : j \in ToSet(memInfo[m]) => live'[j] = live[j]
  <2>1. ASSUME NEW m \in Mems, NEW j \in Sound, j \in ToSet(memInfo[m])
        PROVE  ~ \E t \in MemTypes : j \in ToSet(pool[t])
    BY <1>1, <1>2, <1>3, <2>1 DEF InOneList
  <2>. QED
    BY <1>1, <1>11, <2>1
<1>7. memTypeOK'
  <2>1. <<>> \in Seq(Ions)
    OBVIOUS
  <2>. QED
    BY <1>1, <2>1 DEF memTypeOK
<1>8. Counted'
  BY <1>1 DEF Counted
<1>9. InOneList(Z, live', Sound)
  <2>1. \A h \in Holders : OnceIn(Z[h], Sound)
    BY <1>2, <1>3, <1>4 DEF InOneList
  <2>2. \A g, h \in Holders : g # h => ToSet(Z[g]) \cap ToSet(Z[h]) \cap Sound = {}
    BY <1>2, <1>5 DEF InOneList
  <2>3. ASSUME NEW j \in Sound PROVE live'[j] > 0 <=> \E h \in Holders : j \in ToSet(Z[h])
    <3>1. live[j] > 0 <=> \E h \in Holders : j \in ToSet(A[h])
      BY <1>2 DEF InOneList
    <3>2. CASE \E t \in MemTypes : j \in ToSet(pool[t])
      <4>1. live'[j] = 0
        BY <1>1, <1>11, <3>2
      <4>2. \A m \in Mems : j \notin ToSet(A[m])
        BY <1>1, <1>2, <1>3, <3>2 DEF InOneList
      <4>. QED
        BY <1>5, <4>1, <4>2
    <3>3. CASE ~ \E t \in MemTypes : j \in ToSet(pool[t])
      <4>1. live'[j] = live[j]
        BY <1>1, <1>11, <3>3
      <4>2. \A h \in Holders : j \in ToSet(Z[h]) <=> j \in ToSet(A[h])
        BY <1>3, <1>5, <3>3
      <4>. QED
        BY <3>1, <4>1, <4>2
    <3>. QED
      BY <3>2, <3>3
  <2>. QED
    BY <2>1, <2>2, <2>3 DEF InOneList
<1>10. BigEnough'
  <2>1. ASSUME NEW q \in Mems, ask[q].size > 0, NEW k \in (count[q] + 1)..Len(memInfo[q])
        PROVE  memInfo[q][k] \in Sound => live'[memInfo[q][k]] >= ask[q].size
    <3>1. memInfo[q] \in Seq(Ions) /\ count[q] \in Nat
      BY <1>1 DEF memTypeOK
    <3>2. memInfo[q][k] \in Ions /\ memInfo[q][k] \in ToSet(memInfo[q])
      BY <3>1, <2>1 DEF ToSet
    <3>. QED
      BY <1>6, <2>1, <3>2 DEF BigEnough
  <2>. QED
    BY <1>1, <1>11, <2>1 DEF BigEnough
<1>. QED
  BY <1>7, <1>8, <1>9, <1>10, <1>11, HoldersLists DEF Z

LEMMA MemNextKeeps ==
    ASSUME BufMemoryAssumption, MemInv, [memNext]_memVars PROVE MemInv'
<1>1. CASE Clear
  BY <1>1, ClearKeeps
<1>3. ASSUME NEW m \in Mems, MemSteps(m) PROVE MemInv'
  <2>1. CASE \E t \in MemTypes, n \in 1..MaxCount, size \in Sizes : Allocate(m, t, n, size)
    BY <2>1, AskKeeps
  <2>2. CASE \E n \in 1..MaxCount, size \in Sizes : AllocateMore(m, n, size)
    <3>1. PICK t \in MemTypes : TRUE
      BY DEF BufMemoryAssumption
    <3>. QED
      BY <2>2, <3>1, AskKeeps
  <2>3. CASE TakePooled(m) \/ TakeNew(m) \/ TakeFails(m)
    BY <2>3, TakePooledKeeps, TakeNewKeeps, TakeFailsKeeps
  <2>4. CASE Allocated(m) \/ Deallocate(m)
    BY <2>4, AllocatedKeeps, DeallocateKeeps
  <2>. QED
    BY <1>3, <2>1, <2>2, <2>3, <2>4 DEF MemSteps
<1>2. CASE UNCHANGED memVars
  BY <1>2 DEF memVars, MemInv, memTypeOK, Counted, OneHolder, BigEnough, Holders, HeldBy, Sound
<1>. QED
  BY <1>1, <1>2, <1>3 DEF memNext

-----------------------------------------------------------------------------
(* MemInv is an invariant.                                                  *)
LEMMA MemInvariant == ASSUME BufMemoryAssumption PROVE memSpec => []MemInv
<1>1. memInit => MemInv
  BY MemStarts
<1>2. MemInv /\ [memNext]_memVars => MemInv'
  BY MemNextKeeps
<1>. QED
  BY <1>1, <1>2, PTL DEF memSpec

(* Memory is neither shared by two streams, nor freed under one, nor        *)
(* forgotten, whatever the objects, types, sizes and buffers, and whenever   *)
(* ION refuses: but for the buffers of a stream that was refused more of     *)
(* them, which alloc gives back while the stream keeps them                 *)
(* (QCameraMem.cpp:342).                                                    *)
THEOREM BuffersHaveOneHolder == ASSUME BufMemoryAssumption PROVE memSpec => []OneHolder
BY MemInvariant, PTL DEF MemInv

(* The pool never hands out a buffer smaller than the stream asked for, with *)
(* the same exception.                                                      *)
THEOREM BuffersAreBigEnough == ASSUME BufMemoryAssumption PROVE memSpec => []BigEnough
BY MemInvariant, PTL DEF MemInv

-----------------------------------------------------------------------------
(* HalStream: what is inductive.                                            *)

\* mm-camera-interface streams.
Streaming == {"streaming", "on", "joins", "streamoff", "failed"}

Shape ==
  /\ kind \in Kinds /\ active \in BOOLEAN /\ on \in BOOLEAN
  /\ sm \in Streaming \cup {"off", "getbufs", "putbufs", "free", "flush", "putbufs2", "free2",
                            "undo", "undone"}
  /\ mem \subseteq Bufs /\ drv \subseteq Bufs /\ window \subseteq Bufs /\ app \subseteq Bufs
  /\ toMap \subseteq Bufs
  /\ poll = NoFrame \/ poll \in [b : Bufs, saw : BOOLEAN]
  /\ dataQ \in Seq(Bufs) /\ cbQ \in Seq(Bufs)
  /\ proc.pc \in {"off", "idle", "cb", "look"} /\ (proc.pc \in {"cb", "look"} => proc.b \in Bufs)
  /\ alloc \in {"none", "waits", "runs", "over"} /\ wait \in BOOLEAN
  /\ shrunk \in BOOLEAN /\ late \in BOOLEAN
  /\ stray \in Nat /\ faults \in 0..MaxFaults /\ runs \in 0..MaxRuns

Phases ==
  /\ on <=> sm \in Streaming
  /\ ~on => drv = {} /\ poll = NoFrame
  /\ sm \in {"off", "getbufs", "flush", "undo", "undone"} => mem = {} /\ alloc = "none"
  /\ alloc = "runs" => mem = Bufs
  /\ alloc = "waits" => mem = First
  /\ alloc # "runs" => toMap = {}

Gone ==
  /\ sm \in {"streamoff", "putbufs", "free", "flush", "off"} => proc.pc = "off"
  /\ sm = "off" => cbQ = <<>>
  /\ ~late => /\ proc.pc = "off" => dataQ = <<>>
              /\ sm = "getbufs" => /\ dataQ = <<>> /\ proc.pc \notin {"cb", "look"}
                                  /\ app = {} /\ cbQ = <<>>

Waiting == ToSet(dataQ)
Notified == ToSet(cbQ)
Held == drv \cup PollBufs \cup Waiting \cup ProcBufs \cup window \cup Notified \cup app

Apart ==
  /\ drv \cap (PollBufs \cup Waiting \cup ProcBufs \cup window \cup Notified \cup app \cup toMap) = {}
  /\ PollBufs \cap (Waiting \cup ProcBufs \cup window \cup Notified \cup app \cup toMap) = {}
  /\ Waiting \cap (ProcBufs \cup window \cup Notified \cup app \cup toMap) = {}
  /\ ProcBufs \cap (window \cup Notified \cup app \cup toMap) = {}
  /\ window \cap (Notified \cup app \cup toMap) = {}
  /\ Notified \cap (app \cup toMap) = {}
  /\ app \cap toMap = {}

Once == IsInjective(dataQ) /\ IsInjective(cbQ)

Owned ==
  on /\ ~late => /\ Apart /\ Once /\ Held \subseteq mem /\ Looked \subseteq mem
                 /\ ~shrunk => mem \subseteq Held \cup toMap

StreamInv == Shape /\ Phases /\ Gone /\ Owned

-----------------------------------------------------------------------------
LEMMA Faulted ==
    ASSUME HalStreamAssumption, Shape, Fault
    PROVE  faults' \in 0..MaxFaults
BY DEF HalStreamAssumption, Shape, Fault

LEMMA StreamBegins == ASSUME HalStreamAssumption, Init PROVE StreamInv
<1>1. faults \in 0..MaxFaults /\ runs \in 0..MaxRuns /\ stray \in Nat
  BY DEF HalStreamAssumption, Init
<1>2. proc.pc = "off"
  BY DEF Init
<1>3. Shape
  <2>1. dataQ \in Seq(Bufs) /\ cbQ \in Seq(Bufs)
    BY DEF Init
  <2>2. /\ kind \in Kinds /\ active \in BOOLEAN /\ on \in BOOLEAN /\ wait \in BOOLEAN
        /\ shrunk \in BOOLEAN /\ late \in BOOLEAN /\ poll = NoFrame /\ sm = "off" /\ alloc = "none"
    BY Zenon DEF Init
  <2>3. mem = {} /\ drv = {} /\ window = {} /\ app = {} /\ toMap = {}
    BY Zenon DEF Init
  <2>. QED
    BY <1>1, <1>2, <2>1, <2>2, <2>3 DEF Shape
<1>4. Phases
  <2>1. ~on /\ sm = "off" /\ drv = {} /\ poll = NoFrame /\ mem = {} /\ alloc = "none" /\ toMap = {}
    BY Zenon DEF Init
  <2>2. on = FALSE
    BY DEF Init
  <2>. QED
    BY <2>1, <2>2 DEF Phases, Streaming
<1>5. Gone /\ Owned
  BY <1>2 DEF Init, Gone, Owned
<1>. QED
  BY <1>3, <1>4, <1>5 DEF StreamInv

LEMMA OwnedStays ==
    ASSUME Owned, UNCHANGED <<on, mem, drv, poll, dataQ, proc, window, cbQ, app, toMap, shrunk, late>>
    PROVE  Owned'
<1>1. UNCHANGED <<PollBufs, Waiting, ProcBufs, Looked, Notified>>
  BY DEF PollBufs, Waiting, ProcBufs, Looked, Notified
<1>2. Held' = Held /\ Apart' = Apart /\ Once' = Once
  BY <1>1 DEF Held, Apart, Once
<1>. QED
  BY <1>1, <1>2 DEF Owned

LEMMA FirstIs ==
    ASSUME HalStreamAssumption
    PROVE  First \subseteq Bufs /\ WindowKeeps \subseteq Bufs /\ (kind = "preview" => First = Bufs)
           /\ WindowKeeps \subseteq First
BY DEF HalStreamAssumption, First, WindowKeeps, Bufs

LEMMA StartStreamKeeps == ASSUME HalStreamAssumption, StreamInv, StartStream PROVE StreamInv'
<1>1. Shape'
  BY DEF StreamInv, Shape, StartStream, allocs, HalStreamAssumption
<1>2. Phases'
  BY DEF StreamInv, Phases, StartStream, allocs, Streaming, First
<1>3. Gone' /\ Owned'
  BY DEF StreamInv, Gone, Phases, Owned, StartStream, Streaming
<1>. QED
  BY <1>1, <1>2, <1>3 DEF StreamInv

LEMMA GetBufsKeeps == ASSUME HalStreamAssumption, StreamInv, GetBufs PROVE StreamInv'
<1>1. First \subseteq Bufs /\ WindowKeeps \subseteq First /\ First' = First
  BY FirstIs DEF GetBufs, First
<1>2. Shape'
  BY <1>1 DEF StreamInv, Shape, GetBufs, ghosts, Streaming
<1>3. Phases'
  BY <1>1 DEF StreamInv, Phases, GetBufs, ghosts, Streaming
<1>4. Gone'
  BY DEF StreamInv, Gone, GetBufs, ghosts
<1>5. ASSUME ~late PROVE Owned'
  <2>1. /\ PollBufs' = {} /\ ProcBufs' = {} /\ Looked' = {} /\ app' = {} /\ toMap' = {}
        /\ dataQ' = <<>> /\ cbQ' = <<>>
    BY <1>5 DEF StreamInv, Phases, Gone, GetBufs, Streaming, PollBufs, ProcBufs, Looked
  <2>2. Waiting' = {} /\ Notified' = {} /\ Once'
    BY <2>1, Nobody DEF StreamInv, Shape, Waiting, Notified, Once
  <2>3. mem' = First /\ window' = WindowKeeps /\ drv' = First \ WindowKeeps
    BY DEF GetBufs
  <2>4. Apart' /\ Held' = First
    BY <1>1, <2>1, <2>2, <2>3 DEF Apart, Held
  <2>. QED
    BY <2>1, <2>2, <2>3, <2>4 DEF Owned
<1>6. late => Owned'
  BY DEF Owned, GetBufs, ghosts
<1>. QED
  BY <1>2, <1>3, <1>4, <1>5, <1>6 DEF StreamInv

LEMMA SmKeeps ==
    ASSUME HalStreamAssumption, StreamInv,
           Started \/ StopStream \/ (Joined /\ sm = "joins") \/ StartFails
    PROVE  StreamInv'
<1>1. Shape'
  <2>1. CASE StartFails
    BY <2>1, Faulted DEF StreamInv, Shape, StartFails, allocs, Streaming
  <2>2. CASE Started
    BY <2>2 DEF StreamInv, Shape, Started, ghosts, Streaming
  <2>3. CASE StopStream
    BY <2>3 DEF StreamInv, Shape, StopStream, allocs, ghosts, Streaming
  <2>4. CASE Joined /\ sm = "joins"
    BY <2>4 DEF StreamInv, Shape, Joined, allocs, Streaming
  <2>. QED
    BY <2>1, <2>2, <2>3, <2>4
<1>2. Phases'
  BY DEF StreamInv, Phases, Shape, Started, StopStream, Joined, StartFails, allocs, ghosts, Streaming, First
<1>3. Gone'
  BY DEF StreamInv, Gone, Started, StopStream, Joined, StartFails, ghosts
<1>4. UNCHANGED <<on, mem, drv, poll, dataQ, proc, window, cbQ, app, toMap, shrunk, late>>
  BY DEF Started, StopStream, Joined, StartFails, allocs, ghosts
<1>. QED
  BY <1>1, <1>2, <1>3, <1>4, OwnedStays DEF StreamInv

LEMMA LeaveIs ==
    ASSUME Shape, Leave
    PROVE  cbQ' = <<>> /\ cbQ' \in Seq(Bufs) /\ stray' \in Nat
BY DEF Shape, Leave

LEMMA JoinedUndoneKeeps ==
    ASSUME HalStreamAssumption, StreamInv, Joined, sm # "joins" PROVE StreamInv'
<1>1. /\ UNCHANGED <<kind, active, on, mem, drv, poll, dataQ, proc, window, app, alloc, toMap, wait>>
      /\ UNCHANGED <<faults, shrunk, late, runs>>
      /\ sm = "undone" /\ sm' = "off" /\ proc.pc = "off" /\ Leave
  BY DEF Joined, allocs
<1>2. cbQ' = <<>> /\ cbQ' \in Seq(Bufs) /\ stray' \in Nat
  BY <1>1, LeaveIs DEF StreamInv
<1>3. Shape'
  BY <1>1, <1>2 DEF StreamInv, Shape
<1>4. ~on /\ Phases'
  BY <1>1 DEF StreamInv, Phases, Streaming, First
<1>5. Gone'
  BY <1>1, <1>2 DEF StreamInv, Gone
<1>6. Owned'
  BY <1>1, <1>4 DEF Owned
<1>. QED
  BY <1>3, <1>4, <1>5, <1>6 DEF StreamInv

LEMMA OffKeeps ==
    ASSUME HalStreamAssumption, StreamInv, GetBufsFails \/ StreamOff \/ PutBufs \/ Free \/ Flush
    PROVE  StreamInv'
<1>1. Shape'
  <2>1. CASE GetBufsFails
    BY <2>1, Faulted DEF StreamInv, Shape, GetBufsFails, allocs, Streaming
  <2>2. CASE StreamOff
    BY <2>2 DEF StreamInv, Shape, StreamOff, allocs, ghosts, Streaming
  <2>3. CASE PutBufs
    BY <2>3 DEF StreamInv, Shape, PutBufs, WakeAlloc, ghosts, Streaming
  <2>4. CASE Free
    BY <2>4 DEF StreamInv, Shape, Free, ghosts, Streaming
  <2>5. CASE Flush
    <3>1. CASE kind = "video"
      <4>1. cbQ' = <<>> /\ stray' = stray
        BY <2>5, <3>1 DEF Flush
      <4>2. <<>> \in Seq(Bufs)
        OBVIOUS
      <4>. QED
        BY <2>5, <4>1, <4>2 DEF StreamInv, Shape, Flush, allocs, Streaming
    <3>2. CASE kind # "video"
      <4>1. cbQ' \in Seq(Bufs) /\ stray' \in Nat
        BY <2>5, <3>2, LeaveIs DEF StreamInv, Flush
      <4>. QED
        BY <2>5, <4>1 DEF StreamInv, Shape, Flush, allocs, Streaming
    <3>. QED
      BY <3>1, <3>2
  <2>. QED
    BY <2>1, <2>2, <2>3, <2>4, <2>5
<1>2. Phases'
  <2>0. First' = First
    BY DEF GetBufsFails, StreamOff, PutBufs, Free, Flush, First
  <2>1. CASE GetBufsFails
    BY <2>0, <2>1 DEF StreamInv, Phases, GetBufsFails, allocs, Streaming
  <2>2. CASE StreamOff
    <3>1. on' = FALSE /\ drv' = {} /\ poll' = NoFrame /\ sm' \in {"putbufs", "putbufs2"}
      BY <2>2 DEF StreamOff
    <3>. QED
      BY <2>0, <2>2, <3>1 DEF StreamInv, Phases, StreamOff, allocs, Streaming
  <2>3. CASE PutBufs
    BY <2>0, <2>3 DEF StreamInv, Phases, PutBufs, WakeAlloc, ghosts, Streaming
  <2>4. CASE Free
    BY <2>0, <2>4 DEF StreamInv, Phases, Free, AllocGone, ghosts, Streaming
  <2>5. CASE Flush
    BY <2>0, <2>5 DEF StreamInv, Phases, Flush, allocs, Streaming
  <2>. QED
    BY <2>1, <2>2, <2>3, <2>4, <2>5
<1>3. Gone'
  BY DEF StreamInv, Gone, GetBufsFails, StreamOff, PutBufs, Free, Flush, Leave, ghosts
<1>4. Owned'
  BY DEF StreamInv, Owned, Phases, GetBufsFails, StreamOff, PutBufs, Free, Flush, Streaming
<1>. QED
  BY <1>1, <1>2, <1>3, <1>4 DEF StreamInv

-----------------------------------------------------------------------------
(* The frames' steps: a buffer goes from one hand to another.               *)

LEMMA PhasesStay ==
    ASSUME StreamInv, UNCHANGED <<kind, sm, on, mem, alloc, toMap>>,
           ~on => drv' = drv /\ poll' = poll
    PROVE  Phases'
BY DEF StreamInv, Phases, First

LEMMA DataNotifyKeeps ==
    ASSUME HalStreamAssumption, StreamInv, NEW b \in Bufs, DataNotify(b) PROVE StreamInv'
<1>1. /\ UNCHANGED <<kind, sm, active, on, mem, dataQ, proc, window, cbQ, app, alloc, toMap, wait>>
      /\ UNCHANGED <<faults, shrunk, late, stray, runs>> /\ on
      /\ poll = NoFrame /\ b \in drv /\ drv' = drv \ {b} /\ poll' = [b |-> b, saw |-> active]
  BY DEF DataNotify, allocs, ghosts
<1>2. poll' \in [b : Bufs, saw : BOOLEAN] /\ poll'.b = b /\ poll' # NoFrame
  BY <1>1 DEF StreamInv, Shape, HalStreamAssumption, Bufs
<1>3. Shape'
  BY <1>1, <1>2 DEF StreamInv, Shape
<1>4. Phases' /\ Gone'
  BY <1>1, PhasesStay DEF StreamInv, Gone
<1>5. /\ PollBufs = {} /\ PollBufs' = {b}
      /\ Waiting' = Waiting /\ ProcBufs' = ProcBufs /\ Notified' = Notified /\ Once' = Once
      /\ Looked' = Looked
  BY <1>1, <1>2 DEF PollBufs, Waiting, ProcBufs, Looked, Notified, Once
<1>6. Apart => Apart'
  BY <1>1, <1>5 DEF Apart
<1>7. Held' = Held
  BY <1>1, <1>5 DEF Held
<1>8. Owned'
  BY <1>1, <1>5, <1>6, <1>7 DEF StreamInv, Owned
<1>. QED
  BY <1>3, <1>4, <1>8 DEF StreamInv

LEMMA NotifyKeeps == ASSUME HalStreamAssumption, StreamInv, Notify PROVE StreamInv'
<1>1. /\ UNCHANGED <<kind, sm, active, on, mem, proc, window, cbQ, app, alloc, toMap, wait>>
      /\ UNCHANGED <<faults, shrunk, stray, runs>>
      /\ poll # NoFrame /\ poll' = NoFrame /\ late' = (late \/ (poll.saw /\ proc.pc = "off"))
      /\ poll.saw => dataQ' = Append(dataQ, poll.b) /\ drv' = drv
      /\ ~poll.saw => dataQ' = dataQ /\ drv' = IF on THEN drv \cup {poll.b} ELSE drv
  BY DEF Notify, allocs, Keep, Returned
<1>2. poll.b \in Bufs /\ poll.saw \in BOOLEAN /\ on
  BY <1>1 DEF StreamInv, Shape, Phases
<1>3. dataQ' \in Seq(Bufs) /\ drv' \subseteq Bufs /\ late' \in BOOLEAN
  <2>0. dataQ \in Seq(Bufs) /\ drv \subseteq Bufs /\ late \in BOOLEAN
    BY DEF StreamInv, Shape
  <2>1. CASE poll.saw
    <3>1. Append(dataQ, poll.b) \in Seq(Bufs)
      BY <1>2, <2>0
    <3>. QED
      BY <1>1, <2>0, <2>1, <3>1
  <2>2. CASE ~poll.saw
    BY <1>1, <1>2, <2>2 DEF StreamInv, Shape
  <2>. QED
    BY <2>1, <2>2
<1>4. Shape'
  BY <1>1, <1>3 DEF StreamInv, Shape
<1>5. Phases'
  BY <1>1, <1>2, PhasesStay
<1>6. ~late' => ~late /\ (poll.saw => proc.pc # "off")
  BY <1>1
<1>7. Gone'
  <2>1. ASSUME ~late', proc.pc = "off" PROVE dataQ' = <<>>
    BY <1>1, <1>6, <2>1 DEF StreamInv, Gone
  <2>2. sm # "getbufs"
    BY <1>2 DEF StreamInv, Phases, Streaming
  <2>. QED
    BY <1>1, <2>1, <2>2 DEF StreamInv, Gone
<1>8. /\ PollBufs = {poll.b} /\ PollBufs' = {}
      /\ ProcBufs' = ProcBufs /\ Looked' = Looked /\ Notified' = Notified
  BY <1>1 DEF PollBufs, ProcBufs, Looked, Notified
<1>9. CASE poll.saw
  <2>1. /\ Waiting' = Waiting \cup {poll.b}
        /\ IsInjective(dataQ) /\ poll.b \notin Waiting => IsInjective(dataQ')
    <3>1. dataQ \in Seq(Bufs) /\ dataQ' = Append(dataQ, poll.b)
      BY <1>1, <1>9 DEF StreamInv, Shape
    <3>2. /\ ToSet(dataQ') = ToSet(dataQ) \cup {poll.b}
          /\ IsInjective(dataQ) /\ poll.b \notin ToSet(dataQ) => IsInjective(dataQ')
      BY <1>2, <3>1, Appended
    <3>. QED
      BY <3>2 DEF Waiting
  <2>2. Apart => Apart' /\ poll.b \notin Waiting
    BY <1>1, <1>8, <1>9, <2>1 DEF Apart
  <2>3. Held' = Held
    BY <1>1, <1>8, <1>9, <2>1 DEF Held
  <2>4. Owned'
    BY <1>1, <1>6, <1>8, <2>1, <2>2, <2>3 DEF StreamInv, Owned, Once
  <2>. QED
    BY <1>4, <1>5, <1>7, <2>4 DEF StreamInv
<1>10. CASE ~poll.saw
  <2>1. Waiting' = Waiting /\ Once' = Once /\ drv' = drv \cup {poll.b}
    BY <1>1, <1>2, <1>10 DEF Waiting, Once
  <2>2. Apart => Apart'
    BY <1>1, <1>8, <2>1 DEF Apart
  <2>3. Held' = Held
    BY <1>1, <1>8, <2>1 DEF Held
  <2>4. Owned'
    BY <1>1, <1>6, <1>8, <2>1, <2>2, <2>3 DEF StreamInv, Owned
  <2>. QED
    BY <1>4, <1>5, <1>7, <2>4 DEF StreamInv
<1>. QED
  BY <1>9, <1>10

LEMMA ProcNextKeeps == ASSUME HalStreamAssumption, StreamInv, ProcNext PROVE StreamInv'
<1>1. /\ UNCHANGED <<kind, sm, active, on, mem, drv, poll, window, cbQ, app, alloc, toMap, wait>>
      /\ UNCHANGED <<faults, shrunk, late, stray, runs>> /\ proc.pc = "idle"
      /\ dataQ = <<>> => dataQ' = dataQ /\ proc' = proc
      /\ dataQ # <<>> => dataQ' = Tail(dataQ) /\ proc' = [pc |-> "cb", b |-> Head(dataQ)]
  BY DEF ProcNext, allocs, ghosts
<1>2. Phases'
  BY <1>1, PhasesStay
<1>3. CASE dataQ = <<>>
  <2>1. Shape' /\ Gone'
    BY <1>1, <1>3 DEF StreamInv, Shape, Gone
  <2>. QED
    BY <1>1, <1>2, <1>3, <2>1, OwnedStays DEF StreamInv
<1>4. CASE dataQ # <<>>
  <2>1. /\ dataQ' \in Seq(Bufs) /\ Head(dataQ) \in Bufs /\ Waiting = Waiting' \cup {Head(dataQ)}
        /\ IsInjective(dataQ) => IsInjective(dataQ') /\ Head(dataQ) \notin Waiting'
    <3>1. dataQ \in Seq(Bufs) /\ dataQ' = Tail(dataQ)
      BY <1>1, <1>4 DEF StreamInv, Shape
    <3>2. /\ dataQ' \in Seq(Bufs) /\ Head(dataQ) \in Bufs
          /\ ToSet(dataQ) = ToSet(dataQ') \cup {Head(dataQ)}
          /\ IsInjective(dataQ) => IsInjective(dataQ') /\ Head(dataQ) \notin ToSet(dataQ')
      BY <1>4, <3>1, HeadGone
    <3>. QED
      BY <3>2 DEF Waiting
  <2>2. proc'.pc = "cb" /\ proc'.b = Head(dataQ)
    BY <1>1, <1>4
  <2>3. Shape'
    BY <1>1, <2>1, <2>2 DEF StreamInv, Shape
  <2>4. Gone'
    BY <1>1, <1>4, <2>2 DEF StreamInv, Gone
  <2>5. /\ PollBufs' = PollBufs /\ Notified' = Notified
        /\ ProcBufs = {} /\ ProcBufs' = {Head(dataQ)} /\ Looked' = {}
    BY <1>1, <2>2 DEF PollBufs, ProcBufs, Looked, Notified
  <2>6. Apart /\ Once => Apart' /\ Once'
    BY <1>1, <2>1, <2>5 DEF Apart, Once
  <2>7. Held' = Held
    BY <1>1, <2>1, <2>5 DEF Held
  <2>8. Owned'
    BY <1>1, <2>5, <2>6, <2>7 DEF StreamInv, Owned
  <2>. QED
    BY <1>2, <2>3, <2>4, <2>8 DEF StreamInv
<1>. QED
  BY <1>3, <1>4

LEMMA ProcExitKeeps == ASSUME HalStreamAssumption, StreamInv, ProcExit PROVE StreamInv'
<1>1. /\ UNCHANGED <<kind, sm, active, on, mem, poll, window, cbQ, app, alloc, toMap, wait>>
      /\ UNCHANGED <<faults, shrunk, late, stray, runs>> /\ proc.pc = "idle"
      /\ dataQ' = <<>> /\ drv' = IF on THEN drv \cup Waiting ELSE drv
      /\ proc' = [pc |-> "off", b |-> NoFrame]
  BY DEF ProcExit, allocs, ghosts, Returned, Waiting
<1>2. Phases'
  BY <1>1, PhasesStay
<1>3. proc'.pc = "off" /\ Waiting \subseteq Bufs /\ Waiting' = {} /\ IsInjective(dataQ')
  BY <1>1, Nobody DEF Waiting, StreamInv, Shape
<1>4. Shape'
  BY <1>1, <1>3 DEF StreamInv, Shape
<1>5. Gone'
  BY <1>1, <1>3 DEF StreamInv, Gone
<1>6. /\ PollBufs' = PollBufs /\ Notified' = Notified /\ ProcBufs = {} /\ ProcBufs' = {}
      /\ Looked' = {}
  BY <1>1, <1>3 DEF PollBufs, ProcBufs, Looked, Notified
<1>7. ASSUME on PROVE Owned'
  <2>1. drv' = drv \cup Waiting
    BY <1>1, <1>7
  <2>2. Apart => Apart'
    BY <1>1, <1>3, <1>6, <2>1 DEF Apart
  <2>3. Held' = Held
    BY <1>1, <1>3, <1>6, <2>1 DEF Held
  <2>. QED
    BY <1>1, <1>3, <1>6, <2>2, <2>3 DEF StreamInv, Owned, Once
<1>8. ~on => Owned'
  BY <1>1 DEF Owned
<1>. QED
  BY <1>2, <1>4, <1>5, <1>7, <1>8 DEF StreamInv

(* What the end of the stream's callback leaves as it was; after it the data *)
(* thread may look at the frame.                                             *)
LEMMA CallbackReturns ==
    ASSUME HalStreamAssumption, StreamInv, CbKeeps, proc.pc = "cb", CbShows, app' = app,
           drv' \subseteq Bufs, ~on => drv' = drv,
           window' \subseteq Bufs, cbQ' \in Seq(Bufs), faults' \in 0..MaxFaults, shrunk' \in BOOLEAN
    PROVE  /\ Shape' /\ Phases' /\ Gone'
           /\ UNCHANGED <<on, mem, toMap, late, PollBufs, Waiting, dataQ>>
           /\ ProcBufs = {proc.b} /\ ProcBufs' = {} /\ proc.b \in Bufs
           /\ on /\ ~late => Looked' \subseteq mem
<1>1. /\ UNCHANGED <<kind, sm, active, on, mem, poll, dataQ, alloc, toMap, wait, late, stray, runs>>
      /\ proc' = [pc |-> "idle", b |-> NoFrame] \/ proc' = [pc |-> "look", b |-> proc.b]
  BY DEF CbKeeps, CbShows, CbReturns, allocs
<1>2. proc'.pc = "idle" \/ (proc'.pc = "look" /\ proc'.b = proc.b)
  BY <1>1
<1>3. Shape'
  BY <1>1, <1>2 DEF StreamInv, Shape
<1>4. Phases'
  BY <1>1, PhasesStay
<1>5. sm \notin {"off", "getbufs"} \/ late
  BY DEF StreamInv, Gone
<1>6. Gone'
  BY <1>1, <1>2, <1>5 DEF StreamInv, Gone
<1>7. ProcBufs = {proc.b} /\ ProcBufs' = {} /\ proc.b \in Bufs /\ Looked' \subseteq ProcBufs
  BY <1>1, <1>2 DEF ProcBufs, Looked, StreamInv, Shape
<1>8. on /\ ~late => Looked' \subseteq mem
  BY <1>7 DEF StreamInv, Owned, Held
<1>. QED
  BY <1>1, <1>3, <1>4, <1>6, <1>7, <1>8 DEF PollBufs, Waiting

LEMMA CbDoneKeeps == ASSUME HalStreamAssumption, StreamInv, CbDone PROVE StreamInv'
<1>1. /\ UNCHANGED <<window, cbQ, app, faults, shrunk>> /\ CbKeeps /\ CbShows /\ proc.pc = "cb"
      /\ drv' = IF on THEN drv \cup {proc.b} ELSE drv
  BY DEF CbDone, CbShows, Returned
<1>2. proc.b \in Bufs
  BY <1>1 DEF StreamInv, Shape
<1>3. /\ Shape' /\ Phases' /\ Gone'
      /\ UNCHANGED <<on, mem, toMap, late, PollBufs, Waiting, dataQ>>
      /\ ProcBufs = {proc.b} /\ ProcBufs' = {} /\ (on /\ ~late => Looked' \subseteq mem)
  BY <1>1, <1>2, CallbackReturns DEF StreamInv, Shape
<1>4. Notified' = Notified
  BY <1>1 DEF Notified
<1>5. ASSUME on PROVE Owned'
  <2>1. drv' = drv \cup {proc.b}
    BY <1>1, <1>5
  <2>2. (Apart => Apart') /\ Held' = Held
    BY <1>1, <1>3, <1>4, <2>1 DEF Apart, Held
  <2>. QED
    BY <1>1, <1>3, <2>2 DEF StreamInv, Owned, Once
<1>. QED
  BY <1>3, <1>5 DEF StreamInv, Owned

LEMMA CbPreviewKeeps == ASSUME HalStreamAssumption, StreamInv, CbPreview PROVE StreamInv'
<1>1. /\ UNCHANGED <<cbQ, app, faults, shrunk>> /\ CbKeeps /\ CbShows /\ proc.pc = "cb"
  BY DEF CbPreview, InCallback
<1>2. PICK d \in window \cup {proc.b} : /\ window' = (window \cup {proc.b}) \ {d}
                                        /\ drv' = IF on THEN drv \cup {d} ELSE drv
  BY DEF CbPreview, Returned
<1>3. proc.b \in Bufs
  BY <1>1 DEF StreamInv, Shape
<1>4. /\ Shape' /\ Phases' /\ Gone'
      /\ UNCHANGED <<on, mem, toMap, late, PollBufs, Waiting, dataQ>>
      /\ ProcBufs = {proc.b} /\ ProcBufs' = {} /\ (on /\ ~late => Looked' \subseteq mem)
  BY <1>1, <1>2, <1>3, CallbackReturns DEF StreamInv, Shape
<1>5. Notified' = Notified
  BY <1>1 DEF Notified
<1>6. ASSUME on PROVE Owned'
  <2>1. drv' = drv \cup {d}
    BY <1>2, <1>6
  <2>2. Apart => Apart'
    BY <1>1, <1>2, <1>4, <1>5, <2>1 DEF Apart
  <2>3. Held' = Held
    BY <1>1, <1>2, <1>4, <1>5, <2>1 DEF Held
  <2>. QED
    BY <1>1, <1>4, <2>2, <2>3 DEF StreamInv, Owned, Once
<1>. QED
  BY <1>4, <1>6 DEF StreamInv, Owned

LEMMA CbPreviewFailsKeeps == ASSUME HalStreamAssumption, StreamInv, CbPreviewFails PROVE StreamInv'
<1>1. /\ UNCHANGED <<cbQ, app>> /\ CbKeeps /\ CbShows /\ proc.pc = "cb" /\ Fault /\ shrunk' = TRUE
  BY DEF CbPreviewFails, InCallback
<1>2. proc.b \in Bufs
  BY <1>1 DEF StreamInv, Shape
<1>3. \/ window' = window /\ drv' = drv
      \/ window' = window \cup {proc.b} /\ drv' = drv
      \/ \E d \in window : window' = window \ {d} /\ drv' = IF on THEN drv \cup {d} ELSE drv
  BY DEF CbPreviewFails, Keep, Returned
<1>4. drv' \subseteq Bufs /\ window' \subseteq Bufs /\ (~on => drv' = drv)
  BY <1>2, <1>3 DEF StreamInv, Shape
<1>5. cbQ' \in Seq(Bufs) /\ shrunk' \in BOOLEAN /\ faults' \in 0..MaxFaults
  BY <1>1, Faulted DEF StreamInv, Shape
<1>6. /\ Shape' /\ Phases' /\ Gone'
      /\ UNCHANGED <<on, mem, toMap, late, PollBufs, Waiting, dataQ>>
      /\ ProcBufs = {proc.b} /\ ProcBufs' = {} /\ (on /\ ~late => Looked' \subseteq mem)
  BY <1>1, <1>4, <1>5, CallbackReturns
<1>7. Notified' = Notified
  BY <1>1 DEF Notified
<1>8. ASSUME on PROVE (Apart => Apart') /\ Held' \subseteq Held
  <2>1. CASE window' = window /\ drv' = drv
    BY <1>1, <1>6, <1>7, <2>1 DEF Apart, Held
  <2>2. CASE window' = window \cup {proc.b} /\ drv' = drv
    BY <1>1, <1>6, <1>7, <2>2 DEF Apart, Held
  <2>3. ASSUME NEW d \in window, window' = window \ {d}, drv' = drv \cup {d}
        PROVE  (Apart => Apart') /\ Held' \subseteq Held
    BY <1>1, <1>6, <1>7, <2>3 DEF Apart, Held
  <2>. QED
    BY <1>3, <1>8, <2>1, <2>2, <2>3
<1>9. Owned'
  BY <1>1, <1>6, <1>8 DEF StreamInv, Owned, Once
<1>. QED
  BY <1>6, <1>9 DEF StreamInv

LEMMA CbNotifyKeeps == ASSUME HalStreamAssumption, StreamInv, CbNotify PROVE StreamInv'
<1>1. /\ UNCHANGED <<window, app, shrunk>> /\ CbKeeps /\ CbShows /\ proc.pc = "cb"
      /\ \/ cbQ' = Append(cbQ, proc.b) /\ drv' = drv /\ faults' = faults
         \/ Fault /\ cbQ' = cbQ /\ drv' = IF on THEN drv \cup {proc.b} ELSE drv
  BY DEF CbNotify, CbShows, InCallback, Keep, Returned
<1>2. proc.b \in Bufs /\ cbQ \in Seq(Bufs) /\ drv \subseteq Bufs /\ faults \in 0..MaxFaults
  BY <1>1 DEF StreamInv, Shape
<1>3. CASE cbQ' = Append(cbQ, proc.b) /\ drv' = drv /\ faults' = faults
  <2>1. /\ cbQ' \in Seq(Bufs) /\ ToSet(cbQ') = ToSet(cbQ) \cup {proc.b}
        /\ IsInjective(cbQ) /\ proc.b \notin ToSet(cbQ) => IsInjective(cbQ')
    BY <1>2, <1>3, Appended
  <2>2. /\ Shape' /\ Phases' /\ Gone'
        /\ UNCHANGED <<on, mem, toMap, late, PollBufs, Waiting, dataQ>>
        /\ ProcBufs = {proc.b} /\ ProcBufs' = {} /\ (on /\ ~late => Looked' \subseteq mem)
    BY <1>1, <1>2, <1>3, <2>1, CallbackReturns DEF StreamInv, Shape
  <2>3. /\ Notified' = Notified \cup {proc.b}
        /\ IsInjective(cbQ) /\ proc.b \notin Notified => IsInjective(cbQ')
    BY <2>1 DEF Notified
  <2>4. Apart => Apart' /\ proc.b \notin Notified
    BY <1>1, <1>3, <2>2, <2>3 DEF Apart
  <2>5. Held' = Held
    BY <1>1, <1>3, <2>2, <2>3 DEF Held
  <2>6. Owned'
    BY <1>1, <2>2, <2>3, <2>4, <2>5 DEF StreamInv, Owned, Once
  <2>. QED
    BY <2>2, <2>6 DEF StreamInv
<1>4. CASE Fault /\ cbQ' = cbQ /\ drv' = IF on THEN drv \cup {proc.b} ELSE drv
  <2>1. faults' \in 0..MaxFaults
    BY <1>4, Faulted DEF StreamInv
  <2>2. /\ Shape' /\ Phases' /\ Gone'
        /\ UNCHANGED <<on, mem, toMap, late, PollBufs, Waiting, dataQ>>
        /\ ProcBufs = {proc.b} /\ ProcBufs' = {} /\ (on /\ ~late => Looked' \subseteq mem)
    BY <1>1, <1>2, <1>4, <2>1, CallbackReturns DEF StreamInv, Shape
  <2>3. Notified' = Notified
    BY <1>4 DEF Notified
  <2>4. ASSUME on PROVE (Apart => Apart') /\ Held' = Held
    <3>1. drv' = drv \cup {proc.b}
      BY <1>4, <2>4
    <3>. QED
      BY <1>1, <2>2, <2>3, <3>1 DEF Apart, Held
  <2>5. Owned'
    BY <1>1, <1>4, <2>2, <2>4 DEF StreamInv, Owned, Once
  <2>. QED
    BY <2>2, <2>5 DEF StreamInv
<1>. QED
  BY <1>1, <1>3, <1>4

LEMMA CbVideoUnwantedKeeps == ASSUME HalStreamAssumption, StreamInv, CbVideoUnwanted PROVE StreamInv'
<1>1. /\ UNCHANGED <<window, cbQ, app, drv>> /\ CbKeeps /\ CbShows /\ proc.pc = "cb"
      /\ Fault /\ shrunk' = TRUE
  BY DEF CbVideoUnwanted, CbShows, InCallback, Keep
<1>2. faults' \in 0..MaxFaults
  BY <1>1, Faulted DEF StreamInv
<1>3. /\ Shape' /\ Phases' /\ Gone'
      /\ UNCHANGED <<on, mem, toMap, late, PollBufs, Waiting, dataQ>>
      /\ ProcBufs = {proc.b} /\ ProcBufs' = {} /\ (on /\ ~late => Looked' \subseteq mem)
  BY <1>1, <1>2, CallbackReturns DEF StreamInv, Shape
<1>4. Notified' = Notified
  BY <1>1 DEF Notified
<1>5. (Apart => Apart') /\ Held' \subseteq Held
  BY <1>1, <1>3, <1>4 DEF Apart, Held
<1>6. Owned'
  BY <1>1, <1>3, <1>5 DEF StreamInv, Owned, Once
<1>. QED
  BY <1>3, <1>6 DEF StreamInv

LEMMA CbLookedKeeps == ASSUME HalStreamAssumption, StreamInv, CbLooked PROVE StreamInv'
<1>1. /\ UNCHANGED <<kind, sm, active, on, mem, drv, poll, dataQ, window, cbQ, app, alloc, toMap>>
      /\ UNCHANGED <<wait, faults, shrunk, late, stray, runs>>
      /\ proc.pc = "look" /\ proc'.pc = "idle"
  BY DEF CbLooked, CbKeeps, CbReturns, allocs
<1>2. Shape' /\ Gone'
  BY <1>1 DEF StreamInv, Shape, Gone
<1>3. Phases'
  BY <1>1, PhasesStay
<1>4. /\ PollBufs' = PollBufs /\ Waiting' = Waiting /\ Notified' = Notified /\ Once' = Once
      /\ ProcBufs' = ProcBufs /\ Looked' = {}
  BY <1>1 DEF PollBufs, Waiting, ProcBufs, Looked, Notified, Once
<1>5. Apart' = Apart /\ Held' = Held
  BY <1>1, <1>4 DEF Apart, Held
<1>6. Owned'
  BY <1>1, <1>4, <1>5 DEF StreamInv, Owned
<1>. QED
  BY <1>2, <1>3, <1>6 DEF StreamInv

-----------------------------------------------------------------------------
(* The notifier, the app and the allocating thread.                         *)

LEMMA DeliverKeeps == ASSUME HalStreamAssumption, StreamInv, Deliver PROVE StreamInv'
<1>1. /\ UNCHANGED <<kind, sm, active, on, mem, poll, dataQ, proc, window, alloc, toMap, wait>>
      /\ UNCHANGED <<faults, shrunk, late, stray, runs>> /\ cbQ # <<>> /\ cbQ' = Tail(cbQ)
      /\ \/ app' = app \cup {Head(cbQ)} /\ drv' = drv
         \/ app' = app /\ drv' = IF on THEN drv \cup {Head(cbQ)} ELSE drv
  BY DEF Deliver, allocs, ghosts, Keep, Returned
<1>2. /\ cbQ' \in Seq(Bufs) /\ Head(cbQ) \in Bufs /\ ToSet(cbQ) = ToSet(cbQ') \cup {Head(cbQ)}
      /\ IsInjective(cbQ) => IsInjective(cbQ') /\ Head(cbQ) \notin ToSet(cbQ')
  <2>1. cbQ \in Seq(Bufs)
    BY DEF StreamInv, Shape
  <2>. QED
    BY <1>1, <2>1, HeadGone
<1>3. drv' \subseteq Bufs /\ app' \subseteq Bufs /\ (~on => drv' = drv)
  BY <1>1, <1>2 DEF StreamInv, Shape
<1>4. Shape'
  BY <1>1, <1>2, <1>3 DEF StreamInv, Shape
<1>5. Phases'
  BY <1>1, <1>3, PhasesStay
<1>6. Gone'
  BY <1>1 DEF StreamInv, Gone
<1>7. /\ Notified = Notified' \cup {Head(cbQ)}
      /\ PollBufs' = PollBufs /\ Waiting' = Waiting /\ ProcBufs' = ProcBufs /\ Looked' = Looked
      /\ Once => Once' /\ Head(cbQ) \notin Notified'
  BY <1>1, <1>2 DEF Notified, PollBufs, Waiting, ProcBufs, Looked, Once
<1>8. ASSUME on, Once PROVE (Apart => Apart') /\ Held' = Held
  <2>1. CASE app' = app \cup {Head(cbQ)} /\ drv' = drv
    BY <1>1, <1>7, <1>8, <2>1 DEF Apart, Held
  <2>2. CASE app' = app /\ drv' = drv \cup {Head(cbQ)}
    BY <1>1, <1>7, <1>8, <2>2 DEF Apart, Held
  <2>. QED
    BY <1>1, <1>8, <2>1, <2>2
<1>9. Owned'
  BY <1>1, <1>7, <1>8 DEF StreamInv, Owned
<1>. QED
  BY <1>4, <1>5, <1>6, <1>9 DEF StreamInv

LEMMA DeliverStrayKeeps == ASSUME HalStreamAssumption, StreamInv, DeliverStray PROVE StreamInv'
<1>1. /\ UNCHANGED <<kind, sm, active, on, mem, drv, poll, dataQ, proc, window, cbQ, app, alloc>>
      /\ UNCHANGED <<toMap, wait, faults, shrunk, late, runs>> /\ stray > 0 /\ stray' = stray - 1
  BY DEF DeliverStray, allocs
<1>2. Shape' /\ Gone'
  BY <1>1 DEF StreamInv, Shape, Gone
<1>3. Phases'
  BY <1>1, PhasesStay
<1>. QED
  BY <1>1, <1>2, <1>3, OwnedStays DEF StreamInv

LEMMA ReleaseKeeps ==
    ASSUME HalStreamAssumption, StreamInv, NEW b \in Bufs, ReleaseRecordingFrame(b) PROVE StreamInv'
<1>1. /\ UNCHANGED <<kind, sm, active, on, mem, poll, dataQ, proc, window, cbQ, alloc, toMap, wait>>
      /\ UNCHANGED <<faults, shrunk, late, stray, runs>> /\ b \in app /\ app' = app \ {b} /\ sm \in {"on", "off"}
      /\ sm = "on" => drv' = IF on THEN drv \cup {b} ELSE drv
      /\ sm # "on" => drv' = drv
  BY DEF ReleaseRecordingFrame, allocs, ghosts, Keep, Returned
<1>2. drv' = IF on THEN drv \cup {b} ELSE drv
  BY <1>1 DEF StreamInv, Phases, Streaming
<1>3. Shape'
  BY <1>1, <1>2 DEF StreamInv, Shape
<1>4. Phases'
  BY <1>1, <1>2, PhasesStay
<1>5. Gone'
  BY <1>1 DEF StreamInv, Gone
<1>6. /\ PollBufs' = PollBufs /\ Waiting' = Waiting /\ ProcBufs' = ProcBufs
      /\ Looked' = Looked /\ Notified' = Notified
  BY <1>1 DEF Notified, PollBufs, Waiting, ProcBufs, Looked
<1>7. ASSUME on PROVE Owned'
  <2>1. drv' = drv \cup {b}
    BY <1>2, <1>7
  <2>2. (Apart => Apart') /\ Held' = Held
    BY <1>1, <1>6, <2>1 DEF Apart, Held
  <2>. QED
    BY <1>1, <1>6, <2>2 DEF StreamInv, Owned, Once
<1>. QED
  BY <1>1, <1>3, <1>4, <1>5, <1>7 DEF StreamInv, Owned

LEMMA AllocMoreKeeps == ASSUME HalStreamAssumption, StreamInv, AllocMore PROVE StreamInv'
<1>1. /\ UNCHANGED <<kind, sm, active, on, drv, poll, dataQ, proc, window, cbQ, app, wait, late, stray, runs>>
      /\ shrunk' = shrunk /\ alloc = "waits"
      /\ \/ mem' = Bufs /\ toMap' = Bufs \ First /\ alloc' = "runs" /\ faults' = faults
         \/ Fault /\ mem' = mem /\ toMap' = toMap /\ alloc' = "over"
  BY DEF AllocMore
<1>2. mem = First /\ toMap = {} /\ First' = First /\ First \subseteq Bufs
  BY <1>1, FirstIs DEF StreamInv, Phases, First
<1>3. UNCHANGED <<PollBufs, Waiting, ProcBufs, Looked, Notified, Held, Once>>
  BY <1>1 DEF PollBufs, Waiting, ProcBufs, Looked, Notified, Held, Once
<1>4. Gone'
  BY <1>1 DEF StreamInv, Gone
<1>5. ~(sm \in {"off", "getbufs", "flush", "undo", "undone"})
  BY <1>1 DEF StreamInv, Phases
<1>6. CASE mem' = Bufs /\ toMap' = Bufs \ First /\ alloc' = "runs" /\ faults' = faults
  <2>1. Shape'
    BY <1>1, <1>6 DEF StreamInv, Shape
  <2>2. Phases'
    BY <1>1, <1>5, <1>6 DEF StreamInv, Phases
  <2>3. ASSUME Apart, Held \subseteq mem PROVE Apart'
    <3>1. Held \cap toMap' = {}
      BY <1>2, <1>6, <2>3
    <3>. QED
      BY <1>1, <1>2, <1>3, <2>3, <3>1 DEF Apart, Held
  <2>4. mem \subseteq Held \cup toMap => mem' \subseteq Held \cup toMap'
    BY <1>2, <1>6
  <2>5. Owned'
    BY <1>1, <1>2, <1>3, <1>6, <2>3, <2>4 DEF StreamInv, Owned
  <2>. QED
    BY <1>4, <2>1, <2>2, <2>5 DEF StreamInv
<1>7. CASE Fault /\ mem' = mem /\ toMap' = toMap /\ alloc' = "over"
  <2>1. faults' \in 0..MaxFaults
    BY <1>7, Faulted DEF StreamInv
  <2>2. Shape'
    BY <1>1, <1>7, <2>1 DEF StreamInv, Shape
  <2>3. Phases'
    BY <1>1, <1>2, <1>5, <1>7 DEF StreamInv, Phases
  <2>4. Owned'
    BY <1>1, <1>7, OwnedStays DEF StreamInv
  <2>. QED
    BY <1>4, <2>2, <2>3, <2>4 DEF StreamInv
<1>. QED
  BY <1>1, <1>6, <1>7

LEMMA AllocMapsKeeps == ASSUME HalStreamAssumption, StreamInv, AllocMaps PROVE StreamInv'
<1>1. /\ UNCHANGED <<kind, sm, active, on, mem, poll, dataQ, proc, window, cbQ, app, wait, late, stray, runs>>
      /\ alloc = "runs" /\ alloc' = IF toMap' = {} THEN "over" ELSE "runs"
  BY DEF AllocMaps
<1>2. PICK b \in toMap :
        /\ toMap' = toMap \ {b}
        /\ \/ drv' = (IF on THEN drv \cup {b} ELSE drv) /\ faults' = faults /\ shrunk' = shrunk
           \/ Fault /\ shrunk' = TRUE /\ drv' = drv
  BY DEF AllocMaps, Returned, Keep
<1>3. drv' \subseteq Bufs /\ (~on => drv' = drv) /\ toMap' \subseteq Bufs
  BY <1>2 DEF StreamInv, Shape
<1>4. faults' \in 0..MaxFaults /\ shrunk' \in BOOLEAN
  BY <1>2, Faulted DEF StreamInv, Shape
<1>5. Shape'
  BY <1>1, <1>3, <1>4 DEF StreamInv, Shape
<1>6. Phases'
  <2>1. alloc' \in {"over", "runs"} /\ (alloc' # "runs" => toMap' = {})
    BY <1>1
  <2>. QED
    BY <1>1, <1>3, <2>1 DEF StreamInv, Phases
<1>7. Gone'
  BY <1>1 DEF StreamInv, Gone
<1>8. UNCHANGED <<PollBufs, Waiting, ProcBufs, Looked, Notified, Once>>
  BY <1>1 DEF PollBufs, Waiting, ProcBufs, Looked, Notified, Once
<1>9. ASSUME on PROVE Owned'
  <2>1. CASE drv' = drv \cup {b} /\ shrunk' = shrunk
    <3>1. (Apart => Apart') /\ Held' = Held \cup {b}
      BY <1>1, <1>2, <1>8, <2>1 DEF Apart, Held
    <3>2. b \in mem
      BY <1>1, <1>2 DEF StreamInv, Phases, Shape
    <3>. QED
      BY <1>1, <1>2, <1>8, <2>1, <3>1, <3>2 DEF StreamInv, Owned
  <2>2. CASE drv' = drv /\ shrunk' = TRUE
    <3>1. (Apart => Apart') /\ Held' = Held
      BY <1>1, <1>2, <1>8, <2>2 DEF Apart, Held
    <3>. QED
      BY <1>1, <1>2, <1>8, <2>2, <3>1 DEF StreamInv, Owned
  <2>. QED
    BY <1>2, <1>9, <2>1, <2>2
<1>. QED
  BY <1>1, <1>5, <1>6, <1>7, <1>9 DEF StreamInv, Owned

-----------------------------------------------------------------------------
(* Every step keeps the invariant, and the invariant is enough.             *)

LEMMA StreamSteps == ASSUME HalStreamAssumption, StreamInv, Next PROVE StreamInv'
<1>1. CASE StartStream \/ SmSteps \/ SmFails
  BY <1>1, StartStreamKeeps, GetBufsKeeps, SmKeeps, JoinedUndoneKeeps, OffKeeps DEF SmSteps, SmFails
<1>2. CASE \E b \in Bufs : DataNotify(b) \/ ReleaseRecordingFrame(b)
  BY <1>2, DataNotifyKeeps, ReleaseKeeps
<1>3. CASE Notify \/ ProcNext \/ ProcExit
  BY <1>3, NotifyKeeps, ProcNextKeeps, ProcExitKeeps
<1>4. CASE CbSteps \/ CbFails
  BY <1>4, CbDoneKeeps, CbPreviewKeeps, CbNotifyKeeps, CbPreviewFailsKeeps, CbVideoUnwantedKeeps,
     CbLookedKeeps DEF CbSteps, CbFails
<1>5. CASE Deliver \/ DeliverStray \/ AllocMore \/ AllocMaps
  BY <1>5, DeliverKeeps, DeliverStrayKeeps, AllocMoreKeeps, AllocMapsKeeps
<1>. QED
  BY <1>1, <1>2, <1>3, <1>4, <1>5 DEF Next

LEMMA StreamStutters == ASSUME StreamInv, UNCHANGED vars PROVE StreamInv'
<1>1. UNCHANGED <<kind, sm, active, on, mem, drv, poll, dataQ, proc, window, cbQ, app, alloc, toMap>>
      /\ UNCHANGED <<wait, faults, shrunk, late, stray, runs>>
  BY DEF vars
<1>2. Shape' /\ Gone'
  BY <1>1 DEF StreamInv, Shape, Gone
<1>3. Phases'
  BY <1>1, PhasesStay
<1>. QED
  BY <1>1, <1>2, <1>3, OwnedStays DEF StreamInv

LEMMA PlacesAre ==
    /\ DOMAIN Places = 1..7
    /\ Places[1] = drv /\ Places[2] = PollBufs /\ Places[3] = Waiting /\ Places[4] = ProcBufs
    /\ Places[5] = window /\ Places[6] = Notified /\ Places[7] = app
    /\ \A k \in 1..7 : k = 1 \/ k = 2 \/ k = 3 \/ k = 4 \/ k = 5 \/ k = 6 \/ k = 7
BY DEF Places, Waiting, Notified

LEMMA EachPlace ==
    ASSUME StreamInv, NEW k \in DOMAIN Places
    PROVE  Places[k] \subseteq Bufs
<1>1. /\ drv \subseteq Bufs /\ PollBufs \subseteq Bufs /\ ProcBufs \subseteq Bufs
      /\ window \subseteq Bufs /\ app \subseteq Bufs
  BY DEF StreamInv, Shape, PollBufs, ProcBufs
<1>2. Waiting \subseteq Bufs /\ Notified \subseteq Bufs
  BY Nobody DEF StreamInv, Shape, Waiting, Notified
<1>. QED
  BY <1>1, <1>2, PlacesAre

LEMMA TwoPlaces ==
    ASSUME Apart, NEW i \in DOMAIN Places, NEW j \in DOMAIN Places, i # j
    PROVE  Places[i] \cap Places[j] = {}
<1>1. \A x, y \in 1..7 : x < y => Places[x] \cap Places[y] = {}
  <2>. SUFFICES ASSUME NEW x \in 1..7, NEW y \in 1..7, x < y PROVE Places[x] \cap Places[y] = {}
    OBVIOUS
  <2>1. CASE x = 1
    BY <2>1, PlacesAre DEF Apart
  <2>2. CASE x = 2
    BY <2>2, PlacesAre DEF Apart
  <2>3. CASE x = 3
    BY <2>3, PlacesAre DEF Apart
  <2>4. CASE x = 4
    BY <2>4, PlacesAre DEF Apart
  <2>5. CASE x \in {5, 6, 7}
    BY <2>5, PlacesAre DEF Apart
  <2>. QED
    BY <2>1, <2>2, <2>3, <2>4, <2>5, PlacesAre
<1>2. i \in 1..7 /\ j \in 1..7 /\ (i < j \/ j < i)
  BY PlacesAre
<1>3. CASE i < j
  BY <1>1, <1>2, <1>3
<1>4. CASE j < i
  <2>1. Places[j] \cap Places[i] = {}
    BY <1>1, <1>2, <1>4
  <2>. QED
    BY <2>1
<1>. QED
  BY <1>2, <1>3, <1>4

LEMMA AllPlaces == Held \subseteq UNION Range(Places)
<1>1. \A k \in 1..7 : Places[k] \in Range(Places)
  BY PlacesAre DEF Range
<1>2. \A k \in 1..7 : Places[k] \subseteq UNION Range(Places)
  BY <1>1
<1>. QED
  BY <1>2, PlacesAre DEF Held

LEMMA StreamInvSays == ASSUME HalStreamAssumption, StreamInv PROVE OneOwner
<1>1. TypeOK
  BY EachPlace DEF StreamInv, Shape, TypeOK
<1>2. Exclusive
  BY TwoPlaces DEF StreamInv, Owned, Once, Exclusive
<1>3. NoneLost
  <2>. SUFFICES ASSUME on, ~shrunk, ~late PROVE mem \subseteq (UNION Range(Places)) \cup toMap
    BY DEF NoneLost
  <2>1. mem \subseteq Held \cup toMap
    BY DEF StreamInv, Owned
  <2>. QED
    BY <2>1, AllPlaces
<1>4. ASSUME ~late, ~Undoing PROVE Waiting \cup ProcBufs \cup Looked \cup PollBufs \subseteq mem
  <2>1. CASE on
    BY <1>4, <2>1 DEF StreamInv, Owned, Held
  <2>2. CASE ~on
    <3>1. sm \in {"off", "getbufs", "putbufs", "free", "flush"} /\ poll = NoFrame
      BY <1>4, <2>2 DEF StreamInv, Shape, Phases, Undoing, Streaming
    <3>2. dataQ = <<>> /\ proc.pc \notin {"cb", "look"}
      BY <1>4, <3>1 DEF StreamInv, Gone
    <3>3. Waiting = {} /\ ProcBufs = {} /\ Looked = {} /\ PollBufs = {}
      BY <3>1, <3>2, Nobody DEF Waiting, ProcBufs, Looked, PollBufs, StreamInv, Shape
    <3>. QED
      BY <3>3
  <2>. QED
    BY <2>1, <2>2
<1>5. NoFreedFrame
  <2>1. alloc = "runs" => toMap \subseteq mem
    BY DEF StreamInv, Phases, Shape
  <2>. QED
    BY <1>4, <2>1 DEF NoFreedFrame, Waiting
<1>. QED
  BY <1>1, <1>2, <1>3, <1>5 DEF OneOwner

(* While a stream runs, each of its buffers is in one hand: with the driver, *)
(* the poll thread, the data thread or its queue, the window, the notifier   *)
(* or the app; and the poll thread, the data thread and the allocating one   *)
(* touch no buffer whose memory is gone, the look at a shown preview frame   *)
(* included.  (QCameraStream::bufDone and dataProcRoutine,                   *)
(* QCameraGrallocMemory::displayBuffer, sendPreviewCallback,                 *)
(* QCameraChannel::stop.)  For every kind of stream, number of buffers, of   *)
(* starts and of failures.  A frame that comes as the data thread ends       *)
(* (`late`), and a notification that outlives its stream, are outside it.    *)
THEOREM BuffersHaveOneOwner == ASSUME HalStreamAssumption PROVE Spec => []OneOwner
<1>1. Init => StreamInv
  BY StreamBegins
<1>2. StreamInv /\ [Next]_vars => StreamInv'
  BY StreamSteps, StreamStutters
<1>3. StreamInv => OneOwner
  BY StreamInvSays
<1>. QED
  BY <1>1, <1>2, <1>3, PTL DEF Spec

-----------------------------------------------------------------------------
(* Making a channel: what is inductive.                                     *)

(* The channels that are started first, of which there is one at a time.    *)
Heads == {"PREVIEW", "ZSL", "CAPTURE", "RAW"}

(* The streams whose buffers are left to the deferred-work thread when they *)
(* are added.                                                               *)
Early == {"METADATA", "SNAPSHOT", "RAW"}

(* The streams.                                                             *)
Named == {"METADATA", "PREVIEW", "VIDEO", "SNAPSHOT", "POSTVIEW", "RAW"}

(* Where the thread of the state machine is, or goes when it has waited.    *)
Stage == IF hwi.pc = "wait" THEN hwi.then ELSE hwi.pc
Stages == {"idle", "add", "addfailed", "postview", "reproc", "ppstart", "start", "startfailed",
           "ppstop", "stop"}
Building == Stage \in {"add", "addfailed"}

CapShape ==
  /\ chan \in [Chs -> {"none", "built", "made", "on"}] /\ mode \in Modes
  /\ DOMAIN streams = Chs /\ DOMAIN filled = Chs
  /\ \A c \in Chs : filled[c] \subseteq streams[c] /\ (chan[c] = "none" => streams[c] = {})
  /\ toAdd \in Seq(Named) /\ IsInjective(toAdd)
  /\ ongoing \in [1..MaxJobs -> BOOLEAN] /\ id \in [Jobs -> 0..MaxJobs]
  /\ queue \in Seq([job : Jobs, ch : Chs, id : 1..MaxJobs])
  /\ dw = NoJob \/ dw \in [job : Jobs, ch : Chs, id : 1..MaxJobs]
  /\ asleep \subseteq {"sm", "cb"} /\ cb \in {"idle", "waits", "passes"} /\ pp \in BOOLEAN

Thread ==
  /\ DOMAIN hwi = {"pc", "waits", "then"}
  /\ hwi.pc \in Stages \cup {"wait"} /\ hwi.then \in Stages /\ hwi.waits \in Seq(Named \cup Jobs)
  /\ hwi.pc = "wait" => hwi.then # "stop"

(* A job that is under way has a slot of its own, and is the last of its kind *)
(* unless it was left behind.                                                 *)
Slots ==
  /\ left \subseteq UnderWay
  /\ \A w \in UnderWay : ongoing[w.id]
  /\ \A w \in Working : id[w.job] = w.id
  /\ \A i, j \in DOMAIN queue : queue[i].id = queue[j].id => i = j
  /\ dw # NoJob => \A i \in DOMAIN queue : queue[i].id # dw.id

(* Its channel and its stream are there.                                    *)
Where ==
  \A w \in Working :
    /\ chan[w.ch] # "none"
    /\ w.job = "REPROC" => w.ch = "CAPTURE" /\ chan["CAPTURE"] \in {"made", "on"}
    /\ w.job # "REPROC" => w.job \in streams[w.ch]

(* While which jobs are under way.                                          *)
When ==
  \A w \in Working :
    /\ hwi.pc \in {"idle", "start", "add", "wait"}
    /\ hwi.pc \in {"idle", "start"} => w.job = "REPROC"
    /\ hwi.pc = "wait" => w.job \in ToSet(hwi.waits)
    /\ hwi.pc = "add" => /\ w.job \in Early /\ w.job \notin ToSet(toAdd) /\ mode = "photo"
                         /\ chan[w.ch] = "built" /\ w.ch \in {"PREVIEW", "CAPTURE"}
                         /\ w.ch = "PREVIEW" => w.job = "METADATA"

(* Only a picture's channel is made beside another one.                     *)
Solo ==
  \A c, d \in Heads :
    chan[c] # "none" /\ chan[d] # "none" /\ c # d =>
      {c, d} = {"PREVIEW", "CAPTURE"} /\ chan["CAPTURE"] = "built" /\ chan["PREVIEW"] = "on"

OneBuilt ==
  /\ \A c, d \in Chs : chan[c] = "built" /\ chan[d] = "built" => c = d
  /\ Building <=> \E c \in Chs : chan[c] = "built"

Progress ==
  /\ Stage \in {"postview", "reproc"} => chan["CAPTURE"] = "made"
  /\ Stage = "postview" => "POSTVIEW" \in streams["CAPTURE"]
  /\ Stage = "ppstart" => chan["RAW"] = "made"
  /\ Stage \in {"start", "startfailed"} => \E c \in Heads : chan[c] = "made"

(* The plan of a preview, and the streams the channel still wants.          *)
Planned ==
  /\ toBuild # <<>> => mode = "video" /\ Building /\ \A c \in Heads : chan[c] = "none"
  /\ toBuild \in {<<>>, <<"PREVIEW">>, <<"VIDEO", "PREVIEW">>}
  /\ Stage = "add" => /\ toBuild = <<"PREVIEW">> <=> chan["VIDEO"] = "built"
                      /\ toBuild = <<"VIDEO", "PREVIEW">> <=> chan["SNAPSHOT"] = "built"
  /\ Stage = "add" /\ mode = "photo" => chan["ZSL"] # "built"
  /\ Stage = "add" /\ mode = "photo" /\ chan["PREVIEW"] = "built" =>
       ToSet(toAdd) \subseteq {"METADATA", "PREVIEW"}
  /\ Stage = "add" /\ chan["CAPTURE"] = "built" => "POSTVIEW" \in streams["CAPTURE"] \cup ToSet(toAdd)

Callback ==
  /\ cb # "idle" => chan["CAPTURE"] = "on"
  /\ cb = "passes" => \A w \in Working : w.job # "REPROC"

CapInv == CapShape /\ Thread /\ Slots /\ Where /\ When /\ Solo /\ OneBuilt /\ Progress /\ Planned /\ Callback

(* Lemmas about the work that is under way.                                 *)
LEMMA NoneWork == ToSet(<<>>) = {} /\ \A x : x \notin ToSet(<<>>)
BY DEF ToSet

-----------------------------------------------------------------------------
(* The end of a picture, and its frames.                                    *)
LEMMA CancelPictureKeeps ==
    ASSUME CaptureAssumption, CapInv, CancelPicture
    PROVE  CapInv'
<1>1. /\ hwi.pc = "idle"
      /\ UNCHANGED <<chan, streams, filled, mode, toBuild, toAdd, ongoing, queue, dw, id, left, asleep, cb, pp>>
      /\ DOMAIN hwi' = {"pc", "waits", "then"}
      /\ hwi'.pc = "wait"
      /\ hwi'.waits = <<"REPROC">>
      /\ hwi'.then = "ppstop"
  BY DEF CancelPicture, Goes, WaitsFor, Channels, Plan, Deferred, Rest
<1>2. /\ Working' = Working
      /\ UnderWay' = UnderWay
  BY <1>1 DEF Working, UnderWay
<1>3. /\ "REPROC" \in ToSet(<<"REPROC">>)
      /\ <<"REPROC">> \in Seq(Named \cup Jobs)
  BY DEF ToSet, Jobs, Named
<1>4. CapShape'
  BY <1>1, <1>2, <1>3 DEF CapInv, CapShape, Chs, Pictures, Previews
<1>5. Thread'
  BY <1>1, <1>2, <1>3 DEF CapInv, Thread, Stages
<1>6. Slots'
  BY <1>1, <1>2, <1>3 DEF CapInv, Slots, CapShape
<1>7. Where'
  BY <1>1, <1>2, <1>3 DEF CapInv, Where, When, Chs, Pictures, Previews
<1>8. When'
  BY <1>1, <1>2, <1>3 DEF CapInv, When, Where
<1>9. Solo'
  BY <1>1, <1>2, <1>3 DEF CapInv, Solo, Heads, Chs, Pictures, Previews, CapShape
<1>10. OneBuilt'
  BY <1>1, <1>2, <1>3 DEF CapInv, OneBuilt, Building, Stage, Chs, Pictures, Previews, CapShape
<1>11. Progress'
  BY <1>1, <1>2, <1>3 DEF CapInv, Progress, Stage, Heads, Chs, CapShape, Pictures, Previews
<1>12. Planned'
  BY <1>1, <1>2, <1>3 DEF CapInv, Planned, Stage, Building, Heads, CapShape, Chs, Pictures, Previews
<1>13. Callback'
  BY <1>1, <1>2, <1>3 DEF CapInv, Callback, Chs, CapShape, Pictures, Previews
<1>. QED
  BY <1>4, <1>5, <1>6, <1>7, <1>8, <1>9, <1>10, <1>11, <1>12, <1>13 DEF CapInv

LEMMA PpStopKeeps ==
    ASSUME CaptureAssumption, CapInv, PpStop
    PROVE  CapInv'
<1>1. /\ hwi.pc = "ppstop"
      /\ UNCHANGED <<chan, streams, filled, mode, toBuild, toAdd, ongoing, queue, dw, id, left, asleep, cb>>
      /\ pp' = FALSE
      /\ DOMAIN hwi' = {"pc", "waits", "then"}
      /\ hwi'.pc = "stop"
      /\ hwi'.waits = <<>>
      /\ hwi'.then = "idle"
  BY DEF PpStop, Goes, WaitsFor, Channels, Plan, Deferred, Rest
<1>2. /\ Working' = Working
      /\ UnderWay' = UnderWay
  BY <1>1 DEF Working, UnderWay
<1>3. CapShape'
  BY <1>1, <1>2 DEF CapInv, CapShape, Chs, Pictures, Previews
<1>4. Thread'
  BY <1>1, <1>2 DEF CapInv, Thread, Stages
<1>5. Slots'
  BY <1>1, <1>2 DEF CapInv, Slots, CapShape
<1>6. Where'
  BY <1>1, <1>2 DEF CapInv, Where, When, Chs, Pictures, Previews
<1>7. When'
  BY <1>1, <1>2 DEF CapInv, When, Where
<1>8. Solo'
  BY <1>1, <1>2 DEF CapInv, Solo, Heads, Chs, Pictures, Previews, CapShape
<1>9. OneBuilt'
  BY <1>1, <1>2 DEF CapInv, OneBuilt, Building, Stage, Chs, Pictures, Previews, CapShape
<1>10. Progress'
  BY <1>1, <1>2 DEF CapInv, Progress, Stage, Heads, Chs, CapShape, Pictures, Previews
<1>11. Planned'
  BY <1>1, <1>2 DEF CapInv, Planned, Stage, Building, Heads, CapShape, Chs, Pictures, Previews
<1>12. Callback'
  BY <1>1, <1>2 DEF CapInv, Callback, Chs, CapShape, Pictures, Previews
<1>. QED
  BY <1>3, <1>4, <1>5, <1>6, <1>7, <1>8, <1>9, <1>10, <1>11, <1>12 DEF CapInv

LEMMA UnderWayIds ==
    ASSUME CapInv, NEW w \in UnderWay
    PROVE  w \in [job : Jobs, ch : Chs, id : 1..MaxJobs] /\ w.job \in Jobs /\ w.ch \in Chs /\ w.id \in 1..MaxJobs
<1>1. CASE w \in ToSet(queue)
  <2>1. PICK i \in DOMAIN queue : w = queue[i]
    BY <1>1 DEF ToSet
  <2>2. queue \in Seq([job : Jobs, ch : Chs, id : 1..MaxJobs])
    BY DEF CapInv, CapShape
  <2>3. i \in 1..Len(queue)
    BY <2>1, <2>2
  <2>4. queue[i] \in [job : Jobs, ch : Chs, id : 1..MaxJobs]
    BY <2>2, <2>3, ElementOfSeq
  <2>. QED
    BY <2>1, <2>4
<1>2. CASE dw # NoJob /\ w = dw
  BY <1>2 DEF CapInv, CapShape
<1>. QED
  BY <1>1, <1>2 DEF UnderWay

LEMMA WorkIds ==
    ASSUME CapInv, NEW w \in Working
    PROVE  w \in [job : Jobs, ch : Chs, id : 1..MaxJobs] /\ w.job \in Jobs /\ w.ch \in Chs /\ w.id \in 1..MaxJobs
BY UnderWayIds DEF Working

LEMMA BusyWith ==
    ASSUME CapInv, NEW w \in Working
    PROVE  Busy(w.job)
BY WorkIds DEF CapInv, Slots, Busy, Working

LEMMA CallbackKeeps ==
    ASSUME CaptureAssumption, CapInv, CaptureCb \/ CbPasses \/ CbSleeps \/ CaptureCbReturns
    PROVE  CapInv'
<1>1. /\ UNCHANGED <<chan, streams, filled, mode, toBuild, toAdd, hwi, ongoing, queue, dw, id, left, pp>>
      /\ asleep' \subseteq {"sm", "cb"}
      /\ cb' \in {"idle", "waits", "passes"}
      /\ cb' # "idle" => cb # "idle" \/ chan["CAPTURE"] = "on"
      /\ cb' = "passes" => ~Busy("REPROC")
  BY DEF CapInv, CapShape, CaptureCb, CbPasses, CbSleeps, CaptureCbReturns, Deferred, Channels, Plan
<1>2. /\ Working' = Working
      /\ UnderWay' = UnderWay
  BY <1>1 DEF Working, UnderWay
<1>3. /\ \A w \in Working : cb' = "passes" => w.job # "REPROC"
  BY <1>1, BusyWith
<1>4. CapShape'
  BY <1>1, <1>2, <1>3 DEF CapInv, CapShape, Chs, Pictures, Previews
<1>5. Thread'
  BY <1>1, <1>2, <1>3 DEF CapInv, Thread, Stages
<1>6. Slots'
  BY <1>1, <1>2, <1>3 DEF CapInv, Slots, CapShape
<1>7. Where'
  BY <1>1, <1>2, <1>3 DEF CapInv, Where, When, Chs, Pictures, Previews
<1>8. When'
  BY <1>1, <1>2, <1>3 DEF CapInv, When, Where
<1>9. Solo'
  BY <1>1, <1>2, <1>3 DEF CapInv, Solo, Heads, Chs, Pictures, Previews, CapShape
<1>10. OneBuilt'
  BY <1>1, <1>2, <1>3 DEF CapInv, OneBuilt, Building, Stage, Chs, Pictures, Previews, CapShape
<1>11. Progress'
  BY <1>1, <1>2, <1>3 DEF CapInv, Progress, Stage, Heads, Chs, CapShape, Pictures, Previews
<1>12. Planned'
  BY <1>1, <1>2, <1>3 DEF CapInv, Planned, Stage, Building, Heads, CapShape, Chs, Pictures, Previews
<1>13. Callback'
  BY <1>1, <1>2, <1>3 DEF CapInv, Callback, Chs, CapShape, Pictures, Previews
<1>. QED
  BY <1>4, <1>5, <1>6, <1>7, <1>8, <1>9, <1>10, <1>11, <1>12, <1>13 DEF CapInv

-----------------------------------------------------------------------------
(* What a channel wants.                                                    *)
LEMMA RawStreamIs == RawStream \in Seq(Named) /\ ToSet(RawStream) \subseteq {"RAW"} /\ IsInjective(RawStream)
<1>1. CASE RawYuv
  <2>1. RawStream = <<"RAW">>
    BY <1>1 DEF RawStream
  <2>. QED
    BY <2>1 DEF Named, ToSet, IsInjective
<1>2. CASE ~RawYuv
  <2>1. RawStream = <<>>
    BY <1>2 DEF RawStream
  <2>. QED
    BY <2>1 DEF Named, ToSet, IsInjective
<1>. QED
  BY <1>1, <1>2

LEMMA OfTwo ==
    ASSUME NEW a \in Named, NEW b \in Named, a # b
    PROVE  <<a, b>> \in Seq(Named) /\ IsInjective(<<a, b>>) /\ ToSet(<<a, b>>) = {a, b}
BY DEF IsInjective, ToSet

LEMMA OfThree ==
    ASSUME NEW a \in Named, NEW b \in Named, NEW c \in Named, a # b, a # c, b # c
    PROVE  <<a, b, c>> \in Seq(Named) /\ IsInjective(<<a, b, c>>) /\ ToSet(<<a, b, c>>) = {a, b, c}
BY DEF IsInjective, ToSet

LEMMA OfOne ==
    ASSUME NEW a \in Named
    PROVE  <<a>> \in Seq(Named) /\ IsInjective(<<a>>) /\ ToSet(<<a>>) = {a}
BY DEF IsInjective, ToSet

LEMMA WantedIs ==
    ASSUME NEW c \in Chs
    PROVE  /\ Wanted(c) \in Seq(Named) /\ IsInjective(Wanted(c))
           /\ c = "PREVIEW" => ToSet(Wanted(c)) \subseteq {"METADATA", "PREVIEW"}
           /\ c = "CAPTURE" => "POSTVIEW" \in ToSet(Wanted(c))
<1>1. CASE c \in {"VIDEO", "SNAPSHOT"}
  <2>1. Wanted(c) = <<c>> /\ c \in Named
    BY <1>1 DEF Wanted, VideoChannel, SnapshotChannel, Named
  <2>. QED
    BY <1>1, <2>1, OfOne
<1>5. CASE c \in {"PREVIEW", "RAW"}
  <2>1. Wanted(c) = <<"METADATA", c>> /\ c \in Named /\ "METADATA" \in Named /\ c # "METADATA"
    BY <1>5 DEF Wanted, PreviewChannel, RawChannel, Named
  <2>. QED
    BY <1>5, <2>1, OfTwo
<1>2. ASSUME NEW s \in {<<"METADATA", "PREVIEW", "SNAPSHOT">>, <<"METADATA", "POSTVIEW", "SNAPSHOT">>},
             Wanted(c) = s \o RawStream
      PROVE  Wanted(c) \in Seq(Named) /\ IsInjective(Wanted(c)) /\ ToSet(s) \subseteq ToSet(Wanted(c))
  <2>1. PICK b \in {"PREVIEW", "POSTVIEW"} : s = <<"METADATA", b, "SNAPSHOT">>
    BY <1>2
  <2>2. "METADATA" \in Named /\ b \in Named /\ "SNAPSHOT" \in Named /\ b # "METADATA" /\ b # "SNAPSHOT"
    BY <2>1 DEF Named
  <2>3. s \in Seq(Named) /\ IsInjective(s) /\ "RAW" \notin ToSet(s)
    BY <2>1, <2>2, OfThree
  <2>. QED
    BY <1>2, <2>3, RawStreamIs, Concatenated
<1>3. CASE c = "ZSL"
  <2>1. Wanted(c) = <<"METADATA", "PREVIEW", "SNAPSHOT">> \o RawStream
    BY <1>3 DEF Wanted, ZSLChannel
  <2>. QED
    BY <1>2, <1>3, <2>1
<1>4. CASE c = "CAPTURE"
  <2>1. Wanted(c) = <<"METADATA", "POSTVIEW", "SNAPSHOT">> \o RawStream
    BY <1>4 DEF Wanted, CaptureChannel
  <2>2. "POSTVIEW" \in ToSet(<<"METADATA", "POSTVIEW", "SNAPSHOT">>)
    BY DEF ToSet
  <2>. QED
    BY <1>2, <1>4, <2>1, <2>2
<1>. QED
  BY <1>1, <1>5, <1>3, <1>4 DEF Chs

LEMMA Plans == <<>> # <<"PREVIEW">> /\ <<>> # <<"VIDEO", "PREVIEW">> /\ <<"PREVIEW">> # <<"VIDEO", "PREVIEW">>
OBVIOUS

-----------------------------------------------------------------------------
(* A request of the app.                                                    *)
LEMMA PreparePreviewKeeps ==
    ASSUME CaptureAssumption, CapInv, PreparePreview
    PROVE  CapInv'
<1>1. /\ hwi.pc = "idle"
      /\ \A c \in Chs : chan[c] = "none"
      /\ UNCHANGED <<mode, streams, filled, ongoing, queue, dw, id, left, asleep, cb, pp>>
      /\ DOMAIN hwi' = {"pc", "waits", "then"}
      /\ hwi'.pc = "add"
      /\ hwi'.waits = <<>>
      /\ hwi'.then = "idle"
  BY DEF PreparePreview, Builds, Goes, WaitsFor, Channels, Plan, Deferred, Rest
<1>2. /\ Working = {}
      /\ Working' = {}
      /\ UnderWay' = UnderWay
  BY <1>1, WorkIds DEF CapInv, Where, Working, UnderWay
<1>3. /\ \E c \in {"ZSL", "SNAPSHOT", "PREVIEW"} : 
           /\ toAdd' = Wanted(c) /\ chan' = [chan EXCEPT ![c] = "built"]
           /\ \/ mode = "zsl" /\ toBuild' = <<>> /\ c = "ZSL"
              \/ mode = "video" /\ toBuild' = <<"VIDEO", "PREVIEW">> /\ c = "SNAPSHOT"
              \/ mode = "photo" /\ toBuild' = <<>> /\ c = "PREVIEW"
  BY DEF PreparePreview, CapInv, CapShape, CaptureAssumption, Builds
<1>4. CapShape'
  <2>1. PICK c \in {"ZSL", "SNAPSHOT", "PREVIEW"} :
           /\ toAdd' = Wanted(c) /\ chan' = [chan EXCEPT ![c] = "built"]
           /\ \/ mode = "zsl" /\ toBuild' = <<>> /\ c = "ZSL"
              \/ mode = "video" /\ toBuild' = <<"VIDEO", "PREVIEW">> /\ c = "SNAPSHOT"
              \/ mode = "photo" /\ toBuild' = <<>> /\ c = "PREVIEW"
    BY <1>3
  <2>2. c \in Chs
    BY DEF Chs
  <2>3. toAdd' \in Seq(Named) /\ IsInjective(toAdd')
    BY <2>1, <2>2, WantedIs
  <2>. QED
    BY <1>1, <1>2, <2>1, <2>2, <2>3 DEF CapInv, CapShape, Chs
<1>5. Thread'
  BY <1>1, <1>2, <1>3 DEF CapInv, Thread, Stages
<1>6. Slots'
  BY <1>1, <1>2, <1>3 DEF CapInv, Slots, CapShape
<1>7. Where'
  BY <1>1, <1>2, <1>3 DEF CapInv, Where, When, Chs, Pictures, Previews
<1>8. When'
  BY <1>1, <1>2, <1>3 DEF CapInv, When, Where
<1>9. Solo'
  BY <1>1, <1>2, <1>3 DEF CapInv, Solo, Heads, Chs, Pictures, Previews, CapShape
<1>10. OneBuilt'
  BY <1>1, <1>2, <1>3 DEF CapInv, OneBuilt, Building, Stage, Chs, Pictures, Previews, CapShape
<1>11. Progress'
  BY <1>1, <1>2, <1>3 DEF CapInv, Progress, Stage, Heads, Chs, CapShape, Pictures, Previews
<1>12. Planned'
  <2>1. PICK c \in {"ZSL", "SNAPSHOT", "PREVIEW"} :
           /\ toAdd' = Wanted(c) /\ chan' = [chan EXCEPT ![c] = "built"]
           /\ \/ mode = "zsl" /\ toBuild' = <<>> /\ c = "ZSL"
              \/ mode = "video" /\ toBuild' = <<"VIDEO", "PREVIEW">> /\ c = "SNAPSHOT"
              \/ mode = "photo" /\ toBuild' = <<>> /\ c = "PREVIEW"
    BY <1>3
  <2>2. c \in Chs
    BY DEF Chs
  <2>3. c = "PREVIEW" => ToSet(toAdd') \subseteq {"METADATA", "PREVIEW"}
    BY <2>1, <2>2, WantedIs
  <2>4. \A d \in Chs : chan'[d] = "built" <=> d = c
    BY <1>1, <2>1, <2>2 DEF CapInv, CapShape
  <2>5. toBuild' = <<"PREVIEW">> <=> FALSE
    BY <2>1
  <2>6. toBuild' = <<"VIDEO", "PREVIEW">> <=> c = "SNAPSHOT"
    BY <2>1
  <2>. QED
    BY <1>1, <2>1, <2>2, <2>3, <2>4, <2>5, <2>6 DEF Planned, Stage, Building, Heads, Chs
<1>13. Callback'
  BY <1>1, <1>2, <1>3 DEF CapInv, Callback, Chs, CapShape, Pictures, Previews
<1>. QED
  BY <1>4, <1>5, <1>6, <1>7, <1>8, <1>9, <1>10, <1>11, <1>12, <1>13 DEF CapInv

LEMMA TakePictureKeeps ==
    ASSUME CaptureAssumption, CapInv, NEW c \in Pictures, TakePicture(c)
    PROVE  CapInv'
<1>1. /\ hwi.pc = "idle"
      /\ mode = "photo"
      /\ chan["PREVIEW"] = "on"
      /\ UNCHANGED <<mode, toBuild, ongoing, queue, dw, id, left, asleep, cb, pp>>
      /\ toAdd' = Wanted(c)
      /\ DOMAIN hwi' = {"pc", "waits", "then"}
      /\ hwi'.pc = "add"
      /\ hwi'.waits = <<>>
      /\ hwi'.then = "idle"
  BY DEF TakePicture, Goes, WaitsFor, Channels, Plan, Deferred, Rest
<1>2. /\ c = "CAPTURE" => chan' = [chan EXCEPT !["CAPTURE"] = "built"] /\ streams' = streams /\ filled' = filled
      /\ c = "RAW" => /\ chan' = [chan EXCEPT !["RAW"] = "built", !["PREVIEW"] = "none"]
                   /\ streams' = [streams EXCEPT !["PREVIEW"] = {}] /\ filled' = [filled EXCEPT !["PREVIEW"] = {}]
      /\ c = "CAPTURE" \/ c = "RAW"
  BY DEF TakePicture, Pictures
<1>3. /\ chan["CAPTURE"] = "none"
      /\ chan["RAW"] = "none"
      /\ chan["ZSL"] = "none"
      /\ \A d \in Chs : chan[d] # "built"
  BY <1>1 DEF CapInv, Solo, OneBuilt, Building, Stage, Heads, Chs
<1>4. /\ Working = {}
      /\ Working' = {}
      /\ UnderWay' = UnderWay
  BY <1>1, <1>3, WorkIds DEF CapInv, Where, When, Working, UnderWay
<1>5. /\ c \in Chs
      /\ toAdd' \in Seq(Named)
      /\ IsInjective(toAdd')
      /\ c = "CAPTURE" => "POSTVIEW" \in ToSet(toAdd')
  BY <1>1, WantedIs DEF Pictures, Chs
<1>6. /\ chan' \in [Chs -> {"none", "built", "made", "on"}]
      /\ DOMAIN streams' = Chs
      /\ DOMAIN filled' = Chs
      /\ \A d \in Chs : chan'[d] = IF d = c THEN "built" ELSE IF c = "RAW" /\ d = "PREVIEW" THEN "none" ELSE chan[d]
      /\ \A d \in Chs : streams'[d] = IF c = "RAW" /\ d = "PREVIEW" THEN {} ELSE streams[d]
      /\ \A d \in Chs : filled'[d] = IF c = "RAW" /\ d = "PREVIEW" THEN {} ELSE filled[d]
  <2>1. CASE c = "CAPTURE"
    BY <2>1, <1>1, <1>2, <1>5 DEF CapInv, CapShape, Chs
  <2>2. CASE c = "RAW"
    BY <2>2, <1>1, <1>2, <1>5 DEF CapInv, CapShape, Chs
  <2>. QED
    BY <1>2, <2>1, <2>2
<1>7. /\ toBuild' = <<>>
  BY <1>1 DEF CapInv, Planned, Building, Stage
<1>8. CapShape'
  BY <1>1, <1>5, <1>6 DEF CapInv, CapShape
<1>9. Thread'
  BY <1>1, <1>2, <1>3, <1>4, <1>5, <1>6, <1>7 DEF CapInv, Thread, Stages
<1>10. Slots'
  BY <1>1, <1>2, <1>3, <1>4, <1>5, <1>6, <1>7 DEF CapInv, Slots, CapShape
<1>11. Where'
  BY <1>1, <1>2, <1>3, <1>4, <1>5, <1>6, <1>7 DEF CapInv, Where, When, Chs, Pictures, Previews
<1>12. When'
  BY <1>1, <1>2, <1>3, <1>4, <1>5, <1>6, <1>7 DEF CapInv, When, Where
<1>13. Solo'
  BY <1>1, <1>2, <1>3, <1>6 DEF CapInv, Solo, Heads, Chs
<1>14. OneBuilt'
  BY <1>1, <1>2, <1>3, <1>4, <1>5, <1>6, <1>7 DEF CapInv, OneBuilt, Building, Stage, Chs, Pictures, Previews, CapShape
<1>15. Progress'
  BY <1>1, <1>2, <1>3, <1>4, <1>5, <1>6, <1>7 DEF CapInv, Progress, Stage, Heads, Chs, CapShape, Pictures, Previews
<1>16. Planned'
  BY <1>1, <1>2, <1>3, <1>5, <1>6, <1>7, Plans DEF Planned, Stage, Building, Heads, Chs
<1>17. Callback'
  BY <1>1, <1>2, <1>3, <1>4, <1>5, <1>6, <1>7 DEF CapInv, Callback, Chs, CapShape, Pictures, Previews
<1>. QED
  BY <1>8, <1>9, <1>10, <1>11, <1>12, <1>13, <1>14, <1>15, <1>16, <1>17 DEF CapInv

LEMMA StopPreviewKeeps ==
    ASSUME CaptureAssumption, CapInv, StopPreview
    PROVE  CapInv'
<1>1. /\ hwi.pc = "idle"
      /\ UNCHANGED <<toBuild, toAdd, hwi, ongoing, queue, dw, id, left, asleep, cb, pp>>
      /\ mode' \in Modes
  BY DEF StopPreview, Goes, WaitsFor, Channels, Plan, Deferred, Rest
<1>2. /\ chan' = [c \in Chs |-> IF c \in Previews THEN "none" ELSE chan[c]]
      /\ streams' = [c \in Chs |-> IF c \in Previews THEN {} ELSE streams[c]]
      /\ filled' = [c \in Chs |-> IF c \in Previews THEN {} ELSE filled[c]]
  BY DEF StopPreview, DelChannel
<1>3. /\ Working' = Working
      /\ UnderWay' = UnderWay
  BY <1>1 DEF Working, UnderWay
<1>4. CapShape'
  BY <1>1, <1>2, <1>3 DEF CapInv, CapShape, Chs, Pictures, Previews
<1>5. Thread'
  BY <1>1, <1>2, <1>3 DEF CapInv, Thread, Stages
<1>6. Slots'
  BY <1>1, <1>2, <1>3 DEF CapInv, Slots, CapShape
<1>7. Where'
  BY <1>1, <1>2, <1>3 DEF CapInv, Where, When, Chs, Pictures, Previews
<1>8. When'
  BY <1>1, <1>2, <1>3 DEF CapInv, When, Where
<1>9. Solo'
  BY <1>1, <1>2, <1>3 DEF CapInv, Solo, Heads, Chs, Pictures, Previews, CapShape
<1>10. OneBuilt'
  BY <1>1, <1>2, <1>3 DEF CapInv, OneBuilt, Building, Stage, Chs, Pictures, Previews, CapShape
<1>11. Progress'
  BY <1>1, <1>2, <1>3 DEF CapInv, Progress, Stage, Heads, Chs, CapShape, Pictures, Previews
<1>12. Planned'
  BY <1>1, <1>2, <1>3 DEF CapInv, Planned, Stage, Building, Heads, CapShape, Chs, Pictures, Previews
<1>13. Callback'
  BY <1>1, <1>2, <1>3 DEF CapInv, Callback, Chs, CapShape, Pictures, Previews
<1>. QED
  BY <1>4, <1>5, <1>6, <1>7, <1>8, <1>9, <1>10, <1>11, <1>12, <1>13 DEF CapInv

-----------------------------------------------------------------------------
(* Where the thread of the state machine stands, and what is deleted.       *)
LEMMA NobodyWorks ==
    ASSUME CapInv, hwi.pc \notin {"idle", "start", "add", "wait"}
    PROVE  Working = {}
BY DEF CapInv, When

LEMMA BuiltIs ==
    ASSUME CapInv, Building
    PROVE  Built \in Chs /\ \A d \in Chs : chan[d] = "built" <=> d = Built
<1>1. \E c \in Chs : chan[c] = "built"
  BY DEF CapInv, OneBuilt
<1>2. Built \in Chs /\ chan[Built] = "built"
  BY <1>1 DEF Built
<1>. QED
  BY <1>2 DEF CapInv, OneBuilt

LEMMA MadeIs ==
    ASSUME CapInv, Stage \in {"start", "startfailed"}
    PROVE  /\ Made \in Heads /\ chan[Made] = "made"
           /\ \A d \in Heads : d # Made => chan[d] = "none"
           /\ \A d \in Chs : chan[d] # "built"
<1>1. \E c \in Heads : chan[c] = "made"
  BY DEF CapInv, Progress
<1>2. Made \in Heads /\ chan[Made] = "made"
  BY <1>1 DEF Made, Heads
<1>3. \A d \in Heads : d # Made => chan[d] = "none"
  BY <1>2 DEF CapInv, Solo, Heads
<1>4. \A d \in Chs : chan[d] # "built"
  BY DEF CapInv, OneBuilt, Building
<1>. QED
  BY <1>2, <1>3, <1>4

LEMMA Deleted ==
    ASSUME CapInv, NEW S \in SUBSET Chs, DelChannel(S)
    PROVE  /\ chan' \in [Chs -> {"none", "built", "made", "on"}]
           /\ DOMAIN streams' = Chs
           /\ DOMAIN filled' = Chs
           /\ \A c \in Chs : chan'[c] = IF c \in S THEN "none" ELSE chan[c]
           /\ \A c \in Chs : streams'[c] = IF c \in S THEN {} ELSE streams[c]
           /\ \A c \in Chs : filled'[c] \subseteq streams'[c]
           /\ \A c \in Chs : chan'[c] = "none" => streams'[c] = {}
<1>1. /\ chan' \in [Chs -> {"none", "built", "made", "on"}]
      /\ DOMAIN streams' = Chs /\ DOMAIN filled' = Chs
      /\ \A c \in Chs : /\ chan'[c] = IF c \in S THEN "none" ELSE chan[c]
                        /\ streams'[c] = IF c \in S THEN {} ELSE streams[c]
                        /\ filled'[c] = IF c \in S THEN {} ELSE filled[c]
  BY DEF DelChannel, CapInv, CapShape
<1>2. \A c \in Chs : filled[c] \subseteq streams[c] /\ (chan[c] = "none" => streams[c] = {})
  BY DEF CapInv, CapShape
<1>3. ASSUME NEW c \in Chs
      PROVE  filled'[c] \subseteq streams'[c] /\ (chan'[c] = "none" => streams'[c] = {})
  BY <1>1, <1>2
<1>. QED
  BY <1>1, <1>3

-----------------------------------------------------------------------------
(* It waits for jobs.                                                       *)
LEMMA WaitedKeeps ==
    ASSUME CaptureAssumption, CapInv, SmWaits, hwi.waits = <<>>
    PROVE  CapInv'
<1>1. /\ hwi.pc = "wait"
      /\ UNCHANGED <<chan, streams, filled, mode, toBuild, toAdd, ongoing, queue, dw, id, left, asleep, cb, pp>>
      /\ DOMAIN hwi' = {"pc", "waits", "then"}
      /\ hwi'.pc = hwi.then
      /\ hwi'.waits = <<>>
      /\ hwi'.then = "idle"
  BY DEF SmWaits, Goes, Channels, Plan, Deferred
<1>2. /\ Working' = Working
      /\ UnderWay' = UnderWay
      /\ Working = {}
  BY <1>1, NoneWork DEF Working, UnderWay, CapInv, When
<1>3. /\ hwi.then \in Stages
      /\ hwi.then # "wait"
      /\ Stage' = Stage
      /\ Building' <=> Building
  BY <1>1 DEF CapInv, Thread, Stages, Stage, Building
<1>4. CapShape'
  BY <1>1, <1>2, <1>3 DEF CapInv, CapShape, Chs, Pictures, Previews
<1>5. Thread'
  BY <1>1, <1>2, <1>3 DEF CapInv, Thread, Stages
<1>6. Slots'
  BY <1>1, <1>2, <1>3 DEF CapInv, Slots, CapShape
<1>7. Where'
  BY <1>1, <1>2, <1>3 DEF CapInv, Where, When, Chs, Pictures, Previews
<1>8. When'
  BY <1>1, <1>2, <1>3 DEF CapInv, When, Where
<1>9. Solo'
  BY <1>1, <1>2, <1>3 DEF CapInv, Solo, Heads, Chs, Pictures, Previews, CapShape
<1>10. OneBuilt'
  BY <1>1, <1>3 DEF CapInv, OneBuilt
<1>11. Progress'
  BY <1>1, <1>3 DEF CapInv, Progress
<1>12. Planned'
  BY <1>1, <1>3 DEF CapInv, Planned
<1>13. Callback'
  BY <1>1, <1>2, <1>3 DEF CapInv, Callback, Chs, CapShape, Pictures, Previews
<1>. QED
  BY <1>4, <1>5, <1>6, <1>7, <1>8, <1>9, <1>10, <1>11, <1>12, <1>13 DEF CapInv

LEMMA SleepsKeeps ==
    ASSUME CaptureAssumption, CapInv, SmWaits, hwi.waits # <<>>, Busy(Head(hwi.waits))
    PROVE  CapInv'
<1>1. /\ UNCHANGED <<chan, streams, filled, mode, toBuild, toAdd, hwi, ongoing, queue, dw, id, left, cb, pp>>
      /\ asleep' = asleep \cup {"sm"}
  BY DEF SmWaits, Goes, Channels, Plan, Deferred
<1>2. /\ Working' = Working
      /\ UnderWay' = UnderWay
  BY <1>1 DEF Working, UnderWay
<1>3. CapShape'
  BY <1>1, <1>2 DEF CapInv, CapShape, Chs, Pictures, Previews
<1>4. Thread'
  BY <1>1, <1>2 DEF CapInv, Thread, Stages
<1>5. Slots'
  BY <1>1, <1>2 DEF CapInv, Slots, CapShape
<1>6. Where'
  BY <1>1, <1>2 DEF CapInv, Where, When, Chs, Pictures, Previews
<1>7. When'
  BY <1>1, <1>2 DEF CapInv, When, Where
<1>8. Solo'
  BY <1>1, <1>2 DEF CapInv, Solo, Heads, Chs, Pictures, Previews, CapShape
<1>9. OneBuilt'
  BY <1>1, <1>2 DEF CapInv, OneBuilt, Building, Stage, Chs, Pictures, Previews, CapShape
<1>10. Progress'
  BY <1>1, <1>2 DEF CapInv, Progress, Stage, Heads, Chs, CapShape, Pictures, Previews
<1>11. Planned'
  BY <1>1, <1>2 DEF CapInv, Planned, Stage, Building, Heads, CapShape, Chs, Pictures, Previews
<1>12. Callback'
  BY <1>1, <1>2 DEF CapInv, Callback, Chs, CapShape, Pictures, Previews
<1>. QED
  BY <1>3, <1>4, <1>5, <1>6, <1>7, <1>8, <1>9, <1>10, <1>11, <1>12 DEF CapInv

LEMMA NextJobKeeps ==
    ASSUME CaptureAssumption, CapInv, SmWaits, hwi.waits # <<>>, ~Busy(Head(hwi.waits))
    PROVE  CapInv'
<1>1. /\ hwi.pc = "wait"
      /\ UNCHANGED <<chan, streams, filled, mode, toBuild, toAdd, ongoing, queue, dw, id, left, asleep, cb, pp>>
      /\ hwi' = [hwi EXCEPT !.waits = Tail(hwi.waits)]
  BY DEF SmWaits, Goes, Channels, Plan, Deferred
<1>2. /\ Working' = Working
      /\ UnderWay' = UnderWay
  BY <1>1 DEF Working, UnderWay
<1>3. /\ hwi.waits \in Seq(Named \cup Jobs)
      /\ DOMAIN hwi = {"pc", "waits", "then"}
  BY DEF CapInv, Thread
<1>4. /\ DOMAIN hwi' = {"pc", "waits", "then"}
      /\ hwi'.pc = "wait"
      /\ hwi'.then = hwi.then
      /\ hwi'.waits = Tail(hwi.waits)
  BY <1>1, <1>3
<1>5. /\ Tail(hwi.waits) \in Seq(Named \cup Jobs)
      /\ ToSet(hwi.waits) = ToSet(Tail(hwi.waits)) \cup {Head(hwi.waits)}
  BY <1>3, HeadGone
<1>6. /\ \A w \in Working : w.job # Head(hwi.waits)
  BY BusyWith
<1>7. /\ Stage' = Stage
      /\ Building' <=> Building
  BY <1>1, <1>4 DEF Stage, Building
<1>8. CapShape'
  BY <1>1, <1>2, <1>3, <1>4, <1>5, <1>6, <1>7 DEF CapInv, CapShape, Chs, Pictures, Previews
<1>9. Thread'
  BY <1>1, <1>4, <1>5 DEF CapInv, Thread
<1>10. Slots'
  BY <1>1, <1>2, <1>3, <1>4, <1>5, <1>6, <1>7 DEF CapInv, Slots, CapShape
<1>11. Where'
  BY <1>1, <1>2, <1>3, <1>4, <1>5, <1>6, <1>7 DEF CapInv, Where, When, Chs, Pictures, Previews
<1>12. When'
  BY <1>1, <1>2, <1>4, <1>5, <1>6 DEF CapInv, When
<1>13. Solo'
  BY <1>1, <1>2, <1>3, <1>4, <1>5, <1>6, <1>7 DEF CapInv, Solo, Heads, Chs, Pictures, Previews, CapShape
<1>14. OneBuilt'
  BY <1>1, <1>7 DEF CapInv, OneBuilt
<1>15. Progress'
  BY <1>1, <1>7 DEF CapInv, Progress
<1>16. Planned'
  BY <1>1, <1>7 DEF CapInv, Planned
<1>17. Callback'
  BY <1>1, <1>2, <1>3, <1>4, <1>5, <1>6, <1>7 DEF CapInv, Callback, Chs, CapShape, Pictures, Previews
<1>. QED
  BY <1>8, <1>9, <1>10, <1>11, <1>12, <1>13, <1>14, <1>15, <1>16, <1>17 DEF CapInv

-----------------------------------------------------------------------------
(* Ways out.                                                                *)
LEMMA AddStreamFailsKeeps ==
    ASSUME CaptureAssumption, CapInv, AddStreamFails
    PROVE  CapInv'
<1>1. /\ hwi.pc = "add"
      /\ toAdd' = <<>>
      /\ UNCHANGED <<chan, streams, filled, mode, toBuild, ongoing, queue, dw, id, left, asleep, cb, pp>>
      /\ DOMAIN hwi' = {"pc", "waits", "then"}
      /\ hwi'.pc = "wait"
      /\ hwi'.waits = <<"METADATA", "POSTVIEW", "SNAPSHOT", "RAW">>
      /\ hwi'.then = "addfailed"
  BY DEF AddStreamFails, Goes, WaitsFor, Channels, Plan, Deferred, Rest
<1>2. /\ Working' = Working
      /\ UnderWay' = UnderWay
  BY <1>1 DEF Working, UnderWay
<1>3. /\ <<"METADATA", "POSTVIEW", "SNAPSHOT", "RAW">> \in Seq(Named \cup Jobs)
      /\ ToSet(<<"METADATA", "POSTVIEW", "SNAPSHOT", "RAW">>) = {"METADATA", "POSTVIEW", "SNAPSHOT", "RAW"}
  BY DEF ToSet, Jobs, Named
<1>4. /\ toAdd' \in Seq(Named)
      /\ IsInjective(toAdd')
  BY <1>1 DEF IsInjective
<1>5. CapShape'
  BY <1>1, <1>2, <1>3, <1>4 DEF CapInv, CapShape, Chs, Pictures, Previews
<1>6. Thread'
  BY <1>1, <1>2, <1>3, <1>4 DEF CapInv, Thread, Stages
<1>7. Slots'
  BY <1>1, <1>2, <1>3, <1>4 DEF CapInv, Slots, CapShape
<1>8. Where'
  BY <1>1, <1>2, <1>3, <1>4 DEF CapInv, Where, When, Chs, Pictures, Previews
<1>9. When'
  BY <1>1, <1>2, <1>3 DEF CapInv, When, Early
<1>10. Solo'
  BY <1>1, <1>2, <1>3, <1>4 DEF CapInv, Solo, Heads, Chs, Pictures, Previews, CapShape
<1>11. OneBuilt'
  BY <1>1, <1>2, <1>3, <1>4 DEF CapInv, OneBuilt, Building, Stage, Chs, Pictures, Previews, CapShape
<1>12. Progress'
  BY <1>1, <1>2, <1>3, <1>4 DEF CapInv, Progress, Stage, Heads, Chs, CapShape, Pictures, Previews
<1>13. Planned'
  BY <1>1, <1>2, <1>3, <1>4 DEF CapInv, Planned, Stage, Building, Heads, CapShape, Chs, Pictures, Previews
<1>14. Callback'
  BY <1>1, <1>2, <1>3, <1>4 DEF CapInv, Callback, Chs, CapShape, Pictures, Previews
<1>. QED
  BY <1>5, <1>6, <1>7, <1>8, <1>9, <1>10, <1>11, <1>12, <1>13, <1>14 DEF CapInv

LEMMA NoStreamInfoKeeps ==
    ASSUME CaptureAssumption, CapInv, NoStreamInfo
    PROVE  CapInv'
<1>1. /\ hwi.pc = "add"
      /\ toAdd' = <<>>
      /\ UNCHANGED <<chan, streams, filled, mode, toBuild, ongoing, queue, dw, id, asleep, cb, pp>>
      /\ left' = UnderWay
      /\ DOMAIN hwi' = {"pc", "waits", "then"}
      /\ hwi'.pc = "addfailed"
      /\ hwi'.waits = <<>>
      /\ hwi'.then = "idle"
  BY DEF NoStreamInfo, Goes, Channels, Rest
<1>2. /\ UnderWay' = UnderWay
      /\ Working' = {}
  BY <1>1 DEF Working, UnderWay
<1>3. <<>> \in Seq(Named \cup Jobs)
  OBVIOUS
<1>4. /\ toAdd' \in Seq(Named)
      /\ IsInjective(toAdd')
  BY <1>1 DEF IsInjective
<1>5. CapShape'
  BY <1>1, <1>2, <1>3, <1>4 DEF CapInv, CapShape, Chs, Pictures, Previews
<1>6. Thread'
  BY <1>1, <1>2, <1>3, <1>4 DEF CapInv, Thread, Stages
<1>7. Slots'
  BY <1>1, <1>2, <1>3, <1>4 DEF CapInv, Slots, CapShape
<1>8. Where'
  BY <1>1, <1>2, <1>3, <1>4 DEF CapInv, Where, When, Chs, Pictures, Previews
<1>9. When'
  BY <1>1, <1>2, <1>3 DEF CapInv, When, Early
<1>10. Solo'
  BY <1>1, <1>2, <1>3, <1>4 DEF CapInv, Solo, Heads, Chs, Pictures, Previews, CapShape
<1>11. OneBuilt'
  BY <1>1, <1>2, <1>3, <1>4 DEF CapInv, OneBuilt, Building, Stage, Chs, Pictures, Previews, CapShape
<1>12. Progress'
  BY <1>1, <1>2, <1>3, <1>4 DEF CapInv, Progress, Stage, Heads, Chs, CapShape, Pictures, Previews
<1>13. Planned'
  BY <1>1, <1>2, <1>3, <1>4 DEF CapInv, Planned, Stage, Building, Heads, CapShape, Chs, Pictures, Previews
<1>14. Callback'
  BY <1>1, <1>2, <1>3, <1>4 DEF CapInv, Callback, Chs, CapShape, Pictures, Previews
<1>. QED
  BY <1>5, <1>6, <1>7, <1>8, <1>9, <1>10, <1>11, <1>12, <1>13, <1>14 DEF CapInv

LEMMA AddFailedKeeps ==
    ASSUME CaptureAssumption, CapInv, AddFailed
    PROVE  CapInv'
<1>1. /\ hwi.pc = "addfailed"
      /\ toBuild' = <<>>
      /\ DelChannel({Built} \cup Previews)
      /\ UNCHANGED <<mode, toAdd, ongoing, queue, dw, id, left, asleep, cb, pp>>
      /\ DOMAIN hwi' = {"pc", "waits", "then"}
      /\ hwi'.pc = "idle"
      /\ hwi'.waits = <<>>
      /\ hwi'.then = "idle"
  BY DEF AddFailed, Goes, WaitsFor, Channels, Plan, Deferred, Rest
<1>2. /\ Working' = Working
      /\ UnderWay' = UnderWay
      /\ Working = {}
  BY <1>1, NobodyWorks DEF Working, UnderWay
<1>3. /\ Built \in Chs
      /\ \A d \in Chs : chan[d] = "built" <=> d = Built
  BY <1>1, BuiltIs DEF Building, Stage
<1>4. /\ chan' \in [Chs -> {"none", "built", "made", "on"}]
      /\ DOMAIN streams' = Chs
      /\ DOMAIN filled' = Chs
      /\ \A c \in Chs : chan'[c] = IF c \in {Built} \cup Previews THEN "none" ELSE chan[c]
      /\ \A c \in Chs : streams'[c] = IF c \in {Built} \cup Previews THEN {} ELSE streams[c]
      /\ \A c \in Chs : filled'[c] \subseteq streams'[c]
      /\ \A c \in Chs : chan'[c] = "none" => streams'[c] = {}
  <2>. DEFINE S == {Built} \cup Previews
  <2>1. S \in SUBSET Chs
    BY <1>3 DEF Previews, Chs
  <2>2. DelChannel(S)
    BY <1>1
  <2>. HIDE DEF S
  <2>3. /\ chan' \in [Chs -> {"none", "built", "made", "on"}]
        /\ DOMAIN streams' = Chs
        /\ DOMAIN filled' = Chs
        /\ \A c \in Chs : chan'[c] = IF c \in S THEN "none" ELSE chan[c]
        /\ \A c \in Chs : streams'[c] = IF c \in S THEN {} ELSE streams[c]
        /\ \A c \in Chs : filled'[c] \subseteq streams'[c]
        /\ \A c \in Chs : chan'[c] = "none" => streams'[c] = {}
    BY <2>1, <2>2, Deleted
  <2>. QED
    BY <2>3 DEF S
<1>5. CapShape'
  BY <1>1, <1>2, <1>3, <1>4 DEF CapInv, CapShape, Chs, Pictures, Previews
<1>6. Thread'
  BY <1>1, <1>2, <1>3, <1>4 DEF CapInv, Thread, Stages
<1>7. Slots'
  BY <1>1, <1>2, <1>3, <1>4 DEF CapInv, Slots, CapShape
<1>8. Where'
  BY <1>1, <1>2, <1>3, <1>4 DEF CapInv, Where, When, Chs, Pictures, Previews
<1>9. When'
  BY <1>1, <1>2, <1>3, <1>4 DEF CapInv, When, Where
<1>10. Solo'
  BY <1>1, <1>2, <1>3, <1>4 DEF CapInv, Solo, Heads, Chs, Pictures, Previews, CapShape
<1>11. OneBuilt'
  BY <1>1, <1>2, <1>3, <1>4 DEF CapInv, OneBuilt, Building, Stage, Chs, Pictures, Previews, CapShape
<1>12. Progress'
  BY <1>1, <1>2, <1>3, <1>4 DEF CapInv, Progress, Stage, Heads, Chs, CapShape, Pictures, Previews
<1>13. Planned'
  BY <1>1, <1>2, <1>3, <1>4 DEF CapInv, Planned, Stage, Building, Heads, CapShape, Chs, Pictures, Previews
<1>14. Callback'
  BY <1>1, <1>2, <1>3, <1>4 DEF CapInv, Callback, Chs, CapShape, Pictures, Previews
<1>. QED
  BY <1>5, <1>6, <1>7, <1>8, <1>9, <1>10, <1>11, <1>12, <1>13, <1>14 DEF CapInv

LEMMA PpStartKeeps ==
    ASSUME CaptureAssumption, CapInv,
           PpStart, pp' = TRUE, Goes("start"), UNCHANGED Channels
    PROVE  CapInv'
<1>1. /\ hwi.pc = "ppstart"
      /\ UNCHANGED <<chan, streams, filled, mode, toBuild, toAdd, ongoing, queue, dw, id, left, asleep, cb>>
      /\ DOMAIN hwi' = {"pc", "waits", "then"}
      /\ hwi'.pc = "start"
      /\ hwi'.waits = <<>>
      /\ hwi'.then = "idle"
  BY DEF PpStart, Goes, WaitsFor, Channels, Plan, Deferred, Rest
<1>2. /\ Working' = Working
      /\ UnderWay' = UnderWay
      /\ Working = {}
  BY <1>1, NobodyWorks DEF Working, UnderWay
<1>3. CapShape'
  BY <1>1, <1>2 DEF CapInv, CapShape, Chs, Pictures, Previews
<1>4. Thread'
  BY <1>1, <1>2 DEF CapInv, Thread, Stages
<1>5. Slots'
  BY <1>1, <1>2 DEF CapInv, Slots, CapShape
<1>6. Where'
  BY <1>1, <1>2 DEF CapInv, Where, When, Chs, Pictures, Previews
<1>7. When'
  BY <1>1, <1>2 DEF CapInv, When, Where
<1>8. Solo'
  BY <1>1, <1>2 DEF CapInv, Solo, Heads, Chs, Pictures, Previews, CapShape
<1>9. OneBuilt'
  BY <1>1, <1>2 DEF CapInv, OneBuilt, Building, Stage, Chs, Pictures, Previews, CapShape
<1>10. Progress'
  BY <1>1, <1>2 DEF CapInv, Progress, Stage, Heads, Chs, CapShape, Pictures, Previews
<1>11. Planned'
  BY <1>1, <1>2 DEF CapInv, Planned, Stage, Building, Heads, CapShape, Chs, Pictures, Previews
<1>12. Callback'
  BY <1>1, <1>2 DEF CapInv, Callback, Chs, CapShape, Pictures, Previews
<1>. QED
  BY <1>3, <1>4, <1>5, <1>6, <1>7, <1>8, <1>9, <1>10, <1>11, <1>12 DEF CapInv

LEMMA PpStartFailsKeeps ==
    ASSUME CaptureAssumption, CapInv,
           PpStart, DelChannel({"RAW"}), Goes("idle"), UNCHANGED pp
    PROVE  CapInv'
<1>1. /\ hwi.pc = "ppstart"
      /\ UNCHANGED <<mode, toBuild, toAdd, ongoing, queue, dw, id, left, asleep, cb, pp>>
      /\ DOMAIN hwi' = {"pc", "waits", "then"}
      /\ hwi'.pc = "idle"
      /\ hwi'.waits = <<>>
      /\ hwi'.then = "idle"
  BY DEF PpStart, Goes, WaitsFor, Channels, Plan, Deferred, Rest
<1>2. /\ Working' = Working
      /\ UnderWay' = UnderWay
      /\ Working = {}
  BY <1>1, NobodyWorks DEF Working, UnderWay
<1>3. /\ chan' \in [Chs -> {"none", "built", "made", "on"}]
      /\ DOMAIN streams' = Chs
      /\ DOMAIN filled' = Chs
      /\ \A c \in Chs : chan'[c] = IF c \in {"RAW"} THEN "none" ELSE chan[c]
      /\ \A c \in Chs : streams'[c] = IF c \in {"RAW"} THEN {} ELSE streams[c]
      /\ \A c \in Chs : filled'[c] \subseteq streams'[c]
      /\ \A c \in Chs : chan'[c] = "none" => streams'[c] = {}
  <2>. DEFINE S == {"RAW"}
  <2>1. S \in SUBSET Chs
    BY DEF Chs
  <2>2. DelChannel(S)
    BY <1>1
  <2>. HIDE DEF S
  <2>3. /\ chan' \in [Chs -> {"none", "built", "made", "on"}]
        /\ DOMAIN streams' = Chs
        /\ DOMAIN filled' = Chs
        /\ \A c \in Chs : chan'[c] = IF c \in S THEN "none" ELSE chan[c]
        /\ \A c \in Chs : streams'[c] = IF c \in S THEN {} ELSE streams[c]
        /\ \A c \in Chs : filled'[c] \subseteq streams'[c]
        /\ \A c \in Chs : chan'[c] = "none" => streams'[c] = {}
    BY <2>1, <2>2, Deleted
  <2>. QED
    BY <2>3 DEF S
<1>4. CapShape'
  BY <1>1, <1>2, <1>3 DEF CapInv, CapShape, Chs, Pictures, Previews
<1>5. Thread'
  BY <1>1, <1>2, <1>3 DEF CapInv, Thread, Stages
<1>6. Slots'
  BY <1>1, <1>2, <1>3 DEF CapInv, Slots, CapShape
<1>7. Where'
  BY <1>1, <1>2, <1>3 DEF CapInv, Where, When, Chs, Pictures, Previews
<1>8. When'
  BY <1>1, <1>2, <1>3 DEF CapInv, When, Where
<1>9. Solo'
  BY <1>1, <1>2, <1>3 DEF CapInv, Solo, Heads, Chs, Pictures, Previews, CapShape
<1>10. OneBuilt'
  BY <1>1, <1>2, <1>3 DEF CapInv, OneBuilt, Building, Stage, Chs, Pictures, Previews, CapShape
<1>11. Progress'
  BY <1>1, <1>2, <1>3 DEF CapInv, Progress, Stage, Heads, Chs, CapShape, Pictures, Previews
<1>12. Planned'
  BY <1>1, <1>2, <1>3 DEF CapInv, Planned, Stage, Building, Heads, CapShape, Chs, Pictures, Previews
<1>13. Callback'
  BY <1>1, <1>2, <1>3 DEF CapInv, Callback, Chs, CapShape, Pictures, Previews
<1>. QED
  BY <1>4, <1>5, <1>6, <1>7, <1>8, <1>9, <1>10, <1>11, <1>12, <1>13 DEF CapInv

LEMMA StopCaptureKeeps ==
    ASSUME CaptureAssumption, CapInv, StopCapture
    PROVE  CapInv'
<1>1. /\ hwi.pc = "stop"
      /\ cb = "idle"
      /\ DelChannel(Pictures)
      /\ UNCHANGED <<mode, toBuild, toAdd, ongoing, queue, dw, id, left, asleep, cb, pp>>
      /\ DOMAIN hwi' = {"pc", "waits", "then"}
      /\ hwi'.pc = "idle"
      /\ hwi'.waits = <<>>
      /\ hwi'.then = "idle"
  BY DEF StopCapture, Goes, WaitsFor, Channels, Plan, Deferred, Rest
<1>2. /\ Working' = Working
      /\ UnderWay' = UnderWay
      /\ Working = {}
  BY <1>1, NobodyWorks DEF Working, UnderWay
<1>3. /\ chan' \in [Chs -> {"none", "built", "made", "on"}]
      /\ DOMAIN streams' = Chs
      /\ DOMAIN filled' = Chs
      /\ \A c \in Chs : chan'[c] = IF c \in Pictures THEN "none" ELSE chan[c]
      /\ \A c \in Chs : streams'[c] = IF c \in Pictures THEN {} ELSE streams[c]
      /\ \A c \in Chs : filled'[c] \subseteq streams'[c]
      /\ \A c \in Chs : chan'[c] = "none" => streams'[c] = {}
  <2>. DEFINE S == Pictures
  <2>1. S \in SUBSET Chs
    BY DEF Chs, Pictures
  <2>2. DelChannel(S)
    BY <1>1
  <2>. HIDE DEF S
  <2>3. /\ chan' \in [Chs -> {"none", "built", "made", "on"}]
        /\ DOMAIN streams' = Chs
        /\ DOMAIN filled' = Chs
        /\ \A c \in Chs : chan'[c] = IF c \in S THEN "none" ELSE chan[c]
        /\ \A c \in Chs : streams'[c] = IF c \in S THEN {} ELSE streams[c]
        /\ \A c \in Chs : filled'[c] \subseteq streams'[c]
        /\ \A c \in Chs : chan'[c] = "none" => streams'[c] = {}
    BY <2>1, <2>2, Deleted
  <2>. QED
    BY <2>3 DEF S
<1>4. CapShape'
  BY <1>1, <1>2, <1>3 DEF CapInv, CapShape, Chs, Pictures, Previews
<1>5. Thread'
  BY <1>1, <1>2, <1>3 DEF CapInv, Thread, Stages
<1>6. Slots'
  BY <1>1, <1>2, <1>3 DEF CapInv, Slots, CapShape
<1>7. Where'
  BY <1>1, <1>2, <1>3 DEF CapInv, Where, When, Chs, Pictures, Previews
<1>8. When'
  BY <1>1, <1>2, <1>3 DEF CapInv, When, Where
<1>9. Solo'
  <2>. SUFFICES ASSUME NEW c \in Heads, NEW d \in Heads, chan'[c] # "none", chan'[d] # "none", c # d
                PROVE  FALSE
    BY DEF Solo
  <2>1. c \in {"PREVIEW", "ZSL"} /\ d \in {"PREVIEW", "ZSL"} /\ chan[c] # "none" /\ chan[d] # "none"
    BY <1>3 DEF Heads, Chs, Pictures
  <2>2. {c, d} = {"PREVIEW", "CAPTURE"}
    BY <2>1 DEF CapInv, Solo
  <2>. QED
    BY <2>1, <2>2
<1>10. OneBuilt'
  BY <1>1, <1>2, <1>3 DEF CapInv, OneBuilt, Building, Stage, Chs, Pictures, Previews, CapShape
<1>11. Progress'
  BY <1>1, <1>2, <1>3 DEF CapInv, Progress, Stage, Heads, Chs, CapShape, Pictures, Previews
<1>12. Planned'
  BY <1>1, <1>2, <1>3 DEF CapInv, Planned, Stage, Building, Heads, CapShape, Chs, Pictures, Previews
<1>13. Callback'
  BY <1>1, <1>2, <1>3 DEF CapInv, Callback, Chs, CapShape, Pictures, Previews
<1>. QED
  BY <1>4, <1>5, <1>6, <1>7, <1>8, <1>9, <1>10, <1>11, <1>12, <1>13 DEF CapInv

LEMMA StartFailedKeeps ==
    ASSUME CaptureAssumption, CapInv, StartFailed
    PROVE  CapInv'
<1>1. /\ hwi.pc = "startfailed"
      /\ DelChannel(IF Made \in Pictures THEN {Made} ELSE Previews)
      /\ UNCHANGED <<mode, toBuild, toAdd, ongoing, queue, dw, id, left, asleep, cb>>
      /\ pp' \in BOOLEAN
      /\ DOMAIN hwi' = {"pc", "waits", "then"}
      /\ hwi'.pc = "idle"
      /\ hwi'.waits = <<>>
      /\ hwi'.then = "idle"
  BY DEF StartFailed, Goes, WaitsFor, Channels, Plan, Deferred, Rest, CapInv, CapShape
<1>2. /\ Working' = Working
      /\ UnderWay' = UnderWay
      /\ Working = {}
  BY <1>1, NobodyWorks DEF Working, UnderWay
<1>3. /\ Made \in Heads
      /\ chan[Made] = "made"
      /\ \A d \in Heads : d # Made => chan[d] = "none"
      /\ \A d \in Chs : chan[d] # "built"
  BY <1>1, MadeIs DEF Stage
<1>4. /\ \E S \in SUBSET Chs :
        /\ Made \in S
        /\ chan' \in [Chs -> {"none", "built", "made", "on"}]
        /\ DOMAIN streams' = Chs
        /\ DOMAIN filled' = Chs
        /\ \A c \in Chs : chan'[c] = IF c \in S THEN "none" ELSE chan[c]
        /\ \A c \in Chs : streams'[c] = IF c \in S THEN {} ELSE streams[c]
        /\ \A c \in Chs : filled'[c] \subseteq streams'[c]
        /\ \A c \in Chs : chan'[c] = "none" => streams'[c] = {}
  <2>. DEFINE S == IF Made \in Pictures THEN {Made} ELSE Previews
  <2>1. S \in SUBSET Chs /\ Made \in S
    BY <1>3 DEF Chs, Heads, Previews, Pictures
  <2>2. DelChannel(S)
    BY <1>1
  <2>. HIDE DEF S
  <2>. QED
    BY <2>1, <2>2, Deleted
<1>5. CapShape'
  BY <1>1, <1>2, <1>3, <1>4 DEF CapInv, CapShape, Chs, Pictures, Previews
<1>6. Thread'
  BY <1>1, <1>2, <1>3, <1>4 DEF CapInv, Thread, Stages
<1>7. Slots'
  BY <1>1, <1>2, <1>3, <1>4 DEF CapInv, Slots, CapShape
<1>8. Where'
  BY <1>1, <1>2, <1>3, <1>4 DEF CapInv, Where, When, Chs, Pictures, Previews
<1>9. When'
  BY <1>1, <1>2, <1>3, <1>4 DEF CapInv, When, Where
<1>10. Solo'
  BY <1>1, <1>2, <1>3, <1>4 DEF CapInv, Solo, Heads, Chs, Pictures, Previews, CapShape
<1>11. OneBuilt'
  BY <1>1, <1>2, <1>3, <1>4 DEF CapInv, OneBuilt, Building, Stage, Chs, Pictures, Previews, CapShape
<1>12. Progress'
  BY <1>1, <1>2, <1>3, <1>4 DEF CapInv, Progress, Stage, Heads, Chs, CapShape, Pictures, Previews
<1>13. Planned'
  BY <1>1, <1>2, <1>3, <1>4 DEF CapInv, Planned, Stage, Building, Heads, CapShape, Chs, Pictures, Previews
<1>14. Callback'
  <2>1. cb = "idle"
    BY <1>3 DEF CapInv, Callback, Heads
  <2>. QED
    BY <1>1, <2>1 DEF Callback
<1>. QED
  BY <1>5, <1>6, <1>7, <1>8, <1>9, <1>10, <1>11, <1>12, <1>13, <1>14 DEF CapInv

LEMMA StartKeeps ==
    ASSUME CaptureAssumption, CapInv,
           Start, chan' = [chan EXCEPT ![Made] = "on"], Goes("idle")
    PROVE  CapInv'
<1>1. /\ hwi.pc = "start"
      /\ UNCHANGED <<streams, filled, mode, toBuild, toAdd, ongoing, queue, dw, id, left, asleep, cb, pp>>
      /\ DOMAIN hwi' = {"pc", "waits", "then"}
      /\ hwi'.pc = "idle"
      /\ hwi'.waits = <<>>
      /\ hwi'.then = "idle"
  BY DEF Start, Goes, WaitsFor, Channels, Plan, Deferred, Rest
<1>2. /\ Working' = Working
      /\ UnderWay' = UnderWay
  BY <1>1 DEF Working, UnderWay
<1>3. /\ Made \in Heads
      /\ chan[Made] = "made"
      /\ \A d \in Heads : d # Made => chan[d] = "none"
      /\ \A d \in Chs : chan[d] # "built"
  BY <1>1, MadeIs DEF Stage
<1>4. /\ chan' \in [Chs -> {"none", "built", "made", "on"}]
      /\ \A c \in Chs : chan'[c] = IF c = Made THEN "on" ELSE chan[c]
  BY <1>3 DEF CapInv, CapShape, Heads, Chs
<1>5. CapShape'
  BY <1>1, <1>2, <1>3, <1>4 DEF CapInv, CapShape, Chs, Pictures, Previews
<1>6. Thread'
  BY <1>1, <1>2, <1>3, <1>4 DEF CapInv, Thread, Stages
<1>7. Slots'
  BY <1>1, <1>2, <1>3, <1>4 DEF CapInv, Slots, CapShape
<1>8. Where'
  BY <1>1, <1>2, <1>3, <1>4 DEF CapInv, Where, When, Chs, Pictures, Previews
<1>9. When'
  BY <1>1, <1>2, <1>3, <1>4 DEF CapInv, When, Where
<1>10. Solo'
  BY <1>1, <1>2, <1>3, <1>4 DEF CapInv, Solo, Heads, Chs, Pictures, Previews, CapShape
<1>11. OneBuilt'
  BY <1>1, <1>2, <1>3, <1>4 DEF CapInv, OneBuilt, Building, Stage, Chs, Pictures, Previews, CapShape
<1>12. Progress'
  BY <1>1, <1>2, <1>3, <1>4 DEF CapInv, Progress, Stage, Heads, Chs, CapShape, Pictures, Previews
<1>13. Planned'
  BY <1>1, <1>2, <1>3, <1>4 DEF CapInv, Planned, Stage, Building, Heads, CapShape, Chs, Pictures, Previews
<1>14. Callback'
  BY <1>1, <1>2, <1>3, <1>4 DEF CapInv, Callback, Chs, CapShape, Pictures, Previews
<1>. QED
  BY <1>5, <1>6, <1>7, <1>8, <1>9, <1>10, <1>11, <1>12, <1>13, <1>14 DEF CapInv

LEMMA StartFailsKeeps ==
    ASSUME CaptureAssumption, CapInv,
           Start, UNCHANGED chan, IF Made = "CAPTURE" THEN WaitsFor(<<"REPROC">>, "startfailed") ELSE Goes("startfailed")
    PROVE  CapInv'
<1>1. /\ hwi.pc = "start"
      /\ UNCHANGED <<chan, streams, filled, mode, toBuild, toAdd, ongoing, queue, dw, id, left, asleep, cb, pp>>
      /\ DOMAIN hwi' = {"pc", "waits", "then"}
      /\ Made = "CAPTURE" => hwi'.pc = "wait" /\ hwi'.waits = <<"REPROC">> /\ hwi'.then = "startfailed"
      /\ Made # "CAPTURE" => hwi'.pc = "startfailed" /\ hwi'.waits = <<>> /\ hwi'.then = "idle"
  BY DEF Start, Goes, WaitsFor, Channels, Plan, Deferred, Rest
<1>2. /\ Working' = Working
      /\ UnderWay' = UnderWay
  BY <1>1 DEF Working, UnderWay
<1>3. /\ <<"REPROC">> \in Seq(Named \cup Jobs)
      /\ "REPROC" \in ToSet(<<"REPROC">>)
      /\ Stage' = "startfailed"
  BY <1>1 DEF ToSet, Jobs, Named, Stage
<1>4. /\ Made \in Heads
      /\ chan[Made] = "made"
      /\ \A d \in Heads : d # Made => chan[d] = "none"
      /\ \A d \in Chs : chan[d] # "built"
  BY <1>1, MadeIs DEF Stage
<1>5. /\ Made # "CAPTURE" => Working = {}
  BY <1>1, <1>4 DEF CapInv, When, Where, Heads
<1>6. CapShape'
  BY <1>1, <1>2, <1>3, <1>4, <1>5 DEF CapInv, CapShape, Chs, Pictures, Previews
<1>7. Thread'
  <2>1. CASE Made = "CAPTURE"
    BY <1>1, <1>3, <2>1 DEF CapInv, Thread, Stages
  <2>2. CASE Made # "CAPTURE"
    <3>1. hwi'.pc = "startfailed" /\ hwi'.waits = <<>> /\ hwi'.then = "idle" /\ DOMAIN hwi' = {"pc", "waits", "then"}
      BY <1>1, <2>2
    <3>. QED
      BY <3>1 DEF Thread, Stages
  <2>. QED
    BY <2>1, <2>2
<1>8. Slots'
  BY <1>1, <1>2, <1>3, <1>4, <1>5 DEF CapInv, Slots, CapShape
<1>9. Where'
  BY <1>1, <1>2, <1>3, <1>4, <1>5 DEF CapInv, Where, When, Chs, Pictures, Previews
<1>10. When'
  BY <1>1, <1>2, <1>3, <1>5 DEF CapInv, When
<1>11. Solo'
  BY <1>1, <1>2, <1>3, <1>4, <1>5 DEF CapInv, Solo, Heads, Chs, Pictures, Previews, CapShape
<1>12. OneBuilt'
  BY <1>1, <1>3, <1>4 DEF CapInv, OneBuilt, Building
<1>13. Progress'
  BY <1>1, <1>3, <1>4 DEF Progress
<1>14. Planned'
  BY <1>1, <1>3 DEF CapInv, Planned, Building, Stage
<1>15. Callback'
  BY <1>1, <1>2, <1>3, <1>4, <1>5 DEF CapInv, Callback, Chs, CapShape, Pictures, Previews
<1>. QED
  BY <1>6, <1>7, <1>8, <1>9, <1>10, <1>11, <1>12, <1>13, <1>14, <1>15 DEF CapInv

-----------------------------------------------------------------------------
(* A job more.                                                              *)
LEMMA Queued ==
    ASSUME CaptureAssumption, CapInv, NEW job \in Jobs, NEW c \in Chs, QueueDefferedWork(job, c), UNCHANGED <<dw, left>>,
           \A w \in Working : w.job # job
    PROVE  /\ Slots' /\ ongoing' \in [1..MaxJobs -> BOOLEAN] /\ id' \in [Jobs -> 0..MaxJobs]
           /\ queue' \in Seq([job : Jobs, ch : Chs, id : 1..MaxJobs])
           /\ \A w \in Working' : w \in Working \/ (w.job = job /\ w.ch = c)
<1>. DEFINE J == [job : Jobs, ch : Chs, id : 1..MaxJobs]
<1>1. /\ queue \in Seq(J) /\ ongoing \in [1..MaxJobs -> BOOLEAN] /\ id \in [Jobs -> 0..MaxJobs]
      /\ dw = NoJob \/ dw \in J
  BY DEF CapInv, CapShape
<1>2. CASE id' = [id EXCEPT ![job] = 0] /\ UNCHANGED <<ongoing, queue>>
  <2>1. Working' = Working /\ UnderWay' = UnderWay
    BY <1>2 DEF Working, UnderWay
  <2>2. id' \in [Jobs -> 0..MaxJobs] /\ \A j \in Jobs : j # job => id'[j] = id[j]
    BY <1>1, <1>2 DEF CaptureAssumption
  <2>3. \A w \in Working : id'[w.job] = id[w.job]
    BY <2>2, WorkIds
  <2>4. Slots'
    BY <1>2, <2>1, <2>3 DEF CapInv, Slots
  <2>. QED
    BY <1>1, <1>2, <2>1, <2>2, <2>4
<1>3. ASSUME NEW k \in FreeSlots,
             ongoing' = [ongoing EXCEPT ![k] = TRUE],
             queue' = Append(queue, [job |-> job, ch |-> c, id |-> k]),
             id' = [id EXCEPT ![job] = k]
      PROVE  /\ Slots' /\ ongoing' \in [1..MaxJobs -> BOOLEAN] /\ id' \in [Jobs -> 0..MaxJobs]
             /\ queue' \in Seq(J)
             /\ \A w \in Working' : w \in Working \/ (w.job = job /\ w.ch = c)
  <2>. DEFINE n == [job |-> job, ch |-> c, id |-> k]
  <2>1. k \in 1..MaxJobs /\ ~ongoing[k] /\ k \in 0..MaxJobs
    BY DEF FreeSlots, CaptureAssumption
  <2>2. n \in J /\ n.job = job /\ n.ch = c /\ n.id = k
    BY <2>1
  <2>3. queue' = Append(queue, n)
    BY <1>3
  <2>. HIDE DEF n, J
  <2>4. /\ queue' \in Seq(J) /\ Len(queue') = Len(queue) + 1
        /\ \A i \in 1..Len(queue) : queue'[i] = queue[i]
        /\ queue'[Len(queue) + 1] = n
        /\ ToSet(queue') = ToSet(queue) \cup {n}
    BY <1>1, <2>2, <2>3, Appended
  <2>5. UnderWay' = UnderWay \cup {n}
    BY <2>4 DEF UnderWay
  <2>6. \A w \in UnderWay : w.id # k /\ w.id \in 1..MaxJobs /\ w.job \in Jobs /\ ongoing[w.id]
    BY <2>1, UnderWayIds DEF CapInv, Slots
  <2>14. n \notin left /\ left \subseteq UnderWay'
    BY <2>2, <2>5, <2>6 DEF CapInv, Slots
  <2>15. Working' = Working \cup {n} /\ Working \subseteq UnderWay
    BY <2>5, <2>14 DEF Working
  <2>16. \A w \in Working : id[w.job] = w.id
    BY DEF CapInv, Slots
  <2>7. /\ ongoing' \in [1..MaxJobs -> BOOLEAN] /\ id' \in [Jobs -> 0..MaxJobs]
        /\ ongoing'[k] /\ id'[job] = k
        /\ \A l \in 1..MaxJobs : l # k => ongoing'[l] = ongoing[l]
        /\ \A j \in Jobs : j # job => id'[j] = id[j]
    BY <1>1, <1>3, <2>1
  <2>8. /\ \A w \in UnderWay' : ongoing'[w.id]
        /\ \A w \in Working' : id'[w.job] = w.id
    BY <2>2, <2>5, <2>6, <2>7, <2>15, <2>16
  <2>9. /\ DOMAIN queue = 1..Len(queue) /\ DOMAIN queue' = 1..(Len(queue) + 1) /\ Len(queue) \in Nat
        /\ \A i \in 1..(Len(queue) + 1) : i \in 1..Len(queue) \/ i = Len(queue) + 1
    BY <1>1, <2>4
  <2>10. \A i \in DOMAIN queue : queue[i] \in UnderWay
    BY DEF UnderWay, ToSet
  <2>11. \A i, j \in DOMAIN queue' : queue'[i].id = queue'[j].id => i = j
    BY <2>2, <2>4, <2>6, <2>9, <2>10 DEF CapInv, Slots
  <2>12. dw # NoJob => \A i \in DOMAIN queue' : queue'[i].id # dw.id
    <3>1. dw # NoJob => dw \in UnderWay
      BY DEF UnderWay
    <3>. QED
      BY <3>1, <2>2, <2>4, <2>6, <2>9 DEF CapInv, Slots
  <2>13. Slots'
    BY <1>3, <2>8, <2>11, <2>12, <2>14 DEF Slots
  <2>. QED
    BY <2>2, <2>4, <2>7, <2>13, <2>15
<1>. QED
  BY <1>2, <1>3 DEF QueueDefferedWork

LEMMA PostviewKeeps ==
    ASSUME CaptureAssumption, CapInv, Postview
    PROVE  CapInv'
<1>1. /\ hwi.pc = "postview"
      /\ UNCHANGED <<chan, streams, filled, mode, toBuild, toAdd, dw, left, asleep, cb, pp>>
      /\ QueueDefferedWork("POSTVIEW", "CAPTURE")
      /\ DOMAIN hwi' = {"pc", "waits", "then"}
      /\ FreeSlots = {} => hwi'.pc = "idle" /\ hwi'.waits = <<>> /\ hwi'.then = "idle"
      /\ FreeSlots # {} => hwi'.pc = "wait" /\ hwi'.waits = <<"POSTVIEW">> /\ hwi'.then = "reproc"
  BY DEF Postview, Goes, WaitsFor, Channels, Plan, Deferred, Rest
<1>2. /\ Working = {}
  BY <1>1, NobodyWorks
<1>3. /\ <<"POSTVIEW">> \in Seq(Named \cup Jobs)
      /\ "POSTVIEW" \in ToSet(<<"POSTVIEW">>)
      /\ Stage' \in {"idle", "reproc"}
  BY <1>1 DEF ToSet, Jobs, Named, Stage
<1>4. /\ chan["CAPTURE"] = "made"
      /\ "POSTVIEW" \in streams["CAPTURE"]
  BY <1>1 DEF CapInv, Progress, Stage
<1>5. /\ Slots'
      /\ ongoing' \in [1..MaxJobs -> BOOLEAN]
      /\ id' \in [Jobs -> 0..MaxJobs]
      /\ queue' \in Seq([job : Jobs, ch : Chs, id : 1..MaxJobs])
      /\ \A w \in Working' : w.job = "POSTVIEW" /\ w.ch = "CAPTURE"
  <2>1. "POSTVIEW" \in Jobs /\ "CAPTURE" \in Chs
    BY DEF Jobs, Chs
  <2>. QED
    BY <1>1, <1>2, <2>1, Queued
<1>6. /\ FreeSlots = {} => Working' = {}
  BY <1>1, <1>2 DEF QueueDefferedWork, Working, UnderWay
<1>7. CapShape'
  BY <1>1, <1>2, <1>3, <1>4, <1>5, <1>6 DEF CapInv, CapShape, Chs, Pictures, Previews
<1>8. Thread'
  <2>1. CASE FreeSlots = {}
    <3>1. hwi'.pc = "idle" /\ hwi'.waits = <<>> /\ hwi'.then = "idle" /\ DOMAIN hwi' = {"pc", "waits", "then"}
      BY <1>1, <2>1
    <3>. QED
      BY <3>1 DEF Thread, Stages
  <2>2. CASE FreeSlots # {}
    BY <1>1, <1>3, <2>2 DEF CapInv, Thread, Stages
  <2>. QED
    BY <2>1, <2>2
<1>9. Slots'
  BY <1>5
<1>10. Where'
  BY <1>1, <1>4, <1>5 DEF Where
<1>11. When'
  BY <1>1, <1>3, <1>5, <1>6 DEF When
<1>12. Solo'
  BY <1>1, <1>2, <1>3, <1>4, <1>5, <1>6 DEF CapInv, Solo, Heads, Chs, Pictures, Previews, CapShape
<1>13. OneBuilt'
  BY <1>1, <1>3 DEF CapInv, OneBuilt, Building, Stage
<1>14. Progress'
  BY <1>1, <1>3, <1>4 DEF Progress
<1>15. Planned'
  BY <1>1, <1>3 DEF CapInv, Planned, Building, Stage
<1>16. Callback'
  BY <1>1, <1>5 DEF CapInv, Callback
<1>. QED
  BY <1>7, <1>8, <1>9, <1>10, <1>11, <1>12, <1>13, <1>14, <1>15, <1>16 DEF CapInv

LEMMA ReprocKeeps ==
    ASSUME CaptureAssumption, CapInv,
           Reproc, QueueDefferedWork("REPROC", "CAPTURE"), Goes("start"), UNCHANGED Channels
    PROVE  CapInv'
<1>1. /\ hwi.pc = "reproc"
      /\ UNCHANGED <<chan, streams, filled, mode, toBuild, toAdd, dw, left, asleep, cb, pp>>
      /\ DOMAIN hwi' = {"pc", "waits", "then"}
      /\ hwi'.pc = "start"
      /\ hwi'.waits = <<>>
      /\ hwi'.then = "idle"
  BY DEF Reproc, Goes, WaitsFor, Channels, Plan, Deferred, Rest
<1>2. /\ Working = {}
  BY <1>1, NobodyWorks
<1>3. /\ chan["CAPTURE"] = "made"
  BY <1>1 DEF CapInv, Progress, Stage
<1>4. /\ Slots'
      /\ ongoing' \in [1..MaxJobs -> BOOLEAN]
      /\ id' \in [Jobs -> 0..MaxJobs]
      /\ queue' \in Seq([job : Jobs, ch : Chs, id : 1..MaxJobs])
      /\ \A w \in Working' : w.job = "REPROC" /\ w.ch = "CAPTURE"
  <2>1. "REPROC" \in Jobs /\ "CAPTURE" \in Chs
    BY DEF Jobs, Chs
  <2>. QED
    BY <1>1, <1>2, <2>1, Queued
<1>5. /\ cb = "idle"
  BY <1>3 DEF CapInv, Callback
<1>6. CapShape'
  BY <1>1, <1>2, <1>3, <1>4, <1>5 DEF CapInv, CapShape, Chs, Pictures, Previews
<1>7. Thread'
  BY <1>1, <1>2, <1>3, <1>4, <1>5 DEF CapInv, Thread, Stages
<1>8. Slots'
  BY <1>4
<1>9. Where'
  BY <1>1, <1>3, <1>4 DEF Where
<1>10. When'
  BY <1>1, <1>4 DEF When
<1>11. Solo'
  BY <1>1, <1>2, <1>3, <1>4, <1>5 DEF CapInv, Solo, Heads, Chs, Pictures, Previews, CapShape
<1>12. OneBuilt'
  BY <1>1, <1>2, <1>3, <1>4, <1>5 DEF CapInv, OneBuilt, Building, Stage, Chs, Pictures, Previews, CapShape
<1>13. Progress'
  BY <1>1, <1>3 DEF Progress, Stage, Heads
<1>14. Planned'
  BY <1>1, <1>2, <1>3, <1>4, <1>5 DEF CapInv, Planned, Stage, Building, Heads, CapShape, Chs, Pictures, Previews
<1>15. Callback'
  BY <1>1, <1>5 DEF Callback
<1>. QED
  BY <1>6, <1>7, <1>8, <1>9, <1>10, <1>11, <1>12, <1>13, <1>14, <1>15 DEF CapInv

LEMMA ReprocFailsKeeps ==
    ASSUME CaptureAssumption, CapInv,
           Reproc, DelChannel({"CAPTURE"}), Goes("idle"), UNCHANGED <<ongoing, queue, id>>
    PROVE  CapInv'
<1>1. /\ hwi.pc = "reproc"
      /\ UNCHANGED <<mode, toBuild, toAdd, ongoing, queue, dw, id, left, asleep, cb, pp>>
      /\ DOMAIN hwi' = {"pc", "waits", "then"}
      /\ hwi'.pc = "idle"
      /\ hwi'.waits = <<>>
      /\ hwi'.then = "idle"
  BY DEF Reproc, Goes, WaitsFor, Channels, Plan, Deferred, Rest
<1>2. /\ Working' = Working
      /\ UnderWay' = UnderWay
      /\ Working = {}
  BY <1>1, NobodyWorks DEF Working, UnderWay
<1>3. /\ chan' \in [Chs -> {"none", "built", "made", "on"}]
      /\ DOMAIN streams' = Chs
      /\ DOMAIN filled' = Chs
      /\ \A c \in Chs : chan'[c] = IF c \in {"CAPTURE"} THEN "none" ELSE chan[c]
      /\ \A c \in Chs : streams'[c] = IF c \in {"CAPTURE"} THEN {} ELSE streams[c]
      /\ \A c \in Chs : filled'[c] \subseteq streams'[c]
      /\ \A c \in Chs : chan'[c] = "none" => streams'[c] = {}
  <2>. DEFINE S == {"CAPTURE"}
  <2>1. S \in SUBSET Chs
    BY DEF Chs
  <2>2. DelChannel(S)
    BY <1>1
  <2>. HIDE DEF S
  <2>3. /\ chan' \in [Chs -> {"none", "built", "made", "on"}]
        /\ DOMAIN streams' = Chs
        /\ DOMAIN filled' = Chs
        /\ \A c \in Chs : chan'[c] = IF c \in S THEN "none" ELSE chan[c]
        /\ \A c \in Chs : streams'[c] = IF c \in S THEN {} ELSE streams[c]
        /\ \A c \in Chs : filled'[c] \subseteq streams'[c]
        /\ \A c \in Chs : chan'[c] = "none" => streams'[c] = {}
    BY <2>1, <2>2, Deleted
  <2>. QED
    BY <2>3 DEF S
<1>4. /\ chan["CAPTURE"] = "made"
      /\ cb = "idle"
  BY <1>1 DEF CapInv, Progress, Stage, Callback
<1>5. CapShape'
  BY <1>1, <1>2, <1>3, <1>4 DEF CapInv, CapShape, Chs, Pictures, Previews
<1>6. Thread'
  BY <1>1, <1>2, <1>3, <1>4 DEF CapInv, Thread, Stages
<1>7. Slots'
  BY <1>1, <1>2, <1>3, <1>4 DEF CapInv, Slots, CapShape
<1>8. Where'
  BY <1>1, <1>2, <1>3, <1>4 DEF CapInv, Where, When, Chs, Pictures, Previews
<1>9. When'
  BY <1>1, <1>2, <1>3, <1>4 DEF CapInv, When, Where
<1>10. Solo'
  BY <1>1, <1>2, <1>3, <1>4 DEF CapInv, Solo, Heads, Chs, Pictures, Previews, CapShape
<1>11. OneBuilt'
  BY <1>1, <1>2, <1>3, <1>4 DEF CapInv, OneBuilt, Building, Stage, Chs, Pictures, Previews, CapShape
<1>12. Progress'
  BY <1>1, <1>2, <1>3, <1>4 DEF CapInv, Progress, Stage, Heads, Chs, CapShape, Pictures, Previews
<1>13. Planned'
  BY <1>1, <1>2, <1>3, <1>4 DEF CapInv, Planned, Stage, Building, Heads, CapShape, Chs, Pictures, Previews
<1>14. Callback'
  BY <1>1, <1>2, <1>3, <1>4 DEF CapInv, Callback, Chs, CapShape, Pictures, Previews
<1>. QED
  BY <1>5, <1>6, <1>7, <1>8, <1>9, <1>10, <1>11, <1>12, <1>13, <1>14 DEF CapInv

-----------------------------------------------------------------------------
(* The deferred-work thread.                                                *)
LEMMA DwTakesKeeps ==
    ASSUME CaptureAssumption, CapInv, DwTakes
    PROVE  CapInv'
<1>1. /\ dw = NoJob
      /\ queue # <<>>
      /\ dw' = Head(queue)
      /\ queue' = Tail(queue)
      /\ UNCHANGED <<chan, streams, filled, mode, toBuild, toAdd, hwi, ongoing, id, asleep, left, cb, pp>>
  BY DEF DwTakes, Channels, Plan
<1>2. /\ queue \in Seq([job : Jobs, ch : Chs, id : 1..MaxJobs])
  BY DEF CapInv, CapShape
<1>3. /\ queue' \in Seq([job : Jobs, ch : Chs, id : 1..MaxJobs])
      /\ dw' \in [job : Jobs, ch : Chs, id : 1..MaxJobs]
      /\ ToSet(queue) = ToSet(queue') \cup {dw'}
  BY <1>1, <1>2, HeadGone
<1>4. /\ DOMAIN queue' = 1..(Len(queue) - 1)
      /\ DOMAIN queue = 1..Len(queue)
      /\ Len(queue) \in Nat
      /\ Len(queue) > 0
      /\ \A i \in DOMAIN queue' : i + 1 \in DOMAIN queue /\ queue'[i] = queue[i + 1] /\ i + 1 # 1
      /\ \A i, j \in DOMAIN queue' : i + 1 = j + 1 => i = j
      /\ dw' = queue[1]
      /\ 1 \in DOMAIN queue
  BY <1>1, <1>2
<1>5. /\ dw' # NoJob
  BY <1>3 DEF CaptureAssumption
<1>6. /\ Working' = Working
      /\ UnderWay' = UnderWay
  <2>1. UnderWay' = ToSet(queue') \cup {dw'} /\ UnderWay = ToSet(queue)
    BY <1>1, <1>5 DEF UnderWay
  <2>. QED
    BY <1>1, <1>3, <2>1 DEF Working
<1>7. CapShape'
  BY <1>1, <1>3 DEF CapInv, CapShape
<1>8. Thread'
  BY <1>1, <1>2, <1>3, <1>4, <1>5, <1>6 DEF CapInv, Thread, Stages
<1>9. Slots'
  <2>1. \A i, j \in DOMAIN queue' : queue'[i].id = queue'[j].id => i = j
    BY <1>4 DEF CapInv, Slots
  <2>2. \A i \in DOMAIN queue' : queue'[i].id # dw'.id
    BY <1>4 DEF CapInv, Slots
  <2>. QED
    BY <1>1, <1>6, <2>1, <2>2 DEF CapInv, Slots
<1>10. Where'
  BY <1>1, <1>2, <1>3, <1>4, <1>5, <1>6 DEF CapInv, Where, When, Chs, Pictures, Previews
<1>11. When'
  BY <1>1, <1>2, <1>3, <1>4, <1>5, <1>6 DEF CapInv, When, Where
<1>12. Solo'
  BY <1>1, <1>2, <1>3, <1>4, <1>5, <1>6 DEF CapInv, Solo, Heads, Chs, Pictures, Previews, CapShape
<1>13. OneBuilt'
  BY <1>1, <1>2, <1>3, <1>4, <1>5, <1>6 DEF CapInv, OneBuilt, Building, Stage, Chs, Pictures, Previews, CapShape
<1>14. Progress'
  BY <1>1, <1>2, <1>3, <1>4, <1>5, <1>6 DEF CapInv, Progress, Stage, Heads, Chs, CapShape, Pictures, Previews
<1>15. Planned'
  BY <1>1, <1>2, <1>3, <1>4, <1>5, <1>6 DEF CapInv, Planned, Stage, Building, Heads, CapShape, Chs, Pictures, Previews
<1>16. Callback'
  BY <1>1, <1>2, <1>3, <1>4, <1>5, <1>6 DEF CapInv, Callback, Chs, CapShape, Pictures, Previews
<1>. QED
  BY <1>7, <1>8, <1>9, <1>10, <1>11, <1>12, <1>13, <1>14, <1>15, <1>16 DEF CapInv

LEMMA DwDoneKeeps ==
    ASSUME CaptureAssumption, CapInv, DwDone
    PROVE  CapInv'
<1>1. /\ dw # NoJob
      /\ dw' = NoJob
      /\ ongoing' = [ongoing EXCEPT ![dw.id] = FALSE]
      /\ asleep' \subseteq asleep
      /\ UNCHANGED <<chan, streams, mode, toBuild, toAdd, hwi, queue, id, cb>>
      /\ left' = left \ {dw}
      /\ \/ filled' = filled /\ pp' = TRUE
         \/ filled' = [filled EXCEPT ![dw.ch] = @ \cup {dw.job}] /\ dw.job # "REPROC" /\ pp' = pp /\ dw \notin left
         \/ filled' = filled /\ pp' = pp
  <2>1. asleep' \subseteq asleep
    BY DEF DwDone, Wakes
  <2>. QED
    BY <2>1 DEF DwDone, AllocateBuffers, Plan
<1>2. /\ dw \in UnderWay
      /\ dw \in [job : Jobs, ch : Chs, id : 1..MaxJobs]
  BY <1>1 DEF UnderWay, CapInv, CapShape
<1>3. /\ Working' \subseteq Working
      /\ UnderWay' \subseteq UnderWay
      /\ UnderWay' = ToSet(queue)
      /\ UnderWay = UnderWay' \cup {dw}
      /\ dw \notin UnderWay'
  <2>1. UnderWay' = ToSet(queue) /\ UnderWay = ToSet(queue) \cup {dw}
    BY <1>1 DEF UnderWay
  <2>2. dw \notin ToSet(queue)
    BY <1>1 DEF CapInv, Slots, ToSet
  <2>. QED
    BY <1>1, <2>1, <2>2 DEF Working
<1>4. /\ DOMAIN filled' = Chs
      /\ \A c \in Chs : filled'[c] \subseteq filled[c] \cup (IF dw.job # "REPROC" /\ dw \notin left /\ c = dw.ch THEN {dw.job} ELSE {})
  BY <1>1, <1>2 DEF CapInv, CapShape
<1>5. /\ dw.job # "REPROC" /\ dw \notin left => dw.job \in streams[dw.ch]
  BY <1>2 DEF CapInv, Where, Working
<1>6. /\ \A c \in Chs : filled'[c] \subseteq streams[c]
  BY <1>4, <1>5 DEF CapInv, CapShape
<1>7. CapShape'
  BY <1>1, <1>4, <1>6 DEF CapInv, CapShape
<1>8. Thread'
  BY <1>1, <1>2, <1>3, <1>4, <1>5, <1>6 DEF CapInv, Thread, Stages
<1>9. Slots'
  <2>1. \A w \in UnderWay' : w.id # dw.id
    BY <1>1, <1>3 DEF CapInv, Slots, ToSet
  <2>2. \A w \in UnderWay' : w.id \in 1..MaxJobs
    BY <1>3, UnderWayIds
  <2>3. \A w \in UnderWay' : ongoing'[w.id] = ongoing[w.id]
    BY <1>1, <2>1, <2>2 DEF CapInv, CapShape
  <2>4. left' \subseteq UnderWay'
    BY <1>1, <1>3 DEF CapInv, Slots
  <2>. QED
    BY <1>1, <1>3, <2>3, <2>4 DEF CapInv, Slots
<1>10. Where'
  BY <1>1, <1>2, <1>3, <1>4, <1>5, <1>6 DEF CapInv, Where, When, Chs, Pictures, Previews
<1>11. When'
  BY <1>1, <1>2, <1>3, <1>4, <1>5, <1>6 DEF CapInv, When, Where
<1>12. Solo'
  BY <1>1, <1>2, <1>3, <1>4, <1>5, <1>6 DEF CapInv, Solo, Heads, Chs, Pictures, Previews, CapShape
<1>13. OneBuilt'
  BY <1>1, <1>2, <1>3, <1>4, <1>5, <1>6 DEF CapInv, OneBuilt, Building, Stage, Chs, Pictures, Previews, CapShape
<1>14. Progress'
  BY <1>1, <1>2, <1>3, <1>4, <1>5, <1>6 DEF CapInv, Progress, Stage, Heads, Chs, CapShape, Pictures, Previews
<1>15. Planned'
  BY <1>1, <1>2, <1>3, <1>4, <1>5, <1>6 DEF CapInv, Planned, Stage, Building, Heads, CapShape, Chs, Pictures, Previews
<1>16. Callback'
  BY <1>1, <1>2, <1>3, <1>4, <1>5, <1>6 DEF CapInv, Callback, Chs, CapShape, Pictures, Previews
<1>. QED
  BY <1>7, <1>8, <1>9, <1>10, <1>11, <1>12, <1>13, <1>14, <1>15, <1>16 DEF CapInv

-----------------------------------------------------------------------------
(* A channel has its streams.                                               *)
LEMMA AddedCaptureKeeps ==
    ASSUME CaptureAssumption, CapInv, Added, Built = "CAPTURE"
    PROVE  CapInv'
<1>1. /\ hwi.pc = "add"
      /\ toAdd = <<>>
      /\ chan' = [chan EXCEPT !["PREVIEW"] = "none", !["CAPTURE"] = "made"]
      /\ streams' = [streams EXCEPT !["PREVIEW"] = {}]
      /\ filled' = [filled EXCEPT !["PREVIEW"] = {}]
      /\ UNCHANGED <<mode, toBuild, toAdd, ongoing, queue, dw, id, left, asleep, cb, pp>>
      /\ DOMAIN hwi' = {"pc", "waits", "then"}
      /\ hwi'.pc = "wait"
      /\ hwi'.waits = <<"SNAPSHOT", "METADATA", "RAW">>
      /\ hwi'.then = "postview"
  BY DEF Added, Goes, WaitsFor, Plan, Deferred, Rest
<1>2. /\ Working' = Working
      /\ UnderWay' = UnderWay
  BY <1>1 DEF Working, UnderWay
<1>3. /\ <<"SNAPSHOT", "METADATA", "RAW">> \in Seq(Named \cup Jobs)
      /\ ToSet(<<"SNAPSHOT", "METADATA", "RAW">>) = Early
  BY DEF ToSet, Jobs, Named, Early
<1>4. /\ chan["CAPTURE"] = "built"
      /\ \A d \in Chs : chan[d] = "built" <=> d = "CAPTURE"
  BY <1>1, BuiltIs DEF Building, Stage
<1>5. /\ chan' \in [Chs -> {"none", "built", "made", "on"}]
      /\ DOMAIN streams' = Chs
      /\ DOMAIN filled' = Chs
      /\ \A d \in Chs : chan'[d] = IF d = "CAPTURE" THEN "made" ELSE IF d = "PREVIEW" THEN "none" ELSE chan[d]
      /\ \A d \in Chs : streams'[d] = IF d = "PREVIEW" THEN {} ELSE streams[d]
      /\ \A d \in Chs : filled'[d] = IF d = "PREVIEW" THEN {} ELSE filled[d]
  BY <1>1 DEF CapInv, CapShape, Chs
<1>6. /\ \A w \in Working : w.job \in Early /\ w.ch = "CAPTURE" /\ w.job \in streams["CAPTURE"] /\ w.job # "REPROC"
  BY <1>1, <1>4, WorkIds DEF CapInv, When, Where, Early
<1>7. /\ toBuild = <<>>
      /\ "POSTVIEW" \in streams["CAPTURE"]
  BY <1>1, <1>4, NoneWork DEF CapInv, Planned, Stage, Chs
<1>8. /\ Stage' = "postview"
      /\ ~Building'
  BY <1>1 DEF Stage, Building
<1>9. CapShape'
  <2>1. \A d \in Chs : filled'[d] \subseteq streams'[d] /\ (chan'[d] = "none" => streams'[d] = {})
    BY <1>4, <1>5 DEF CapInv, CapShape
  <2>. QED
    BY <1>1, <1>5, <2>1 DEF CapInv, CapShape
<1>10. Thread'
  BY <1>1, <1>2, <1>3, <1>4, <1>5, <1>6, <1>7, <1>8 DEF CapInv, Thread, Stages
<1>11. Slots'
  BY <1>1, <1>2, <1>3, <1>4, <1>5, <1>6, <1>7, <1>8 DEF CapInv, Slots, CapShape
<1>12. Where'
  BY <1>2, <1>5, <1>6 DEF Where, Chs
<1>13. When'
  BY <1>1, <1>2, <1>3, <1>6 DEF When
<1>14. Solo'
  BY <1>4, <1>5 DEF CapInv, Solo, Heads, Chs
<1>15. OneBuilt'
  BY <1>4, <1>5, <1>8 DEF OneBuilt
<1>16. Progress'
  BY <1>5, <1>7, <1>8 DEF Progress, Chs
<1>17. Planned'
  BY <1>1, <1>7, <1>8, Plans DEF Planned
<1>18. Callback'
  BY <1>1, <1>2, <1>4 DEF CapInv, Callback
<1>. QED
  BY <1>9, <1>10, <1>11, <1>12, <1>13, <1>14, <1>15, <1>16, <1>17, <1>18 DEF CapInv

LEMMA AddedNextKeeps ==
    ASSUME CaptureAssumption, CapInv, Added, Built # "CAPTURE", toBuild # <<>>
    PROVE  CapInv'
<1>1. /\ hwi.pc = "add"
      /\ toAdd = <<>>
      /\ chan' = [chan EXCEPT ![Built] = "made", ![Head(toBuild)] = "built"]
      /\ toAdd' = Wanted(Head(toBuild))
      /\ toBuild' = Tail(toBuild)
      /\ UNCHANGED <<streams, filled, mode, hwi, ongoing, queue, dw, id, left, asleep, cb, pp>>
  BY DEF Added, Goes, WaitsFor, Plan, Deferred, Rest
<1>2. /\ Working' = Working
      /\ UnderWay' = UnderWay
  BY <1>1 DEF Working, UnderWay
<1>3. /\ mode = "video"
      /\ Working = {}
  BY <1>1 DEF CapInv, Planned, When
<1>4. /\ Built \in Chs
      /\ \A d \in Chs : chan[d] = "built" <=> d = Built
  BY <1>1, BuiltIs DEF Building, Stage
<1>5. /\ \A d \in Heads : chan[d] = "none"
      /\ \E c \in {"VIDEO", "PREVIEW"} :
           /\ Head(toBuild) = c
           /\ c = "VIDEO" => Built = "SNAPSHOT" /\ toBuild' = <<"PREVIEW">>
           /\ c = "PREVIEW" => Built = "VIDEO" /\ toBuild' = <<>>
  <2>1. \A d \in Heads : chan[d] = "none"
    BY DEF CapInv, Planned
  <2>2. CASE toBuild = <<"PREVIEW">>
    <3>1. Head(toBuild) = "PREVIEW" /\ toBuild' = <<>>
      BY <1>1, <2>2
    <3>2. Built = "VIDEO"
      BY <1>1, <1>4, <2>2 DEF CapInv, Planned, Stage, Chs
    <3>. QED
      BY <2>1, <3>1, <3>2
  <2>3. CASE toBuild = <<"VIDEO", "PREVIEW">>
    <3>1. Head(toBuild) = "VIDEO" /\ toBuild' = <<"PREVIEW">>
      BY <1>1, <2>3
    <3>2. Built = "SNAPSHOT"
      BY <1>1, <1>4, <2>3 DEF CapInv, Planned, Stage, Chs
    <3>. QED
      BY <2>1, <3>1, <3>2
  <2>. QED
    BY <2>2, <2>3 DEF CapInv, Planned
<1>6. /\ Head(toBuild) \in {"VIDEO", "PREVIEW"}
      /\ toAdd' \in Seq(Named)
      /\ IsInjective(toAdd')
      /\ Head(toBuild) = "PREVIEW" => ToSet(toAdd') \subseteq {"METADATA", "PREVIEW"}
      /\ chan' \in [Chs -> {"none", "built", "made", "on"}]
      /\ \A d \in Chs : chan'[d] = IF d = Head(toBuild) THEN "built" ELSE IF d = Built THEN "made" ELSE chan[d]
  <2>1. Head(toBuild) \in Chs
    BY <1>5 DEF Chs
  <2>. QED
    BY <1>1, <1>4, <1>5, <2>1, WantedIs DEF CapInv, CapShape
<1>7. CapShape'
  <2>1. \A d \in Chs : chan'[d] = "none" => streams'[d] = {}
    BY <1>1, <1>6 DEF CapInv, CapShape
  <2>. QED
    BY <1>1, <1>6, <2>1 DEF CapInv, CapShape
<1>8. Thread'
  BY <1>1, <1>2, <1>3, <1>4, <1>5, <1>6 DEF CapInv, Thread, Stages
<1>9. Slots'
  BY <1>1, <1>2, <1>3, <1>4, <1>5, <1>6 DEF CapInv, Slots, CapShape
<1>10. Where'
  BY <1>1, <1>2, <1>3, <1>4, <1>5, <1>6 DEF CapInv, Where, When, Chs, Pictures, Previews
<1>11. When'
  BY <1>1, <1>2, <1>3, <1>4, <1>5, <1>6 DEF CapInv, When, Where
<1>12. Solo'
  BY <1>5, <1>6 DEF Solo, Heads, Chs
<1>13. OneBuilt'
  BY <1>1, <1>4, <1>6 DEF OneBuilt, Building, Stage, Chs
<1>14. Progress'
  BY <1>1 DEF Progress, Stage
<1>15. Planned'
  <2>1. toBuild' \in {<<>>, <<"PREVIEW">>} /\ (toBuild' = <<"PREVIEW">> <=> Head(toBuild) = "VIDEO")
    BY <1>5, Plans
  <2>2. \A d \in Chs : chan'[d] = "built" <=> d = Head(toBuild)
    BY <1>4, <1>6
  <2>3. toBuild' # <<>> => \A d \in Heads : chan'[d] = "none"
    BY <2>1, <1>5, <1>6, Plans DEF Heads, Chs
  <2>. QED
    BY <1>1, <1>3, <1>6, <2>1, <2>2, <2>3, Plans DEF Planned, Stage, Building, Chs
<1>16. Callback'
  BY <1>1, <1>2, <1>3, <1>5 DEF CapInv, Callback, Heads
<1>. QED
  BY <1>7, <1>8, <1>9, <1>10, <1>11, <1>12, <1>13, <1>14, <1>15, <1>16 DEF CapInv

LEMMA AddedLastKeeps ==
    ASSUME CaptureAssumption, CapInv, Added, Built # "CAPTURE", toBuild = <<>>
    PROVE  CapInv'
<1>1. /\ hwi.pc = "add"
      /\ toAdd = <<>>
      /\ chan' = [chan EXCEPT ![Built] = "made"]
      /\ UNCHANGED <<streams, filled, mode, toBuild, toAdd, ongoing, queue, dw, id, left, asleep, cb, pp>>
      /\ IF Built = "RAW" THEN Goes("ppstart")
         ELSE IF mode = "photo" THEN WaitsFor(<<"METADATA">>, "start") ELSE Goes("start")
  BY DEF Added, Plan, Deferred, Rest
<1>2. /\ Working' = Working
      /\ UnderWay' = UnderWay
  BY <1>1 DEF Working, UnderWay
<1>3. /\ Built \in Chs
      /\ \A d \in Chs : chan[d] = "built" <=> d = Built
  BY <1>1, BuiltIs DEF Building, Stage
<1>4. /\ Built \in {"PREVIEW", "ZSL", "RAW"}
  BY <1>1, <1>3, Plans DEF CapInv, Planned, Stage, Chs
<1>5. /\ \A w \in Working : w.job = "METADATA" /\ mode = "photo" /\ Built # "RAW"
  BY <1>1, <1>3, WorkIds DEF CapInv, When
<1>6. /\ chan' \in [Chs -> {"none", "built", "made", "on"}]
      /\ \A d \in Chs : chan'[d] = IF d = Built THEN "made" ELSE chan[d]
  BY <1>1, <1>3 DEF CapInv, CapShape
<1>7. /\ DOMAIN hwi' = {"pc", "waits", "then"}
      /\ hwi'.pc \in {"ppstart", "start", "wait"}
      /\ hwi'.pc = "wait" => hwi'.waits = <<"METADATA">>
      /\ hwi'.waits \in {<<>>, <<"METADATA">>}
      /\ hwi'.then \in {"idle", "start"}
      /\ Stage' = IF Built = "RAW" THEN "ppstart" ELSE "start"
      /\ mode = "photo" /\ Built # "RAW" => hwi'.pc = "wait"
  BY <1>1 DEF Goes, WaitsFor, Stage
<1>8. /\ <<"METADATA">> \in Seq(Named \cup Jobs)
      /\ <<>> \in Seq(Named \cup Jobs)
      /\ "METADATA" \in ToSet(<<"METADATA">>)
  BY DEF Named, Jobs, ToSet
<1>9. /\ ~Building'
  BY <1>7 DEF Building
<1>10. CapShape'
  <2>1. \A d \in Chs : chan'[d] = "none" => streams'[d] = {}
    BY <1>1, <1>6 DEF CapInv, CapShape
  <2>. QED
    BY <1>1, <1>6, <2>1 DEF CapInv, CapShape
<1>11. Thread'
  BY <1>7, <1>8 DEF Thread, Stages
<1>12. Slots'
  BY <1>1, <1>2, <1>3, <1>4, <1>5, <1>6, <1>7, <1>8, <1>9 DEF CapInv, Slots, CapShape
<1>13. Where'
  BY <1>1, <1>2, <1>5, <1>6, WorkIds DEF CapInv, Where
<1>14. When'
  BY <1>2, <1>5, <1>7, <1>8 DEF When
<1>15. Solo'
  BY <1>3, <1>4, <1>6 DEF CapInv, Solo, Heads, Chs
<1>16. OneBuilt'
  BY <1>3, <1>6, <1>9 DEF OneBuilt
<1>17. Progress'
  BY <1>4, <1>6, <1>7 DEF Progress, Heads, Chs
<1>18. Planned'
  BY <1>1, <1>7, Plans DEF Planned
<1>19. Callback'
  BY <1>1, <1>2, <1>3, <1>6 DEF CapInv, Callback, Chs
<1>. QED
  BY <1>10, <1>11, <1>12, <1>13, <1>14, <1>15, <1>16, <1>17, <1>18, <1>19 DEF CapInv

-----------------------------------------------------------------------------
(* A stream more.                                                           *)
LEMMA AddStreamKeeps ==
    ASSUME CaptureAssumption, CapInv, AddStream
    PROVE  CapInv'
<1>1. /\ hwi.pc = "add"
      /\ toAdd # <<>>
      /\ streams' = [streams EXCEPT ![Built] = @ \cup {Head(toAdd)}]
      /\ toAdd' = Tail(toAdd)
      /\ UNCHANGED <<chan, mode, toBuild, filled, dw, left, asleep, cb, pp>>
      /\ IF NeedsJob(Head(toAdd)) THEN QueueDefferedWork(Head(toAdd), Built) ELSE UNCHANGED <<ongoing, queue, id>>
      /\ Built = "RAW" => hwi' = [pc |-> "wait", waits |-> <<Head(toAdd)>>, then |-> "add"]
      /\ Built # "RAW" => hwi' = hwi
  BY DEF AddStream, WaitsFor, Rest
<1>2. /\ Head(toAdd) \in Named
      /\ toAdd' \in Seq(Named)
      /\ IsInjective(toAdd')
      /\ Head(toAdd) \notin ToSet(toAdd')
      /\ ToSet(toAdd) = ToSet(toAdd') \cup {Head(toAdd)}
  <2>1. toAdd \in Seq(Named) /\ IsInjective(toAdd)
    BY DEF CapInv, CapShape
  <2>. QED
    BY <1>1, <2>1, HeadGone
<1>3. /\ Built \in Chs
      /\ \A d \in Chs : chan[d] = "built" <=> d = Built
  BY <1>1, BuiltIs DEF Building, Stage
<1>4. /\ NeedsJob(Head(toAdd)) => Head(toAdd) \in Early /\ Head(toAdd) \in Jobs /\ mode = "photo"
  BY DEF NeedsJob, Deffered, Early, Jobs
<1>5. /\ mode = "photo" => Built \in {"PREVIEW", "CAPTURE", "RAW"}
      /\ NeedsJob(Head(toAdd)) /\ Built = "PREVIEW" => Head(toAdd) = "METADATA"
  <2>1. mode = "photo" => toBuild = <<>>
    BY DEF CapInv, Planned
  <2>2. mode = "photo" => Built \notin {"VIDEO", "SNAPSHOT", "ZSL"}
    BY <1>1, <1>3, <2>1, Plans DEF CapInv, Planned, Stage, Chs
  <2>3. mode = "photo" /\ Built = "PREVIEW" => Head(toAdd) \in {"METADATA", "PREVIEW"}
    BY <1>1, <1>2, <1>3 DEF CapInv, Planned, Stage
  <2>. QED
    BY <1>3, <1>4, <2>2, <2>3 DEF Chs, Early
<1>6. /\ \A w \in Working : /\ w.job \in Early /\ w.job \notin ToSet(toAdd) /\ w.job # Head(toAdd) /\ mode = "photo"
                   /\ w.ch = Built /\ Built \in {"PREVIEW", "CAPTURE"} /\ (Built = "PREVIEW" => w.job = "METADATA")
                   /\ w.job \in streams[Built]
  <2>. SUFFICES ASSUME NEW w \in Working
                PROVE  /\ w.job \in Early /\ w.job \notin ToSet(toAdd) /\ w.job # Head(toAdd) /\ mode = "photo"
                       /\ w.ch = Built /\ Built \in {"PREVIEW", "CAPTURE"} /\ (Built = "PREVIEW" => w.job = "METADATA")
                       /\ w.job \in streams[Built]
    OBVIOUS
  <2>1. /\ w.job \in Early /\ w.job \notin ToSet(toAdd) /\ mode = "photo" /\ chan[w.ch] = "built"
        /\ w.ch \in {"PREVIEW", "CAPTURE"} /\ (w.ch = "PREVIEW" => w.job = "METADATA")
    BY <1>1 DEF CapInv, When
  <2>2. w.ch = Built
    BY <1>3, <2>1, WorkIds
  <2>3. w.job \in streams[w.ch]
    BY <2>1 DEF CapInv, Where, Early
  <2>. QED
    BY <1>2, <2>1, <2>2, <2>3
<1>7. /\ Slots'
      /\ ongoing' \in [1..MaxJobs -> BOOLEAN]
      /\ id' \in [Jobs -> 0..MaxJobs]
      /\ queue' \in Seq([job : Jobs, ch : Chs, id : 1..MaxJobs])
      /\ \A w \in Working' : w \in Working \/ (NeedsJob(Head(toAdd)) /\ w.job = Head(toAdd) /\ w.ch = Built)
  <2>1. CASE NeedsJob(Head(toAdd))
    <3>1. QueueDefferedWork(Head(toAdd), Built) /\ Head(toAdd) \in Jobs /\ UNCHANGED <<dw, left>>
      BY <1>1, <1>4, <2>1
    <3>2. \A w \in Working : w.job # Head(toAdd)
      BY <1>6
    <3>. QED
      BY <1>3, <2>1, <3>1, <3>2, Queued
  <2>2. CASE ~NeedsJob(Head(toAdd))
    <3>1. UNCHANGED <<ongoing, queue, id, dw, left>>
      BY <1>1, <2>2
    <3>2. Working' = Working /\ UnderWay' = UnderWay
      BY <3>1 DEF Working, UnderWay
    <3>. QED
      BY <3>1, <3>2 DEF CapInv, CapShape, Slots
  <2>. QED
    BY <2>1, <2>2
<1>8. /\ DOMAIN streams' = Chs
      /\ \A d \in Chs : streams'[d] = IF d = Built THEN streams[d] \cup {Head(toAdd)} ELSE streams[d]
  BY <1>1, <1>3 DEF CapInv, CapShape
<1>9. /\ DOMAIN hwi' = {"pc", "waits", "then"}
      /\ Built = "RAW" => hwi'.pc = "wait" /\ hwi'.waits = <<Head(toAdd)>> /\ hwi'.then = "add"
      /\ Built # "RAW" => hwi'.pc = "add" /\ hwi'.waits = hwi.waits /\ hwi'.then = hwi.then
      /\ Stage' = "add"
      /\ Stage = "add"
  BY <1>1 DEF Stage, CapInv, Thread
<1>10. /\ <<Head(toAdd)>> \in Seq(Named \cup Jobs)
      /\ ToSet(<<Head(toAdd)>>) = {Head(toAdd)}
  BY <1>2 DEF ToSet
<1>11. /\ \A w \in Working' : /\ w.job \in Early /\ w.job \notin ToSet(toAdd') /\ mode = "photo" /\ w.ch = Built
                    /\ w.job \in streams'[Built] /\ (Built = "PREVIEW" => w.job = "METADATA")
                    /\ (Built = "RAW" => w.job = Head(toAdd))
  <2>. SUFFICES ASSUME NEW w \in Working'
                PROVE  /\ w.job \in Early /\ w.job \notin ToSet(toAdd') /\ mode = "photo" /\ w.ch = Built
                       /\ w.job \in streams'[Built] /\ (Built = "PREVIEW" => w.job = "METADATA")
                       /\ (Built = "RAW" => w.job = Head(toAdd))
    OBVIOUS
  <2>1. CASE w \in Working
    BY <1>2, <1>3, <1>6, <1>8, <2>1
  <2>2. CASE NeedsJob(Head(toAdd)) /\ w.job = Head(toAdd) /\ w.ch = Built
    BY <1>2, <1>3, <1>4, <1>5, <1>8, <2>2
  <2>. QED
    BY <1>7, <2>1, <2>2
<1>12. CapShape'
  <2>1. \A d \in Chs : filled'[d] \subseteq streams'[d]
    BY <1>1, <1>8 DEF CapInv, CapShape
  <2>2. \A d \in Chs : chan'[d] = "none" => streams'[d] = {}
    BY <1>1, <1>3, <1>8 DEF CapInv, CapShape
  <2>. QED
    BY <1>1, <1>2, <1>7, <1>8, <2>1, <2>2 DEF CapInv, CapShape
<1>13. Thread'
  <2>1. CASE Built = "RAW"
    BY <1>9, <1>10, <2>1 DEF Thread, Stages
  <2>2. CASE Built # "RAW"
    BY <1>9, <2>2 DEF CapInv, Thread, Stages
  <2>. QED
    BY <2>1, <2>2
<1>14. Slots'
  BY <1>7
<1>15. Where'
  <2>1. chan' = chan /\ chan[Built] = "built" /\ "REPROC" \notin Early
    BY <1>1, <1>3 DEF Early
  <2>2. ASSUME NEW w \in Working'
        PROVE  /\ chan'[w.ch] # "none"
               /\ w.job # "REPROC"
               /\ w.job \in streams'[w.ch]
    BY <1>11, <2>1, <2>2
  <2>. QED
    BY <2>2 DEF Where
<1>16. When'
  <2>1. CASE Built = "RAW"
    <3>1. hwi'.pc = "wait" /\ ToSet(hwi'.waits) = {Head(toAdd)} /\ \A w \in Working' : w.job = Head(toAdd)
      BY <1>9, <1>10, <1>11, <2>1
    <3>. QED
      BY <3>1 DEF When
  <2>2. CASE Built # "RAW"
    <3>1. hwi'.pc = "add" /\ (mode = "photo" => Built \in {"PREVIEW", "CAPTURE"})
      BY <1>5, <1>9, <2>2
    <3>2. chan' = chan /\ chan[Built] = "built" /\ mode' = mode
      BY <1>1, <1>3
    <3>3. ASSUME NEW w \in Working'
          PROVE  /\ w.job \in Early /\ w.job \notin ToSet(toAdd') /\ mode' = "photo"
                 /\ chan'[w.ch] = "built" /\ w.ch \in {"PREVIEW", "CAPTURE"}
                 /\ w.ch = "PREVIEW" => w.job = "METADATA"
      BY <1>11, <3>1, <3>2, <3>3
    <3>. QED
      BY <3>1, <3>3 DEF When
  <2>. QED
    BY <2>1, <2>2
<1>17. Solo'
  BY <1>1 DEF CapInv, Solo
<1>18. OneBuilt'
  BY <1>1, <1>9 DEF CapInv, OneBuilt, Building
<1>19. Progress'
  BY <1>9 DEF Progress
<1>20. Planned'
  <2>1. chan["CAPTURE"] = "built" => Built = "CAPTURE"
    BY <1>3 DEF Chs
  <2>2. ToSet(toAdd') \subseteq ToSet(toAdd)
    BY <1>2
  <2>3. chan["CAPTURE"] = "built" => "POSTVIEW" \in streams'["CAPTURE"] \cup ToSet(toAdd')
    BY <1>2, <1>3, <1>8, <1>9, <2>1 DEF CapInv, Planned
  <2>. QED
    BY <1>1, <1>9, <2>2, <2>3 DEF CapInv, Planned, Building
<1>21. Callback'
  <2>1. \A w \in Working' : w.job # "REPROC"
    BY <1>11 DEF Early
  <2>. QED
    BY <1>1, <2>1 DEF CapInv, Callback
<1>. QED
  BY <1>12, <1>13, <1>14, <1>15, <1>16, <1>17, <1>18, <1>19, <1>20, <1>21 DEF CapInv

-----------------------------------------------------------------------------
(* All steps.                                                               *)
LEMMA CapStarts == ASSUME CaptureAssumption, capInit PROVE CapInv
<1>1. Working = {} /\ UnderWay = {} /\ left = {}
  BY NoneWork DEF capInit, Working, UnderWay
<1>2. <<>> \in Seq(Named) /\ IsInjective(<<>>) /\ <<>> \in Seq(Named \cup Jobs)
      /\ <<>> \in Seq([job : Jobs, ch : Chs, id : 1..MaxJobs]) /\ DOMAIN <<>> = {}
  BY DEF IsInjective
<1>3. CapShape
  <2>1. chan \in [Chs -> {"none", "built", "made", "on"}] /\ mode \in Modes
    BY DEF capInit
  <2>2. DOMAIN streams = Chs /\ DOMAIN filled = Chs /\ \A c \in Chs : streams[c] = {} /\ filled[c] = {}
    BY DEF capInit
  <2>3. toAdd \in Seq(Named) /\ IsInjective(toAdd) /\ queue \in Seq([job : Jobs, ch : Chs, id : 1..MaxJobs])
    BY <1>2 DEF capInit
  <2>4. ongoing \in [1..MaxJobs -> BOOLEAN]
    BY DEF capInit
  <2>5. id \in [Jobs -> 0..MaxJobs]
    BY DEF capInit, CaptureAssumption
  <2>6. dw = NoJob /\ asleep \subseteq {"sm", "cb"} /\ cb \in {"idle", "waits", "passes"} /\ pp \in BOOLEAN
    BY DEF capInit
  <2>. QED
    BY <2>1, <2>2, <2>3, <2>4, <2>5, <2>6 DEF CapShape
<1>4. Thread /\ Stage = "idle"
  BY <1>2 DEF capInit, Thread, Stages, Stage
<1>5. Slots
  BY <1>1, <1>2 DEF capInit, Slots
<1>6. Where /\ When
  BY <1>1 DEF Where, When
<1>7. \A c \in Chs : chan[c] = "none"
  BY DEF capInit
<1>8. Solo
  BY <1>7 DEF Solo, Heads, Chs
<1>9. OneBuilt
  BY <1>4, <1>7 DEF OneBuilt, Building
<1>10. Progress
  BY <1>4 DEF Progress
<1>11. Planned
  BY <1>4 DEF capInit, Planned
<1>12. Callback
  BY DEF capInit, Callback
<1>. QED
  BY <1>3, <1>4, <1>5, <1>6, <1>8, <1>9, <1>10, <1>11, <1>12 DEF CapInv

LEMMA CapRests == ASSUME CapInv, UNCHANGED capVars PROVE CapInv'
<1>1. UNCHANGED <<chan, mode, toBuild, toAdd, streams, filled, hwi, ongoing, queue, dw, id, left, asleep, cb, pp>>
  BY DEF capVars
<1>2. Working' = Working /\ UnderWay' = UnderWay /\ Stage' = Stage /\ (Building' <=> Building)
  BY <1>1 DEF Working, UnderWay, Stage, Building
<1>3. CapShape' /\ Thread' /\ Slots'
  BY <1>1, <1>2 DEF CapInv, CapShape, Thread, Slots
<1>4. Where' /\ When' /\ Solo' /\ Callback'
  BY <1>1, <1>2 DEF CapInv, Where, When, Solo, Callback
<1>5. OneBuilt' /\ Progress'
  BY <1>1, <1>2 DEF CapInv, OneBuilt, Progress
<1>6. Planned'
  BY <1>1, <1>2 DEF CapInv, Planned
<1>. QED
  BY <1>3, <1>4, <1>5, <1>6 DEF CapInv

LEMMA CapStays == ASSUME CaptureAssumption, CapInv, [capNext]_capVars PROVE CapInv'
<1>1. CASE UNCHANGED capVars
  BY <1>1, CapRests
<1>2. CASE PreparePreview \/ (\E c \in Pictures : TakePicture(c)) \/ StopPreview \/ CancelPicture
  BY <1>2, PreparePreviewKeeps, TakePictureKeeps, StopPreviewKeeps, CancelPictureKeeps
<1>3. CASE SmWaits
  BY <1>3, WaitedKeeps, SleepsKeeps, NextJobKeeps
<1>4. CASE AddStream \/ AddStreamFails \/ NoStreamInfo \/ AddFailed
  BY <1>4, AddStreamKeeps, AddStreamFailsKeeps, NoStreamInfoKeeps, AddFailedKeeps
<1>5. CASE Added
  BY <1>5, AddedCaptureKeeps, AddedNextKeeps, AddedLastKeeps
<1>6. CASE Postview \/ StartFailed \/ PpStop \/ StopCapture
  BY <1>6, PostviewKeeps, StartFailedKeeps, PpStopKeeps, StopCaptureKeeps
<1>7. CASE Reproc
  <2>1. CASE QueueDefferedWork("REPROC", "CAPTURE") /\ Goes("start") /\ UNCHANGED Channels
    BY <1>7, <2>1, ReprocKeeps
  <2>2. CASE DelChannel({"CAPTURE"}) /\ Goes("idle") /\ UNCHANGED <<ongoing, queue, id>>
    BY <1>7, <2>2, ReprocFailsKeeps
  <2>. QED
    BY <1>7, <2>1, <2>2 DEF Reproc
<1>8. CASE PpStart
  <2>1. CASE pp' = TRUE /\ Goes("start") /\ UNCHANGED Channels
    BY <1>8, <2>1, PpStartKeeps
  <2>2. CASE DelChannel({"RAW"}) /\ Goes("idle") /\ UNCHANGED pp
    BY <1>8, <2>2, PpStartFailsKeeps
  <2>. QED
    BY <1>8, <2>1, <2>2 DEF PpStart
<1>9. CASE Start
  <2>1. CASE chan' = [chan EXCEPT ![Made] = "on"] /\ Goes("idle")
    BY <1>9, <2>1, StartKeeps
  <2>2. CASE UNCHANGED chan /\ IF Made = "CAPTURE" THEN WaitsFor(<<"REPROC">>, "startfailed") ELSE Goes("startfailed")
    BY <1>9, <2>2, StartFailsKeeps
  <2>. QED
    BY <1>9, <2>1, <2>2 DEF Start
<1>10. CASE DwSteps
  BY <1>10, DwTakesKeeps, DwDoneKeeps DEF DwSteps
<1>11. CASE CaptureCb \/ CbGoesOn
  BY <1>11, CallbackKeeps DEF CbGoesOn
<1>. QED
  BY <1>1, <1>2, <1>3, <1>4, <1>5, <1>6, <1>7, <1>8, <1>9, <1>10, <1>11 DEF capNext, SmGoesOn

(* The deferred-work thread works for a channel and a stream that are there, *)
(* and no frame meets the postprocessor before it has been started, nor is   *)
(* it stopped while its start is still to come (queueDefferedWork,           *)
(* waitDefferedWork, takePicture).  The jobs that a channel leaves behind    *)
(* when there is no memory for the information of a stream are excepted,     *)
(* and no others.                                                            *)
THEOREM WorkIsInTime == ASSUME CaptureAssumption PROVE capSpec => []DeferredWorkInTime
<1>1. capInit => CapInv
  BY CapStarts
<1>2. CapInv /\ [capNext]_capVars => CapInv'
  BY CapStays
<1>3. CapInv => DeferredWorkInTime
  <2>. SUFFICES ASSUME CapInv PROVE DeferredWorkInTime
    OBVIOUS
  <2>1. capTypeOK
    BY DEF CapInv, CapShape, Slots, capTypeOK
  <2>2. NoWorkForDeleted
    BY DEF CapInv, Where, NoWorkForDeleted
  <2>3. FrameMeetsPostproc
    BY DEF CapInv, Callback, When, FrameMeetsPostproc
  <2>. QED
    BY <2>1, <2>2, <2>3 DEF DeferredWorkInTime
<1>. QED
  BY <1>1, <1>2, <1>3, PTL DEF capSpec
=============================================================================

-------------------------- MODULE LocEngineProofs --------------------------
(***************************************************************************)
(* Proofs about the location engine: its state keeps its type; a modem that *)
(* is up knows, once the messages on their way to it are handled, the       *)
(* settings, the network state and the server that the framework gave last, *)
(* however often it has been restarted; and it navigates as the framework   *)
(* wants, who is told so.                                                    *)
(***************************************************************************)
EXTENDS LocEngine, FiniteSetTheorems, SequenceTheorems, TLAPS

-----------------------------------------------------------------------------
(* What is on its way.                                                      *)

ConfOf(k) == [type : {"Conf"}, key : {k}, value : Values]
Net == [type : {"EnableData"}, value : Values]
Srv == [type : {"SetServer"}, value : Values]

\* Messages that carry no setting.
Plain ==
  [type : {"Init", "StartFix", "StopFix", "Down", "Up"}]
    \cup [type : {"PositionMode"}, once : BOOLEAN]
    \cup [type : {"DelAid"}, value : SUBSET Aiding]
    \cup [type : {"Status"}, status : {"begin", "end", "on", "off"}]
    \cup [type : {"Position"}, status : {"final", "intermediate"}, seen : BOOLEAN]

Message == Plain \cup [type : {"Conf"}, key : Keys, value : Values] \cup Net \cup Srv

\* What a message says: of the session, whether it is to run; of the status the framework
\* is told, what it will be; and the value of a setting.
Word(m) ==
  CASE m.type = "StartFix" -> "runs"
    [] m.type = "StopFix" -> "stops"
    [] m.type = "Down" -> "end"
    [] m.type = "Status" -> IF m.status = "begin" THEN "begin" ELSE "end"
    [] OTHER -> m.value

\* No message of q is one of K; one is; those that are all say v.
Silent(q, K) == \A i \in 1..Len(q) : q[i] \notin K
Mentions(q, K) == \E i \in 1..Len(q) : q[i] \in K
Agrees(q, K, v) == \A i \in 1..Len(q) : q[i] \in K => Word(q[i]) = v

\* From message i on, what is said is v.
SaysFrom(q, K, i, v) == \A j \in i..Len(q) : q[j] \in K => Word(q[j]) = v

\* Who has `have` now will have v when all of q is handled.
Comes(q, K, have, v) ==
  \/ Silent(q, K) /\ have = v
  \/ \E i \in 1..Len(q) : q[i] \in K /\ SaysFrom(q, K, i, v)

\* A message of this type is on its way (Queued, of a given queue).
Has(q, type) == \E i \in 1..Len(q) : q[i].type = type

\* A setting says its value.
LEMMA SettingSays ==
  ASSUME NEW m, m.type \in {"Conf", "EnableData", "SetServer"} PROVE Word(m) = m.value
  BY DEF Word

-----------------------------------------------------------------------------
(* Queues.                                                                  *)

\* What is queued behind plain messages is what was queued.
LEMMA ComesBefore ==
  ASSUME NEW S, NEW q \in Seq(S), NEW r \in Seq(S), NEW K, NEW have, NEW v,
         Silent(r, K), Comes(q, K, have, v)
  PROVE  Comes(q \o r, K, have, v)
<1>1. /\ q \o r \in Seq(S) /\ Len(q) \in Nat /\ Len(r) \in Nat
      /\ Len(q \o r) = Len(q) + Len(r)
      /\ \A i \in 1..Len(q) + Len(r) :
           (q \o r)[i] = IF i <= Len(q) THEN q[i] ELSE r[i - Len(q)]
  BY ConcatProperties, LenProperties
<1>2. \A i \in 1..Len(q) : (q \o r)[i] = q[i] /\ i \in 1..Len(q \o r)
  BY <1>1
<1>3. \A i \in 1..Len(q \o r) : i \notin 1..Len(q) => (q \o r)[i] \notin K
  <2> SUFFICES ASSUME NEW i \in 1..Len(q \o r), i \notin 1..Len(q) PROVE (q \o r)[i] \notin K
    OBVIOUS
  <2>1. i - Len(q) \in 1..Len(r) /\ (q \o r)[i] = r[i - Len(q)]
    BY <1>1
  <2> QED BY <2>1 DEF Silent
<1>4. CASE Silent(q, K) /\ have = v
  <2>1. Silent(q \o r, K)
    BY <1>2, <1>3, <1>4 DEF Silent
  <2> QED BY <2>1, <1>4 DEF Comes
<1>5. ASSUME NEW i \in 1..Len(q), q[i] \in K, SaysFrom(q, K, i, v)
      PROVE  Comes(q \o r, K, have, v)
  <2>1. SaysFrom(q \o r, K, i, v)
    <3> SUFFICES ASSUME NEW j \in i..Len(q \o r), (q \o r)[j] \in K PROVE Word((q \o r)[j]) = v
      BY DEF SaysFrom
    <3>1. j \in 1..Len(q \o r)
      BY <1>1
    <3>2. j \in 1..Len(q)
      BY <3>1, <1>3
    <3>3. j \in i..Len(q)
      BY <3>2
    <3> QED BY <3>2, <3>3, <1>2, <1>5 DEF SaysFrom
  <2> QED BY <2>1, <1>2, <1>5 DEF Comes
<1> QED BY <1>4, <1>5 DEF Comes

\* What is said again is what is said last.
LEMMA ComesAgain ==
  ASSUME NEW S, NEW q \in Seq(S), NEW r \in Seq(S), NEW K, NEW have, NEW v,
         Mentions(r, K), Agrees(r, K, v)
  PROVE  Comes(q \o r, K, have, v)
<1>1. /\ q \o r \in Seq(S) /\ Len(q) \in Nat /\ Len(r) \in Nat
      /\ Len(q \o r) = Len(q) + Len(r)
      /\ \A i \in 1..Len(q) + Len(r) :
           (q \o r)[i] = IF i <= Len(q) THEN q[i] ELSE r[i - Len(q)]
  BY ConcatProperties, LenProperties
<1>2. PICK i \in 1..Len(r) : r[i] \in K
  BY DEF Mentions
<1>3. Len(q) + i \in 1..Len(q \o r) /\ (q \o r)[Len(q) + i] = r[i]
  <2>1. Len(q) + i \in 1..Len(q) + Len(r) /\ ~(Len(q) + i <= Len(q)) /\ Len(q) + i - Len(q) = i
    BY <1>1
  <2> QED BY <2>1, <1>1
<1>4. SaysFrom(q \o r, K, Len(q) + i, v)
  <2> SUFFICES ASSUME NEW j \in Len(q) + i..Len(q \o r), (q \o r)[j] \in K
               PROVE  Word((q \o r)[j]) = v
    BY DEF SaysFrom
  <2>1. j - Len(q) \in 1..Len(r) /\ j \in 1..Len(q) + Len(r) /\ ~(j <= Len(q))
    BY <1>1
  <2>2. (q \o r)[j] = r[j - Len(q)]
    BY <2>1, <1>1
  <2> QED BY <2>1, <2>2 DEF Agrees
<1> QED BY <1>2, <1>3, <1>4 DEF Comes

\* A message that is handled has said what it says.
LEMMA ComesOn ==
  ASSUME NEW S, NEW q \in Seq(S), q # <<>>, NEW K, NEW have, NEW v, Comes(q, K, have, v)
  PROVE  /\ Head(q) \notin K => Comes(Tail(q), K, have, v)
         /\ Head(q) \in K => Comes(Tail(q), K, Word(Head(q)), v)
<1>1. /\ Tail(q) \in Seq(S) /\ Len(q) \in Nat /\ Len(q) # 0 /\ Len(Tail(q)) = Len(q) - 1
      /\ \A i \in 1..Len(Tail(q)) : Tail(q)[i] = q[i + 1]
  BY HeadTailProperties, LenProperties, EmptySeq
<1>2. Head(q) = q[1] /\ 1 \in 1..Len(q)
  BY <1>1
<1>3. \A i \in 1..Len(Tail(q)) : i + 1 \in 1..Len(q) /\ Tail(q)[i] = q[i + 1]
  BY <1>1
<1>4. \A i \in 1..Len(q) : i # 1 => i - 1 \in 1..Len(Tail(q)) /\ Tail(q)[i - 1] = q[i]
  <2> SUFFICES ASSUME NEW i \in 1..Len(q), i # 1
               PROVE  i - 1 \in 1..Len(Tail(q)) /\ Tail(q)[i - 1] = q[i]
    OBVIOUS
  <2>1. i - 1 \in 1..Len(Tail(q)) /\ (i - 1) + 1 = i
    BY <1>1
  <2> QED BY <2>1, <1>1
<1>5. CASE Silent(q, K) /\ have = v
  <2>1. Silent(Tail(q), K) /\ Head(q) \notin K
    BY <1>2, <1>3, <1>5 DEF Silent
  <2> QED BY <2>1, <1>5 DEF Comes
<1>6. ASSUME NEW i \in 1..Len(q), q[i] \in K, SaysFrom(q, K, i, v)
      PROVE  /\ Head(q) \notin K => Comes(Tail(q), K, have, v)
             /\ Head(q) \in K => Comes(Tail(q), K, Word(Head(q)), v)
  <2>1. CASE i # 1
    <3>1. i - 1 \in 1..Len(Tail(q)) /\ Tail(q)[i - 1] \in K
      BY <1>4, <1>6, <2>1
    <3>2. SaysFrom(Tail(q), K, i - 1, v)
      <4> SUFFICES ASSUME NEW j \in i - 1..Len(Tail(q)), Tail(q)[j] \in K
                   PROVE  Word(Tail(q)[j]) = v
        BY DEF SaysFrom
      <4>1. j \in 1..Len(Tail(q)) /\ j + 1 \in i..Len(q)
        BY <1>1, <3>1
      <4> QED BY <4>1, <1>3, <1>6 DEF SaysFrom
    <3> QED BY <3>1, <3>2 DEF Comes
  <2>2. CASE i = 1
    <3>1. Head(q) \in K /\ Word(Head(q)) = v
      BY <1>2, <1>6, <2>2 DEF SaysFrom
    <3>2. \A j \in 1..Len(Tail(q)) : Tail(q)[j] \in K => Word(Tail(q)[j]) = v
      <4> SUFFICES ASSUME NEW j \in 1..Len(Tail(q)), Tail(q)[j] \in K PROVE Word(Tail(q)[j]) = v
        OBVIOUS
      <4>1. j + 1 \in i..Len(q) /\ Tail(q)[j] = q[j + 1]
        BY <1>1, <1>3, <2>2
      <4> QED BY <4>1, <1>6 DEF SaysFrom
    <3>3. CASE Silent(Tail(q), K)
      BY <3>1, <3>3 DEF Comes
    <3>4. ASSUME NEW j \in 1..Len(Tail(q)), Tail(q)[j] \in K
          PROVE  Comes(Tail(q), K, Word(Head(q)), v)
      <4>1. SaysFrom(Tail(q), K, j, v)
        <5> SUFFICES ASSUME NEW m \in j..Len(Tail(q)), Tail(q)[m] \in K PROVE Word(Tail(q)[m]) = v
          BY DEF SaysFrom
        <5>1. m \in 1..Len(Tail(q))
          BY <1>1
        <5> QED BY <5>1, <3>2
      <4> QED BY <4>1, <3>4 DEF Comes
    <3> QED BY <3>1, <3>3, <3>4 DEF Silent
  <2> QED BY <2>1, <2>2
<1> QED BY <1>5, <1>6 DEF Comes

\* What is silent, agrees or is mentioned in two queues, and in both joined.
LEMMA Joined ==
  ASSUME NEW S, NEW q \in Seq(S), NEW r \in Seq(S), NEW K, NEW v
  PROVE  /\ q \o r \in Seq(S)
         /\ Silent(q, K) /\ Silent(r, K) => Silent(q \o r, K)
         /\ Agrees(q, K, v) /\ Agrees(r, K, v) => Agrees(q \o r, K, v)
         /\ Mentions(q, K) \/ Mentions(r, K) => Mentions(q \o r, K)
<1>1. /\ q \o r \in Seq(S) /\ Len(q) \in Nat /\ Len(r) \in Nat
      /\ Len(q \o r) = Len(q) + Len(r)
      /\ \A i \in 1..Len(q) + Len(r) :
           (q \o r)[i] = IF i <= Len(q) THEN q[i] ELSE r[i - Len(q)]
  BY ConcatProperties, LenProperties
<1>2. ASSUME NEW i \in 1..Len(q \o r)
      PROVE  \/ i \in 1..Len(q) /\ (q \o r)[i] = q[i]
             \/ i - Len(q) \in 1..Len(r) /\ (q \o r)[i] = r[i - Len(q)]
  BY <1>1
<1>3. \A i \in 1..Len(q) : i \in 1..Len(q \o r) /\ (q \o r)[i] = q[i]
  BY <1>1
<1>4. \A i \in 1..Len(r) : Len(q) + i \in 1..Len(q \o r) /\ (q \o r)[Len(q) + i] = r[i]
  <2> SUFFICES ASSUME NEW i \in 1..Len(r)
               PROVE  Len(q) + i \in 1..Len(q \o r) /\ (q \o r)[Len(q) + i] = r[i]
    OBVIOUS
  <2>1. Len(q) + i \in 1..Len(q) + Len(r) /\ ~(Len(q) + i <= Len(q)) /\ Len(q) + i - Len(q) = i
    BY <1>1
  <2> QED BY <2>1, <1>1
<1>5. Silent(q, K) /\ Silent(r, K) => Silent(q \o r, K)
  BY <1>2 DEF Silent
<1>6. Agrees(q, K, v) /\ Agrees(r, K, v) => Agrees(q \o r, K, v)
  BY <1>2 DEF Agrees
<1>7. Mentions(q, K) \/ Mentions(r, K) => Mentions(q \o r, K)
  BY <1>3, <1>4 DEF Mentions
<1> QED BY <1>1, <1>5, <1>6, <1>7

\* A message of a type stays queued until it is handled.
LEMMA HasStays ==
  ASSUME NEW S, NEW q \in Seq(S), NEW r \in Seq(S), NEW type, Has(q, type)
  PROVE  /\ Has(q \o r, type)
         /\ q # <<>> /\ Head(q).type # type => Has(Tail(q) \o r, type)
<1>1. PICK i \in 1..Len(q) : q[i].type = type
  BY DEF Has
<1>2. ASSUME NEW p \in Seq(S), Has(p, type) PROVE Has(p \o r, type)
  <2>1. PICK j \in 1..Len(p) : p[j].type = type
    BY <1>2 DEF Has
  <2>2. Len(p) \in Nat /\ Len(r) \in Nat /\ Len(p \o r) = Len(p) + Len(r)
    BY ConcatProperties, LenProperties
  <2>3. j \in 1..Len(p) + Len(r) /\ j <= Len(p)
    BY <2>2
  <2>4. (p \o r)[j] = p[j]
    BY <2>3, ConcatProperties
  <2> QED BY <2>1, <2>2, <2>3, <2>4 DEF Has
<1>3. ASSUME q # <<>>, Head(q).type # type PROVE Tail(q) \in Seq(S) /\ Has(Tail(q), type)
  <2>1. /\ Tail(q) \in Seq(S) /\ Len(q) \in Nat /\ Len(Tail(q)) = Len(q) - 1
        /\ \A j \in 1..Len(Tail(q)) : Tail(q)[j] = q[j + 1]
    BY <1>3, HeadTailProperties, LenProperties
  <2>2. i # 1
    BY <1>1, <1>3
  <2>3. i - 1 \in 1..Len(Tail(q)) /\ (i - 1) + 1 = i
    BY <2>1, <2>2
  <2>4. Tail(q)[i - 1].type = type
    BY <2>1, <2>3, <1>1
  <2> QED BY <2>1, <2>3, <2>4 DEF Has
<1> QED BY <1>2, <1>3

\* A finite set is put in some order, each element once.
LEMMA Ordered ==
  ASSUME NEW S, IsFiniteSet(S)
  PROVE  /\ SetToSeq(S) \in Seq(S)
         /\ \A x \in S : \E i \in 1..Len(SetToSeq(S)) : SetToSeq(S)[i] = x
<1> DEFINE n == Cardinality(S)
<1>1. n \in Nat /\ ExistsBijection(1..n, S)
  BY FS_CardinalityType
<1>2. \E f \in [1..n -> S] : IsInjective(f)
  BY <1>1 DEF ExistsBijection, Bijection, Injection
<1> DEFINE s == SetToSeq(S)
<1>3. s \in [1..n -> S] /\ IsInjective(s)
  BY <1>2 DEF SetToSeq
<1>4. s \in Injection(1..n, S)
  BY <1>3 DEF Injection
<1>5. Cardinality(1..n) = n
  <2>1. \A a, b \in Int : Cardinality(a..b) = IF a > b THEN 0 ELSE b - a + 1
    BY FS_Interval
  <2>2. n \in Int /\ (IF 1 > n THEN 0 ELSE n - 1 + 1) = n
    BY <1>1
  <2> QED BY <2>1, <2>2
<1>6. s \in Surjection(1..n, S)
  BY <1>4, <1>5, FS_Injection
<1>7. s \in Seq(S) /\ Len(s) = n
  BY <1>1, <1>3
<1> QED BY <1>6, <1>7 DEF Surjection

-----------------------------------------------------------------------------
(* The inductive invariant.                                                 *)

Modem == [up : BOOLEAN, session : BOOLEAN, once : BOOLEAN, mode : BOOLEAN,
          conf : [Keys -> Values \cup {Unset}], host : Values \cup {Unset},
          data : Values \cup {Unset}]

Shape == engTypeOK /\ queue \in Seq(Message) /\ modem \in Modem

\* A modem that is up, and whose start or restart has been handled, will have the
\* settings and the network state when everything queued is handled.
SettingsCome ==
  inited /\ modem.up /\ ~Has(queue, "Init") /\ ~Has(queue, "Up") =>
    /\ \A k \in Keys : Comes(queue, ConfOf(k), modem.conf[k], conf[k])
    /\ unnamed \/ Comes(queue, Net, modem.data, data)

\* And so with the server, once loc_eng_agps_init has been called.
ServerComes ==
  inited /\ agps /\ host # Unset /\ modem.up /\ ~Has(queue, "Up") =>
    Comes(queue, Srv, modem.host, host)

LocInv == Shape /\ SettingsCome /\ ServerComes

-----------------------------------------------------------------------------
(* Messages.                                                                *)

\* A plain message is no setting.
LEMMA PlainIsSilent ==
  ASSUME NEW r \in Seq(Plain)
  PROVE  /\ r \in Seq(Message)
         /\ \A k \in Keys : Silent(r, ConfOf(k))
         /\ Silent(r, Net) /\ Silent(r, Srv)
<1>1. \A m \in Plain : m.type \notin {"Conf", "EnableData", "SetServer"}
  BY DEF Plain
<1>2. \A i \in 1..Len(r) : r[i] \in Plain
  BY ElementOfSeq
<1>3. \A k \in Keys : \A m \in ConfOf(k) : m.type = "Conf"
  BY DEF ConfOf
<1>4. (\A m \in Net : m.type = "EnableData") /\ (\A m \in Srv : m.type = "SetServer")
  BY DEF Net, Srv
<1>5. r \in Seq(Message)
  <2>1. Plain \subseteq Message
    BY DEF Message
  <2> QED BY <2>1, SeqMonotonic
<1> QED BY <1>1, <1>2, <1>3, <1>4, <1>5 DEF Silent

\* loc_eng_reinit says every setting and the network state as they are now.
LEMMA ReinitSays ==
  ASSUME LocEngineAssumption, Shape
  PROVE  /\ ReinitMsgs \in Seq(Message)
         /\ \A k \in Keys : /\ Mentions(ReinitMsgs, ConfOf(k))
                            /\ Agrees(ReinitMsgs, ConfOf(k), conf[k])
         /\ Mentions(ReinitMsgs, Net) /\ Agrees(ReinitMsgs, Net, data)
         /\ Silent(ReinitMsgs, Srv)
<1> DEFINE Of(k) == [type |-> "Conf", key |-> k, value |-> conf[k]]
           S == {Of(k) : k \in Keys}
           s == SetToSeq(S)
           d == <<[type |-> "EnableData", value |-> data]>>
<1>1. /\ IsFiniteSet(Keys) /\ conf \in [Keys -> Values] /\ data \in Values
  BY DEF LocEngineAssumption, Shape, engTypeOK
<1>2. IsFiniteSet(S)
  <2> DEFINE f == [k \in Keys |-> Of(k)]
  <2>1. f \in Surjection(Keys, S)
    BY DEF Surjection
  <2> QED BY <2>1, <1>1, FS_Surjection
<1>3. s \in Seq(S) /\ \A x \in S : \E i \in 1..Len(s) : s[i] = x
  BY <1>2, Ordered
<1>4. \A x \in S : /\ x \in Message /\ x.type = "Conf" /\ x.key \in Keys
                   /\ x.value = conf[x.key]
  BY <1>1 DEF Message
<1>5. s \in Seq(Message)
  BY <1>3, <1>4, SeqMonotonic
<1>6. \A i \in 1..Len(s) : s[i] \in S
  BY <1>3, ElementOfSeq
<1>7. \A k \in Keys : Mentions(s, ConfOf(k)) /\ Agrees(s, ConfOf(k), conf[k])
  <2> SUFFICES ASSUME NEW k \in Keys
               PROVE  Mentions(s, ConfOf(k)) /\ Agrees(s, ConfOf(k), conf[k])
    OBVIOUS
  <2>1. Of(k) \in S /\ Of(k) \in ConfOf(k)
    BY <1>1 DEF ConfOf
  <2>2. \A m \in ConfOf(k) : m.key = k
    BY DEF ConfOf
  <2>3. \A i \in 1..Len(s) : s[i] \in ConfOf(k) => Word(s[i]) = conf[k]
    <3> SUFFICES ASSUME NEW i \in 1..Len(s), s[i] \in ConfOf(k) PROVE Word(s[i]) = conf[k]
      OBVIOUS
    <3> HIDE DEF s, S
    <3>1. s[i].type = "Conf" /\ s[i].value = conf[k]
      BY <1>4, <1>6, <2>2
    <3> QED BY <3>1, SettingSays
  <2> HIDE DEF s, S, Of
  <2> QED BY <2>1, <2>3, <1>3 DEF Mentions, Agrees
<1>8. Silent(s, Net) /\ Silent(s, Srv)
  <2>1. (\A m \in Net : m.type = "EnableData") /\ (\A m \in Srv : m.type = "SetServer")
    BY DEF Net, Srv
  <2> HIDE DEF s, S
  <2> QED BY <2>1, <1>4, <1>6 DEF Silent
<1>9. /\ d \in Seq(Message) /\ Len(d) = 1 /\ d[1] = [type |-> "EnableData", value |-> data]
      /\ d[1].type = "EnableData" /\ d[1].value = data
      /\ d[1] \in Net /\ d[1] \notin Srv /\ \A k \in Keys : d[1] \notin ConfOf(k)
  BY <1>1 DEF Message, Net, Srv, ConfOf
<1>10. /\ Mentions(d, Net) /\ Agrees(d, Net, data) /\ Silent(d, Srv)
       /\ \A k \in Keys : Agrees(d, ConfOf(k), conf[k])
  <2>1. Word(d[1]) = data
    BY <1>9, SettingSays
  <2> QED BY <1>9, <2>1 DEF Mentions, Agrees, Silent
<1>11. Agrees(s, Net, data)
  BY <1>8 DEF Agrees, Silent
<1>12. ReinitMsgs = s \o d
  BY DEF ReinitMsgs
<1> HIDE DEF s, d
<1>13. s \o d \in Seq(Message) /\ Silent(s \o d, Srv)
  BY <1>5, <1>8, <1>9, <1>10, Joined
<1>14. Mentions(s \o d, Net) /\ Agrees(s \o d, Net, data)
  BY <1>5, <1>9, <1>10, <1>11, Joined
<1>15. \A k \in Keys : Mentions(s \o d, ConfOf(k)) /\ Agrees(s \o d, ConfOf(k), conf[k])
  BY <1>5, <1>7, <1>9, <1>10, Joined
<1> QED BY <1>12, <1>13, <1>14, <1>15

-----------------------------------------------------------------------------
(* Every step keeps the type.                                               *)

\* What a queue of messages becomes.
LEMMA QueueKept ==
  ASSUME NEW q \in Seq(Message)
  PROVE  /\ \A m \in Message : Append(q, m) \in Seq(Message)
         /\ \A r \in Seq(Message) : q \o r \in Seq(Message)
         /\ q # <<>> => /\ Head(q) \in Message /\ Tail(q) \in Seq(Message)
                       /\ \A r \in Seq(Message) : Tail(q) \o r \in Seq(Message)
  BY ConcatProperties, HeadTailProperties, AppendProperties

\* Few messages are a queue.
LEMMA FewMessages ==
  /\ <<>> \in Seq(Message)
  /\ \A m \in Message : <<m>> \in Seq(Message)
  /\ \A m, n \in Message : <<m, n>> \in Seq(Message)
  OBVIOUS

\* The messages themselves.
LEMMA Messages ==
  /\ \A type \in {"Init", "StartFix", "StopFix", "Down", "Up"} : Msg(type) \in Plain
  /\ \A s \in {"begin", "end", "on", "off"} : Status(s) \in Plain
  /\ \A once \in BOOLEAN : [type |-> "PositionMode", once |-> once] \in Plain
  /\ \A f \in SUBSET Aiding : [type |-> "DelAid", value |-> f] \in Plain
  /\ \A s \in {"final", "intermediate"}, b \in BOOLEAN :
       [type |-> "Position", status |-> s, seen |-> b] \in Plain
  /\ \A k \in Keys, v \in Values :
       /\ [type |-> "Conf", key |-> k, value |-> v] \in Message
       /\ [type |-> "Conf", key |-> k, value |-> v] \in ConfOf(k)
  /\ \A v \in Values : /\ [type |-> "EnableData", value |-> v] \in Net
                       /\ [type |-> "SetServer", value |-> v] \in Srv
  /\ Plain \subseteq Message /\ Net \subseteq Message /\ Srv \subseteq Message
<1>1. /\ \A type \in {"Init", "StartFix", "StopFix", "Down", "Up"} : Msg(type) \in Plain
      /\ \A s \in {"begin", "end", "on", "off"} : Status(s) \in Plain
  BY DEF Msg, Status, Plain
<1>2. /\ \A once \in BOOLEAN : [type |-> "PositionMode", once |-> once] \in Plain
      /\ \A f \in SUBSET Aiding : [type |-> "DelAid", value |-> f] \in Plain
      /\ \A s \in {"final", "intermediate"}, b \in BOOLEAN :
           [type |-> "Position", status |-> s, seen |-> b] \in Plain
  BY DEF Plain
<1>3. /\ \A k \in Keys, v \in Values :
           /\ [type |-> "Conf", key |-> k, value |-> v] \in Message
           /\ [type |-> "Conf", key |-> k, value |-> v] \in ConfOf(k)
      /\ \A v \in Values : /\ [type |-> "EnableData", value |-> v] \in Net
                           /\ [type |-> "SetServer", value |-> v] \in Srv
      /\ Plain \subseteq Message /\ Net \subseteq Message /\ Srv \subseteq Message
  BY DEF Message, Net, Srv, ConfOf
<1> QED BY <1>1, <1>2, <1>3

\* The fields of a message, by its type.
LEMMA Fields ==
  ASSUME NEW m \in Message
  PROVE  /\ m.type = "Conf" => m \in ConfOf(m.key) /\ m.key \in Keys /\ m.value \in Values
         /\ m.type = "EnableData" => m \in Net /\ m.value \in Values
         /\ m.type = "SetServer" => m \in Srv /\ m.value \in Values
         /\ m.type = "PositionMode" => m.once \in BOOLEAN
         /\ m.type = "DelAid" => m.value \in SUBSET Aiding
         /\ m.type = "Status" => m.status \in {"begin", "end", "on", "off"}
         /\ m.type = "Position" => m.status \in {"final", "intermediate"} /\ m.seen \in BOOLEAN
         /\ m.type \notin {"Conf", "EnableData", "SetServer"} => m \in Plain
<1>1. CASE m \in [type : {"Conf"}, key : Keys, value : Values]
  BY <1>1 DEF ConfOf
<1>2. CASE m \in Net \/ m \in Srv
  BY <1>2 DEF Net, Srv
<1>3. CASE m \in Plain
  BY <1>3 DEF Plain
<1> QED BY <1>1, <1>2, <1>3 DEF Message

\* Nothing is queued, the modem is fresh.
LEMMA InvStarts == LocEngineAssumption /\ engInit => LocInv
<1> SUFFICES ASSUME LocEngineAssumption, engInit PROVE LocInv
  OBVIOUS
<1>1. engTypeOK
  BY DEF LocEngineAssumption, engInit, engTypeOK, Invalid
<1>2. queue \in Seq(Message)
  BY DEF engInit
<1>3. modem \in Modem
  BY DEF engInit, Fresh, Modem
<1>4. SettingsCome /\ ServerComes
  BY DEF engInit, SettingsCome, ServerComes
<1> QED BY <1>1, <1>2, <1>3, <1>4 DEF LocInv, Shape

\* A call of the framework.
LEMMA CallsKeepShape == ASSUME Shape, CallSteps PROVE Shape'
<1> USE DEF Shape
<1>q. \A m \in Message : Append(queue, m) \in Seq(Message)
  BY QueueKept
<1>m. \A type \in {"Init", "StartFix", "StopFix"} : Msg(type) \in Message
  BY Messages
<1>r. \A r \in Seq(Message) : queue \o r \in Seq(Message)
  BY QueueKept
<1>1. CASE LocInit
  BY <1>1, <1>q, <1>m DEF LocInit, engTypeOK, Handled, World
<1>2. CASE AgpsInit
  <2>1. queue' \in Seq(Message)
    <3>1. CASE host = Unset
      BY <1>2, <3>1, <1>r, FewMessages DEF AgpsInit
    <3>2. CASE host # Unset
      <4>1. host \in Values
        BY <3>2 DEF engTypeOK
      <4>2. [type |-> "SetServer", value |-> host] \in Message
        BY <4>1, Messages
      <4> QED BY <1>2, <3>2, <4>2, <1>r, FewMessages DEF AgpsInit
    <3> QED BY <3>1, <3>2
  <2> QED BY <1>2, <2>1 DEF AgpsInit, engTypeOK, Handled, World
<1>3. ASSUME NEW once \in BOOLEAN, SetPositionMode(once) PROVE Shape'
  <2>1. [type |-> "PositionMode", once |-> once] \in Message
    BY Messages
  <2> QED BY <1>3, <2>1, <1>q DEF SetPositionMode, engTypeOK, Handled, World
<1>4. CASE Start
  BY <1>4, <1>q, <1>m DEF Start, engTypeOK, Handled, World
<1>5. CASE Stop
  BY <1>5, <1>q, <1>m DEF Stop, engTypeOK, Handled, World
<1>6. CASE Cleanup
  BY <1>6, <1>q, <1>m DEF Cleanup, engTypeOK, Handled, World
<1>7. ASSUME NEW f \in SUBSET Aiding, DeleteAidingData(f) PROVE Shape'
  <2>1. [type |-> "DelAid", value |-> f] \in Message
    BY Messages
  <2> QED BY <1>7, <2>1, <1>q DEF DeleteAidingData, engTypeOK, Handled, World
<1>8. ASSUME NEW k \in Keys, NEW v \in Values, ConfigurationUpdate(k, v) PROVE Shape'
  <2>1. [type |-> "Conf", key |-> k, value |-> v] \in Message
    BY Messages
  <2>2. queue' \in Seq(Message)
    BY <1>8, <2>1, <1>q DEF ConfigurationUpdate
  <2> QED BY <1>8, <2>2 DEF ConfigurationUpdate, engTypeOK, Handled, World
<1>9. ASSUME NEW v \in Values, SetServer(v) PROVE Shape'
  <2>1. [type |-> "SetServer", value |-> v] \in Message
    BY Messages
  <2>2. queue' \in Seq(Message)
    BY <1>9, <2>1, <1>q DEF SetServer
  <2> QED BY <1>9, <2>2 DEF SetServer, engTypeOK, Handled, World
<1>10. ASSUME NEW v \in Values, NEW apn \in BOOLEAN, NetworkAvailability(v, apn) PROVE Shape'
  <2>1. [type |-> "EnableData", value |-> v] \in Message
    BY Messages
  <2>2. queue' \in Seq(Message)
    BY <1>10, <2>1, <1>q DEF NetworkAvailability
  <2> QED BY <1>10, <2>2 DEF NetworkAvailability, engTypeOK, Handled
<1>11. CASE MuteOneSession
  BY <1>11 DEF MuteOneSession, engTypeOK, World
<1> QED BY <1>1, <1>2, <1>3, <1>4, <1>5, <1>6, <1>7, <1>8, <1>9, <1>10, <1>11 DEF CallSteps

\* A report of the modem.
LEMMA ModemKeepsShape == ASSUME Shape, ModemSteps \/ ModemUp PROVE Shape'
<1> USE DEF Shape
<1>r. \A r \in Seq(Message) : queue \o r \in Seq(Message)
  BY QueueKept
<1>1. CASE ModemDown
  <2>1. queue' \in Seq(Message)
    BY <1>1, <1>r, Messages, FewMessages DEF ModemDown, Report
  <2>2. modem' \in Modem
    BY <1>1 DEF ModemDown, Fresh, Modem
  <2> QED BY <1>1, <2>1, <2>2 DEF ModemDown, Rest, Handled, engTypeOK
<1>2. CASE ModemUp
  <2>1. queue' \in Seq(Message)
    BY <1>2, <1>r, Messages, FewMessages DEF ModemUp, Report
  <2>2. modem' \in Modem
    BY <1>2 DEF ModemUp, Modem
  <2> QED BY <1>2, <2>1, <2>2 DEF ModemUp, Rest, Handled, engTypeOK
<1>3. ASSUME NEW s \in {"final", "intermediate"}, NEW b \in BOOLEAN, ModemFix(s, b)
      PROVE  Shape'
  <2>1. queue' \in Seq(Message)
    <3>1. /\ <<[type |-> "Position", status |-> s, seen |-> b]>> \in Seq(Message)
          /\ <<Status("end"), Status("off")>> \in Seq(Message) /\ <<>> \in Seq(Message)
      BY Messages, FewMessages
    <3> DEFINE m == [type |-> "Position", status |-> s, seen |-> b]
    <3>2. \A r \in Seq(Message) : <<m>> \o r \in Seq(Message)
      BY <3>1, ConcatProperties
    <3> HIDE DEF m
    <3> QED BY <1>3, <3>1, <3>2, <1>r DEF ModemFix, Report, m
  <2>2. modem' \in Modem
    BY <1>3 DEF ModemFix, Modem
  <2> QED BY <1>3, <2>1, <2>2 DEF ModemFix, Rest, Handled, engTypeOK
<1> QED BY <1>1, <1>2, <1>3 DEF ModemSteps


\* And loc_eng_handle_engine_up says these again, the server, and the start.
UpMsgs ==
  ReinitMsgs
    \o (IF agps /\ host # Unset THEN <<[type |-> "SetServer", value |-> host]>> ELSE <<>>)
    \o (IF navigating THEN <<Msg("StartFix")>> ELSE <<>>)

LEMMA UpSays ==
  ASSUME LocEngineAssumption, Shape
  PROVE  /\ UpMsgs \in Seq(Message)
         /\ \A k \in Keys : Mentions(UpMsgs, ConfOf(k)) /\ Agrees(UpMsgs, ConfOf(k), conf[k])
         /\ Mentions(UpMsgs, Net) /\ Agrees(UpMsgs, Net, data)
         /\ agps /\ host # Unset => Mentions(UpMsgs, Srv) /\ Agrees(UpMsgs, Srv, host)
<1> DEFINE s == IF agps /\ host # Unset THEN <<[type |-> "SetServer", value |-> host]>> ELSE <<>>
           f == IF navigating THEN <<Msg("StartFix")>> ELSE <<>>
<1>1. /\ s \in Seq(Message) /\ (\A k \in Keys : Silent(s, ConfOf(k))) /\ Silent(s, Net)
      /\ agps /\ host # Unset => Mentions(s, Srv) /\ Agrees(s, Srv, host)
  <2>1. CASE agps /\ host # Unset
    <3> DEFINE m == [type |-> "SetServer", value |-> host]
    <3>1. host \in Values
      BY <2>1 DEF Shape, engTypeOK
    <3>2. m \in Message /\ m \in Srv
      BY <3>1, Messages
    <3>3. m \notin Net /\ (\A k \in Keys : m \notin ConfOf(k)) /\ Word(m) = host
      <4>1. m.type = "SetServer" /\ m.value = host
        OBVIOUS
      <4> QED BY <4>1, SettingSays DEF Net, ConfOf
    <3>4. s = <<m>>
      BY <2>1
    <3> HIDE DEF m, s
    <3>5. s \in Seq(Message) /\ Len(s) = 1 /\ s[1] = m
      BY <3>2, <3>4
    <3> QED BY <3>2, <3>3, <3>5 DEF Silent, Mentions, Agrees
  <2>2. CASE ~(agps /\ host # Unset)
    <3>1. s = <<>>
      BY <2>2
    <3> QED BY <2>2, <3>1 DEF Silent
  <2> QED BY <2>1, <2>2
<1>2. f \in Seq(Plain)
  <2>1. Msg("StartFix") \in Plain
    BY Messages
  <2> QED BY <2>1
<1>3. /\ f \in Seq(Message) /\ (\A k \in Keys : Silent(f, ConfOf(k)))
      /\ Silent(f, Net) /\ Silent(f, Srv)
  <2> HIDE DEF f
  <2> QED BY <1>2, PlainIsSilent
<1>4. UpMsgs = (ReinitMsgs \o s) \o f
  BY DEF UpMsgs
<1> HIDE DEF s, f
<1>5. \A K : Silent(s, K) => \A v : Agrees(s, K, v)
  BY DEF Silent, Agrees
<1>6. \A K : Silent(f, K) => \A v : Agrees(f, K, v)
  BY DEF Silent, Agrees
<1>7. \A K, v : Silent(ReinitMsgs, K) => Agrees(ReinitMsgs, K, v)
  BY DEF Silent, Agrees
<1>8. ReinitMsgs \in Seq(Message) /\ ReinitMsgs \o s \in Seq(Message) /\ UpMsgs \in Seq(Message)
  BY <1>1, <1>3, <1>4, ReinitSays, Joined
<1>9. ASSUME NEW K, NEW v, Agrees(ReinitMsgs, K, v), Agrees(s, K, v), Silent(f, K),
             Mentions(ReinitMsgs, K) \/ Mentions(s, K)
      PROVE  Mentions(UpMsgs, K) /\ Agrees(UpMsgs, K, v)
  <2>1. Mentions(ReinitMsgs \o s, K) /\ Agrees(ReinitMsgs \o s, K, v)
    BY <1>1, <1>8, <1>9, Joined
  <2>2. Agrees(f, K, v)
    BY <1>6, <1>9
  <2> QED BY <2>1, <2>2, <1>3, <1>4, <1>8, Joined
<1>10. \A k \in Keys : Mentions(UpMsgs, ConfOf(k)) /\ Agrees(UpMsgs, ConfOf(k), conf[k])
  BY <1>1, <1>3, <1>5, <1>9, ReinitSays
<1>11. Mentions(UpMsgs, Net) /\ Agrees(UpMsgs, Net, data)
  BY <1>1, <1>3, <1>5, <1>9, ReinitSays
<1>12. agps /\ host # Unset => Mentions(UpMsgs, Srv) /\ Agrees(UpMsgs, Srv, host)
  BY <1>1, <1>3, <1>7, <1>9, ReinitSays
<1> QED BY <1>8, <1>10, <1>11, <1>12

\* A message handled.
LEMMA ProcKeepsShape == ASSUME LocEngineAssumption, Shape, Proc PROVE Shape'
<1> USE DEF Shape, Globals, Given
<1>h. queue # <<>> /\ Head1 \in Message /\ \A r \in Seq(Message) : Tail(queue) \o r \in Seq(Message)
  <2>1. queue # <<>>
    BY DEF Proc, Receives, ProcInit, ProcConf, ProcEnableData, ProcSetServer, ProcPositionMode,
           ProcStartFix, ProcStopFix, ProcPosition, ProcStatus, ProcDelAid, ProcDown, ProcUp
  <2> QED BY <2>1, QueueKept DEF Head1
<1>r. ReinitMsgs \in Seq(Message)
  BY ReinitSays
<1>b. BeginsSession \in Seq(Message) /\ EndsSession \in Seq(Message) /\ <<>> \in Seq(Message)
  BY Messages, FewMessages DEF BeginsSession, EndsSession
<1>s. ASSUME NEW s \in {"begin", "end", "on", "off"}, ReportStatus(s)
      PROVE  mute' \in {"none", "wait", "muted"} /\ engine' \in {"none", "on", "off"}
  BY <1>s DEF ReportStatus, Muted, engTypeOK
<1>i. ASSUME NEW in \in BOOLEAN, SetInSession(in)
      PROVE  navigating' \in BOOLEAN /\ criteria' \in [mode : BOOLEAN, once : BOOLEAN]
  BY <1>i DEF SetInSession, engTypeOK
<1>u. ASSUME NEW f \in SUBSET Aiding, NEW e, UpdateAiding(f, e) PROVE deleting' \subseteq Aiding
  BY <1>u DEF UpdateAiding
<1>1. CASE ProcInit
  BY <1>1, <1>h, <1>r DEF ProcInit, Sends, Handled, engTypeOK
<1>2. CASE ProcConf
  <2>1. Head1.key \in Keys /\ Head1.value \in Values
    BY <1>2, <1>h, Fields DEF ProcConf, Receives
  <2>2. modem' \in Modem
    BY <1>2, <2>1 DEF ProcConf, Tell, Modem
  <2> QED BY <1>2, <2>2, <1>h, <1>b DEF ProcConf, Sends, Handled, engTypeOK
<1>3. CASE ProcEnableData
  <2>1. Head1.value \in Values
    BY <1>3, <1>h, Fields DEF ProcEnableData, Receives
  <2>2. modem' \in Modem
    BY <1>3, <2>1 DEF ProcEnableData, Tell, Modem
  <2> QED BY <1>3, <2>2, <1>h, <1>b DEF ProcEnableData, Sends, Handled, engTypeOK
<1>4. CASE ProcSetServer
  <2>1. Head1.value \in Values
    BY <1>4, <1>h, Fields DEF ProcSetServer, Receives
  <2>2. modem' \in Modem
    BY <1>4, <2>1 DEF ProcSetServer, Tell, Modem
  <2> QED BY <1>4, <2>2, <1>h, <1>b DEF ProcSetServer, Sends, Handled, engTypeOK
<1>5. CASE ProcPositionMode
  <2>1. Head1.once \in BOOLEAN
    BY <1>5, <1>h, Fields DEF ProcPositionMode, Receives
  <2> QED BY <1>5, <2>1, <1>h, <1>b DEF ProcPositionMode, Sends, engTypeOK
<1>6. CASE ProcStartFix
  <2>1. modem' \in Modem
    BY <1>6, ZenonT(40) DEF ProcStartFix, StartTaken, StartRefused, Modem, engTypeOK
  <2>2. /\ navigating' \in BOOLEAN /\ criteria' \in [mode : BOOLEAN, once : BOOLEAN]
        /\ refusal' \in {"none", "kept", "dropped"}
    BY <1>6, <1>i DEF ProcStartFix, StartTaken, StartRefused, engTypeOK
  <2>3. queue' \in Seq(Message)
    BY <1>6, <1>h, <1>b DEF ProcStartFix, StartTaken, StartRefused, Sends
  <2> QED BY <1>6, <2>1, <2>2, <2>3 DEF ProcStartFix, engTypeOK
<1>7. CASE ProcStopFix
  <2>1. modem' \in Modem
    BY <1>7 DEF ProcStopFix, Modem
  <2>2. navigating' \in BOOLEAN /\ criteria' \in [mode : BOOLEAN, once : BOOLEAN]
    BY <1>7, <1>i DEF ProcStopFix, engTypeOK
  <2>3. queue' \in Seq(Message)
    BY <1>7, <1>h, <1>b DEF ProcStopFix, Sends
  <2> QED BY <1>7, <2>1, <2>2, <2>3 DEF ProcStopFix, engTypeOK
<1>8. CASE ProcPosition
  <2>1. modem' \in Modem
    BY <1>8, ZenonT(40) DEF ProcPosition, Modem
  <2>2. navigating' \in BOOLEAN /\ criteria' \in [mode : BOOLEAN, once : BOOLEAN]
    BY <1>8, <1>i DEF ProcPosition, engTypeOK
  <2>3. queue' \in Seq(Message)
    BY <1>8, <1>h, <1>b DEF ProcPosition, Sends
  <2> QED BY <1>8, <2>1, <2>2, <2>3 DEF ProcPosition, engTypeOK
<1>9. CASE ProcStatus
  <2>1. Head1.status \in {"begin", "end", "on", "off"}
    BY <1>9, <1>h, Fields DEF ProcStatus, Receives
  <2>2. mute' \in {"none", "wait", "muted"} /\ engine' \in {"none", "on", "off"}
    BY <1>9, <2>1, <1>s DEF ProcStatus
  <2>3. deleting' \subseteq Aiding
    BY <1>9, <1>u DEF ProcStatus, engTypeOK
  <2> QED BY <1>9, <2>2, <2>3, <1>h, <1>b DEF ProcStatus, Sends, engTypeOK
<1>10. CASE ProcDelAid
  <2>1. Head1.value \in SUBSET Aiding
    BY <1>10, <1>h, Fields DEF ProcDelAid, Receives
  <2>2. deleting' \subseteq Aiding
    BY <1>10, <2>1, <1>u DEF ProcDelAid
  <2> QED BY <1>10, <2>2, <1>h, <1>b DEF ProcDelAid, Sends, engTypeOK
<1>11. CASE ProcDown
  <2>1. mute' \in {"none", "wait", "muted"} /\ engine' \in {"none", "on", "off"}
    BY <1>11, <1>s DEF ProcDown
  <2> QED BY <1>11, <2>1, <1>h, <1>b DEF ProcDown, Sends, engTypeOK
<1>12. CASE ProcUp
  <2>1. queue' \in Seq(Message)
    BY <1>12, <1>h, UpSays DEF ProcUp, Sends, UpMsgs
  <2>2. navigating' \in BOOLEAN /\ criteria' \in [mode : BOOLEAN, once : BOOLEAN]
    BY <1>12, <1>i DEF ProcUp, engTypeOK
  <2> QED BY <1>12, <2>1, <2>2 DEF ProcUp, engTypeOK
<1> QED BY <1>1, <1>2, <1>3, <1>4, <1>5, <1>6, <1>7, <1>8, <1>9, <1>10, <1>11, <1>12 DEF Proc

-----------------------------------------------------------------------------
(* Every step keeps what comes.                                             *)

\* A step that puts messages behind, and may handle the first.
Puts(q, p, r) == p = q \o r
Handles(q, p, r) == q # <<>> /\ p = Tail(q) \o r

\* What comes comes still, or has come.
LEMMA ComesStill ==
  ASSUME NEW q \in Seq(Message), NEW r \in Seq(Message), NEW p, NEW K, NEW have, NEW v,
         Silent(r, K), Comes(q, K, have, v)
  PROVE  /\ Puts(q, p, r) => Comes(p, K, have, v)
         /\ Handles(q, p, r) /\ Head(q) \notin K => Comes(p, K, have, v)
         /\ Handles(q, p, r) /\ Head(q) \in K => Comes(p, K, Word(Head(q)), v)
<1>1. CASE Puts(q, p, r)
  <2>1. Comes(q \o r, K, have, v)
    BY ComesBefore
  <2>2. Puts(q, p, r) => Comes(p, K, have, v)
    BY <2>1 DEF Puts
  <2>3. ASSUME Handles(q, p, r) PROVE FALSE
    <3>1. /\ Len(q \o r) = Len(q) + Len(r) /\ Len(Tail(q) \o r) = Len(Tail(q)) + Len(r)
          /\ Len(Tail(q)) = Len(q) - 1 /\ Len(q) \in Nat /\ Len(r) \in Nat
      BY <2>3, ConcatProperties, HeadTailProperties, LenProperties DEF Handles
    <3> QED BY <1>1, <2>3, <3>1 DEF Puts, Handles
  <2> QED BY <2>2, <2>3
<1>2. CASE Handles(q, p, r) /\ Head(q) \notin K
  <2>1. Tail(q) \in Seq(Message) /\ Comes(Tail(q), K, have, v)
    BY <1>2, ComesOn, HeadTailProperties DEF Handles
  <2>2. Comes(Tail(q) \o r, K, have, v)
    BY <2>1, ComesBefore
  <2> QED BY <1>1, <1>2, <2>2 DEF Handles
<1>3. CASE Handles(q, p, r) /\ Head(q) \in K
  <2>1. Tail(q) \in Seq(Message) /\ Comes(Tail(q), K, Word(Head(q)), v)
    BY <1>3, ComesOn, HeadTailProperties DEF Handles
  <2>2. Comes(Tail(q) \o r, K, Word(Head(q)), v)
    BY <2>1, ComesBefore
  <2> QED BY <1>1, <1>3, <2>2 DEF Handles
<1> QED BY <1>1, <1>2, <1>3

\* What is told again comes.
LEMMA ComesAnew ==
  ASSUME NEW q \in Seq(Message), NEW r \in Seq(Message), NEW p, NEW K, NEW have, NEW v,
         Mentions(r, K), Agrees(r, K, v), Puts(q, p, r) \/ Handles(q, p, r)
  PROVE  Comes(p, K, have, v)
<1>1. CASE Puts(q, p, r)
  BY <1>1, ComesAgain DEF Puts
<1>2. CASE Handles(q, p, r)
  <2>1. Tail(q) \in Seq(Message)
    BY <1>2, HeadTailProperties DEF Handles
  <2> QED BY <1>2, <2>1, ComesAgain DEF Handles
<1> QED BY <1>1, <1>2

\* A start or a restart that is queued stays queued until it is handled.
LEMMA StillQueued ==
  ASSUME NEW q \in Seq(Message), NEW r \in Seq(Message), NEW p, NEW type, ~Has(p, type),
         Puts(q, p, r) \/ (Handles(q, p, r) /\ Head(q).type # type)
  PROVE  ~Has(q, type)
  BY HasStays DEF Puts, Handles

\* One message behind.
LEMMA OneMore ==
  ASSUME NEW q \in Seq(Message), NEW m \in Message
  PROVE  /\ <<m>> \in Seq(Message) /\ Puts(q, Append(q, m), <<m>>)
         /\ \A K : m \notin K => Silent(<<m>>, K)
         /\ \A K : m \in K => Mentions(<<m>>, K) /\ Agrees(<<m>>, K, Word(m))
<1>1. <<m>> \in Seq(Message) /\ Len(<<m>>) = 1 /\ <<m>>[1] = m
  OBVIOUS
<1>2. Append(q, m) = q \o <<m>>
  BY AppendIsConcat
<1> QED BY <1>1, <1>2 DEF Puts, Silent, Mentions, Agrees

\* A message has one kind.
LEMMA Kinds ==
  ASSUME NEW m \in Message
  PROVE  /\ m \in Net <=> m.type = "EnableData"
         /\ m \in Srv <=> m.type = "SetServer"
         /\ \A k \in Keys : m \in ConfOf(k) <=> m.type = "Conf" /\ m.key = k
  BY Fields DEF Net, Srv, ConfOf

\* What the modem has been told is the same.
SameTold ==
  modem'.up = modem.up /\ modem'.conf = modem.conf /\ modem'.host = modem.host
    /\ modem'.data = modem.data

\* A step that only queues and handles plain messages.
LEMMA PlainStep ==
  ASSUME LocInv, SameTold, UNCHANGED <<inited, agps, conf, host, data, unnamed>>, NEW r \in Seq(Plain),
         \/ Puts(queue, queue', r)
         \/ Handles(queue, queue', r) /\ Head(queue) \in Plain /\ Head(queue).type \notin {"Init", "Up"}
  PROVE  SettingsCome' /\ ServerComes'
<1>1. queue \in Seq(Message)
  BY DEF LocInv, Shape
<1>2. /\ r \in Seq(Message) /\ Silent(r, Net) /\ Silent(r, Srv)
      /\ \A k \in Keys : Silent(r, ConfOf(k))
  BY PlainIsSilent
<1>3. CASE Puts(queue, queue', r)
  <2>1. \A type : ~Has(queue', type) => ~Has(queue, type)
    BY <1>1, <1>2, <1>3, StillQueued
  <2>2. \A K, have, v : Silent(r, K) /\ Comes(queue, K, have, v) => Comes(queue', K, have, v)
    BY <1>1, <1>2, <1>3, ComesStill
  <2> QED BY <1>2, <2>1, <2>2 DEF LocInv, SettingsCome, ServerComes, SameTold
<1>4. CASE /\ Handles(queue, queue', r) /\ Head(queue) \in Plain
           /\ Head(queue).type \notin {"Init", "Up"}
  <2>1. \A type \in {"Init", "Up"} : ~Has(queue', type) => ~Has(queue, type)
    BY <1>1, <1>2, <1>4, StillQueued
  <2>2. \A K, have, v : Silent(r, K) /\ Head(queue) \notin K /\ Comes(queue, K, have, v)
          => Comes(queue', K, have, v)
    BY <1>1, <1>2, <1>4, ComesStill
  <2>3. Head(queue).type \notin {"Conf", "EnableData", "SetServer"} /\ Head(queue) \in Message
    BY <1>4, Messages DEF Plain
  <2>4. /\ Head(queue) \notin Net /\ Head(queue) \notin Srv
        /\ \A k \in Keys : Head(queue) \notin ConfOf(k)
    BY <2>3, Kinds
  <2> QED BY <1>2, <2>1, <2>2, <2>4 DEF LocInv, SettingsCome, ServerComes, SameTold
<1> QED BY <1>3, <1>4

\* A call of the framework: it queues what it changes.
LEMMA CallsKeepComing == ASSUME LocInv, CallSteps PROVE SettingsCome' /\ ServerComes'
<1>1. queue \in Seq(Message) /\ engTypeOK
  BY DEF LocInv, Shape
<1>2. ASSUME NEW m \in Plain, queue' = Append(queue, m), SameTold,
             UNCHANGED <<inited, agps, conf, host, data, unnamed>>
      PROVE  SettingsCome' /\ ServerComes'
  <2>1. m \in Message /\ <<m>> \in Seq(Plain)
    BY Messages
  <2>2. Puts(queue, queue', <<m>>)
    BY <1>1, <1>2, <2>1, OneMore
  <2> QED BY <1>2, <2>1, <2>2, PlainStep
<1>3. CASE LocInit
  <2>1. Msg("Init") \in Message /\ Msg("Init").type = "Init"
    BY Messages DEF Msg
  <2>2. queue' = Append(queue, Msg("Init")) /\ host' = Unset
    BY <1>3 DEF LocInit
  <2> DEFINE m == Msg("Init")
  <2>3. Has(queue', "Init")
    <3>1. /\ Len(Append(queue, m)) = Len(queue) + 1 /\ Append(queue, m)[Len(queue) + 1] = m
          /\ Len(queue) \in Nat
      BY <1>1
    <3>2. Len(queue) + 1 \in 1..Len(queue')
      BY <2>2, <3>1
    <3> QED BY <2>1, <2>2, <3>1, <3>2 DEF Has
  <2> QED BY <2>2, <2>3 DEF SettingsCome, ServerComes
<1>4. CASE AgpsInit
  <2>1. UNCHANGED <<inited, conf, host, data, unnamed, modem>>
    BY <1>4 DEF AgpsInit, World
  <2>2. CASE host = Unset
    <3>1. queue' = queue \o <<>> /\ <<>> \in Seq(Plain)
      BY <1>4, <2>2 DEF AgpsInit
    <3>2. queue' = queue
      BY <1>1, <3>1
    <3> QED BY <2>1, <2>2, <3>2 DEF LocInv, SettingsCome, ServerComes
  <2>3. CASE host # Unset
    <3> DEFINE m == [type |-> "SetServer", value |-> host]
    <3>1. m \in Srv /\ m \in Message
      BY <1>1, <2>3, Messages DEF engTypeOK
    <3>2. m.type = "SetServer" /\ Word(m) = host
      BY DEF Word
    <3>3. queue' = queue \o <<m>>
      BY <1>4, <2>3 DEF AgpsInit
    <3> HIDE DEF m
    <3>4. /\ <<m>> \in Seq(Message) /\ Puts(queue, queue', <<m>>)
          /\ Mentions(<<m>>, Srv) /\ Agrees(<<m>>, Srv, host)
      BY <1>1, <3>1, <3>2, <3>3, OneMore DEF Puts
    <3>5. Silent(<<m>>, Net) /\ \A k \in Keys : Silent(<<m>>, ConfOf(k))
      BY <1>1, <3>1, <3>2, OneMore, Kinds
    <3>6. Comes(queue', Srv, modem.host, host)
      BY <1>1, <3>4, ComesAnew
    <3>7. \A K, have, v : Silent(<<m>>, K) /\ Comes(queue, K, have, v) => Comes(queue', K, have, v)
      BY <1>1, <3>4, ComesStill
    <3>8. \A type : ~Has(queue', type) => ~Has(queue, type)
      BY <1>1, <3>4, StillQueued
    <3> QED BY <2>1, <3>5, <3>6, <3>7, <3>8 DEF LocInv, SettingsCome, ServerComes
  <2> QED BY <2>2, <2>3
<1>5. ASSUME NEW once \in BOOLEAN, SetPositionMode(once) PROVE SettingsCome' /\ ServerComes'
  BY <1>2, <1>5, Messages DEF SetPositionMode, World, SameTold
<1>6. CASE Start
  BY <1>2, <1>6, Messages DEF Start, World, SameTold
<1>7. CASE Stop
  BY <1>2, <1>7, Messages DEF Stop, World, SameTold
<1>8. CASE Cleanup
  <2>1. CASE navigating
    BY <1>2, <1>8, <2>1, Messages DEF Cleanup, World, SameTold
  <2>2. CASE ~navigating
    BY <1>8, <2>2 DEF Cleanup, World, LocInv, SettingsCome, ServerComes
  <2> QED BY <2>1, <2>2
<1>9. ASSUME NEW f \in SUBSET Aiding, DeleteAidingData(f) PROVE SettingsCome' /\ ServerComes'
  BY <1>2, <1>9, Messages DEF DeleteAidingData, World, SameTold
<1>10. ASSUME NEW k \in Keys, NEW v \in Values, ConfigurationUpdate(k, v)
       PROVE  SettingsCome' /\ ServerComes'
  <2> DEFINE m == [type |-> "Conf", key |-> k, value |-> v]
  <2>1. m \in ConfOf(k) /\ m \in Message /\ m.type = "Conf" /\ m.key = k /\ Word(m) = v
    BY Messages DEF Word
  <2>2. UNCHANGED <<inited, agps, host, data, unnamed, modem>> /\ (inited => queue' = Append(queue, m))
    BY <1>10 DEF ConfigurationUpdate, World
  <2>3. conf'[k] = v /\ \A j \in Keys : j # k => conf'[j] = conf[j]
    BY <1>1, <1>10 DEF ConfigurationUpdate, engTypeOK
  <2> HIDE DEF m
  <2>4. CASE ~inited
    BY <2>2, <2>4 DEF SettingsCome, ServerComes
  <2>5. CASE inited
    <3>1. /\ <<m>> \in Seq(Message) /\ Puts(queue, queue', <<m>>)
          /\ Mentions(<<m>>, ConfOf(k)) /\ Agrees(<<m>>, ConfOf(k), v)
      BY <1>1, <2>1, <2>2, <2>5, OneMore
    <3>2. /\ Silent(<<m>>, Net) /\ Silent(<<m>>, Srv)
          /\ \A j \in Keys : j # k => Silent(<<m>>, ConfOf(j))
      BY <1>1, <2>1, OneMore, Kinds
    <3>3. Comes(queue', ConfOf(k), modem.conf[k], v)
      BY <1>1, <3>1, ComesAnew
    <3>4. \A K, have, w : Silent(<<m>>, K) /\ Comes(queue, K, have, w) => Comes(queue', K, have, w)
      BY <1>1, <3>1, ComesStill
    <3>5. \A type : ~Has(queue', type) => ~Has(queue, type)
      BY <1>1, <3>1, StillQueued
    <3>6. SettingsCome'
      BY <2>2, <2>3, <3>2, <3>3, <3>4, <3>5 DEF LocInv, SettingsCome
    <3>7. ServerComes'
      BY <2>2, <3>2, <3>4, <3>5 DEF LocInv, ServerComes
    <3> QED BY <3>6, <3>7
  <2> QED BY <2>4, <2>5
<1>11. ASSUME NEW v \in Values, SetServer(v) PROVE SettingsCome' /\ ServerComes'
  <2> DEFINE m == [type |-> "SetServer", value |-> v]
  <2>1. m \in Srv /\ m \in Message /\ m.type = "SetServer" /\ Word(m) = v
    BY Messages DEF Word
  <2>2. UNCHANGED <<inited, agps, conf, data, unnamed, modem>> /\ (inited => queue' = Append(queue, m)) /\ host' = v
    BY <1>11 DEF SetServer, World
  <2> HIDE DEF m
  <2>3. CASE ~inited
    BY <2>2, <2>3 DEF SettingsCome, ServerComes
  <2>4. CASE inited
    <3>1. /\ <<m>> \in Seq(Message) /\ Puts(queue, queue', <<m>>)
          /\ Mentions(<<m>>, Srv) /\ Agrees(<<m>>, Srv, v)
      BY <1>1, <2>1, <2>2, <2>4, OneMore
    <3>2. Silent(<<m>>, Net) /\ \A k \in Keys : Silent(<<m>>, ConfOf(k))
      BY <1>1, <2>1, OneMore, Kinds
    <3>3. Comes(queue', Srv, modem.host, v)
      BY <1>1, <3>1, ComesAnew
    <3>4. \A K, have, w : Silent(<<m>>, K) /\ Comes(queue, K, have, w) => Comes(queue', K, have, w)
      BY <1>1, <3>1, ComesStill
    <3>5. \A type : ~Has(queue', type) => ~Has(queue, type)
      BY <1>1, <3>1, StillQueued
    <3> QED BY <2>2, <3>2, <3>3, <3>4, <3>5 DEF LocInv, SettingsCome, ServerComes
  <2> QED BY <2>3, <2>4
<1>12. ASSUME NEW v \in Values, NEW apn \in BOOLEAN, NetworkAvailability(v, apn) PROVE SettingsCome' /\ ServerComes'
  <2> DEFINE m == [type |-> "EnableData", value |-> v]
  <2>1. m \in Net /\ m \in Message /\ m.type = "EnableData" /\ Word(m) = v
    BY Messages DEF Word
  <2>2. /\ UNCHANGED <<inited, agps, conf, host, modem>> /\ data' = v
        /\ inited /\ apn => queue' = Append(queue, m)
        /\ ~apn => queue' = queue /\ unnamed'
    BY <1>12 DEF NetworkAvailability
  <2> HIDE DEF m
  <2>3. CASE ~inited
    BY <2>2, <2>3 DEF SettingsCome, ServerComes
  <2>5. CASE ~apn
    BY <2>2, <2>5 DEF LocInv, SettingsCome, ServerComes
  <2>4. CASE inited /\ apn
    <3>1. /\ <<m>> \in Seq(Message) /\ Puts(queue, queue', <<m>>)
          /\ Mentions(<<m>>, Net) /\ Agrees(<<m>>, Net, v)
      BY <1>1, <2>1, <2>2, <2>4, OneMore
    <3>2. Silent(<<m>>, Srv) /\ \A k \in Keys : Silent(<<m>>, ConfOf(k))
      BY <1>1, <2>1, OneMore, Kinds
    <3>3. Comes(queue', Net, modem.data, v)
      BY <1>1, <3>1, ComesAnew
    <3>4. \A K, have, w : Silent(<<m>>, K) /\ Comes(queue, K, have, w) => Comes(queue', K, have, w)
      BY <1>1, <3>1, ComesStill
    <3>5. \A type : ~Has(queue', type) => ~Has(queue, type)
      BY <1>1, <3>1, StillQueued
    <3> QED BY <2>2, <3>2, <3>3, <3>4, <3>5 DEF LocInv, SettingsCome, ServerComes
  <2> QED BY <2>3, <2>4, <2>5
<1>13. CASE MuteOneSession
  BY <1>13 DEF MuteOneSession, World, LocInv, SettingsCome, ServerComes
<1> QED BY <1>3, <1>4, <1>5, <1>6, <1>7, <1>8, <1>9, <1>10, <1>11, <1>12, <1>13 DEF CallSteps

\* A report of the modem: one that has been down has been told nothing, and its start is
\* queued.
LEMMA ModemKeepsComing == ASSUME LocInv, ModemSteps \/ ModemUp PROVE SettingsCome' /\ ServerComes'
<1>1. queue \in Seq(Message) /\ modem \in Modem
  BY DEF LocInv, Shape
<1>2. CASE ModemDown
  <2>1. ~modem'.up
    BY <1>2 DEF ModemDown, Fresh
  <2> QED BY <2>1 DEF SettingsCome, ServerComes
<1>3. CASE ModemUp
  <2>1. queue' = queue \o <<Msg("Up")>> /\ Msg("Up").type = "Up"
    BY <1>3 DEF ModemUp, Report, Msg
  <2> DEFINE m == Msg("Up")
  <2>2. m \in Message
    BY Messages
  <2> HIDE DEF m
  <2>3. /\ Len(queue \o <<m>>) = Len(queue) + 1 /\ (queue \o <<m>>)[Len(queue) + 1] = m
        /\ Len(queue) \in Nat
    BY <1>1, <2>2
  <2>4. Len(queue) + 1 \in 1..Len(queue \o <<m>>)
    BY <2>3
  <2>5. Has(queue', "Up")
    BY <2>1, <2>3, <2>4 DEF Has, m
  <2> QED BY <2>5 DEF SettingsCome, ServerComes
<1>4. ASSUME NEW s \in {"final", "intermediate"}, NEW b \in BOOLEAN, ModemFix(s, b)
      PROVE  SettingsCome' /\ ServerComes'
  <2> DEFINE m == [type |-> "Position", status |-> s, seen |-> b]
             e == IF modem.once /\ s = "final" THEN <<Status("end"), Status("off")>> ELSE <<>>
  <2>1. m \in Plain /\ Status("end") \in Plain /\ Status("off") \in Plain
    BY Messages
  <2>2. <<m>> \in Seq(Plain) /\ e \in Seq(Plain)
    BY <2>1
  <2>3. queue' = queue \o (<<m>> \o e)
    BY <1>4 DEF ModemFix, Report
  <2>4. SameTold
    BY <1>1, <1>4 DEF ModemFix, SameTold, Modem
  <2>5. UNCHANGED <<inited, agps, conf, host, data, unnamed>>
    BY <1>4 DEF ModemFix, Rest
  <2> HIDE DEF m, e
  <2>6. <<m>> \o e \in Seq(Plain)
    BY <2>2, ConcatProperties
  <2> QED BY <2>3, <2>4, <2>5, <2>6, PlainStep DEF Puts
<1> QED BY <1>2, <1>3, <1>4 DEF ModemSteps

\* A message handled: what it says has come, the others come still; a start or a restart
\* queues everything again.
LEMMA ProcKeepsComing ==
  ASSUME LocEngineAssumption, LocInv, Proc PROVE SettingsCome' /\ ServerComes'
<1>1. queue \in Seq(Message) /\ engTypeOK /\ modem \in Modem /\ Shape
  BY DEF LocInv, Shape
<1>2. queue # <<>>
  BY DEF Proc, Receives, ProcInit, ProcConf, ProcEnableData, ProcSetServer, ProcPositionMode,
         ProcStartFix, ProcStopFix, ProcPosition, ProcStatus, ProcDelAid, ProcDown, ProcUp
<1>3. Head(queue) \in Message /\ Tail(queue) \in Seq(Message)
  BY <1>1, <1>2, QueueKept
<1>4. BeginsSession \in Seq(Plain) /\ EndsSession \in Seq(Plain) /\ <<>> \in Seq(Plain)
  BY Messages DEF BeginsSession, EndsSession
<1>5. ASSUME NEW type, type \notin {"Conf", "EnableData", "SetServer", "Init", "Up"}, Receives(type),
             NEW r \in Seq(Plain), Sends(r), SameTold, UNCHANGED <<inited, agps, conf, host, data, unnamed>>
      PROVE  SettingsCome' /\ ServerComes'
  <2>1. Head(queue) \in Plain /\ Head(queue).type \notin {"Init", "Up"}
    BY <1>3, <1>5, Fields DEF Receives, Head1
  <2>2. Handles(queue, queue', r)
    BY <1>2, <1>5 DEF Handles, Sends
  <2> QED BY <1>5, <2>1, <2>2, PlainStep
<1>6. CASE ProcInit
  <2>1. /\ Handles(queue, queue', ReinitMsgs) /\ Head(queue).type = "Init"
        /\ UNCHANGED <<inited, agps, conf, host, data, modem>>
    BY <1>2, <1>6 DEF ProcInit, Receives, Sends, Handles, Head1, Globals, Given
  <2>2. /\ \A k \in Keys : Comes(queue', ConfOf(k), modem.conf[k], conf[k])
        /\ Comes(queue', Net, modem.data, data)
    BY <1>1, <2>1, ReinitSays, ComesAnew
  <2>3. ~Has(queue', "Up") => ~Has(queue, "Up")
    BY <1>1, <2>1, ReinitSays, StillQueued
  <2>4. Head(queue) \notin Srv
    BY <1>3, <2>1, Kinds
  <2>5. Comes(queue, Srv, modem.host, host) => Comes(queue', Srv, modem.host, host)
    BY <1>1, <2>1, <2>4, ReinitSays, ComesStill
  <2> QED BY <2>1, <2>2, <2>3, <2>5 DEF LocInv, SettingsCome, ServerComes
<1>7. CASE ProcUp
  <2>1. /\ Handles(queue, queue', UpMsgs)
        /\ UNCHANGED <<inited, agps, conf, host, data, modem>>
    BY <1>2, <1>7 DEF ProcUp, Sends, Handles, UpMsgs, Globals, Given
  <2>2. /\ \A k \in Keys : Comes(queue', ConfOf(k), modem.conf[k], conf[k])
        /\ Comes(queue', Net, modem.data, data)
    BY <1>1, <2>1, UpSays, ComesAnew
  <2>3. agps /\ host # Unset => Comes(queue', Srv, modem.host, host)
    BY <1>1, <2>1, UpSays, ComesAnew
  <2> QED BY <2>1, <2>2, <2>3 DEF SettingsCome, ServerComes
<1>8. ASSUME NEW type, type \notin {"Init", "Up"}, Receives(type), Sends(<<>>)
      PROVE  /\ \A t \in {"Init", "Up"} : ~Has(queue', t) => ~Has(queue, t)
             /\ \A K, have, v : Comes(queue, K, have, v) =>
                  /\ Head(queue) \notin K => Comes(queue', K, have, v)
                  /\ Head(queue) \in K => Comes(queue', K, Word(Head(queue)), v)
  <2>1. Handles(queue, queue', <<>>) /\ <<>> \in Seq(Message) /\ \A K : Silent(<<>>, K)
    BY <1>2, <1>8 DEF Handles, Sends, Silent
  <2>2. \A t \in {"Init", "Up"} : ~Has(queue', t) => ~Has(queue, t)
    BY <1>1, <1>8, <2>1, StillQueued DEF Receives, Head1
  <2>3. \A K, have, v : Comes(queue, K, have, v) =>
          /\ Head(queue) \notin K => Comes(queue', K, have, v)
          /\ Head(queue) \in K => Comes(queue', K, Word(Head(queue)), v)
    BY <1>1, <2>1, ComesStill
  <2> QED BY <2>2, <2>3
<1>9. CASE ProcConf
  <2>1. /\ Receives("Conf") /\ Sends(<<>>) /\ Head(queue).type = "Conf"
        /\ UNCHANGED <<inited, agps, conf, host, data, unnamed>>
    BY <1>9 DEF ProcConf, Receives, Head1, Globals, Given
  <2>2. Head(queue) \in ConfOf(Head(queue).key) /\ Head(queue).key \in Keys
    BY <1>3, <2>1, Fields
  <2>3. /\ Head(queue) \notin Net /\ Head(queue) \notin Srv
        /\ \A k \in Keys : Head(queue) \in ConfOf(k) <=> Head(queue).key = k
    BY <1>3, <2>1, Kinds
  <2>4. /\ modem'.up = modem.up /\ modem'.host = modem.host /\ modem'.data = modem.data
        /\ modem.up =>
             /\ modem'.conf[Head(queue).key] = Word(Head(queue))
             /\ \A k \in Keys : k # Head(queue).key => modem'.conf[k] = modem.conf[k]
    <3>1. Word(Head(queue)) = Head(queue).value
      BY <2>1, SettingSays
    <3> QED BY <1>1, <1>9, <2>2, <3>1 DEF ProcConf, Tell, Modem, Head1
  <2>5. SettingsCome'
    BY <1>8, <2>1, <2>3, <2>4 DEF LocInv, SettingsCome
  <2>6. ServerComes'
    BY <1>8, <2>1, <2>3, <2>4 DEF LocInv, ServerComes
  <2> QED BY <2>5, <2>6
<1>10. CASE ProcEnableData
  <2>1. /\ Receives("EnableData") /\ Sends(<<>>) /\ Head(queue).type = "EnableData"
        /\ UNCHANGED <<inited, agps, conf, host, data, unnamed>>
    BY <1>10 DEF ProcEnableData, Receives, Head1, Globals, Given
  <2>2. /\ Head(queue) \in Net /\ Head(queue) \notin Srv
        /\ \A k \in Keys : Head(queue) \notin ConfOf(k)
    BY <1>3, <2>1, Kinds
  <2>3. /\ modem'.up = modem.up /\ modem'.host = modem.host /\ modem'.conf = modem.conf
        /\ modem.up => modem'.data = Word(Head(queue))
    <3>1. Word(Head(queue)) = Head(queue).value
      BY <2>1, SettingSays
    <3> QED BY <1>1, <1>10, <3>1 DEF ProcEnableData, Tell, Modem, Head1
  <2> QED BY <1>8, <2>1, <2>2, <2>3 DEF LocInv, SettingsCome, ServerComes
<1>11. CASE ProcSetServer
  <2>1. /\ Receives("SetServer") /\ Sends(<<>>) /\ Head(queue).type = "SetServer"
        /\ UNCHANGED <<inited, agps, conf, host, data, unnamed>>
    BY <1>11 DEF ProcSetServer, Receives, Head1, Globals, Given
  <2>2. /\ Head(queue) \in Srv /\ Head(queue) \notin Net
        /\ \A k \in Keys : Head(queue) \notin ConfOf(k)
    BY <1>3, <2>1, Kinds
  <2>3. /\ modem'.up = modem.up /\ modem'.data = modem.data /\ modem'.conf = modem.conf
        /\ modem.up => modem'.host = Word(Head(queue))
    <3>1. Word(Head(queue)) = Head(queue).value
      BY <2>1, SettingSays
    <3> QED BY <1>1, <1>11, <3>1 DEF ProcSetServer, Tell, Modem, Head1
  <2> QED BY <1>8, <2>1, <2>2, <2>3 DEF LocInv, SettingsCome, ServerComes
<1>12. CASE ProcPositionMode
  BY <1>4, <1>5, <1>12 DEF ProcPositionMode, SameTold, Globals, Given
<1>13. CASE ProcStartFix
  <2>1. SameTold
    BY <1>1, <1>13 DEF ProcStartFix, StartTaken, StartRefused, SameTold, Modem
  <2>2. \E r \in Seq(Plain) : Sends(r)
    BY <1>4, <1>13 DEF ProcStartFix, StartTaken, StartRefused
  <2> QED BY <1>5, <1>13, <2>1, <2>2 DEF ProcStartFix, Globals, Given
<1>14. CASE ProcStopFix
  <2>1. SameTold
    BY <1>1, <1>14 DEF ProcStopFix, SameTold, Modem
  <2>2. \E r \in Seq(Plain) : Sends(r)
    BY <1>4, <1>14 DEF ProcStopFix
  <2> QED BY <1>5, <1>14, <2>1, <2>2 DEF ProcStopFix, Globals, Given
<1>15. CASE ProcPosition
  <2>1. SameTold
    BY <1>1, <1>15 DEF ProcPosition, SameTold, Modem
  <2>2. \E r \in Seq(Plain) : Sends(r)
    BY <1>4, <1>15 DEF ProcPosition
  <2> QED BY <1>5, <1>15, <2>1, <2>2 DEF ProcPosition, Globals, Given
<1>16. CASE ProcStatus
  BY <1>4, <1>5, <1>16 DEF ProcStatus, SameTold, Globals, Given
<1>17. CASE ProcDelAid
  BY <1>4, <1>5, <1>17 DEF ProcDelAid, SameTold, Globals, Given
<1>18. CASE ProcDown
  BY <1>4, <1>5, <1>18 DEF ProcDown, SameTold, Globals, Given
<1> QED BY <1>6, <1>7, <1>9, <1>10, <1>11, <1>12, <1>13, <1>14, <1>15, <1>16, <1>17, <1>18 DEF Proc

-----------------------------------------------------------------------------
(* The theorems.                                                            *)

\* The inductive invariant.
LEMMA Invariant == ASSUME LocEngineAssumption PROVE engSpec => []LocInv
<1>1. engInit => LocInv
  BY InvStarts
<1>2. LocInv /\ [engNext]_engVars => LocInv'
  <2> SUFFICES ASSUME LocInv, [engNext]_engVars PROVE LocInv'
    OBVIOUS
  <2>1. CASE CallSteps
    BY <2>1, CallsKeepShape, CallsKeepComing DEF LocInv
  <2>2. CASE ModemSteps \/ ModemUp
    BY <2>2, ModemKeepsShape, ModemKeepsComing DEF LocInv
  <2>3. CASE Proc
    BY <2>3, ProcKeepsShape, ProcKeepsComing DEF LocInv
  <2>4. CASE UNCHANGED engVars
    BY <2>4 DEF engVars, hal, LocInv, Shape, engTypeOK, SettingsCome, ServerComes
  <2> QED BY <2>1, <2>2, <2>3, <2>4 DEF engNext
<1> QED BY <1>1, <1>2, PTL DEF engSpec

\* The location engine's state keeps its type (loc_eng_data_s_type, LocEngAdapter),
\* whatever messages the calls of the framework and the modem's reports become.
THEOREM LocTypeCorrect == ASSUME LocEngineAssumption PROVE engSpec => []engTypeOK
<1>1. LocInv => engTypeOK
  BY DEF LocInv, Shape
<1> QED BY <1>1, Invariant, PTL

\* A modem that is up and to which nothing is queued has the settings, the network state
\* and the server that the framework gave last, however often it has been restarted and
\* whatever was queued in between (loc_eng_reinit, loc_eng_agps_reinit,
\* loc_eng_handle_engine_up).
THEOREM ModemIsToldAll == ASSUME LocEngineAssumption PROVE engSpec => []ModemKnows
<1>1. LocInv => ModemKnows
  <2> SUFFICES ASSUME LocInv, AtRest
               PROVE  /\ modem.conf = conf /\ (unnamed \/ modem.data = data)
                      /\ agps /\ host # Unset => modem.host = host
    BY DEF ModemKnows
  <2>1. queue = <<>> /\ inited /\ modem.up
    BY DEF AtRest
  <2>2. \A K, have, v : Comes(<<>>, K, have, v) => have = v
    BY DEF Comes
  <2>3. ~Has(<<>>, "Init") /\ ~Has(<<>>, "Up")
    BY DEF Has
  <2>4. \A k \in Keys : modem.conf[k] = conf[k]
    BY <2>1, <2>2, <2>3 DEF LocInv, SettingsCome
  <2>5. modem.conf \in [Keys -> Values \cup {Unset}] /\ conf \in [Keys -> Values]
    BY DEF LocInv, Shape, engTypeOK, Modem
  <2>6. modem.conf = conf
    BY <2>4, <2>5
  <2> QED BY <2>1, <2>2, <2>3, <2>6 DEF LocInv, SettingsCome, ServerComes
<1> QED BY <1>1, Invariant, PTL

-----------------------------------------------------------------------------
(* The session.                                                             *)

App == [wants : BOOLEAN, set : BOOLEAN, host : Values \cup {Unset}, told : {"begin", "end"}]

OfType(type) == {m \in Message : m.type = type}
Starts == OfType("StartFix")
Stops == OfType("StopFix")
Control == Starts \cup Stops
Ups == OfType("Up")
Modes == OfType("PositionMode")
Finals == {m \in OfType("Position") : m.status = "final"}
Endings == OfType("Down") \cup {m \in OfType("Status") : m.status \in {"begin", "off"}}
Statuses == OfType("Down") \cup {m \in OfType("Status") : m.status # "on"}

\* The messages that concern the session.
Vocal == Control \cup Ups \cup Modes \cup OfType("Position") \cup Statuses

Runs(b) == IF b THEN "runs" ELSE "stops"

\* A message of B is queued behind one of A.
Behind(q, A, B) == \E i, j \in 1..Len(q) : i < j /\ q[i] \in A /\ q[j] \in B

\* Between what runs, or will, and a new mode there is a stop: modes change in no session.
Parted(q, running) ==
  \A i \in 1..Len(q) : q[i] \in Modes =>
    /\ running => \E n \in 1..i - 1 : q[n] \in Stops
    /\ \A j \in 1..i - 1 : q[j] \in Starts => \E n \in j + 1..i - 1 : q[n] \in Stops

\* When all is handled the HAL navigates as the framework wants, but for a start that the
\* modem has refused; a stop comes before the restart that would outlive it.
WantsCome ==
  \/ refusal = "dropped" /\ Silent(queue, Control)
  \/ Comes(queue, Control, Runs(navigating), Runs(app.wants))
DroppedIsOut == refusal = "dropped" => ~navigating
StopsInTime == ~Behind(queue, Ups, Stops)
ModesApart == Parted(queue, navigating)

\* A session runs on a modem whose restart has been handled, in the mode that is set, and
\* its last fix is not queued; and a HAL that navigates has one, but for a last fix.
SessionIsKnown ==
  modem.session => /\ modem.up /\ refusal = "none" /\ Silent(queue, Ups)
                   /\ navigating /\ modem.once = criteria.once
                   /\ criteria.once => Silent(queue, Finals)
SessionRuns ==
  navigating /\ modem.up /\ refusal = "none" /\ Silent(queue, Ups) /\ ~modem.session =>
    criteria.once /\ ~Silent(queue, Finals)

\* The framework will be told that there is none, or that there is one.
EndIsTold == ~modem.session => Comes(queue, Endings, app.told, "end")
BeginIsTold ==
  modem.session => Comes(queue, Statuses, IF mute = "none" THEN app.told ELSE "begin", "begin")

Session ==
  /\ WantsCome /\ StopsInTime /\ ModesApart /\ DroppedIsOut
  /\ SessionIsKnown /\ SessionRuns /\ EndIsTold /\ BeginIsTold

SessionInv == LocInv /\ app \in App /\ (~missed => Session)

\* What is silent, and what is behind, after a step.
SilentIn(q, p, r, K) ==
  /\ Puts(q, p, r) => (Silent(p, K) <=> Silent(q, K) /\ Silent(r, K))
  /\ Handles(q, p, r) => /\ Silent(q, K) /\ Silent(r, K) => Silent(p, K)
                         /\ Silent(p, K) => Silent(r, K) /\ (Head(q) \notin K => Silent(q, K))

LEMMA SilentStep ==
  ASSUME NEW q \in Seq(Message), NEW r \in Seq(Message), NEW p, NEW K
  PROVE  SilentIn(q, p, r, K)
<1>1. ASSUME NEW s \in Seq(Message)
      PROVE  Silent(s \o r, K) <=> Silent(s, K) /\ Silent(r, K)
  <2>1. Silent(s, K) /\ Silent(r, K) => Silent(s \o r, K)
    BY Joined
  <2>2. Mentions(s, K) \/ Mentions(r, K) => Mentions(s \o r, K)
    BY Joined
  <2> QED BY <2>1, <2>2 DEF Silent, Mentions
<1>2. CASE q # <<>>
  <2>1. /\ Tail(q) \in Seq(Message) /\ Len(q) \in Nat /\ Len(q) # 0 /\ Len(Tail(q)) = Len(q) - 1
        /\ \A i \in 1..Len(Tail(q)) : Tail(q)[i] = q[i + 1]
    BY <1>2, HeadTailProperties, LenProperties, EmptySeq
  <2>2. Head(q) = q[1]
    BY <2>1
  <2>3. \A i \in 1..Len(Tail(q)) : i + 1 \in 1..Len(q) /\ Tail(q)[i] = q[i + 1]
    BY <2>1
  <2>4. \A i \in 1..Len(q) : i = 1 \/ (i - 1 \in 1..Len(Tail(q)) /\ Tail(q)[i - 1] = q[i])
    <3> SUFFICES ASSUME NEW i \in 1..Len(q), i # 1
                 PROVE  i - 1 \in 1..Len(Tail(q)) /\ Tail(q)[i - 1] = q[i]
      OBVIOUS
    <3>1. i - 1 \in 1..Len(Tail(q)) /\ (i - 1) + 1 = i
      BY <2>1
    <3> QED BY <3>1, <2>1
  <2>5. Silent(q, K) => Silent(Tail(q), K)
    BY <2>3 DEF Silent
  <2>6. Head(q) \notin K /\ Silent(Tail(q), K) => Silent(q, K)
    BY <2>2, <2>4 DEF Silent
  <2>7. Silent(q \o r, K) <=> Silent(q, K) /\ Silent(r, K)
    BY <1>1
  <2>8. Silent(Tail(q) \o r, K) <=> Silent(Tail(q), K) /\ Silent(r, K)
    BY <1>1, <2>1
  <2>9. Puts(q, p, r) => (Silent(p, K) <=> Silent(q, K) /\ Silent(r, K))
    BY <2>7 DEF Puts
  <2>10. Handles(q, p, r) => p = Tail(q) \o r
    BY DEF Handles
  <2> QED BY <2>5, <2>6, <2>8, <2>9, <2>10 DEF SilentIn
<1>3. CASE q = <<>>
  BY <1>1, <1>3, ZenonT(40) DEF Puts, Handles, SilentIn
<1> QED BY <1>2, <1>3

LEMMA BehindStep ==
  ASSUME NEW q \in Seq(Message), NEW r \in Seq(Message), NEW p, NEW A, NEW B, ~Behind(q, A, B),
         Puts(q, p, r) \/ Handles(q, p, r),
         ~Behind(r, A, B), Silent(r, B) \/ Silent(q, A)
  PROVE  ~Behind(p, A, B)
<1>1. ASSUME NEW s \in Seq(Message), ~Behind(s, A, B), Silent(r, B) \/ Silent(s, A)
      PROVE  ~Behind(s \o r, A, B)
  <2>1. /\ Len(s) \in Nat /\ Len(r) \in Nat /\ Len(s \o r) = Len(s) + Len(r)
        /\ \A i \in 1..Len(s) + Len(r) :
             (s \o r)[i] = IF i <= Len(s) THEN s[i] ELSE r[i - Len(s)]
    BY ConcatProperties, LenProperties
  <2>2. \A i \in 1..Len(s \o r) :
          \/ i \in 1..Len(s) /\ (s \o r)[i] = s[i]
          \/ i > Len(s) /\ i - Len(s) \in 1..Len(r) /\ (s \o r)[i] = r[i - Len(s)]
    BY <2>1
  <2> SUFFICES ASSUME NEW i \in 1..Len(s \o r), NEW j \in 1..Len(s \o r), i < j,
                      (s \o r)[i] \in A, (s \o r)[j] \in B
               PROVE  FALSE
    BY DEF Behind
  <2>3. CASE j \in 1..Len(s) /\ (s \o r)[j] = s[j]
    <3>1. i \in 1..Len(s) /\ ~(i > Len(s))
      BY <2>1, <2>3
    <3> QED BY <1>1, <2>2, <2>3, <3>1 DEF Behind
  <2>4. CASE j > Len(s) /\ j - Len(s) \in 1..Len(r) /\ (s \o r)[j] = r[j - Len(s)]
    <3>1. Silent(s, A)
      BY <1>1, <2>4 DEF Silent
    <3>2. i > Len(s) /\ i - Len(s) \in 1..Len(r) /\ (s \o r)[i] = r[i - Len(s)]
      BY <2>2, <3>1 DEF Silent
    <3>3. i - Len(s) < j - Len(s)
      BY <2>1, <2>4, <3>2
    <3> QED BY <2>4, <3>2, <3>3 DEF Behind
  <2> QED BY <2>2, <2>3, <2>4
<1>2. ASSUME q # <<>>
      PROVE  Tail(q) \in Seq(Message) /\ ~Behind(Tail(q), A, B) /\ (Silent(q, A) => Silent(Tail(q), A))
  <2>1. /\ Tail(q) \in Seq(Message) /\ Len(q) \in Nat /\ Len(Tail(q)) = Len(q) - 1
        /\ \A i \in 1..Len(Tail(q)) : Tail(q)[i] = q[i + 1]
    BY <1>2, HeadTailProperties, LenProperties
  <2>2. \A i \in 1..Len(Tail(q)) : i + 1 \in 1..Len(q) /\ Tail(q)[i] = q[i + 1]
    BY <2>1
  <2>3. \A i, j \in 1..Len(Tail(q)) : i < j => i + 1 < j + 1
    BY <2>1
  <2>4. ~Behind(Tail(q), A, B)
    BY <2>2, <2>3 DEF Behind
  <2> QED BY <2>1, <2>2, <2>4 DEF Silent
<1>3. CASE Puts(q, p, r)
  BY <1>1, <1>3 DEF Puts
<1>4. CASE Handles(q, p, r)
  BY <1>1, <1>2, <1>4 DEF Handles
<1> QED BY <1>3, <1>4

\* What is behind the head.
LEMMA BehindHead ==
  ASSUME NEW q \in Seq(Message), q # <<>>, NEW A, NEW B, ~Behind(q, A, B), Head(q) \in A
  PROVE  Silent(Tail(q), B)
<1>1. /\ Tail(q) \in Seq(Message) /\ Len(q) \in Nat /\ Len(q) # 0 /\ Len(Tail(q)) = Len(q) - 1
      /\ \A i \in 1..Len(Tail(q)) : Tail(q)[i] = q[i + 1]
  BY HeadTailProperties, LenProperties, EmptySeq
<1>2. Head(q) = q[1] /\ 1 \in 1..Len(q)
  BY <1>1
<1>3. \A i \in 1..Len(Tail(q)) : i + 1 \in 1..Len(q) /\ 1 < i + 1 /\ Tail(q)[i] = q[i + 1]
  BY <1>1
<1> QED BY <1>2, <1>3 DEF Behind, Silent

\* Modes stay apart when none is queued.
LEMMA PartedStill ==
  ASSUME NEW q \in Seq(Message), NEW r \in Seq(Message), NEW running,
         Parted(q, running), Silent(r, Modes)
  PROVE  Parted(q \o r, running)
<1>1. /\ Len(q) \in Nat /\ Len(r) \in Nat /\ Len(q \o r) = Len(q) + Len(r)
      /\ \A i \in 1..Len(q) + Len(r) :
           (q \o r)[i] = IF i <= Len(q) THEN q[i] ELSE r[i - Len(q)]
  BY ConcatProperties, LenProperties
<1>2. \A i \in 1..Len(q) : i \in 1..Len(q \o r) /\ (q \o r)[i] = q[i]
  BY <1>1
<1>3. \A i \in 1..Len(q \o r) : i \notin 1..Len(q) => i - Len(q) \in 1..Len(r) /\ (q \o r)[i] = r[i - Len(q)]
  BY <1>1
<1> SUFFICES ASSUME NEW i \in 1..Len(q \o r), (q \o r)[i] \in Modes
             PROVE  /\ running => \E n \in 1..i - 1 : (q \o r)[n] \in Stops
                    /\ \A j \in 1..i - 1 : (q \o r)[j] \in Starts =>
                         \E n \in j + 1..i - 1 : (q \o r)[n] \in Stops
  BY DEF Parted
<1>4. i \in 1..Len(q)
  BY <1>3 DEF Silent
<1>5. \A n \in 1..i - 1 : n \in 1..Len(q)
  BY <1>1, <1>4
<1>6. \A j \in 1..i - 1 : \A n \in j + 1..i - 1 : n \in 1..i - 1
  OBVIOUS
<1>7. q[i] \in Modes
  BY <1>2, <1>4
<1>8. running => \E n \in 1..i - 1 : (q \o r)[n] \in Stops
  BY <1>2, <1>4, <1>5, <1>7 DEF Parted
<1>9. ASSUME NEW j \in 1..i - 1, (q \o r)[j] \in Starts
      PROVE  \E n \in j + 1..i - 1 : (q \o r)[n] \in Stops
  <2>1. q[j] \in Starts
    BY <1>2, <1>5, <1>9
  <2>2. PICK n \in j + 1..i - 1 : q[n] \in Stops
    BY <1>4, <1>7, <2>1 DEF Parted
  <2>3. (q \o r)[n] \in Stops
    BY <1>2, <1>5, <1>6, <2>2
  <2> QED BY <2>3
<1> QED BY <1>8, <1>9

\* And when one is queued behind a stop.
LEMMA PartedMore ==
  ASSUME NEW q \in Seq(Message), NEW m \in Modes, NEW b \in BOOLEAN, Parted(q, b),
         Comes(q, Control, Runs(b), "stops")
  PROVE  Parted(q \o <<m>>, b)
<1> DEFINE p == q \o <<m>>
<1>1. /\ Len(q) \in Nat /\ Len(p) = Len(q) + 1 /\ p[Len(q) + 1] = m
      /\ \A i \in 1..Len(q) : i \in 1..Len(p) /\ p[i] = q[i]
  BY DEF Modes, OfType
<1> HIDE DEF p
<1>2. ASSUME NEW i \in 1..Len(q), p[i] \in Modes
      PROVE  /\ b => \E n \in 1..i - 1 : p[n] \in Stops
             /\ \A j \in 1..i - 1 : p[j] \in Starts => \E n \in j + 1..i - 1 : p[n] \in Stops
  <2>1. \A n \in 1..i - 1 : n \in 1..Len(q) /\ p[n] = q[n]
    <3>1. \A n \in 1..i - 1 : n \in 1..Len(q)
      BY <1>1
    <3> QED BY <3>1, <1>1
  <2>2. \A j \in 1..i - 1 : \A n \in j + 1..i - 1 : n \in 1..i - 1
    OBVIOUS
  <2>3. q[i] \in Modes
    BY <1>1, <1>2
  <2>4. b => \E n \in 1..i - 1 : p[n] \in Stops
    BY <2>1, <2>3 DEF Parted
  <2>5. ASSUME NEW j \in 1..i - 1, p[j] \in Starts PROVE \E n \in j + 1..i - 1 : p[n] \in Stops
    <3>1. PICK n \in j + 1..i - 1 : q[n] \in Stops
      BY <2>1, <2>3, <2>5 DEF Parted
    <3> QED BY <3>1, <2>1, <2>2
  <2> QED BY <2>4, <2>5
<1>3. /\ b => \E n \in 1..Len(q) : p[n] \in Stops
      /\ \A j \in 1..Len(q) : p[j] \in Starts => \E n \in j + 1..Len(q) : p[n] \in Stops
  <2>1. CASE Silent(q, Control) /\ Runs(b) = "stops"
    <3>1. ~b
      BY <2>1 DEF Runs
    <3>2. \A j \in 1..Len(q) : q[j] \notin Starts
      BY <2>1 DEF Silent, Control
    <3> QED BY <1>1, <3>1, <3>2
  <2>2. ASSUME NEW k \in 1..Len(q), q[k] \in Control, SaysFrom(q, Control, k, "stops")
        PROVE  /\ b => \E n \in 1..Len(q) : p[n] \in Stops
               /\ \A j \in 1..Len(q) : p[j] \in Starts => \E n \in j + 1..Len(q) : p[n] \in Stops
    <3>1. \A x \in Starts : x \in Control /\ Word(x) = "runs"
      BY DEF Control, Starts, OfType, Word
    <3>2. \A j \in k..Len(q) : q[j] \notin Starts
      BY <2>2, <3>1 DEF SaysFrom
    <3>3. k \in k..Len(q) /\ q[k] \in Stops
      BY <2>2, <3>2 DEF Control
    <3>4. \A j \in 1..Len(q) : p[j] \in Starts => k \in j + 1..Len(q)
      <4> SUFFICES ASSUME NEW j \in 1..Len(q), p[j] \in Starts PROVE k \in j + 1..Len(q)
        OBVIOUS
      <4>1. j \notin k..Len(q)
        BY <1>1, <3>2
      <4> QED BY <4>1, <1>1
    <3> QED BY <1>1, <3>3, <3>4
  <2> QED BY <2>1, <2>2 DEF Comes
<1>4. \A i \in 1..Len(p) : i \in 1..Len(q) \/ (i = Len(q) + 1 /\ i - 1 = Len(q))
  BY <1>1
<1>5. Parted(p, b)
  BY <1>2, <1>3, <1>4 DEF Parted
<1> QED BY <1>5 DEF p

\* A mode at the head meets no session; behind the head they stay apart.
LEMMA PartedOn ==
  ASSUME NEW q \in Seq(Message), q # <<>>, NEW running, Parted(q, running)
  PROVE  /\ Head(q) \in Modes => ~running
         /\ Head(q) \in Starts => Parted(Tail(q), TRUE)
         /\ Head(q) \in Stops => Parted(Tail(q), FALSE)
         /\ Head(q) \notin Stops => Parted(Tail(q), running)
         /\ Parted(Tail(q), FALSE)
<1>1. /\ Tail(q) \in Seq(Message) /\ Len(q) \in Nat /\ Len(q) # 0 /\ Len(Tail(q)) = Len(q) - 1
      /\ \A i \in 1..Len(Tail(q)) : Tail(q)[i] = q[i + 1]
  BY HeadTailProperties, LenProperties, EmptySeq
<1>2. Head(q) = q[1] /\ 1 \in 1..Len(q)
  BY <1>1
<1>3. ASSUME Head(q) \in Modes PROVE ~running
  <2>1. \A n \in 1..1 - 1 : FALSE
    OBVIOUS
  <2> QED BY <1>2, <1>3, <2>1 DEF Parted
<1> DEFINE t == Tail(q)
<1>4. ASSUME NEW i \in 1..Len(t), t[i] \in Modes
      PROVE  /\ \A j \in 1..i - 1 : t[j] \in Starts => \E n \in j + 1..i - 1 : t[n] \in Stops
             /\ Head(q) \in Starts => \E n \in 1..i - 1 : t[n] \in Stops
             /\ running /\ Head(q) \notin Stops => \E n \in 1..i - 1 : t[n] \in Stops
  <2>1. i + 1 \in 1..Len(q) /\ q[i + 1] \in Modes /\ (i + 1) - 1 = i /\ i \in Nat
    BY <1>1, <1>4
  <2>2. \A n \in 2..i : n - 1 \in 1..i - 1 /\ t[n - 1] = q[n]
    <3> SUFFICES ASSUME NEW n \in 2..i PROVE n - 1 \in 1..i - 1 /\ t[n - 1] = q[n]
      OBVIOUS
    <3>1. n - 1 \in 1..i - 1 /\ n - 1 \in 1..Len(t) /\ (n - 1) + 1 = n
      BY <1>1, <1>4
    <3> QED BY <3>1, <1>1
  <2>3. ASSUME NEW j \in 1..i - 1, t[j] \in Starts PROVE \E n \in j + 1..i - 1 : t[n] \in Stops
    <3>1. j + 1 \in 1..i /\ j \in 1..Len(t) /\ t[j] = q[j + 1]
      BY <1>1, <1>4
    <3>2. PICK n \in (j + 1) + 1..i : q[n] \in Stops
      BY <2>1, <2>3, <3>1 DEF Parted
    <3>3. n \in 2..i /\ n - 1 \in j + 1..i - 1
      BY <3>2, <2>1
    <3> QED BY <2>2, <3>2, <3>3
  <2>4. ASSUME Head(q) \in Starts PROVE \E n \in 1..i - 1 : t[n] \in Stops
    <3>1. 1 \in 1..i /\ q[1] \in Starts
      BY <1>2, <1>4, <2>4
    <3>2. PICK n \in 1 + 1..i : q[n] \in Stops
      BY <2>1, <3>1 DEF Parted
    <3>3. n \in 2..i
      BY <3>2
    <3> QED BY <2>2, <3>2, <3>3
  <2>5. ASSUME running, Head(q) \notin Stops PROVE \E n \in 1..i - 1 : t[n] \in Stops
    <3>1. PICK n \in 1..i : q[n] \in Stops
      BY <2>1, <2>5 DEF Parted
    <3>2. n # 1
      BY <1>2, <2>5, <3>1
    <3>3. n \in 2..i
      BY <3>1, <3>2
    <3> QED BY <2>2, <3>1, <3>3
  <2> QED BY <2>3, <2>4, <2>5
<1> HIDE DEF t
<1>5. Head(q) \in Starts => Parted(t, TRUE)
  BY <1>4 DEF Parted
<1>6. Parted(t, FALSE)
  BY <1>4 DEF Parted
<1>7. Head(q) \notin Stops => Parted(t, running)
  BY <1>4 DEF Parted
<1> QED BY <1>3, <1>5, <1>6, <1>7 DEF t

\* What a step passes on of K: it is silent as before, and what comes comes.
Passes(q, p, K) ==
  (Silent(p, K) <=> Silent(q, K)) /\ \A have, v : Comes(q, K, have, v) => Comes(p, K, have, v)

LEMMA Passing ==
  ASSUME NEW q \in Seq(Message), NEW r \in Seq(Message), NEW p, NEW K, Silent(r, K),
         Puts(q, p, r) \/ (Handles(q, p, r) /\ Head(q) \notin K)
  PROVE  Passes(q, p, K)
<1>1. SilentIn(q, p, r, K)
  BY SilentStep
<1>2. Silent(p, K) <=> Silent(q, K)
  BY <1>1 DEF SilentIn
<1>3. \A have, v : Comes(q, K, have, v) => Comes(p, K, have, v)
  BY ComesStill
<1> QED BY <1>2, <1>3 DEF Passes

\* What has been said already, and what is said for sure, does not depend on the state.
LEMMA ComesAnyway ==
  ASSUME NEW q, NEW K, NEW have, NEW v, Comes(q, K, have, v)
  PROVE  /\ have # v => \A h : Comes(q, K, h, v)
         /\ Comes(q, K, v, v)
  BY DEF Comes

\* Where nothing starts a session none will run, and where nothing stops it one will.
LEMMA NoStarts ==
  ASSUME NEW q \in Seq(Message), Silent(q, Starts)
  PROVE  Comes(q, Control, "stops", "stops")
<1>1. \A m \in Stops : Word(m) = "stops"
  BY DEF Stops, OfType, Word
<1>2. \A i \in 1..Len(q) : q[i] \in Control => Word(q[i]) = "stops"
  BY <1>1 DEF Silent, Control
<1>3. ASSUME NEW i \in 1..Len(q), q[i] \in Control PROVE SaysFrom(q, Control, i, "stops")
  <2>1. \A j \in i..Len(q) : j \in 1..Len(q)
    BY LenProperties
  <2> QED BY <1>2, <2>1 DEF SaysFrom
<1> QED BY <1>3 DEF Comes, Silent

LEMMA NoStops ==
  ASSUME NEW q \in Seq(Message), Silent(q, Stops), NEW v, Comes(q, Control, "runs", v)
  PROVE  v = "runs"
<1>1. \A m \in Starts : Word(m) = "runs"
  BY DEF Starts, OfType, Word
<1>2. ASSUME NEW i \in 1..Len(q), q[i] \in Control, SaysFrom(q, Control, i, v) PROVE v = "runs"
  <2>1. q[i] \in Starts
    BY <1>2 DEF Silent, Control
  <2>2. i \in i..Len(q)
    BY LenProperties
  <2> QED BY <1>1, <1>2, <2>1, <2>2 DEF SaysFrom
<1> QED BY <1>2 DEF Comes

\* Each message is of the kinds its type says.
LEMMA VocalKinds ==
  ASSUME NEW m \in Message
  PROVE  /\ m \in Starts <=> m.type = "StartFix"
         /\ m \in Stops <=> m.type = "StopFix"
         /\ m \in Control <=> m.type \in {"StartFix", "StopFix"}
         /\ m \in Ups <=> m.type = "Up"
         /\ m \in Modes <=> m.type = "PositionMode"
         /\ m \in Finals <=> m.type = "Position" /\ m.status = "final"
         /\ m \in Endings <=> m.type = "Down" \/ (m.type = "Status" /\ m.status \in {"begin", "off"})
         /\ m \in Statuses <=> m.type = "Down" \/ (m.type = "Status" /\ m.status # "on")
         /\ m \in Vocal <=> m.type \in {"StartFix", "StopFix", "Up", "PositionMode", "Position", "Down"}
                             \/ (m.type = "Status" /\ m.status # "on")
  BY DEF Starts, Stops, Control, Ups, Modes, Finals, Endings, Statuses, Vocal, OfType

\* What does not concern the session is silent of all of it.
LEMMA VocalSilence ==
  ASSUME NEW r \in Seq(Message), Silent(r, Vocal)
  PROVE  /\ Silent(r, Starts) /\ Silent(r, Stops) /\ Silent(r, Control) /\ Silent(r, Ups)
         /\ Silent(r, Modes) /\ Silent(r, Finals) /\ Silent(r, Endings) /\ Silent(r, Statuses)
<1>1. \A i \in 1..Len(r) : r[i] \in Message
  BY ElementOfSeq
<1> QED BY <1>1, VocalKinds DEF Silent

\* A type that is queued.
LEMMA QueuedKinds ==
  ASSUME queue \in Seq(Message)
  PROVE  /\ Queued("Up") <=> ~Silent(queue, Ups)
         /\ Queued("StartFix") <=> ~Silent(queue, Starts)
         /\ ~Queued("Position") => Silent(queue, Finals)
<1>1. \A i \in 1..Len(queue) : queue[i] \in Message
  BY ElementOfSeq
<1> QED BY <1>1, VocalKinds DEF Silent, Queued

\* A queue where B is silent has nothing of B behind anything.
LEMMA SilentIsNotBehind ==
  ASSUME NEW q, NEW A, NEW B, Silent(q, B) PROVE ~Behind(q, A, B)
  BY DEF Silent, Behind

\* What the calls and the modem's reports queue, one message.
LEMMA OneOf ==
  ASSUME NEW m \in Message
  PROVE  /\ <<m>> \in Seq(Message) /\ ~Behind(<<m>>, Ups, Stops)
         /\ \A K : m \notin K => Silent(<<m>>, K)
         /\ \A K : m \in K => Mentions(<<m>>, K) /\ Agrees(<<m>>, K, Word(m))
<1>1. <<m>> \in Seq(Message) /\ Len(<<m>>) = 1 /\ <<m>>[1] = m
  OBVIOUS
<1>2. \A i, j \in 1..Len(<<m>>) : ~(i < j)
  BY <1>1
<1> QED BY <1>1, <1>2 DEF Silent, Mentions, Agrees, Behind

\* loc_eng_reinit says nothing of the session, loc_eng_handle_engine_up may start it.
LEMMA ReinitIsSilent ==
  ASSUME LocEngineAssumption, Shape PROVE Silent(ReinitMsgs, Vocal)
<1> DEFINE Of(k) == [type |-> "Conf", key |-> k, value |-> conf[k]]
           S == {Of(k) : k \in Keys}
           s == SetToSeq(S)
           d == <<[type |-> "EnableData", value |-> data]>>
<1>1. /\ IsFiniteSet(Keys) /\ conf \in [Keys -> Values] /\ data \in Values
  BY DEF LocEngineAssumption, Shape, engTypeOK
<1>2. IsFiniteSet(S)
  <2> DEFINE f == [k \in Keys |-> Of(k)]
  <2>1. f \in Surjection(Keys, S)
    BY DEF Surjection
  <2> QED BY <2>1, <1>1, FS_Surjection
<1>3. s \in Seq(S)
  BY <1>2, Ordered
<1>4. \A x \in S : x \in Message /\ x.type = "Conf"
  BY <1>1 DEF Message
<1>5. s \in Seq(Message)
  BY <1>3, <1>4, SeqMonotonic
<1>6. \A i \in 1..Len(s) : s[i] \in S
  BY <1>3, ElementOfSeq
<1>7. Silent(s, Vocal)
  <2> HIDE DEF s, S
  <2> QED BY <1>4, <1>6, VocalKinds DEF Silent
<1>8. [type |-> "EnableData", value |-> data] \in Message
  BY <1>1, Messages
<1>9. [type |-> "EnableData", value |-> data] \notin Vocal
  BY <1>8, VocalKinds
<1>10. d \in Seq(Message) /\ Silent(d, Vocal)
  BY <1>8, <1>9, OneOf
<1>11. ReinitMsgs = s \o d
  BY DEF ReinitMsgs
<1> HIDE DEF s, d
<1> QED BY <1>5, <1>7, <1>10, <1>11, Joined

LEMMA UpIsSilent ==
  ASSUME LocEngineAssumption, Shape
  PROVE  /\ UpMsgs \in Seq(Message)
         /\ Silent(UpMsgs, Stops) /\ Silent(UpMsgs, Ups) /\ Silent(UpMsgs, Modes)
         /\ Silent(UpMsgs, Finals) /\ Silent(UpMsgs, Endings) /\ Silent(UpMsgs, Statuses)
         /\ ~navigating => Silent(UpMsgs, Control)
         /\ navigating => Mentions(UpMsgs, Control) /\ Agrees(UpMsgs, Control, "runs")
<1> DEFINE s == IF agps /\ host # Unset THEN <<[type |-> "SetServer", value |-> host]>> ELSE <<>>
           f == IF navigating THEN <<Msg("StartFix")>> ELSE <<>>
           u == ReinitMsgs \o s
<1>1. s \in Seq(Message) /\ Silent(s, Vocal)
  <2>1. CASE agps /\ host # Unset
    <3> DEFINE m == [type |-> "SetServer", value |-> host]
    <3>1. host \in Values
      BY <2>1 DEF Shape, engTypeOK
    <3>2. m \in Message /\ m.type = "SetServer"
      BY <3>1, Messages
    <3>3. s = <<m>>
      BY <2>1
    <3> HIDE DEF m, s
    <3> QED BY <3>2, <3>3, OneOf, VocalKinds
  <2>2. CASE ~(agps /\ host # Unset)
    <3>1. s = <<>>
      BY <2>2
    <3> QED BY <3>1 DEF Silent
  <2> QED BY <2>1, <2>2
<1>2. u \in Seq(Message) /\ Silent(u, Vocal)
  <2> HIDE DEF s
  <2> QED BY <1>1, ReinitIsSilent, ReinitSays, Joined
<1>3. UpMsgs = u \o f
  BY DEF UpMsgs
<1>4. Msg("StartFix") \in Message /\ Msg("StartFix").type = "StartFix" /\ Word(Msg("StartFix")) = "runs"
  BY Messages DEF Msg, Word
<1>5. /\ f \in Seq(Message) /\ Silent(f, Stops) /\ Silent(f, Ups) /\ Silent(f, Modes)
      /\ Silent(f, Finals) /\ Silent(f, Endings) /\ Silent(f, Statuses)
      /\ ~navigating => Silent(f, Control)
      /\ navigating => Mentions(f, Control) /\ Agrees(f, Control, "runs")
  <2>1. CASE navigating
    <3>1. f = <<Msg("StartFix")>>
      BY <2>1
    <3> HIDE DEF f
    <3>2. /\ Msg("StartFix") \in Control /\ Msg("StartFix") \notin Stops /\ Msg("StartFix") \notin Ups
          /\ Msg("StartFix") \notin Modes /\ Msg("StartFix") \notin Finals
          /\ Msg("StartFix") \notin Endings /\ Msg("StartFix") \notin Statuses
      BY <1>4, VocalKinds
    <3> QED BY <1>4, <2>1, <3>1, <3>2, OneOf
  <2>2. CASE ~navigating
    <3>1. f = <<>>
      BY <2>2
    <3> QED BY <2>2, <3>1 DEF Silent
  <2> QED BY <2>1, <2>2
<1> HIDE DEF u, f
<1>6. /\ Silent(u, Stops) /\ Silent(u, Ups) /\ Silent(u, Modes) /\ Silent(u, Control)
      /\ Silent(u, Finals) /\ Silent(u, Endings) /\ Silent(u, Statuses)
  BY <1>2, VocalSilence
<1>7. Agrees(u, Control, "runs")
  BY <1>6 DEF Silent, Agrees
<1>8. \A K : Silent(u, K) /\ Silent(f, K) => Silent(UpMsgs, K)
  BY <1>2, <1>3, <1>5, Joined
<1>9. navigating => Mentions(UpMsgs, Control) /\ Agrees(UpMsgs, Control, "runs")
  BY <1>2, <1>3, <1>5, <1>7, Joined
<1>10. UpMsgs \in Seq(Message)
  BY UpSays
<1> QED BY <1>5, <1>6, <1>8, <1>9, <1>10

\* A message that is handled is gone.
LEMMA PutsOrHandles ==
  ASSUME NEW q \in Seq(Message), NEW r \in Seq(Message), NEW p, Puts(q, p, r)
  PROVE  ~Handles(q, p, r)
<1> SUFFICES ASSUME Handles(q, p, r) PROVE FALSE
  OBVIOUS
<1>1. /\ Len(q \o r) = Len(q) + Len(r) /\ Len(Tail(q) \o r) = Len(Tail(q)) + Len(r)
      /\ Len(Tail(q)) = Len(q) - 1 /\ Len(q) \in Nat /\ Len(r) \in Nat
  BY ConcatProperties, HeadTailProperties, LenProperties DEF Handles
<1> QED BY <1>1 DEF Puts, Handles

\* Modes stay apart when none is queued and no stop is handled.
LEMMA Apart ==
  ASSUME NEW q \in Seq(Message), NEW r \in Seq(Message), NEW p, NEW running,
         Parted(q, running), Silent(r, Modes),
         Puts(q, p, r) \/ (Handles(q, p, r) /\ Head(q) \notin Stops)
  PROVE  Parted(p, running)
<1>1. CASE Puts(q, p, r)
  BY <1>1, PartedStill DEF Puts
<1>2. CASE Handles(q, p, r) /\ Head(q) \notin Stops
  <2>1. Tail(q) \in Seq(Message) /\ Parted(Tail(q), running)
    BY <1>2, PartedOn, HeadTailProperties DEF Handles
  <2> QED BY <1>2, <2>1, PartedStill DEF Handles
<1> QED BY <1>1, <1>2

\* The session itself is the same, for the modem and for the HAL.
SameSession ==
  /\ modem'.up = modem.up /\ modem'.session = modem.session /\ modem'.once = modem.once
  /\ navigating' = navigating /\ criteria'.once = criteria.once /\ refusal' = refusal
  /\ app'.told = app.told /\ mute' = mute

\* A step that passes on what concerns it, and is no word of the framework's wish.
LEMMA Aside ==
  ASSUME Session, SameSession, Passes(queue, queue', Ups), Passes(queue, queue', Finals),
         Passes(queue, queue', Endings), Passes(queue, queue', Statuses)
  PROVE  SessionIsKnown' /\ SessionRuns' /\ EndIsTold' /\ BeginIsTold' /\ DroppedIsOut'
<1>5. DroppedIsOut'
  BY DEF Session, SameSession, DroppedIsOut
<1>1. SessionIsKnown'
  BY DEF Session, SameSession, Passes, SessionIsKnown
<1>2. SessionRuns'
  BY DEF Session, SameSession, Passes, SessionRuns
<1>3. EndIsTold'
  BY DEF Session, SameSession, Passes, EndIsTold
<1>4. BeginIsTold'
  BY DEF Session, SameSession, Passes, BeginIsTold
<1> QED BY <1>1, <1>2, <1>3, <1>4, <1>5

\* A step that does not concern the session.
LEMMA QuietStep ==
  ASSUME queue \in Seq(Message), Session, SameSession, app'.wants = app.wants,
         NEW r \in Seq(Message), Silent(r, Vocal),
         Puts(queue, queue', r) \/ (Handles(queue, queue', r) /\ Head(queue) \in Message \ Vocal)
  PROVE  Session'
<1>1. /\ Silent(r, Starts) /\ Silent(r, Stops) /\ Silent(r, Control) /\ Silent(r, Ups)
      /\ Silent(r, Modes) /\ Silent(r, Finals) /\ Silent(r, Endings) /\ Silent(r, Statuses)
  BY VocalSilence
<1>2. Handles(queue, queue', r) =>
        /\ Head(queue) \notin Stops /\ Head(queue) \notin Control /\ Head(queue) \notin Ups
        /\ Head(queue) \notin Finals /\ Head(queue) \notin Endings /\ Head(queue) \notin Statuses
  <2>1. Handles(queue, queue', r) => Head(queue) \in Message \ Vocal \/ Puts(queue, queue', r)
    OBVIOUS
  <2>2. Puts(queue, queue', r) => ~Handles(queue, queue', r)
    BY PutsOrHandles
  <2> QED BY <2>1, <2>2, VocalKinds
<1>3. ASSUME NEW K \in {Control, Ups, Finals, Endings, Statuses} PROVE Passes(queue, queue', K)
  <2>1. Silent(r, K) /\ (Handles(queue, queue', r) => Head(queue) \notin K)
    BY <1>1, <1>2
  <2> QED BY <2>1, Passing
<1>4. SessionIsKnown' /\ SessionRuns' /\ EndIsTold' /\ BeginIsTold' /\ DroppedIsOut'
  BY <1>3, Aside
<1>5. WantsCome'
  BY <1>3 DEF Session, SameSession, WantsCome, Passes
<1>6. StopsInTime'
  <2>1. ~Behind(r, Ups, Stops)
    BY <1>1, SilentIsNotBehind
  <2> QED BY <1>1, <2>1, BehindStep DEF Session, StopsInTime
<1>7. ModesApart'
  <2>1. Parted(queue', navigating)
    BY <1>1, <1>2, Apart DEF Session, ModesApart
  <2> QED BY <2>1 DEF SameSession, ModesApart
<1> QED BY <1>4, <1>5, <1>6, <1>7 DEF Session

\* What one more message passes on.
LEMMA OnePasses ==
  ASSUME queue \in Seq(Message), NEW m \in Message, queue' = Append(queue, m), NEW K, m \notin K
  PROVE  Passes(queue, queue', K)
<1>1. <<m>> \in Seq(Message) /\ Puts(queue, queue', <<m>>) /\ Silent(<<m>>, K)
  BY OneMore
<1> QED BY <1>1, Passing

\* A call that does not concern the session.
LEMMA QuietCall ==
  ASSUME queue \in Seq(Message), Session, UNCHANGED <<Handled, modem, refusal>>,
         app'.wants = app.wants, app'.told = app.told, NEW m \in Message,
         m.type \in {"Init", "Conf", "EnableData", "SetServer", "DelAid"},
         queue' = queue \/ queue' = Append(queue, m)
  PROVE  Session'
<1>1. SameSession
  BY DEF SameSession, Handled
<1>2. CASE queue' = Append(queue, m)
  <2>1. m \notin Vocal
    BY VocalKinds
  <2>2. <<m>> \in Seq(Message) /\ Puts(queue, queue', <<m>>) /\ Silent(<<m>>, Vocal)
    BY <1>2, <2>1, OneMore
  <2> QED BY <1>1, <2>2, QuietStep
<1>3. CASE queue' = queue
  <2>1. <<>> \in Seq(Message) /\ Silent(<<>>, Vocal) /\ queue \o <<>> = queue
    BY DEF Silent
  <2>2. Puts(queue, queue', <<>>)
    BY <1>3, <2>1 DEF Puts
  <2> QED BY <1>1, <2>1, <2>2, QuietStep
<1> QED BY <1>2, <1>3

\* A start or a stop that is queued behind the restarts.
LEMMA ControlCall ==
  ASSUME queue \in Seq(Message), Session, UNCHANGED <<Handled, modem, refusal>>,
         app'.told = app.told, NEW m \in Control, queue' = Append(queue, m),
         Word(m) = Runs(app'.wants), m \in Stops => Silent(queue, Ups)
  PROVE  Session'
<1>1. SameSession
  BY DEF SameSession, Handled
<1>2. /\ m \in Message /\ m \notin Ups /\ m \notin Modes /\ m \notin Finals
      /\ m \notin Endings /\ m \notin Statuses
  BY VocalKinds DEF Control, Starts, Stops, OfType
<1>3. /\ <<m>> \in Seq(Message) /\ Puts(queue, queue', <<m>>) /\ Silent(<<m>>, Modes)
      /\ m \notin Stops => Silent(<<m>>, Stops)
      /\ Mentions(<<m>>, Control) /\ Agrees(<<m>>, Control, Runs(app'.wants))
  BY <1>2, OneMore
<1>4. SessionIsKnown' /\ SessionRuns' /\ EndIsTold' /\ BeginIsTold' /\ DroppedIsOut'
  BY <1>1, <1>2, OnePasses, Aside
<1>5. WantsCome'
  BY <1>3, ComesAnew DEF WantsCome
<1>6. StopsInTime'
  <2>1. ~Behind(<<m>>, Ups, Stops)
    BY <1>2, OneOf
  <2> QED BY <1>3, <2>1, BehindStep DEF Session, StopsInTime
<1>7. ModesApart'
  <2>1. Parted(queue', navigating)
    BY <1>3, Apart DEF Session, ModesApart
  <2> QED BY <1>1, <2>1 DEF SameSession, ModesApart
<1> QED BY <1>4, <1>5, <1>6, <1>7 DEF Session

\* A mode is set when the framework wants no session: a stop is queued, or has been.
LEMMA ModeCall ==
  ASSUME LocInv, Session, NEW once \in BOOLEAN, SetPositionMode(once), app \in App
  PROVE  Session'
<1> DEFINE m == [type |-> "PositionMode", once |-> once]
<1>1. /\ m \in Message /\ m.type = "PositionMode" /\ queue' = Append(queue, m)
      /\ queue \in Seq(Message) /\ navigating \in BOOLEAN
  BY Messages DEF SetPositionMode, LocInv, Shape, engTypeOK
<1>2. SameSession /\ app'.wants = app.wants /\ ~app.wants
  BY DEF SetPositionMode, App, SameSession, Handled, World
<1> HIDE DEF m
<1>3. /\ m \in Modes /\ m \notin Control /\ m \notin Stops /\ m \notin Ups /\ m \notin Finals
      /\ m \notin Endings /\ m \notin Statuses
  BY <1>1, VocalKinds
<1>4. <<m>> \in Seq(Message) /\ Puts(queue, queue', <<m>>) /\ Silent(<<m>>, Stops)
  BY <1>1, <1>3, OneMore
<1>5. SessionIsKnown' /\ SessionRuns' /\ EndIsTold' /\ BeginIsTold' /\ DroppedIsOut'
  BY <1>1, <1>2, <1>3, OnePasses, Aside
<1>6. WantsCome'
  BY <1>1, <1>2, <1>3, OnePasses DEF Session, WantsCome, Passes, SameSession
<1>7. StopsInTime'
  <2>1. ~Behind(<<m>>, Ups, Stops)
    BY <1>1, OneOf
  <2> QED BY <1>1, <1>4, <2>1, BehindStep DEF Session, StopsInTime
<1>8. ModesApart'
  <2>1. Comes(queue, Control, Runs(navigating), "stops")
    <3>1. CASE refusal = "dropped" /\ Silent(queue, Control)
      <4>1. ~navigating /\ Silent(queue, Starts)
        BY <3>1 DEF Session, DroppedIsOut, Silent, Control
      <4> QED BY <1>1, <4>1, NoStarts DEF Runs
    <3> QED BY <1>2, <3>1 DEF Session, WantsCome, Runs
  <2>2. Parted(queue \o <<m>>, navigating)
    BY <1>1, <1>3, <2>1, PartedMore DEF Session, ModesApart
  <2>3. queue' = queue \o <<m>>
    BY <1>4 DEF Puts
  <2> QED BY <1>2, <2>2, <2>3 DEF SameSession, ModesApart
<1> QED BY <1>5, <1>6, <1>7, <1>8 DEF Session

\* loc_eng_cleanup in no session: none is queued, so none will run.
LEMMA CleanupCall ==
  ASSUME LocInv, Session, Cleanup, ~navigating, ~missed', app \in App PROVE Session'
<1>1. queue \in Seq(Message) /\ queue' = queue /\ ~Queued("StartFix")
  BY DEF Cleanup, LocInv, Shape
<1>2. SameSession /\ app'.wants = FALSE
  BY DEF Cleanup, App, SameSession, Handled, World
<1>3. Silent(queue, Starts)
  BY <1>1, QueuedKinds
<1>4. Comes(queue, Control, "stops", "stops")
  BY <1>1, <1>3, NoStarts
<1>5. WantsCome'
  BY <1>1, <1>2, <1>4 DEF WantsCome, Runs, SameSession
<1>6. \A K : Passes(queue, queue', K)
  BY <1>1 DEF Passes
<1>7. SessionIsKnown' /\ SessionRuns' /\ EndIsTold' /\ BeginIsTold' /\ DroppedIsOut'
  BY <1>2, <1>6, Aside
<1> QED BY <1>1, <1>2, <1>5, <1>7 DEF Session, StopsInTime, ModesApart, SameSession

\* The framework's calls keep what is known of the session.
LEMMA CallsKeepSession ==
  ASSUME LocInv, app \in App, Session, CallSteps, ~missed' PROVE Session'
<1>1. queue \in Seq(Message) /\ engTypeOK
  BY DEF LocInv, Shape
<1>2. CASE LocInit
  <2>1. Msg("Init") \in Message /\ Msg("Init").type = "Init"
    BY Messages DEF Msg
  <2> QED BY <1>1, <1>2, <2>1, QuietCall DEF LocInit, World
<1>3. CASE AgpsInit
  <2>1. CASE host = Unset
    <3>1. queue' = queue /\ Msg("Init") \in Message /\ Msg("Init").type = "Init"
      BY <1>1, <1>3, <2>1, Messages DEF AgpsInit, Msg
    <3> QED BY <1>1, <1>3, <3>1, QuietCall DEF AgpsInit, World
  <2>2. CASE host # Unset
    <3> DEFINE m == [type |-> "SetServer", value |-> host]
    <3>1. m \in Message /\ m.type = "SetServer"
      BY <1>1, <2>2, Messages DEF engTypeOK
    <3>2. queue' = queue \o <<m>>
      BY <1>3, <2>2 DEF AgpsInit
    <3> HIDE DEF m
    <3>3. queue' = Append(queue, m)
      BY <1>1, <3>1, <3>2, AppendIsConcat
    <3> QED BY <1>1, <1>3, <3>1, <3>3, QuietCall DEF AgpsInit, World
  <2> QED BY <2>1, <2>2
<1>4. ASSUME NEW once \in BOOLEAN, SetPositionMode(once) PROVE Session'
  BY <1>4, ModeCall
<1>5. CASE Start
  <2>1. Msg("StartFix") \in Control /\ Msg("StartFix") \notin Stops /\ Word(Msg("StartFix")) = "runs"
    BY Messages DEF Control, Starts, Stops, OfType, Msg, Word
  <2>2. app'.wants = TRUE /\ app'.told = app.told
    BY <1>5 DEF Start, App
  <2> QED BY <1>1, <1>5, <2>1, <2>2, ControlCall DEF Start, World, Runs
<1>6. Msg("StopFix") \in Control /\ Word(Msg("StopFix")) = "stops"
  BY Messages DEF Control, Stops, OfType, Msg, Word
<1>7. CASE Stop
  <2>1. app'.wants = FALSE /\ app'.told = app.told /\ ~Queued("Up")
    BY <1>7 DEF Stop, App
  <2>2. Silent(queue, Ups)
    BY <1>1, <2>1, QueuedKinds
  <2> QED BY <1>1, <1>6, <1>7, <2>1, <2>2, ControlCall DEF Stop, World, Runs
<1>8. CASE Cleanup
  <2>1. CASE navigating
    <3>1. app'.wants = FALSE /\ app'.told = app.told /\ ~Queued("Up") /\ queue' = Append(queue, Msg("StopFix"))
      BY <1>8, <2>1 DEF Cleanup, App
    <3>2. Silent(queue, Ups)
      BY <1>1, <3>1, QueuedKinds
    <3> QED BY <1>1, <1>6, <1>8, <3>1, <3>2, ControlCall DEF Cleanup, World, Runs
  <2>2. CASE ~navigating
    BY <1>8, <2>2, CleanupCall
  <2> QED BY <2>1, <2>2
<1>9. ASSUME NEW f \in (SUBSET Aiding) \ {{}}, DeleteAidingData(f) PROVE Session'
  <2> DEFINE m == [type |-> "DelAid", value |-> f]
  <2>1. m \in Message /\ m.type = "DelAid" /\ queue' = Append(queue, m)
    BY <1>9, Messages DEF DeleteAidingData
  <2> HIDE DEF m
  <2> QED BY <1>1, <1>9, <2>1, QuietCall DEF DeleteAidingData, World
<1>10. ASSUME NEW k \in Keys, NEW v \in Values, ConfigurationUpdate(k, v) PROVE Session'
  <2> DEFINE m == [type |-> "Conf", key |-> k, value |-> v]
  <2>1. m \in Message /\ m.type = "Conf" /\ (queue' = Append(queue, m) \/ queue' = queue)
    BY <1>10, Messages DEF ConfigurationUpdate
  <2> HIDE DEF m
  <2> QED BY <1>1, <1>10, <2>1, QuietCall DEF ConfigurationUpdate, World
<1>11. ASSUME NEW v \in Values, SetServer(v) PROVE Session'
  <2> DEFINE m == [type |-> "SetServer", value |-> v]
  <2>1. m \in Message /\ m.type = "SetServer" /\ (queue' = Append(queue, m) \/ queue' = queue)
    BY <1>11, Messages DEF SetServer
  <2>2. app'.wants = app.wants /\ app'.told = app.told
    BY <1>11 DEF SetServer, App
  <2> HIDE DEF m
  <2> QED BY <1>1, <1>11, <2>1, <2>2, QuietCall DEF SetServer, World
<1>12. ASSUME NEW v \in Values, NEW apn \in BOOLEAN, NetworkAvailability(v, apn) PROVE Session'
  <2> DEFINE m == [type |-> "EnableData", value |-> v]
  <2>1. m \in Message /\ m.type = "EnableData" /\ (queue' = Append(queue, m) \/ queue' = queue)
    BY <1>12, Messages DEF NetworkAvailability
  <2> HIDE DEF m
  <2> QED BY <1>1, <1>12, <2>1, QuietCall DEF NetworkAvailability, World
<1>13. CASE MuteOneSession
  <2>1. /\ UNCHANGED <<queue, navigating, criteria, refusal, modem, app>> /\ mute' = "wait"
    BY <1>13 DEF MuteOneSession, World
  <2>2. modem.session => Comes(queue, Statuses, "begin", "begin")
    BY ComesAnyway DEF Session, BeginIsTold
  <2>3. BeginIsTold'
    BY <2>1, <2>2 DEF BeginIsTold
  <2> QED BY <2>1, <2>3 DEF Session, WantsCome, StopsInTime, ModesApart, DroppedIsOut, SessionIsKnown,
                            SessionRuns, EndIsTold
<1> QED BY <1>2, <1>3, <1>4, <1>5, <1>7, <1>8, <1>9, <1>10, <1>11, <1>12, <1>13 DEF CallSteps

\* A step with no word on what is to run and on modes.
LEMMA WishKept ==
  ASSUME queue \in Seq(Message), Session, NEW r \in Seq(Message),
         Puts(queue, queue', r) \/ (Handles(queue, queue', r) /\ Head(queue) \notin Control),
         Silent(r, Control), Silent(r, Modes), navigating' = navigating, app'.wants = app.wants,
         refusal' = refusal
  PROVE  WantsCome' /\ StopsInTime' /\ ModesApart' /\ DroppedIsOut'
<1>1. WantsCome'
  BY Passing DEF Session, WantsCome, Passes
<1>2. Silent(r, Stops) /\ (Head(queue) \in Stops => Head(queue) \in Control)
  BY DEF Silent, Control
<1>3. StopsInTime'
  BY <1>2, SilentIsNotBehind, BehindStep DEF Session, StopsInTime
<1>4. Parted(queue', navigating)
  BY <1>2, Apart DEF Session, ModesApart
<1>5. ModesApart'
  BY <1>4 DEF ModesApart
<1>6. DroppedIsOut'
  BY DEF Session, DroppedIsOut
<1> QED BY <1>1, <1>3, <1>5, <1>6

\* A modem that goes down says so; one that comes up has no session.
LEMMA ModemKeepsSession ==
  ASSUME LocInv, Session, ModemDown \/ ModemUp PROVE Session'
<1>1. queue \in Seq(Message) /\ modem \in Modem
  BY DEF LocInv, Shape
<1>2. UNCHANGED <<navigating, app, criteria, mute, refusal>>
  BY DEF ModemDown, ModemUp, Rest, Handled
<1>3. ASSUME NEW type \in {"Down", "Up"}, queue' = queue \o <<Msg(type)>>
      PROVE  /\ WantsCome' /\ StopsInTime' /\ ModesApart' /\ DroppedIsOut'
             /\ Msg(type) \in Message /\ Msg(type).type = type
             /\ <<Msg(type)>> \in Seq(Message) /\ Puts(queue, queue', <<Msg(type)>>)
  <2> DEFINE m == Msg(type)
  <2>1. m \in Message /\ m.type = type
    BY Messages DEF Msg
  <2> HIDE DEF m
  <2>2. m \notin Control /\ m \notin Modes
    BY <2>1, VocalKinds
  <2>3. <<m>> \in Seq(Message) /\ Silent(<<m>>, Control) /\ Silent(<<m>>, Modes)
    BY <2>1, <2>2, OneOf
  <2>4. Puts(queue, queue', <<m>>)
    BY <1>3 DEF Puts, m
  <2>5. WantsCome' /\ StopsInTime' /\ ModesApart' /\ DroppedIsOut'
    BY <1>1, <1>2, <2>3, <2>4, WishKept
  <2> QED BY <2>1, <2>3, <2>4, <2>5 DEF m
<1>4. CASE ModemDown
  <2>1. queue' = queue \o <<Msg("Down")>> /\ ~modem'.up /\ ~modem'.session
    BY <1>4 DEF ModemDown, Report, Fresh
  <2>2. Msg("Down") \in Endings /\ Word(Msg("Down")) = "end"
    BY <1>3, <2>1, VocalKinds DEF Word
  <2>3. EndIsTold'
    BY <1>1, <1>3, <2>1, <2>2, OneOf, ComesAnew DEF EndIsTold
  <2> QED BY <1>3, <2>1, <2>3 DEF Session, SessionIsKnown, SessionRuns, BeginIsTold
<1>5. CASE ModemUp
  <2>1. queue' = queue \o <<Msg("Up")>> /\ ~modem'.session
    BY <1>1, <1>5 DEF ModemUp, Report, Modem, Session, SessionIsKnown
  <2>2. Msg("Up") \in Ups /\ Msg("Up") \notin Endings
    BY <1>3, <2>1, VocalKinds
  <2>3. ~Silent(queue', Ups)
    <3>1. Mentions(<<Msg("Up")>>, Ups)
      BY <1>3, <2>1, <2>2, OneOf
    <3>2. Mentions(queue', Ups)
      BY <1>1, <1>3, <2>1, <3>1, Joined
    <3> QED BY <3>2 DEF Mentions, Silent
  <2>4. EndIsTold'
    <3>1. Passes(queue, queue', Endings)
      BY <1>1, <1>3, <2>1, <2>2, OneOf, Passing
    <3>2. ~modem.session
      BY <1>5 DEF ModemUp, Session, SessionIsKnown
    <3> QED BY <1>2, <3>1, <3>2 DEF Session, EndIsTold, Passes
  <2> QED BY <1>3, <2>1, <2>3, <2>4 DEF Session, SessionIsKnown, SessionRuns, BeginIsTold
<1> QED BY <1>4, <1>5

\* A fix is no word on the session, but the last one of a session for one fix, which the
\* modem follows with the session's end.
LEMMA FixKeepsSession ==
  ASSUME LocInv, Session, NEW s \in {"final", "intermediate"}, NEW b \in BOOLEAN, ModemFix(s, b)
  PROVE  Session'
<1> DEFINE m == [type |-> "Position", status |-> s, seen |-> b]
           ends == modem.once /\ s = "final"
           e == IF ends THEN <<Status("end"), Status("off")>> ELSE <<>>
<1>1. queue \in Seq(Message) /\ modem \in Modem
  BY DEF LocInv, Shape
<1>2. UNCHANGED <<navigating, app, criteria, mute, refusal>>
  BY DEF ModemFix, Rest, Handled
<1>3. /\ modem.session /\ modem'.up = modem.up /\ modem'.once = modem.once
      /\ modem'.session = ~ends
  BY <1>1 DEF ModemFix, Modem
<1>4. m \in Message /\ m.type = "Position" /\ m.status = s
  BY Messages
<1>5. /\ Status("end") \in Message /\ Status("end").type = "Status" /\ Status("end").status = "end"
      /\ Status("off") \in Message /\ Status("off").type = "Status" /\ Status("off").status = "off"
      /\ Word(Status("end")) = "end" /\ Word(Status("off")) = "end"
  BY Messages DEF Status, Word
<1>6. queue' = queue \o (<<m>> \o e)
  BY DEF ModemFix, Report
<1>7. modem.up /\ navigating /\ modem.once = criteria.once /\ Silent(queue, Ups)
  BY <1>3 DEF Session, SessionIsKnown
<1>8. /\ m \notin Control /\ m \notin Modes /\ m \notin Ups /\ m \notin Endings /\ m \notin Statuses
      /\ m \in Finals <=> s = "final"
  <2> HIDE DEF m
  <2> QED BY <1>4, VocalKinds
<1>9. /\ <<m>> \in Seq(Message) /\ Silent(<<m>>, Control) /\ Silent(<<m>>, Modes)
      /\ Silent(<<m>>, Ups) /\ Silent(<<m>>, Endings) /\ Silent(<<m>>, Statuses)
      /\ s = "final" => Mentions(<<m>>, Finals)
      /\ s # "final" => Silent(<<m>>, Finals)
  <2> HIDE DEF m
  <2> QED BY <1>4, <1>8, OneOf
<1>10. CASE ends
  <2>1. Status("end") \notin Control /\ Status("end") \notin Modes /\ Status("off") \notin Control
        /\ Status("off") \notin Modes /\ Status("off") \in Endings
    BY <1>5, VocalKinds
  <2>2. /\ e \in Seq(Message) /\ Len(e) = 2 /\ e[1] = Status("end") /\ e[2] = Status("off")
        /\ \A i \in 1..Len(e) : i = 1 \/ i = 2
    BY <1>5, <1>10
  <2> HIDE DEF e, m
  <2>3. Silent(e, Control) /\ Silent(e, Modes)
    BY <2>1, <2>2 DEF Silent
  <2>4. Mentions(e, Endings) /\ Agrees(e, Endings, "end")
    BY <1>5, <2>1, <2>2 DEF Mentions, Agrees
  <2> DEFINE r == <<m>> \o e
  <2>5. /\ r \in Seq(Message) /\ Silent(r, Control) /\ Silent(r, Modes) /\ Mentions(r, Finals)
        /\ Mentions(r, Endings) /\ Agrees(r, Endings, "end")
    <3>1. Agrees(<<m>>, Endings, "end")
      BY <1>9 DEF Agrees, Silent
    <3> QED BY <1>9, <1>10, <2>2, <2>3, <2>4, <3>1, Joined
  <2>6. Puts(queue, queue', r)
    BY <1>6 DEF Puts
  <2>7. Mentions(queue', Finals)
    BY <1>1, <1>6, <2>5, Joined
  <2> HIDE DEF r
  <2>8. WantsCome' /\ StopsInTime' /\ ModesApart' /\ DroppedIsOut'
    BY <1>1, <1>2, <2>5, <2>6, WishKept
  <2>9. EndIsTold'
    BY <1>1, <2>5, <2>6, ComesAnew DEF EndIsTold
  <2>10. SessionRuns'
    BY <1>2, <1>7, <1>10, <2>7 DEF SessionRuns, Mentions, Silent
  <2> QED BY <1>3, <1>10, <2>8, <2>9, <2>10 DEF Session, SessionIsKnown, BeginIsTold
<1>11. CASE ~ends
  <2>1. e = <<>>
    BY <1>11
  <2> HIDE DEF e, m
  <2>2. <<m>> \o e = <<m>>
    BY <1>9, <2>1
  <2>3. Puts(queue, queue', <<m>>)
    BY <1>6, <2>2 DEF Puts
  <2>4. WantsCome' /\ StopsInTime' /\ ModesApart' /\ DroppedIsOut'
    BY <1>1, <1>2, <1>9, <2>3, WishKept
  <2>5. Passes(queue, queue', Ups) /\ Passes(queue, queue', Statuses)
        /\ (s # "final" => Passes(queue, queue', Finals))
    BY <1>1, <1>9, <2>3, Passing
  <2>6. SessionIsKnown'
    BY <1>2, <1>3, <1>7, <1>11, <2>5 DEF Session, SessionIsKnown, Passes
  <2>7. BeginIsTold'
    BY <1>2, <1>3, <2>5 DEF Session, BeginIsTold, Passes
  <2> QED BY <1>3, <1>11, <2>4, <2>6, <2>7 DEF Session, SessionRuns, EndIsTold
<1> QED BY <1>10, <1>11

-----------------------------------------------------------------------------
(* The message thread and the session.                                      *)

\* The message that is handled, and what it queues; a queue that a message of K heads is
\* not silent of K.
LEMMA TakesHead ==
  ASSUME queue \in Seq(Message), NEW type, Receives(type), NEW r, Sends(r)
  PROVE  /\ queue # <<>> /\ Head1 = Head(queue) /\ Head1 \in Message /\ Head1.type = type
         /\ Tail(queue) \in Seq(Message) /\ Handles(queue, queue', r)
<1>1. queue # <<>> /\ Head1 = Head(queue) /\ Head1.type = type
  BY DEF Receives, Head1
<1>2. Head(queue) \in Message /\ Tail(queue) \in Seq(Message)
  BY <1>1, QueueKept
<1> QED BY <1>1, <1>2 DEF Sends, Handles

LEMMA HeadIsLoud ==
  ASSUME NEW q \in Seq(Message), q # <<>>, NEW K, Head(q) \in K PROVE ~Silent(q, K)
<1>1. Len(q) \in Nat /\ Len(q) # 0 /\ Head(q) = q[1]
  BY LenProperties, EmptySeq
<1>2. 1 \in 1..Len(q)
  BY <1>1
<1> QED BY <1>1, <1>2 DEF Silent

LEMMA NothingSent ==
  /\ <<>> \in Seq(Message)
  /\ \A K : Silent(<<>>, K)
  /\ \A A, B : ~Behind(<<>>, A, B)
  BY DEF Silent, Behind

\* The messages of a session's begin and of its end.
LEMMA SessionSays ==
  /\ BeginsSession \in Seq(Message) /\ EndsSession \in Seq(Message)
  /\ \A K \in {Starts, Stops, Control, Ups, Modes, Finals} :
       Silent(BeginsSession, K) /\ Silent(EndsSession, K)
  /\ modem.session => Mentions(EndsSession, Endings) /\ Agrees(EndsSession, Endings, "end")
  /\ ~modem.session => EndsSession = <<>>
  /\ ~modem.session /\ modem.up =>
       Mentions(BeginsSession, Statuses) /\ Agrees(BeginsSession, Statuses, "begin")
  /\ ~modem.up => BeginsSession = <<>>
<1>1. \A s \in {"begin", "end", "on", "off"} :
        /\ Status(s) \in Message /\ Status(s).type = "Status" /\ Status(s).status = s
        /\ Word(Status(s)) = IF s = "begin" THEN "begin" ELSE "end"
  BY Messages DEF Status, Word
<1>2. \A s \in {"begin", "end", "on", "off"} :
        /\ \A K \in {Starts, Stops, Control, Ups, Modes, Finals} : Status(s) \notin K
        /\ Status(s) \in Endings <=> s \in {"begin", "off"}
        /\ Status(s) \in Statuses <=> s # "on"
  BY <1>1, VocalKinds
<1>3. ASSUME NEW a \in {"begin", "end", "on", "off"}, NEW b \in {"begin", "end", "on", "off"}
      PROVE  /\ <<Status(a), Status(b)>> \in Seq(Message)
             /\ \A K \in {Starts, Stops, Control, Ups, Modes, Finals} :
                  Silent(<<Status(a), Status(b)>>, K)
             /\ \A K : Status(b) \in K => Mentions(<<Status(a), Status(b)>>, K)
             /\ \A K, v : /\ Status(b) \in K => Word(Status(b)) = v
                          /\ Status(a) \in K => Word(Status(a)) = v
                          => Agrees(<<Status(a), Status(b)>>, K, v)
  <2> DEFINE m == Status(a)
             n == Status(b)
             e == <<m, n>>
  <2>1. m \in Message /\ n \in Message
    BY <1>1
  <2>2. \A K \in {Starts, Stops, Control, Ups, Modes, Finals} : m \notin K /\ n \notin K
    BY <1>2
  <2> HIDE DEF m, n
  <2>3. e \in Seq(Message) /\ Len(e) = 2 /\ e[1] = m /\ e[2] = n /\ \A i \in 1..Len(e) : i = 1 \/ i = 2
    BY <2>1
  <2>4. 2 \in 1..Len(e)
    BY <2>3
  <2> HIDE DEF e
  <2>5. \A K \in {Starts, Stops, Control, Ups, Modes, Finals} : Silent(e, K)
    BY <2>2, <2>3 DEF Silent
  <2>6. \A K : n \in K => Mentions(e, K)
    BY <2>3, <2>4 DEF Mentions
  <2>7. \A K, v : (n \in K => Word(n) = v) /\ (m \in K => Word(m) = v) => Agrees(e, K, v)
    BY <2>3 DEF Agrees
  <2> QED BY <2>3, <2>5, <2>6, <2>7 DEF e, m, n
<1>4. /\ EndsSession = IF modem.session THEN <<Status("end"), Status("off")>> ELSE <<>>
      /\ BeginsSession = IF modem.session \/ ~modem.up THEN <<>> ELSE <<Status("on"), Status("begin")>>
  BY DEF BeginsSession, EndsSession
<1>5. /\ <<Status("end"), Status("off")>> \in Seq(Message)
      /\ \A K \in {Starts, Stops, Control, Ups, Modes, Finals} : Silent(<<Status("end"), Status("off")>>, K)
      /\ Mentions(<<Status("end"), Status("off")>>, Endings)
      /\ Agrees(<<Status("end"), Status("off")>>, Endings, "end")
  BY <1>1, <1>2, <1>3
<1>6. /\ <<Status("on"), Status("begin")>> \in Seq(Message)
      /\ \A K \in {Starts, Stops, Control, Ups, Modes, Finals} : Silent(<<Status("on"), Status("begin")>>, K)
      /\ Mentions(<<Status("on"), Status("begin")>>, Statuses)
      /\ Agrees(<<Status("on"), Status("begin")>>, Statuses, "begin")
  BY <1>1, <1>2, <1>3
<1> HIDE DEF Status
<1>7. EndsSession \in Seq(Message) /\ BeginsSession \in Seq(Message)
  BY <1>4, <1>5, <1>6, NothingSent
<1>8. \A K \in {Starts, Stops, Control, Ups, Modes, Finals} :
        Silent(BeginsSession, K) /\ Silent(EndsSession, K)
  BY <1>4, <1>5, <1>6, NothingSent
<1>9. modem.session => Mentions(EndsSession, Endings) /\ Agrees(EndsSession, Endings, "end")
  BY <1>4, <1>5
<1>10. ~modem.session /\ modem.up =>
         Mentions(BeginsSession, Statuses) /\ Agrees(BeginsSession, Statuses, "begin")
  BY <1>4, <1>6
<1> QED BY <1>4, <1>7, <1>8, <1>9, <1>10

\* A mode is set in no session.
LEMMA ModeKeepsSession ==
  ASSUME LocInv, Session, ProcPositionMode PROVE Session'
<1>1. queue \in Seq(Message) /\ navigating \in BOOLEAN
  BY DEF LocInv, Shape, engTypeOK
<1>2. /\ queue # <<>> /\ Head(queue) \in Message /\ Head(queue).type = "PositionMode"
      /\ Handles(queue, queue', <<>>)
  BY <1>1, TakesHead DEF ProcPositionMode
<1>3. UNCHANGED <<navigating, mute, modem, app, refusal>>
  BY DEF ProcPositionMode, Globals
<1>4. Head(queue) \in Modes /\ Head(queue) \notin Control /\ Head(queue) \notin Endings
  BY <1>2, VocalKinds
<1>5. ~navigating
  BY <1>1, <1>2, <1>4, PartedOn DEF Session, ModesApart
<1>6. WantsCome' /\ StopsInTime' /\ ModesApart' /\ DroppedIsOut'
  BY <1>1, <1>2, <1>3, <1>4, NothingSent, WishKept
<1>7. Passes(queue, queue', Endings)
  BY <1>1, <1>2, <1>4, NothingSent, Passing
<1>8. EndIsTold'
  BY <1>3, <1>7 DEF Session, EndIsTold, Passes
<1> QED BY <1>3, <1>5, <1>6, <1>8 DEF Session, SessionIsKnown, SessionRuns, BeginIsTold

\* A start or a stop that is handled has said its word.
LEMMA ControlHandled ==
  ASSUME queue \in Seq(Message), Session, queue # <<>>, Head(queue) \in Control,
         NEW r \in Seq(Message), Silent(r, Stops), Silent(r, Control), Silent(r, Modes),
         Handles(queue, queue', r),
         app'.wants = app.wants, navigating' \in BOOLEAN, Word(Head(queue)) = Runs(navigating'),
         Head(queue) \in Starts => navigating', Head(queue) \in Stops => ~navigating'
  PROVE  WantsCome' /\ StopsInTime' /\ ModesApart'
<1>1. WantsCome'
  <2>1. Comes(queue, Control, Runs(navigating), Runs(app.wants))
    BY HeadIsLoud DEF Session, WantsCome
  <2> QED BY <2>1, ComesStill DEF WantsCome
<1>2. StopsInTime'
  BY SilentIsNotBehind, BehindStep DEF Session, StopsInTime
<1>3. Tail(queue) \in Seq(Message) /\ Parted(Tail(queue), navigating')
  <2>1. Tail(queue) \in Seq(Message)
    BY QueueKept
  <2>2. Head(queue) \in Starts => navigating' = TRUE /\ Parted(Tail(queue), TRUE)
    BY PartedOn DEF Session, ModesApart
  <2>3. Head(queue) \in Stops => navigating' = FALSE /\ Parted(Tail(queue), FALSE)
    BY PartedOn DEF Session, ModesApart
  <2> QED BY <2>1, <2>2, <2>3 DEF Control
<1>4. Parted(Tail(queue) \o r, navigating')
  BY <1>3, PartedStill
<1>5. ModesApart'
  BY <1>4 DEF Handles, ModesApart
<1> QED BY <1>1, <1>2, <1>5

\* A start: the modem that is up begins a session and says so; no restart and no last fix of
\* the session before is queued.
LEMMA StartKeepsSession ==
  ASSUME LocInv, Session, ProcStartFix, ~missed' PROVE Session'
<1>1. queue \in Seq(Message) /\ navigating \in BOOLEAN /\ modem \in Modem
  BY DEF LocInv, Shape, engTypeOK
<1>2. /\ UNCHANGED <<mute, app>> /\ criteria'.once = criteria.once
      /\ modem.up => Silent(queue, Ups)
      /\ Silent(queue, Finals)
  BY <1>1, QueuedKinds DEF ProcStartFix, StartTaken, StartRefused, SetInSession
<1>3. ASSUME NEW r, Sends(r)
      PROVE  /\ queue # <<>> /\ Head(queue) \in Message /\ Head(queue).type = "StartFix"
             /\ Handles(queue, queue', r)
  BY <1>1, <1>3, TakesHead DEF ProcStartFix
<1>4. /\ queue # <<>> /\ Head(queue) \in Message /\ Head(queue).type = "StartFix"
      /\ Word(Head(queue)) = "runs"
  BY <1>3 DEF ProcStartFix, StartTaken, StartRefused, Word
<1>5. /\ Head(queue) \in Starts /\ Head(queue) \in Control /\ Head(queue) \notin Stops
      /\ Head(queue) \notin Ups /\ Head(queue) \notin Finals
      /\ Head(queue) \notin Endings /\ Head(queue) \notin Statuses
  BY <1>4, VocalKinds
<1>6. CASE navigating
  <2>1. Handles(queue, queue', <<>>) /\ UNCHANGED <<navigating, modem, refusal>>
    BY <1>3, <1>6 DEF ProcStartFix
  <2>2. WantsCome' /\ StopsInTime' /\ ModesApart'
    BY <1>1, <1>2, <1>4, <1>5, <1>6, <2>1, NothingSent, ControlHandled DEF Runs
  <2>3. \A K \in {Ups, Finals, Endings, Statuses} : Passes(queue, queue', K)
    BY <1>1, <1>5, <2>1, NothingSent, Passing
  <2>4. SameSession
    BY <1>2, <2>1 DEF SameSession
  <2> QED BY <2>2, <2>3, <2>4, Aside DEF Session
<1>8. CASE ~navigating /\ StartTaken
  <2> DEFINE r == BeginsSession
  <2>1. /\ Handles(queue, queue', r) /\ navigating' = TRUE /\ refusal' = "none"
        /\ r \in Seq(Message) /\ Silent(r, Stops) /\ Silent(r, Control) /\ Silent(r, Modes)
        /\ Silent(r, Ups) /\ Silent(r, Finals)
    BY <1>3, <1>8, SessionSays DEF StartTaken, SetInSession
  <2>2. WantsCome' /\ StopsInTime' /\ ModesApart'
    BY <1>1, <1>2, <1>4, <1>5, <2>1, ControlHandled DEF Runs
  <2>3. Passes(queue, queue', Ups) /\ Passes(queue, queue', Finals)
    BY <1>1, <1>5, <2>1, Passing
  <2>4. ~modem.session
    BY <1>8 DEF Session, SessionIsKnown
  <2>5. CASE modem.up
    <3>1. /\ modem'.up /\ modem'.session /\ modem'.once = criteria.once
      BY <1>1, <1>8, <2>5 DEF StartTaken, Modem
    <3>2. SessionIsKnown'
      BY <1>2, <2>1, <2>3, <2>5, <3>1 DEF SessionIsKnown, Passes
    <3>3. Mentions(r, Statuses) /\ Agrees(r, Statuses, "begin")
      BY <2>4, <2>5, SessionSays
    <3>4. BeginIsTold'
      BY <1>1, <2>1, <3>3, ComesAnew DEF BeginIsTold
    <3> QED BY <2>1, <2>2, <3>1, <3>2, <3>4 DEF Session, DroppedIsOut, SessionRuns, EndIsTold
  <2>6. CASE ~modem.up
    <3>1. modem' = modem /\ r = <<>>
      BY <1>8, <2>6, SessionSays DEF StartTaken
    <3>2. Passes(queue, queue', Endings)
      BY <1>1, <1>5, <2>1, <3>1, NothingSent, Passing
    <3>3. EndIsTold'
      BY <1>2, <2>4, <3>1, <3>2 DEF Session, EndIsTold, Passes
    <3> QED BY <2>1, <2>2, <2>4, <2>6, <3>1, <3>3
         DEF Session, DroppedIsOut, SessionIsKnown, SessionRuns, BeginIsTold
  <2> QED BY <2>5, <2>6
<1>9. CASE ~navigating /\ StartRefused
  <2>1. /\ Handles(queue, queue', <<>>) /\ UNCHANGED modem /\ ~modem.session
        /\ \/ refusal' = "kept" /\ navigating' = TRUE
           \/ refusal' = "dropped" /\ navigating' = FALSE
    BY <1>1, <1>3, <1>9 DEF StartRefused, SetInSession, Session, SessionIsKnown
  <2>2. Passes(queue, queue', Endings)
    BY <1>1, <1>5, <2>1, NothingSent, Passing
  <2>3. EndIsTold'
    BY <1>2, <2>1, <2>2 DEF Session, EndIsTold, Passes
  <2>4. SessionIsKnown' /\ SessionRuns' /\ BeginIsTold' /\ DroppedIsOut'
    BY <2>1 DEF SessionIsKnown, SessionRuns, BeginIsTold, DroppedIsOut
  <2>5. CASE navigating'
    <3>1. WantsCome' /\ StopsInTime' /\ ModesApart'
      BY <1>1, <1>2, <1>4, <1>5, <2>1, <2>5, NothingSent, ControlHandled DEF Runs
    <3> QED BY <2>3, <2>4, <3>1 DEF Session
  <2>6. CASE refusal' = "dropped" /\ navigating' = FALSE
    <3>1. StopsInTime'
      BY <1>1, <2>1, NothingSent, SilentIsNotBehind, BehindStep DEF Session, StopsInTime
    <3>2. ModesApart'
      <4>1. Tail(queue) \in Seq(Message) /\ Parted(Tail(queue), FALSE)
        BY <1>1, <1>4, QueueKept, PartedOn DEF Session, ModesApart
      <4>2. Parted(Tail(queue) \o <<>>, FALSE)
        BY <4>1, NothingSent, PartedStill
      <4> QED BY <2>1, <2>6, <4>2 DEF Handles, ModesApart
    <3>3. WantsCome'
      <4>1. Comes(queue, Control, Runs(navigating), Runs(app.wants))
        BY <1>4, <1>5, <1>1, HeadIsLoud DEF Session, WantsCome
      <4>2. Comes(queue', Control, "runs", Runs(app.wants))
        BY <1>1, <1>4, <1>5, <2>1, <4>1, NothingSent, ComesStill
      <4>3. Silent(queue', Control) \/ Comes(queue', Control, "stops", Runs(app.wants))
        BY <4>2 DEF Comes
      <4> QED BY <1>2, <2>6, <4>3 DEF WantsCome, Runs
    <3> QED BY <2>3, <2>4, <3>1, <3>2, <3>3 DEF Session
  <2> QED BY <2>1, <2>5, <2>6
<1> QED BY <1>1, <1>6, <1>8, <1>9 DEF ProcStartFix

\* A stop: the modem's session ends, and it says so.
LEMMA StopKeepsSession ==
  ASSUME LocInv, Session, ProcStopFix PROVE Session'
<1>1. queue \in Seq(Message) /\ navigating \in BOOLEAN /\ modem \in Modem
  BY DEF LocInv, Shape, engTypeOK
<1>2. UNCHANGED <<mute, app, refusal>>
  BY DEF ProcStopFix, Globals
<1>3. ASSUME NEW r, Sends(r)
      PROVE  /\ queue # <<>> /\ Head(queue) \in Message /\ Head(queue).type = "StopFix"
             /\ Handles(queue, queue', r)
  BY <1>1, <1>3, TakesHead DEF ProcStopFix
<1>4. /\ queue # <<>> /\ Head(queue) \in Message /\ Head(queue).type = "StopFix"
      /\ Word(Head(queue)) = "stops"
  BY <1>3 DEF ProcStopFix, Word
<1>5. /\ Head(queue) \in Stops /\ Head(queue) \in Control /\ Head(queue) \notin Starts
      /\ Head(queue) \notin Ups /\ Head(queue) \notin Finals
      /\ Head(queue) \notin Endings /\ Head(queue) \notin Statuses
  BY <1>4, VocalKinds
<1>6. CASE ~navigating
  <2>1. Handles(queue, queue', <<>>) /\ UNCHANGED <<navigating, criteria, modem>>
    BY <1>3, <1>6 DEF ProcStopFix
  <2>2. WantsCome' /\ StopsInTime' /\ ModesApart'
    BY <1>1, <1>2, <1>4, <1>5, <1>6, <2>1, NothingSent, ControlHandled DEF Runs
  <2>3. \A K \in {Ups, Finals, Endings, Statuses} : Passes(queue, queue', K)
    BY <1>1, <1>5, <2>1, NothingSent, Passing
  <2>4. SameSession
    BY <1>2, <2>1 DEF SameSession
  <2> QED BY <2>2, <2>3, <2>4, Aside DEF Session
<1>7. CASE navigating
  <2> DEFINE r == EndsSession
  <2>1. /\ Handles(queue, queue', r) /\ navigating' = FALSE /\ modem'.session = FALSE
        /\ r \in Seq(Message) /\ Silent(r, Stops) /\ Silent(r, Control) /\ Silent(r, Modes)
    BY <1>1, <1>3, <1>7, SessionSays DEF ProcStopFix, SetInSession, Modem
  <2>2. WantsCome' /\ StopsInTime' /\ ModesApart'
    BY <1>1, <1>2, <1>4, <1>5, <2>1, ControlHandled DEF Runs
  <2>3. EndIsTold'
    <3>1. CASE modem.session
      <4>1. Mentions(r, Endings) /\ Agrees(r, Endings, "end")
        BY <3>1, SessionSays
      <4> QED BY <1>1, <2>1, <4>1, ComesAnew DEF EndIsTold
    <3>2. CASE ~modem.session
      <4>1. r = <<>>
        BY <3>2, SessionSays
      <4>2. Passes(queue, queue', Endings)
        BY <1>1, <1>5, <2>1, <4>1, NothingSent, Passing
      <4> QED BY <1>2, <3>2, <4>2 DEF Session, EndIsTold, Passes
    <3> QED BY <3>1, <3>2
  <2> QED BY <2>1, <2>2, <2>3 DEF Session, DroppedIsOut, SessionIsKnown, SessionRuns, BeginIsTold
<1> QED BY <1>6, <1>7

\* A fix that is reported ends a session for one fix: no start is queued that it could be
\* taken for, and a modem that has reported its last fix has ended its own.
LEMMA PositionKeepsSession ==
  ASSUME LocInv, Session, ProcPosition, ~missed', app \in App PROVE Session'
<1>1. queue \in Seq(Message) /\ navigating \in BOOLEAN /\ modem \in Modem
  BY DEF LocInv, Shape, engTypeOK
<1>2. mute' = mute /\ app'.told = app.told /\ refusal' = refusal
  BY DEF ProcPosition, App, Globals
<1>3. ASSUME NEW r, Sends(r)
      PROVE  /\ queue # <<>> /\ Head1 = Head(queue) /\ Head(queue) \in Message
             /\ Head(queue).type = "Position" /\ Handles(queue, queue', r)
  BY <1>1, <1>3, TakesHead DEF ProcPosition
<1>4. /\ queue # <<>> /\ Head1 = Head(queue) /\ Head(queue) \in Message
      /\ Head(queue).type = "Position" /\ Tail(queue) \in Seq(Message)
      /\ Head(queue).status \in {"final", "intermediate"}
  BY <1>1, <1>3, QueueKept, Fields DEF ProcPosition
<1>5. /\ Head(queue) \notin Control /\ Head(queue) \notin Ups
      /\ Head(queue) \notin Endings /\ Head(queue) \notin Statuses
      /\ Head(queue) \in Finals <=> Head(queue).status = "final"
  BY <1>4, VocalKinds
<1>6. CASE ~Concludes
  <2>1. /\ Handles(queue, queue', <<>>) /\ UNCHANGED <<navigating, criteria, modem>>
        /\ app'.wants = app.wants
    BY <1>3, <1>6 DEF ProcPosition, Concludes, App
  <2>2. WantsCome' /\ StopsInTime' /\ ModesApart' /\ DroppedIsOut'
    BY <1>1, <1>2, <1>5, <2>1, NothingSent, WishKept
  <2>3. \A K \in {Ups, Endings, Statuses} : Passes(queue, queue', K)
    BY <1>1, <1>5, <2>1, NothingSent, Passing
  <2>4. Silent(queue, Finals) => Silent(queue', Finals)
    BY <1>1, <2>1, NothingSent, SilentStep DEF SilentIn
  <2>5. criteria.once => (Silent(queue, Finals) <=> Silent(queue', Finals))
    <3>1. CASE Head(queue).status = "final"
      BY <1>4, <1>6, <3>1 DEF ProcPosition, Concludes
    <3>2. CASE Head(queue).status # "final"
      <4>1. Passes(queue, queue', Finals)
        BY <1>1, <1>5, <2>1, <3>2, NothingSent, Passing
      <4> QED BY <4>1 DEF Passes
    <3> QED BY <3>1, <3>2
  <2>6. SessionIsKnown' /\ SessionRuns'
    BY <1>2, <2>1, <2>3, <2>4, <2>5 DEF Session, SessionIsKnown, SessionRuns, Passes
  <2>7. EndIsTold' /\ BeginIsTold'
    BY <1>2, <2>1, <2>3 DEF Session, EndIsTold, BeginIsTold, Passes
  <2> QED BY <2>2, <2>6, <2>7 DEF Session
<1>7. CASE Concludes
  <2> DEFINE r == IF Head(queue).status = "intermediate" THEN EndsSession ELSE <<>>
  <2>1. /\ Handles(queue, queue', r) /\ navigating' = FALSE /\ app'.wants = FALSE
        /\ criteria.once /\ ~Queued("StartFix")
    BY <1>3, <1>4, <1>7 DEF ProcPosition, Concludes, SetInSession, App
  <2>2. /\ r \in Seq(Message) /\ Silent(r, Starts) /\ Silent(r, Stops) /\ Silent(r, Modes)
    BY SessionSays, NothingSent
  <2>3. modem'.session = FALSE
    <3>1. CASE Head(queue).status = "final"
      <4>1. modem' = modem /\ ~Silent(queue, Finals)
        BY <1>1, <1>4, <1>5, <3>1, HeadIsLoud DEF ProcPosition
      <4> QED BY <1>1, <2>1, <4>1 DEF Session, SessionIsKnown, Modem
    <3>2. CASE Head(queue).status = "intermediate"
      BY <1>1, <1>4, <1>7, <3>2 DEF ProcPosition, Modem
    <3> QED BY <1>4, <3>1, <3>2
  <2>4. EndIsTold'
    <3>1. CASE Head(queue).status = "intermediate" /\ modem.session
      <4>1. Mentions(r, Endings) /\ Agrees(r, Endings, "end")
        BY <3>1, SessionSays
      <4> QED BY <1>1, <2>1, <2>2, <4>1, ComesAnew DEF EndIsTold
    <3>2. CASE ~(Head(queue).status = "intermediate" /\ modem.session)
      <4>1. r = <<>>
        BY <3>2, SessionSays
      <4>2. Passes(queue, queue', Endings)
        BY <1>1, <1>5, <2>1, <4>1, NothingSent, Passing
      <4>3. ~modem.session
        <5>1. CASE Head(queue).status = "final"
          <6>1. ~Silent(queue, Finals)
            BY <1>1, <1>4, <1>5, <5>1, HeadIsLoud
          <6> QED BY <2>1, <6>1 DEF Session, SessionIsKnown
        <5> QED BY <1>4, <3>2, <5>1
      <4> QED BY <1>2, <4>2, <4>3 DEF Session, EndIsTold, Passes
    <3> QED BY <3>1, <3>2
  <2> HIDE DEF r
  <2>5. WantsCome'
    <3>1. Silent(queue, Starts)
      BY <1>1, <2>1, QueuedKinds
    <3>2. Silent(queue', Starts)
      BY <1>1, <2>1, <2>2, <3>1, SilentStep DEF SilentIn
    <3>3. queue' \in Seq(Message)
      BY <1>1, <1>4, <2>1, <2>2, QueueKept DEF Handles
    <3>4. Comes(queue', Control, "stops", "stops")
      BY <3>2, <3>3, NoStarts
    <3> QED BY <2>1, <3>4 DEF WantsCome, Runs
  <2>6. StopsInTime'
    BY <1>1, <2>1, <2>2, SilentIsNotBehind, BehindStep DEF Session, StopsInTime
  <2>7. ModesApart'
    <3>1. Parted(Tail(queue), FALSE)
      BY <1>1, <1>4, PartedOn DEF Session, ModesApart
    <3>2. Parted(Tail(queue) \o r, FALSE)
      BY <1>4, <2>2, <3>1, PartedStill
    <3> QED BY <2>1, <3>2 DEF Handles, ModesApart
  <2> QED BY <2>1, <2>3, <2>4, <2>5, <2>6, <2>7
      DEF Session, DroppedIsOut, SessionIsKnown, SessionRuns, BeginIsTold
<1> QED BY <1>6, <1>7

\* A status that is handled: what is told of it, and what it makes of the mute.
LEMMA StatusSays ==
  ASSUME NEW s \in {"begin", "end", "on", "off"}, ReportStatus(s), app \in App,
         mute \in {"none", "wait", "muted"}
  PROVE  /\ app' \in App /\ app'.wants = app.wants
         /\ s = "on" => app'.told = app.told /\ (mute' = "none" <=> mute = "none")
         /\ s \in {"end", "off"} => app'.told \in {app.told, "end"}
         /\ s = "off" => app'.told = "end"
         /\ s = "begin" =>
              /\ mute' = "none" <=> mute = "none"
              /\ mute = "none" /\ navigating => app'.told = "begin"
              /\ ~navigating => app'.told = app.told
  BY DEF ReportStatus, IsTold, Muted, App

\* A status keeps what the framework will be told.
LEMMA StatusKeepsTold ==
  ASSUME LocInv, Session, app \in App, NEW s \in {"begin", "end", "on", "off"}, ReportStatus(s),
         queue # <<>>, Handles(queue, queue', <<>>), UNCHANGED <<navigating, criteria, modem, refusal>>,
         \/ Head(queue).type = "Status" /\ Head(queue).status = s
         \/ Head(queue).type = "Down" /\ s = "off"
  PROVE  Session'
<1>1. queue \in Seq(Message) /\ Head(queue) \in Message /\ mute \in {"none", "wait", "muted"}
  BY QueueKept DEF LocInv, Shape, engTypeOK
<1>2. /\ Head(queue) \notin Control /\ Head(queue) \notin Ups /\ Head(queue) \notin Finals
      /\ Head(queue) \in Endings <=> s \in {"begin", "off"}
      /\ Head(queue) \in Statuses <=> s # "on"
  BY <1>1, VocalKinds
<1>3. Word(Head(queue)) = IF s = "begin" THEN "begin" ELSE "end"
  BY DEF Word
<1>4. app'.wants = app.wants
  BY <1>1, StatusSays
<1>5. WantsCome' /\ StopsInTime' /\ ModesApart' /\ DroppedIsOut'
  BY <1>1, <1>2, <1>4, NothingSent, WishKept
<1>6. Passes(queue, queue', Ups) /\ Passes(queue, queue', Finals)
  BY <1>1, <1>2, NothingSent, Passing
<1>7. SessionIsKnown' /\ SessionRuns'
  BY <1>6 DEF Session, SessionIsKnown, SessionRuns, Passes
<1>8. \A K, have, v : Comes(queue, K, have, v) =>
        /\ Head(queue) \notin K => Comes(queue', K, have, v)
        /\ Head(queue) \in K => Comes(queue', K, Word(Head(queue)), v)
  BY <1>1, NothingSent, ComesStill
<1>9. EndIsTold'
  <2> SUFFICES ASSUME ~modem.session PROVE Comes(queue', Endings, app'.told, "end")
    BY DEF EndIsTold
  <2>1. Comes(queue, Endings, app.told, "end")
    BY DEF Session, EndIsTold
  <2>2. CASE s = "begin"
    <3>1. Comes(queue', Endings, "begin", "end")
      BY <1>2, <1>3, <1>8, <2>1, <2>2
    <3> QED BY <3>1, ComesAnyway
  <2>3. CASE s = "off"
    <3>1. Comes(queue', Endings, "end", "end")
      BY <1>2, <1>3, <1>8, <2>1, <2>3
    <3> QED BY <1>1, <2>3, <3>1, StatusSays
  <2>4. CASE s \in {"end", "on"}
    <3>1. Comes(queue', Endings, app.told, "end")
      BY <1>2, <1>8, <2>1, <2>4
    <3>2. Comes(queue', Endings, "end", "end")
      BY <3>1, ComesAnyway
    <3> QED BY <1>1, <2>4, <3>1, <3>2, StatusSays
  <2> QED BY <2>2, <2>3, <2>4
<1>10. BeginIsTold'
  <2> SUFFICES ASSUME modem.session
               PROVE  Comes(queue', Statuses, IF mute' = "none" THEN app'.told ELSE "begin", "begin")
    BY DEF BeginIsTold
  <2>1. /\ Comes(queue, Statuses, IF mute = "none" THEN app.told ELSE "begin", "begin")
        /\ navigating
    BY DEF Session, BeginIsTold, SessionIsKnown
  <2>2. CASE s = "begin"
    <3>1. Comes(queue', Statuses, "begin", "begin")
      BY <1>2, <1>3, <1>8, <2>1, <2>2
    <3> QED BY <1>1, <2>1, <2>2, <3>1, StatusSays
  <2>3. CASE s \in {"end", "off"}
    <3>1. Comes(queue', Statuses, "end", "begin")
      BY <1>2, <1>3, <1>8, <2>1, <2>3
    <3> QED BY <3>1, ComesAnyway
  <2>4. CASE s = "on"
    <3>1. Comes(queue', Statuses, IF mute = "none" THEN app.told ELSE "begin", "begin")
      BY <1>2, <1>8, <2>1, <2>4
    <3> QED BY <1>1, <2>4, <3>1, StatusSays
  <2> QED BY <2>2, <2>3, <2>4
<1> QED BY <1>5, <1>7, <1>9, <1>10 DEF Session

\* A restart that is handled: the modem has no session, and one that the HAL navigates in
\* is started anew; no stop is behind the restart.
LEMMA UpKeepsSession ==
  ASSUME LocEngineAssumption, LocInv, Session, app \in App, ProcUp PROVE Session'
<1>1. queue \in Seq(Message) /\ navigating \in BOOLEAN /\ Shape
  BY DEF LocInv, Shape, engTypeOK
<1>2. UNCHANGED <<mute, modem, app, refusal>>
  BY DEF ProcUp
<1>3. Sends(UpMsgs)
  BY DEF ProcUp, UpMsgs
<1>4. /\ queue # <<>> /\ Head(queue) \in Message /\ Head(queue).type = "Up"
      /\ Tail(queue) \in Seq(Message) /\ Handles(queue, queue', UpMsgs)
  BY <1>1, <1>3, TakesHead DEF ProcUp
<1>5. /\ Head(queue) \in Ups /\ Head(queue) \notin Control /\ Head(queue) \notin Endings
  BY <1>4, VocalKinds
<1>6. ~modem.session
  BY <1>1, <1>4, <1>5, HeadIsLoud DEF Session, SessionIsKnown
<1>7. EndIsTold'
  <2>1. Passes(queue, queue', Endings)
    BY <1>1, <1>4, <1>5, UpIsSilent, Passing
  <2> QED BY <1>2, <1>6, <2>1 DEF Session, EndIsTold, Passes
<1>8. CASE navigating
  <2>1. navigating' = FALSE
    BY <1>8 DEF ProcUp, SetInSession
  <2>2. Comes(Tail(queue), Control, "runs", Runs(app.wants))
    BY <1>1, <1>4, <1>5, <1>8, ComesOn DEF Session, WantsCome, DroppedIsOut, Runs
  <2>3. Silent(Tail(queue), Stops)
    BY <1>1, <1>4, <1>5, BehindHead DEF Session, StopsInTime
  <2>4. Runs(app.wants) = "runs"
    BY <1>4, <2>2, <2>3, NoStops
  <2>5. WantsCome'
    BY <1>1, <1>2, <1>4, <1>8, <2>4, UpIsSilent, ComesAnew DEF WantsCome
  <2>6. StopsInTime'
    BY <1>1, <1>4, UpIsSilent, SilentIsNotBehind, BehindStep DEF Session, StopsInTime
  <2>7. ModesApart'
    <3>1. Parted(Tail(queue), FALSE)
      BY <1>1, <1>4, PartedOn DEF Session, ModesApart
    <3>2. Parted(Tail(queue) \o UpMsgs, FALSE)
      BY <1>1, <1>4, <3>1, UpIsSilent, PartedStill
    <3> QED BY <1>4, <2>1, <3>2 DEF Handles, ModesApart
  <2> QED BY <1>2, <1>6, <1>7, <2>1, <2>5, <2>6, <2>7
      DEF Session, DroppedIsOut, SessionIsKnown, SessionRuns, BeginIsTold
<1>9. CASE ~navigating
  <2>1. UNCHANGED <<navigating, criteria>>
    BY <1>9 DEF ProcUp
  <2>2. WantsCome' /\ StopsInTime' /\ ModesApart' /\ DroppedIsOut'
    BY <1>1, <1>2, <1>4, <1>5, <1>9, <2>1, UpIsSilent, WishKept
  <2> QED BY <1>2, <1>6, <1>7, <1>9, <2>1, <2>2 DEF Session, SessionIsKnown, SessionRuns, BeginIsTold
<1> QED BY <1>1, <1>8, <1>9

\* The message thread keeps what is known of the session.
LEMMA ProcKeepsSession ==
  ASSUME LocEngineAssumption, LocInv, app \in App, Session, Proc, ~missed' PROVE Session'
<1>1. queue \in Seq(Message) /\ modem \in Modem /\ Shape
  BY DEF LocInv, Shape
<1>2. ASSUME NEW type \in {"Init", "Conf", "EnableData", "SetServer", "DelAid"}, Receives(type),
             NEW r \in Seq(Message), Silent(r, Vocal), Sends(r), SameSession, app' = app
      PROVE  Session'
  <2>1. Head(queue) \in Message /\ Head(queue).type = type /\ Handles(queue, queue', r)
    BY <1>1, <1>2, TakesHead
  <2>2. Head(queue) \in Message \ Vocal
    BY <1>2, <2>1, VocalKinds
  <2> QED BY <1>1, <1>2, <2>1, <2>2, QuietStep
<1>3. CASE ProcInit
  <2>1. Receives("Init") /\ Sends(ReinitMsgs) /\ SameSession /\ app' = app
    BY <1>3 DEF ProcInit, SameSession, Handled, Given
  <2>2. ReinitMsgs \in Seq(Message) /\ Silent(ReinitMsgs, Vocal)
    BY <1>1, ReinitSays, ReinitIsSilent
  <2> QED BY <1>2, <2>1, <2>2
<1>4. ASSUME NEW type \in {"Conf", "EnableData", "SetServer"}, Receives(type), Sends(<<>>),
             NEW field \in {"conf", "data", "host"}, NEW v, Tell(field, v), UNCHANGED <<Handled, app, refusal>>
      PROVE  Session'
  <2>1. SameSession
    BY <1>1, <1>4 DEF Tell, SameSession, Handled, Modem
  <2> QED BY <1>2, <1>4, <2>1, NothingSent
<1>5. CASE ProcConf
  BY <1>4, <1>5 DEF ProcConf, Globals
<1>6. CASE ProcEnableData
  BY <1>4, <1>6 DEF ProcEnableData, Globals
<1>7. CASE ProcSetServer
  BY <1>4, <1>7 DEF ProcSetServer, Globals
<1>8. CASE ProcPositionMode
  BY <1>8, ModeKeepsSession
<1>9. CASE ProcStartFix
  BY <1>9, StartKeepsSession
<1>10. CASE ProcStopFix
  BY <1>10, StopKeepsSession
<1>11. CASE ProcPosition
  BY <1>11, PositionKeepsSession
<1>12. CASE ProcStatus
  <2>1. /\ queue # <<>> /\ Head1 = Head(queue) /\ Head(queue) \in Message
        /\ Head(queue).type = "Status" /\ Handles(queue, queue', <<>>)
    BY <1>1, <1>12, TakesHead DEF ProcStatus
  <2>2. Head(queue).status \in {"begin", "end", "on", "off"}
    BY <2>1, Fields
  <2>3. ReportStatus(Head(queue).status) /\ UNCHANGED <<navigating, criteria, modem, refusal>>
    BY <1>12, <2>1 DEF ProcStatus, Globals
  <2> QED BY <2>1, <2>2, <2>3, StatusKeepsTold
<1>13. CASE ProcDelAid
  <2>1. Receives("DelAid") /\ Sends(<<>>) /\ SameSession /\ app' = app
    BY <1>13 DEF ProcDelAid, SameSession, Globals
  <2> QED BY <1>2, <2>1, NothingSent
<1>14. CASE ProcDown
  <2>1. queue # <<>> /\ Head(queue).type = "Down" /\ Handles(queue, queue', <<>>)
    BY <1>1, <1>14, TakesHead DEF ProcDown
  <2>2. ReportStatus("off") /\ UNCHANGED <<navigating, criteria, modem, refusal>>
    BY <1>14 DEF ProcDown, Globals
  <2> QED BY <2>1, <2>2, StatusKeepsTold
<1>15. CASE ProcUp
  BY <1>15, UpKeepsSession
<1> QED BY <1>3, <1>5, <1>6, <1>7, <1>8, <1>9, <1>10, <1>11, <1>12, <1>13, <1>14, <1>15 DEF Proc

\* What the framework wants and has been told.
LEMMA AppKept ==
  ASSUME LocEngineAssumption, LocInv, app \in App, engNext PROVE app' \in App
<1>1. queue \in Seq(Message) /\ mute \in {"none", "wait", "muted"}
  BY DEF LocInv, Shape, engTypeOK
<1>2. CASE CallSteps
  <2>1. \A once \in BOOLEAN : SetPositionMode(once) => app' \in App
    BY DEF SetPositionMode, App
  <2>2. \A v \in Values : SetServer(v) => app' \in App
    BY DEF SetServer, App
  <2>3. Start \/ Stop \/ Cleanup => app' \in App
    BY DEF Start, Stop, Cleanup, App
  <2>4. LocInit \/ AgpsInit \/ MuteOneSession \/ (\E f \in (SUBSET Aiding) \ {{}} : DeleteAidingData(f))
          \/ (\E k \in Keys, v \in Values : ConfigurationUpdate(k, v))
          \/ (\E v \in Values, apn \in BOOLEAN : NetworkAvailability(v, apn)) => app' = app
    BY DEF LocInit, AgpsInit, MuteOneSession, DeleteAidingData, ConfigurationUpdate, NetworkAvailability
  <2> QED BY <1>2, <2>1, <2>2, <2>3, <2>4 DEF CallSteps
<1>3. CASE ModemSteps \/ ModemUp
  BY <1>3 DEF ModemSteps, ModemDown, ModemUp, ModemFix, Rest
<1>4. CASE Proc
  <2>1. CASE ProcStatus
    <3>1. Head1 \in Message /\ Head1.type = "Status"
      BY <1>1, <2>1, TakesHead DEF ProcStatus
    <3>2. Head1.status \in {"begin", "end", "on", "off"}
      BY <3>1, Fields
    <3> QED BY <1>1, <2>1, <3>2, StatusSays DEF ProcStatus
  <2>2. CASE ProcDown
    BY <1>1, <2>2, StatusSays DEF ProcDown
  <2>3. CASE ProcPosition
    <3>1. app' = [app EXCEPT !.wants = @ /\ ~(Reported /\ criteria.once)]
      BY <2>3 DEF ProcPosition
    <3>2. (app.wants /\ ~(Reported /\ criteria.once)) \in BOOLEAN
      OBVIOUS
    <3> QED BY <3>1, <3>2 DEF App
  <2>4. CASE ProcInit \/ ProcConf \/ ProcEnableData \/ ProcSetServer \/ ProcPositionMode
             \/ ProcStartFix \/ ProcStopFix \/ ProcDelAid \/ ProcUp
    BY <2>4 DEF ProcInit, ProcConf, ProcEnableData, ProcSetServer, ProcPositionMode,
                ProcStartFix, ProcStopFix, ProcDelAid, ProcUp
  <2> QED BY <1>4, <2>1, <2>2, <2>3, <2>4 DEF Proc
<1> QED BY <1>2, <1>3, <1>4 DEF engNext

\* A race that was lost stays lost.
LEMMA MissedStays == ASSUME engNext, missed PROVE missed'
<1>1. CASE CallSteps
  BY <1>1 DEF CallSteps, LocInit, AgpsInit, SetPositionMode, Start, Stop, Cleanup, DeleteAidingData,
              ConfigurationUpdate, SetServer, NetworkAvailability, MuteOneSession
<1>2. CASE ModemSteps \/ ModemUp
  BY <1>2 DEF ModemSteps, ModemDown, ModemUp, ModemFix, Rest
<1>3. CASE Proc
  BY <1>3 DEF Proc, ProcInit, ProcConf, ProcEnableData, ProcSetServer, ProcPositionMode, ProcStartFix,
              ProcStopFix, ProcPosition, ProcStatus, ProcDelAid, ProcDown, ProcUp
<1> QED BY <1>1, <1>2, <1>3 DEF engNext

\* Nothing runs, nothing is wanted, nothing was told.
LEMMA SessionStarts == engInit => Session
<1> SUFFICES ASSUME engInit PROVE Session
  OBVIOUS
<1>1. queue = <<>> /\ navigating = FALSE /\ modem.session = FALSE /\ app.wants = FALSE /\ app.told = "end"
      /\ refusal = "none"
  BY DEF engInit, Fresh
<1>2. WantsCome /\ EndIsTold
  BY <1>1, NothingSent DEF WantsCome, EndIsTold, Comes
<1>3. StopsInTime /\ ModesApart /\ DroppedIsOut
  BY <1>1, NothingSent DEF StopsInTime, ModesApart, Parted, DroppedIsOut
<1> QED BY <1>1, <1>2, <1>3 DEF Session, SessionIsKnown, SessionRuns, BeginIsTold

LEMMA SessionInvariant == ASSUME LocEngineAssumption PROVE engSpec => []SessionInv
<1>1. engInit => app \in App /\ Session
  BY SessionStarts DEF engInit, App
<1>2. LocInv /\ LocInv' /\ SessionInv /\ [engNext]_engVars => SessionInv'
  <2> SUFFICES ASSUME LocInv, LocInv', SessionInv, [engNext]_engVars PROVE SessionInv'
    OBVIOUS
  <2>1. CASE engNext
    <3>1. app' \in App /\ (missed => missed')
      BY <2>1, AppKept, MissedStays DEF SessionInv
    <3>2. ASSUME ~missed' PROVE Session'
      <4>1. app \in App /\ Session
        BY <3>1, <3>2 DEF SessionInv
      <4>2. CASE CallSteps
        BY <3>2, <4>1, <4>2, CallsKeepSession
      <4>3. CASE ModemSteps \/ ModemUp
        BY <4>1, <4>3, ModemKeepsSession, FixKeepsSession DEF ModemSteps
      <4>4. CASE Proc
        BY <3>2, <4>1, <4>4, ProcKeepsSession
      <4> QED BY <2>1, <4>2, <4>3, <4>4 DEF engNext
    <3> QED BY <3>1, <3>2 DEF SessionInv
  <2>2. CASE UNCHANGED engVars
    BY <2>2 DEF engVars, hal, SessionInv, Session, WantsCome, StopsInTime, ModesApart, DroppedIsOut, SessionIsKnown,
                SessionRuns, EndIsTold, BeginIsTold
  <2> QED BY <2>1, <2>2
<1>3. engInit => LocInv
  BY InvStarts
<1>4. engInit => SessionInv
  BY <1>1, <1>3 DEF SessionInv
<1> QED BY <1>2, <1>4, Invariant, PTL DEF engSpec

\* When nothing is queued, what was to come has come.
LEMMA AllHasCome ==
  ASSUME SessionInv, AtRest, ~missed
  PROVE  /\ navigating <=> app.wants /\ refusal # "dropped"
         /\ modem.session <=> app.wants /\ refusal = "none"
         /\ ~modem.session => app.told = "end"
         /\ modem.session /\ mute = "none" => app.told = "begin"
<1>1. queue = <<>> /\ modem.up /\ Session
  BY DEF AtRest, SessionInv
<1>2. \A K, have, v : Comes(queue, K, have, v) => have = v
  BY <1>1, NothingSent DEF Comes
<1>3. \A K : Silent(queue, K)
  BY <1>1, NothingSent
<1>4. /\ app.wants \in BOOLEAN /\ navigating \in BOOLEAN /\ modem.session \in BOOLEAN
      /\ refusal \in {"none", "kept", "dropped"}
  BY DEF SessionInv, App, LocInv, Shape, engTypeOK, Modem
<1>5. refusal = "dropped" => ~navigating
  BY <1>1 DEF Session, DroppedIsOut
<1>6. refusal # "dropped" => navigating = app.wants
  <2>1. refusal # "dropped" => Runs(navigating) = Runs(app.wants)
    BY <1>1, <1>2 DEF Session, WantsCome
  <2> QED BY <1>4, <2>1 DEF Runs
<1>7. modem.session => navigating /\ refusal = "none"
  BY <1>1 DEF Session, SessionIsKnown
<1>10. navigating /\ refusal = "none" => modem.session
  BY <1>1, <1>3 DEF Session, SessionRuns
<1>8. ~modem.session => app.told = "end"
  BY <1>1, <1>2 DEF Session, EndIsTold
<1>9. modem.session /\ mute = "none" => app.told = "begin"
  BY <1>1, <1>2 DEF Session, BeginIsTold
<1> QED BY <1>4, <1>5, <1>6, <1>7, <1>8, <1>9, <1>10

\* Whatever the framework calls and however often the modem restarts, reports late, refuses
\* a start or ends a session by itself: when nothing is queued, the modem navigates as the
\* framework wants unless it refused the start, and the HAL counts on the session unless
\* the refusal told it not to; but for a stop that met a queued start and a fix that was
\* taken for one of the next session (loc_eng_start_handler, loc_eng_stop_handler,
\* loc_eng_handle_engine_up, LocEngReportPosition::proc).
THEOREM SessionIsAsWanted == ASSUME LocEngineAssumption PROVE engSpec => []SessionAgrees
<1>1. SessionInv => SessionAgrees
  <2> SUFFICES ASSUME SessionInv, AtRest, ~missed
               PROVE  /\ navigating <=> app.wants /\ refusal # "dropped"
                      /\ modem.session <=> app.wants /\ refusal = "none"
    BY DEF SessionAgrees
  <2> QED BY AllHasCome
<1> QED BY <1>1, SessionInvariant, PTL

\* And what the framework was told last of the session is true, but for a session that is
\* muted (loc_eng_report_status, loc_eng_handle_engine_down).
THEOREM StatusIsTold == ASSUME LocEngineAssumption PROVE engSpec => []StatusAgrees
<1>1. SessionInv => StatusAgrees
  <2> SUFFICES ASSUME SessionInv, AtRest, ~missed
               PROVE  /\ app.told = "begin" => navigating
                      /\ modem.session /\ mute = "none" => app.told = "begin"
    BY DEF StatusAgrees
  <2>1. app.told = "begin" => modem.session
    BY AllHasCome
  <2>2. modem.session => navigating
    BY AllHasCome
  <2> QED BY <2>1, <2>2, AllHasCome
<1> QED BY <1>1, SessionInvariant, PTL

\* Whatever settings, calls, reports and restarts of the modem come in whatever order: the
\* session, the status and the settings agree at once (LocMsg::proc, which MsgTask runs one
\* after another).
THEOREM EngineAndModemAgree == ASSUME LocEngineAssumption PROVE engSpec => []EngineAgrees
<1>1. engTypeOK /\ SessionAgrees /\ StatusAgrees /\ ModemKnows => EngineAgrees
  BY DEF EngineAgrees
<1> QED BY <1>1, LocTypeCorrect, SessionIsAsWanted, StatusIsTold, ModemIsToldAll, PTL

=============================================================================

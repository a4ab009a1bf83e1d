------------------------------- MODULE LocApi -------------------------------
(* The contexts of the location services and the engine's interface of each: *)
(* adapters register for events, one task opens the engine for them, and the *)
(* engine's reports go to every adapter, its requests to the first that      *)
(* takes them.                                                               *)
EXTENDS Naturals, Sequences, FiniteSets

CONSTANTS Adapters,
          ContextOf,     \* [Adapters -> {"fg", "bg"}]
          Wants,         \* the events each adapter registers for when it is made
          Takes,         \* the requests each adapter takes
          Bits, Requests,
          Devices,       \* the libraries a device may have, and their functions
          BgExclMask,    \* events the background does not get
          MAX_ADAPTERS,
          MaxChanges,    \* bound: adapters made and deleted, masks changed, restarts
          None

Contexts == {"fg", "bg"}
LocApiAssumption ==
  /\ ContextOf \in [Adapters -> Contexts] /\ Wants \in [Adapters -> SUBSET Bits]
  /\ Takes \in [Adapters -> SUBSET Requests] /\ BgExclMask \subseteq Bits
  /\ MAX_ADAPTERS \in Nat /\ MaxChanges \in Nat /\ None \notin Adapters

VARIABLES api,           \* what each context's interface is, None before the context is made
          mInjectContext, injected,
          mLocAdapters,  \* [Contexts -> [1..MAX_ADAPTERS -> adapter or None]]
          mEvtMask,      \* of the adapters that live
          messages,      \* of the one task: [kind, ctx, mask]
          engine,        \* [open, mask] of each context
          reported,      \* who got the last report, and what became of the last request
          changes

apiVars == <<api, mInjectContext, injected, mLocAdapters, mEvtMask, messages, engine, reported, changes>>
Quiet == reported' = [of |-> None, to |-> {}]

Alive == DOMAIN mEvtMask
Excluded == [fg |-> {}, bg |-> BgExclMask]
Closed == [open |-> FALSE, mask |-> {}]
Changed == changes < MaxChanges /\ changes' = changes + 1

\* TO_ALL_ADAPTERS stops at the first hole.
Listed(c) ==
  {mLocAdapters[c][i] : i \in {j \in 1..MAX_ADAPTERS : \A k \in 1..j : mLocAdapters[c][k] # None}}
getEvtMask(c) == UNION {mEvtMask[a] : a \in Listed(c)} \ Excluded[c]
sendMsg(m) == messages' = Append(messages, m)
OpenMsg(c, mask) == [kind |-> "open", ctx |-> c, mask |-> mask]
-----------------------------------------------------------------------------
(* The first interface the device has; a library without its function ends   *)
(* the search with the interface that does nothing.                          *)
createLocApi(has) ==
  IF "lbs" \in has THEN "lbs"
  ELSE IF "v02" \in has THEN (IF "v02 getter" \in has THEN "v02" ELSE "base")
  ELSE IF {"rpc", "rpc getter"} \subseteq has THEN "rpc" ELSE "base"

injectFeatureConfig(c) == injected' = IF c = mInjectContext' THEN injected \cup {c} ELSE injected

\* getLocFgContext and getLocBgContext: the first context made is given the configuration.
getContext(c) ==
  /\ api[c] = None
  /\ \E has \in Devices : api' = [api EXCEPT ![c] = createLocApi(has)]
  /\ mInjectContext' = IF mInjectContext = None THEN c ELSE mInjectContext
  /\ injectFeatureConfig(c)
  /\ Quiet /\ UNCHANGED <<mLocAdapters, mEvtMask, messages, engine, changes>>

Slot(c) ==
  CHOOSE i \in 1..MAX_ADAPTERS :
    mLocAdapters[c][i] = None /\ \A j \in 1..(i - 1) : mLocAdapters[c][j] # None
addAdapter(a) ==
  LET c == ContextOf[a]
  IN  IF \E i \in 1..MAX_ADAPTERS : mLocAdapters[c][i] = None
      THEN mLocAdapters' = [mLocAdapters EXCEPT ![c][Slot(c)] = a] /\ sendMsg(OpenMsg(c, Wants[a]))
      ELSE UNCHANGED <<mLocAdapters, messages>>
LocAdapterBase(a) ==
  /\ Changed /\ a \notin Alive /\ api[ContextOf[a]] # None
  /\ mEvtMask' = [x \in Alive \cup {a} |-> IF x = a THEN Wants[a] ELSE mEvtMask[x]]
  /\ addAdapter(a)
  /\ Quiet /\ UNCHANGED <<api, mInjectContext, injected, engine>>

\* The last adapter takes the place of the one removed.
At(a) == CHOOSE i \in 1..MAX_ADAPTERS : mLocAdapters[ContextOf[a]][i] = a
Filled(list, i) ==
  LET last == CHOOSE n \in 1..MAX_ADAPTERS :
                list[n] # None /\ (n = MAX_ADAPTERS \/ list[n + 1] = None) /\ n >= i
  IN  [list EXCEPT ![i] = list[last], ![last] = None]

LocAdapterBaseDtor(a) ==
  /\ Changed /\ a \in Alive
  /\ mEvtMask' = [x \in Alive \ {a} |-> mEvtMask[x]]
  /\ LET c == ContextOf[a]
     IN  IF a \notin Listed(c) THEN UNCHANGED <<mLocAdapters, messages, engine>>
         ELSE /\ mLocAdapters' = [mLocAdapters EXCEPT ![c] = Filled(@, At(a))]
              /\ IF Listed(c) = {a}
                 THEN engine' = [engine EXCEPT ![c] = Closed] /\ UNCHANGED messages
                 ELSE sendMsg(OpenMsg(c, getEvtMask(c)')) /\ UNCHANGED engine
  /\ Quiet /\ UNCHANGED <<api, mInjectContext, injected>>

updateEvtMask(a, b) ==
  /\ Changed /\ a \in Alive
  /\ \E now \in {mEvtMask[a] \cup {b}, mEvtMask[a] \ {b}} : mEvtMask' = [mEvtMask EXCEPT ![a] = now]
  /\ Quiet /\ UNCHANGED <<api, mInjectContext, injected, mLocAdapters, engine>>
  /\ sendMsg(OpenMsg(ContextOf[a], getEvtMask(ContextOf[a])'))

\* The engine came back: it forgot what it was opened for.
handleEngineUpEvent(c) ==
  /\ Changed /\ engine[c].open /\ api[c] # "base"
  /\ engine' = [engine EXCEPT ![c].mask = {}]
  /\ sendMsg([kind |-> "ssr", ctx |-> c, mask |-> {}])
  /\ UNCHANGED mInjectContext /\ injectFeatureConfig(c)
  /\ reported' = [of |-> c, to |-> Listed(c)]
  /\ UNCHANGED <<api, mLocAdapters, mEvtMask>>

(* The interface registers for more events; only a close drops some.         *)
open(c, mask) == engine' = [engine EXCEPT ![c] = [open |-> TRUE, mask |-> @.mask \cup (mask \ Excluded[c])]]
LocOpenMsg ==
  /\ messages # <<>> /\ Head(messages).kind = "open"
  /\ open(Head(messages).ctx, Head(messages).mask)
  /\ messages' = Tail(messages)
  /\ Quiet /\ UNCHANGED <<api, mInjectContext, injected, mLocAdapters, mEvtMask, changes>>
LocSsrMsg ==
  /\ messages # <<>> /\ Head(messages).kind = "ssr"
  /\ LET c == Head(messages).ctx
     IN  engine' = [engine EXCEPT ![c] = [open |-> TRUE, mask |-> getEvtMask(c)]]
  /\ messages' = Tail(messages)
  /\ Quiet /\ UNCHANGED <<api, mInjectContext, injected, mLocAdapters, mEvtMask, changes>>

Reports(c) == engine[c].open /\ api[c] # "base"
report(c, b) ==
  /\ Reports(c) /\ b \in engine[c].mask
  /\ reported' = [of |-> c, to |-> Listed(c)]
  /\ UNCHANGED <<api, mInjectContext, injected, mLocAdapters, mEvtMask, messages, engine, changes>>
FirstTaking(c, r) ==
  {mLocAdapters[c][i] : i \in {j \in 1..MAX_ADAPTERS :
     /\ \A k \in 1..j : mLocAdapters[c][k] # None
     /\ r \in Takes[mLocAdapters[c][j]]
     /\ \A k \in 1..(j - 1) : r \notin Takes[mLocAdapters[c][k]]}}
request(c, r) ==
  /\ Reports(c)
  /\ reported' = [of |-> r, to |-> FirstTaking(c, r)]
  /\ UNCHANGED <<api, mInjectContext, injected, mLocAdapters, mEvtMask, messages, engine, changes>>

apiInit ==
  /\ api = [c \in Contexts |-> None] /\ mInjectContext = None /\ injected = {}
  /\ mLocAdapters = [c \in Contexts |-> [i \in 1..MAX_ADAPTERS |-> None]]
  /\ mEvtMask = [a \in {} |-> {}] /\ messages = <<>> /\ engine = [c \in Contexts |-> Closed]
  /\ reported = [of |-> None, to |-> {}] /\ changes = 0
apiNext ==
  \/ \E c \in Contexts : getContext(c) \/ handleEngineUpEvent(c)
       \/ \E b \in Bits : report(c, b) \/ \E r \in Requests : request(c, r)
  \/ \E a \in Adapters : LocAdapterBase(a) \/ LocAdapterBaseDtor(a) \/ \E b \in Bits : updateEvtMask(a, b)
  \/ LocOpenMsg \/ LocSsrMsg
apiFairness == WF_apiVars(LocOpenMsg \/ LocSsrMsg)
apiSpec == apiInit /\ [][apiNext]_apiVars /\ apiFairness
-----------------------------------------------------------------------------
(* However adapters come and go, a report reaches each of its context that    *)
(* lives, and no other; a request goes to one that takes it, if there is one. *)
ReportsReach ==
  LET living(c) == {a \in Alive : ContextOf[a] = c}
  IN  /\ \A c \in Contexts : Cardinality(living(c)) <= MAX_ADAPTERS => Listed(c) = living(c)
      /\ reported.of \in Requests => Cardinality(reported.to) <= 1

(* When the task has done what it was sent, the engine of a context reports   *)
(* every event one of its adapters registered for, also after a restart.      *)
Registered ==
  [](messages = <<>> =>
       \A a \in Alive : LET c == ContextOf[a]
                        IN  engine[c].open /\ mEvtMask[a] \ Excluded[c] \subseteq engine[c].mask)

(* The first context made, and it alone, is given the configuration.          *)
InjectedFirst == injected = {mInjectContext} \ {None}
=============================================================================

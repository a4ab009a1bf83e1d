----------------------------- MODULE NiRequests -----------------------------
(***************************************************************************)
(* Network-initiated location requests (loc_eng_ni.cpp): the message thread *)
(* stores a request in one of two sessions and starts a thread that waits   *)
(* for the user's response or a timeout and answers the modem.              *)
(***************************************************************************)
EXTENDS Naturals, FiniteSets

CONSTANTS
  Requests,  \* the requests of the modem, numbered (reqIDCounter)
  MaxResets, \* bound: restarts of the modem
  None

NiSessions == {"es", "normal"}  \* sessionEs, session

ASSUME NiAssumption ==
  /\ Requests \subseteq Nat /\ MaxResets \in Nat
  /\ None \notin Requests /\ None \notin NiSessions

Responses == {"accept", "deny"}

VARIABLES
  raw,      \* rawRequest of each session
  reqID,    \* reqID of each session (0: None)
  resp, recvd, \* resp, respRecvd of each session
  thread,   \* ni_thread_proc of each request
  message,  \* the LocEngInformNiResponse a thread has made: the request and the answer
  kind,     \* the session each request was stored in
  responding, \* the response under way in loc_eng_ni_respond
  reset,    \* loc_eng_ni_reset_on_engine_restart: the session reached, the request seen, and
            \* whether its thread has still to be woken
  answer,   \* (ghost) what became of each request's payload
  twice,    \* (ghost) a payload was given away twice
  said,     \* (ghost) the user's responses to each request
  lost,     \* (ghost) requests a restart took from their waiting threads
  late,     \* (ghost) an answer or a restart met a thread that was on its way out, or gone
  resets

niVars == <<raw, reqID, resp, recvd, thread, message, kind, responding, reset,
            answer, twice, said, lost, late, resets>>
niGhosts == <<answer, twice, said, lost, late>>

niInit ==
  /\ raw = [s \in NiSessions |-> None] /\ reqID = [s \in NiSessions |-> None]
  /\ resp = [s \in NiSessions |-> "unset"] /\ recvd = [s \in NiSessions |-> FALSE]
  /\ thread = [r \in Requests |-> "none"] /\ message = [r \in Requests |-> None]
  /\ kind = [r \in Requests |-> None]
  /\ responding = None /\ reset = None
  /\ answer = [r \in Requests |-> "none"] /\ twice = FALSE
  /\ said = [r \in Requests |-> {}] /\ lost = {} /\ late = FALSE
  /\ resets = 0

Leave(r, how) ==  \* a payload is freed or goes to the modem
  /\ answer' = [answer EXCEPT ![r] = IF @ = "none" THEN how ELSE @]
  /\ twice' = (twice \/ answer[r] # "none")

Threads(s) == {r \in Requests : kind[r] = s /\ thread[r] \notin {"none", "done"}}

-----------------------------------------------------------------------------
(* The message thread.                                                      *)

\* May a request be stored?  An emergency request comes beside another one.
Accepts(s) == raw["es"] = None /\ (s = "normal" => raw["normal"] = None)

\* loc_eng_ni_request_handler: stored without the session's lock.  A thread of the
\* session that has not gone yet still writes to it.
Request(r, s) ==
  /\ reset = None /\ kind[r] = None /\ \A q \in Requests : q < r => kind[q] # None
  /\ kind' = [kind EXCEPT ![r] = s]
  /\ IF Accepts(s)
       THEN /\ raw' = [raw EXCEPT ![s] = r] /\ reqID' = [reqID EXCEPT ![s] = r]
            /\ thread' = [thread EXCEPT ![r] = "starting"]
            /\ late' = (late \/ Threads(s) # {} \/ (responding # None /\ responding.session = s))
            /\ UNCHANGED <<answer, twice>>
       ELSE Leave(r, "freed") /\ UNCHANGED <<raw, reqID, thread, late>>
  /\ UNCHANGED <<resp, recvd, message, responding, reset, said, lost, resets>>

\* loc_eng_ni_reset_on_engine_restart looks at the sessions one after the other,
\* without their locks.
LooksOn == reset.request = None /\ ~reset.wake
ResetLooks(s) ==
  /\ IF s = "es" THEN reset = None /\ resets < MaxResets /\ resets' = resets + 1
     ELSE reset # None /\ reset.session = "es" /\ LooksOn /\ UNCHANGED resets
  /\ reset' = [session |-> s, request |-> raw[s], wake |-> FALSE]
  /\ UNCHANGED <<raw, reqID, resp, recvd, thread, message, kind, responding, niGhosts>>

\* It frees what it saw, still without the lock, ...
ResetFrees ==
  /\ reset # None /\ reset.request # None
  /\ LET s == reset.session IN
       /\ Leave(reset.request, "freed")
       /\ lost' = lost \cup ({reset.request} \cap {raw[s]})
       /\ late' = (late \/ raw[s] # reset.request)
       /\ raw' = [raw EXCEPT ![s] = None]
  /\ reset' = [reset EXCEPT !.request = None, !.wake = TRUE]
  /\ UNCHANGED <<reqID, resp, recvd, thread, message, kind, responding, said, resets>>

\* ... and wakes the thread under it.  A thread that has taken a response or timed
\* out in between has cleared the flag already: set again, it is found by the thread
\* of the next request of the session, which answers at once with what is in resp.
ResetWakes ==
  /\ reset # None /\ reset.wake
  /\ LET s == reset.session IN
       /\ recvd' = [recvd EXCEPT ![s] = TRUE]
       /\ late' = (late \/ \A r \in Threads(s) : thread[r] = "leaving")
  /\ reset' = [reset EXCEPT !.wake = FALSE]
  /\ UNCHANGED <<raw, reqID, resp, thread, message, kind, responding, answer, twice, said, lost, resets>>

ResetEnds ==
  /\ reset # None /\ reset.session = "normal" /\ LooksOn /\ reset' = None
  /\ UNCHANGED <<raw, reqID, resp, recvd, thread, message, kind, responding, niGhosts, resets>>

-----------------------------------------------------------------------------
(* The framework.                                                           *)

\* loc_eng_ni_respond finds the session of the request, without its lock.
Respond(r, a) ==
  /\ responding = None /\ kind[r] # None /\ said[r] = {}
  /\ reqID[kind[r]] = r /\ raw[kind[r]] # None
  /\ said' = [said EXCEPT ![r] = {a}]
  /\ responding' = [session |-> kind[r], request |-> r, response |-> a,
                    ignore |-> kind[r] = "es" /\ a = "accept" /\ raw["normal"] # None]
  /\ UNCHANGED <<raw, reqID, resp, recvd, thread, message, kind, reset, answer, twice, lost, late,
                 resets>>

\* An emergency that is accepted drops the request of the other session.
RespondIgnores ==
  /\ responding # None /\ responding.ignore
  /\ resp' = [resp EXCEPT !["normal"] = "ignore"] /\ recvd' = [recvd EXCEPT !["normal"] = TRUE]
  /\ late' = (late \/ raw["normal"] = None)
  /\ responding' = [responding EXCEPT !.ignore = FALSE]
  /\ UNCHANGED <<raw, reqID, thread, message, kind, reset, answer, twice, said, lost, resets>>

RespondSets ==
  /\ responding # None /\ ~responding.ignore
  /\ resp' = [resp EXCEPT ![responding.session] = responding.response]
  /\ recvd' = [recvd EXCEPT ![responding.session] = TRUE]
  /\ late' = (late \/ raw[responding.session] # responding.request)
  /\ responding' = None
  /\ UNCHANGED <<raw, reqID, thread, message, kind, reset, answer, twice, said, lost, resets>>

-----------------------------------------------------------------------------
(* ni_thread_proc.                                                          *)

\* (mutant: the response stays for the next request)
TakenStays(s) == UNCHANGED recvd
\* "Reset the user response flag for the next session"
Taken(s) == recvd' = [recvd EXCEPT ![s] = FALSE]

\* (mutant: the payload of an ignored request is only forgotten)
IgnoredLeaks(r) == UNCHANGED <<answer, twice>>
Ignored(r) == Leave(r, "freed")

\* Under the lock: the answer goes with the request that is stored by now.
Takes(r, a) ==
  LET s == kind[r] IN
  /\ resp' = [resp EXCEPT ![s] = a] /\ Taken(s)
  /\ IF raw[s] = None THEN UNCHANGED <<message, answer, twice>>
     ELSE IF a = "ignore" THEN Ignored(raw[s]) /\ UNCHANGED message
     ELSE /\ message' = [message EXCEPT ![r] = [request |-> raw[s], response |-> a]]
          /\ UNCHANGED <<answer, twice>>
  /\ raw' = [raw EXCEPT ![s] = None]
  /\ thread' = [thread EXCEPT ![r] = "leaving"]
  /\ UNCHANGED <<reqID, kind, responding, reset, said, lost, late, resets>>

\* The thread waits while there is no response.
ThreadWaits(r) ==
  /\ thread[r] = "starting" /\ ~recvd[kind[r]]
  /\ thread' = [thread EXCEPT ![r] = "waiting"]
  /\ UNCHANGED <<raw, reqID, resp, recvd, message, kind, responding, reset, niGhosts, resets>>

ThreadWakes(r) ==
  /\ thread[r] \in {"starting", "waiting"} /\ recvd[kind[r]]
  /\ Takes(r, resp[kind[r]])

ThreadTimesOut(r) == thread[r] = "waiting" /\ Takes(r, "noresp")

\* Without the lock: the id is cleared and the message sent.
ThreadLeaves(r) ==
  /\ thread[r] = "leaving"
  /\ thread' = [thread EXCEPT ![r] = "done"]
  /\ reqID' = [reqID EXCEPT ![kind[r]] = None]
  /\ IF message[r] = None THEN UNCHANGED <<answer, twice>>
     ELSE Leave(message[r].request, message[r].response)
  /\ UNCHANGED <<raw, resp, recvd, message, kind, responding, reset, said, lost, late, resets>>

Thread(r) == ThreadWaits(r) \/ ThreadWakes(r) \/ ThreadTimesOut(r) \/ ThreadLeaves(r)

-----------------------------------------------------------------------------
Reset == (\E s \in NiSessions : ResetLooks(s)) \/ ResetFrees \/ ResetWakes \/ ResetEnds
Continue == (reset # None /\ Reset) \/ RespondIgnores \/ RespondSets

niNext ==
  \/ \E r \in Requests, s \in NiSessions : Request(r, s)
  \/ Reset
  \/ \E r \in Requests, a \in Responses : Respond(r, a)
  \/ RespondIgnores \/ RespondSets
  \/ \E r \in Requests : Thread(r)

\* Threads run, timeouts expire, calls that have begun go on.
niFairness == WF_niVars(Continue) /\ \A r \in Requests : WF_niVars(Thread(r))

niSpec == niInit /\ [][niNext]_niVars /\ niFairness

-----------------------------------------------------------------------------
(* Properties.                                                              *)

niTypeOK ==
  /\ raw \in [NiSessions -> Requests \cup {None}] /\ reqID \in [NiSessions -> Requests \cup {None}]
  /\ recvd \in [NiSessions -> BOOLEAN]
  /\ thread \in [Requests -> {"none", "starting", "waiting", "leaving", "done"}]
  /\ answer \in [Requests -> {"none", "freed", "noresp", "unset"} \cup Responses]

\* As long as no response and no restart meets a thread that is on its way out or
\* gone (loc_eng_ni_respond, loc_eng_ni_request_handler and the restart look without the
\* lock), the modem is told what the user said of that very request or that he said
\* nothing, once.  A restart that meets one leaves the flag set, and the next request
\* of the session may be given the answer to the one before.
OwnAnswer ==
  ~late => /\ ~twice
           /\ \A r \in Requests : answer[r] \in Responses => answer[r] \in said[r]

\* ni_thread_proc: "adding this check to support modem restart, in which case, we need
\* the thread to exit without calling sending data."  This fails where the user had
\* answered before the restart and the thread wakes after it.
LostSendsNothing == \A r \in lost : message[r] = None

\* Every request the modem makes is answered or dropped.
RequestsEnd == \A r \in Requests : kind[r] # None ~> answer[r] # "none"
=============================================================================

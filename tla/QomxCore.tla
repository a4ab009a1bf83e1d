------------------------------ MODULE QomxCore ------------------------------
(* The OMX core under the JPEG interface: codecs come from libraries that are *)
(* loaded with their first instance and unloaded with the last, in a core     *)
(* that lives from the first OMX_Init to the last OMX_Deinit.  Each call is   *)
(* one critical section of g_omxcore_lock.                                    *)
EXTENDS Naturals, FiniteSets

CONSTANTS Clients,        \* objects of mm_jpeg and mm_jpegdec
          Codecs,         \* g_comp_info: the codecs that have a library
          MaxInstances,   \* OMX_COMP_MAX_INSTANCES
          Faults,         \* what fails: "library", "function", "instance", "component", "deinit"
          MaxSessions,    \* bound: instances asked for
          None

QomxAssumption ==
  /\ MaxInstances \in Nat \ {0} /\ MaxSessions \in Nat
  /\ Faults \subseteq {"library", "function", "instance", "component", "deinit"}

VARIABLES g_omxcore,      \* whether the core is there
          g_omxcore_cnt,
          comp,           \* [open, lib, handle] of each codec
          init,           \* clients inside OMX_Init and OMX_Deinit
          sessions,       \* the handles clients hold: [by, codec, slot]
          unloaded,       \* a function of a library that was not loaded was called
          asked

qomxVars == <<g_omxcore, g_omxcore_cnt, comp, init, sessions, unloaded, asked>>

Slots == 1..MaxInstances
Unopened == [open |-> FALSE, lib |-> FALSE, handle |-> [i \in Slots |-> None]]
MayFail(f) == IF f \in Faults THEN BOOLEAN ELSE {FALSE}
-----------------------------------------------------------------------------
OMX_Init(c) ==
  /\ c \notin init /\ init' = init \cup {c}
  /\ g_omxcore_cnt' = g_omxcore_cnt + 1 /\ g_omxcore' = TRUE
  /\ comp' = IF g_omxcore THEN comp ELSE [x \in Codecs |-> Unopened]
  /\ UNCHANGED <<sessions, unloaded, asked>>

\* A client ends its sessions first.
OMX_Deinit(c) ==
  /\ c \in init /\ ~\E s \in sessions : s.by = c
  /\ init' = init \ {c}
  /\ g_omxcore' = (g_omxcore /\ g_omxcore_cnt # 1)
  /\ g_omxcore_cnt' = IF g_omxcore_cnt > 0 THEN g_omxcore_cnt - 1 ELSE 0
  /\ UNCHANGED <<comp, sessions, unloaded, asked>>

get_free_inst_idx(x) == {i \in Slots : comp[x].handle[i] = None}
is_comp_active(handle) == \E i \in Slots : handle[i] # None

\* A codec whose library was loaded, and one whose library was unloaded after a failure.
Loaded(x) == [comp[x] EXCEPT !.open = TRUE, !.lib = TRUE]
LoadFails(x) == [comp[x] EXCEPT !.open = TRUE, !.lib = FALSE]

(* A failure after this call loaded the library unloads it, but leaves `open` *)
(* set: the next call takes functions of an unloaded library.                 *)
Fails(x, loads) == comp' = [comp EXCEPT ![x] = IF loads THEN LoadFails(x) ELSE @]
                   /\ UNCHANGED sessions
OMX_GetHandle(c, x) ==
  /\ c \in init /\ asked < MaxSessions /\ asked' = asked + 1
  /\ \E noLib \in MayFail("library"), fails \in MayFail("function") \cup MayFail("instance") \cup MayFail("component") :
       LET loads == ~comp[x].open
       IN  IF get_free_inst_idx(x) = {} \/ (loads /\ noLib)
           THEN UNCHANGED <<comp, sessions, unloaded>>
           ELSE /\ unloaded' = (unloaded \/ (~loads /\ ~comp[x].lib))
                /\ IF fails THEN Fails(x, loads)
                   ELSE LET i == CHOOSE j \in get_free_inst_idx(x) : \A k \in get_free_inst_idx(x) : j <= k
                        IN  /\ comp' = [comp EXCEPT ![x] = [Loaded(x) EXCEPT !.lib = loads \/ comp[x].lib,
                                                              !.handle[i] = c]]
                            /\ sessions' = sessions \cup {[by |-> c, codec |-> x, slot |-> i]}
  /\ UNCHANGED <<g_omxcore, g_omxcore_cnt, init>>

(* An instance that cannot be ended keeps its slot; its session is gone.      *)
OMX_FreeHandle(s) ==
  /\ s \in sessions /\ sessions' = sessions \ {s}
  /\ unloaded' = (unloaded \/ ~comp[s.codec].lib)
  /\ \E stays \in MayFail("deinit") :
       IF stays THEN UNCHANGED comp
       ELSE LET left == [comp[s.codec].handle EXCEPT ![s.slot] = None]
                used == is_comp_active(left)
            IN  comp' = [comp EXCEPT ![s.codec] =
                           [open |-> used, lib |-> used /\ comp[s.codec].lib, handle |-> left]]
  /\ UNCHANGED <<g_omxcore, g_omxcore_cnt, init, asked>>

qomxInit ==
  /\ g_omxcore = FALSE /\ g_omxcore_cnt = 0
  /\ comp = [x \in Codecs |-> Unopened]
  /\ init = {} /\ sessions = {} /\ unloaded = FALSE /\ asked = 0
qomxNext ==
  \/ \E c \in Clients : OMX_Init(c) \/ OMX_Deinit(c) \/ \E x \in Codecs : OMX_GetHandle(c, x)
  \/ \E s \in sessions : OMX_FreeHandle(s)
qomxSpec == qomxInit /\ [][qomxNext]_qomxVars
-----------------------------------------------------------------------------
(* A codec's code runs only while its library is loaded, and a session has an *)
(* instance of its own, in a core that is there.                              *)
CodecsLoaded ==
  /\ ~unloaded
  /\ sessions # {} => g_omxcore
  /\ \A s \in sessions : comp[s.codec].lib /\ comp[s.codec].handle[s.slot] = s.by
  /\ \A s, r \in sessions : s # r => s.codec # r.codec \/ s.slot # r.slot
=============================================================================

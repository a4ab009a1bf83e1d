----------------------------- MODULE LinkedList -----------------------------
(* The doubly linked list of the location engine (linked_list.c), which      *)
(* keeps the messages of a queue and the subscribers of a data connection:   *)
(* elements are added at the head and removed at the tail, and a search may  *)
(* take one out of the middle.  A list is the elements in memory, each with  *)
(* a next and a prev, and its two ends.                                      *)
EXTENDS Integers, Sequences, SequencesExt, Functions, FiniteSets, TLC

CONSTANTS Elems,  \* memory for elements
          Data, NULL

ListAssumption == NULL \notin Elems \cup Data

Empty == [elem |-> <<>>, head |-> NULL, tail |-> NULL]

Allocated(l) == DOMAIN l.elem
Without(l, e) == [l EXCEPT !.elem = Restrict(@, DOMAIN @ \ {e})]

\* linked_list_add: a new head, which is the tail of an empty list.
ListAdd(l, d) ==
  LET e == CHOOSE x \in Elems : x \notin Allocated(l)
      with == (e :> [next |-> l.head, prev |-> NULL, data |-> d]) @@ l.elem
  IN [elem |-> IF l.head = NULL THEN with ELSE [with EXCEPT ![l.head].prev = e],
      head |-> e,
      tail |-> IF l.head = NULL THEN e ELSE l.tail]

\* linked_list_remove, when there is a tail.
Oldest(l) == l.elem[l.tail].data
ListRemove(l) ==
  LET rest == l.elem[l.tail].prev
      cut == IF rest = NULL THEN [l EXCEPT !.head = NULL]
             ELSE [l EXCEPT !.elem[rest].next = NULL]
  IN [Without(cut, l.tail) EXCEPT !.tail = rest]

\* linked_list_flush frees from the head on.
RECURSIVE ListFlush(_)
ListFlush(l) ==
  IF l.head = NULL THEN [l EXCEPT !.tail = NULL]
  ELSE ListFlush([Without(l, l.head) EXCEPT !.head = l.elem[l.head].next])

\* linked_list_search looks from the head on, ...
RECURSIVE ListFind(_, _, _)
ListFind(l, e, d) ==
  IF e = NULL THEN NULL ELSE IF l.elem[e].data = d THEN e ELSE ListFind(l, l.elem[e].next, d)

\* ... and takes out what it found when it is told to.
ListUnlink(l, e) ==
  LET prev == l.elem[e].prev
      next == l.elem[e].next
      ahead == IF prev = NULL THEN [l EXCEPT !.head = next] ELSE [l EXCEPT !.elem[prev].next = next]
      behind == IF next = NULL THEN [ahead EXCEPT !.tail = prev]
                ELSE [ahead EXCEPT !.elem[next].prev = prev]
  IN Without(behind, e)

\* The data from one end, following next or prev; no list is longer than its memory.
RECURSIVE From(_, _, _, _)
From(l, e, field, n) ==
  IF e \notin Allocated(l) \/ n = 0 THEN <<>>
  ELSE <<l.elem[e].data>> \o From(l, l.elem[e][field], field, n - 1)

Forward(l) == From(l, l.tail, "prev", Cardinality(Elems) + 1)
Backward(l) == From(l, l.head, "next", Cardinality(Elems) + 1)
=============================================================================

------------------------------- MODULE DList --------------------------------
(***************************************************************************)
(* The circular doubly linked lists of libs/list.h, at the level of the    *)
(* two pointer fields.  A list_entry_t is a node; a field of a node holds  *)
(* a node or NULL (the zeroed value of an entry nobody has touched).       *)
(*                                                                         *)
(* The functions check nothing: which calls are legal is the caller's      *)
(* affair.  `linked' records the nodes that are in some list, so that the  *)
(* actions below are the calls the kernel makes: only an entry that is out *)
(* of every list is added, only an entry that is in one is deleted, and a  *)
(* head is never moved.                                                    *)
(***************************************************************************)
EXTENDS Naturals, FiniteSets, SequencesExt

CONSTANTS Heads, Elems, NULL

ASSUME NodesAssumption ==
  /\ IsFiniteSet(Heads) /\ IsFiniteSet(Elems)
  /\ Heads \cap Elems = {}
  /\ NULL \notin Heads \cup Elems

VARIABLES next, prev,   \* the two fields of every list_entry_t
          linked        \* the nodes that are in some list, heads included

vars == <<next, prev, linked>>

Nodes == Heads \cup Elems

TypeOK ==
  /\ next \in [Nodes -> Nodes \cup {NULL}]
  /\ prev \in [Nodes -> Nodes \cup {NULL}]
  /\ linked \subseteq Nodes
  /\ \A x \in linked : next[x] # NULL /\ prev[x] # NULL

Init ==
  /\ next = [x \in Nodes |-> NULL]
  /\ prev = [x \in Nodes |-> NULL]
  /\ linked = {}

list_init(h) ==
  /\ h \notin linked
  /\ next' = [next EXCEPT ![h] = h]
  /\ prev' = [prev EXCEPT ![h] = h]
  /\ linked' = linked \cup {h}

(* Mistake: pcur->next is overwritten before it is used to reach the old     *)
(* successor.                                                                *)
list_add_after_Late(c, x) ==
  /\ c \in linked /\ x \notin linked
  /\ next' = [next EXCEPT ![x] = next[c], ![c] = x]
  /\ prev' = [prev EXCEPT ![x] = c]
  /\ linked' = linked \cup {x}

list_add_after(c, x) ==
  /\ c \in linked /\ x \notin linked
  /\ prev' = [prev EXCEPT ![next[c]] = x, ![x] = c]
  /\ next' = [next EXCEPT ![x] = next[c], ![c] = x]
  /\ linked' = linked \cup {x}

list_add_before(c, x) ==
  /\ c \in linked /\ x \notin linked
  /\ next' = [next EXCEPT ![prev[c]] = x, ![x] = c]
  /\ prev' = [prev EXCEPT ![x] = prev[c], ![c] = x]
  /\ linked' = linked \cup {x}

(* The two assignments of list_del, on any pair of field functions. *)
NextWithout(x) == [next EXCEPT ![prev[x]] = next[x]]
(* Mistake: only one of the two neighbours is told.                          *)
PrevWithout_Not(x) == prev

PrevWithout(x) == [prev EXCEPT ![next[x]] = prev[x]]

(* The deleted entry keeps its own pointers: they dangle into the list. *)
list_del(x) ==
  /\ x \in linked
  /\ next' = NextWithout(x)
  /\ prev' = PrevWithout(x)
  /\ linked' = linked \ {x}

list_del_init(x) ==
  /\ x \in linked
  /\ next' = [NextWithout(x) EXCEPT ![x] = x]
  /\ prev' = [PrevWithout(x) EXCEPT ![x] = x]
  /\ linked' = linked \ {x}

Next ==
  \/ \E h \in Heads : list_init(h)
  \/ \E c \in Nodes, x \in Elems : list_add_after(c, x) \/ list_add_before(c, x)
  \/ \E x \in Elems : list_del(x) \/ list_del_init(x)

Spec == Init /\ [][Next]_vars

-----------------------------------------------------------------------------
(* The entries a loop                                                       *)
(*     for (le = list_next(h); le != h; le = list_next(le))                 *)
(* visits, or with field = prev the same loop over list_prev.  A walk that  *)
(* does not return to its head is cut after as many hops as there are       *)
(* nodes, and then holds an entry twice or one that is in no list.          *)
Hops == Cardinality(Nodes)

Walk(field, h) ==
  LET path[k \in 0 .. Hops] ==
        IF k = 0 THEN h
        ELSE IF path[k - 1] = NULL THEN NULL ELSE field[path[k - 1]]
      home == {k \in 1 .. Hops : path[k] = h}
      len  == IF home = {} THEN Hops ELSE Min(home) - 1
  IN  [k \in 1 .. len |-> path[k]]

Forward(h)  == IF h \in linked THEN Walk(next, h) ELSE <<>>
-----------------------------------------------------------------------------
(* Every linked node has linked neighbours, and the two fields are inverse   *)
(* of each other on the linked nodes: what add, delete and every loop rely   *)
(* on and none of them tests.                                                *)
LinksAgree ==
  \A x \in linked :
    /\ next[x] \in linked /\ prev[x] \in linked
    /\ prev[next[x]] = x /\ next[prev[x]] = x

(* The pointer code implements sequences: adding after or before an entry    *)
(* inserts one element at one place of one list, deleting removes one, and   *)
(* no other list is touched.                                                 *)
Lists == [h \in Heads |-> Forward(h)]

Abstract == INSTANCE SeqLists WITH lists <- Lists

ImplementsSequences == Abstract!Spec
=============================================================================

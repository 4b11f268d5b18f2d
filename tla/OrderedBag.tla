----------------------------- MODULE OrderedBag -----------------------------
(***************************************************************************)
(* What the red-black tree of kern/libs/rb_tree.c promises: nodes in the    *)
(* order of their keys, those of equal keys in the order of insertion.      *)
(***************************************************************************)
EXTENDS Integers, Sequences, SequencesExt

CONSTANTS Nodes, Key, None

VARIABLES
  items,   \* the nodes, in order
  answer   \* what the last query returned, None if NULL

Init == items = <<>> /\ answer = None

Insert(n) ==
  /\ n \notin ToSet(items)
  /\ \E i \in 1 .. Len(items) + 1 :
       /\ \A j \in DOMAIN items : Key[items[j]] <= Key[n] <=> j < i
       /\ items' = InsertAt(items, i, n)
  /\ UNCHANGED answer

Delete(n) ==
  /\ \E i \in DOMAIN items : items[i] = n /\ items' = RemoveAt(items, i)
  /\ UNCHANGED answer

(* The node at distance d of n in the order. *)
Neighbour(n, d) ==
  /\ \E i \in DOMAIN items :
       /\ items[i] = n
       /\ answer' = IF i + d \in DOMAIN items THEN items[i + d] ELSE None
  /\ UNCHANGED items

Search(k) ==
  LET equal == {m \in ToSet(items) : Key[m] = k}
  IN /\ IF equal = {} THEN answer' = None ELSE answer' \in equal
     /\ UNCHANGED items

Forget == answer' = None /\ UNCHANGED items

Next ==
  \/ \E n \in Nodes : Insert(n) \/ Delete(n) \/ Neighbour(n, 1) \/ Neighbour(n, -1)
  \/ \E k \in {Key[n] : n \in Nodes} : Search(k)
  \/ Forget

Spec == Init /\ [][Next]_<<items, answer>>
=============================================================================

------------------------------ MODULE SeqLists ------------------------------
(***************************************************************************)
(* What the intrusive lists of libs/list.h promise to their users: every   *)
(* list head owns a sequence of elements, and an element is in at most one *)
(* of them.  The buddy allocator, the slab caches and the thread list are  *)
(* modelled with such sequences; DList shows that the pointer code         *)
(* implements them.                                                        *)
(***************************************************************************)
EXTENDS Naturals, Sequences, SequencesExt

CONSTANTS Heads,      \* the list heads
          Elems       \* the entries that can be linked

VARIABLE lists        \* lists[h]: the elements after head h, in order

Linked == UNION {ToSet(lists[h]) : h \in Heads}

Init == lists = [h \in Heads |-> <<>>]

(* An element that is in no list enters one, at any position. *)
Insert(h, k, x) ==
  /\ x \notin Linked
  /\ k \in 1 .. Len(lists[h]) + 1
  /\ lists' = [lists EXCEPT ![h] = InsertAt(@, k, x)]

(* An element leaves the list it is in; the others keep their order. *)
Delete(h, k) ==
  /\ k \in DOMAIN lists[h]
  /\ lists' = [lists EXCEPT ![h] = RemoveAt(@, k)]

Next ==
  \E h \in Heads :
    \/ \E x \in Elems : \E k \in 1 .. Len(lists[h]) + 1 : Insert(h, k, x)
    \/ \E k \in DOMAIN lists[h] : Delete(h, k)

Spec == Init /\ [][Next]_lists
=============================================================================

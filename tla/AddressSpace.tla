---------------------------- MODULE AddressSpace ----------------------------
(***************************************************************************)
(* What page_insert and page_remove of kern/mm/pmm.c promise: a flat map    *)
(* from linear pages to frames with a permission, in which a call changes   *)
(* the one page it names, and a page is absent before it gets another       *)
(* frame; until a call finds no memory for a table.                         *)
(***************************************************************************)
CONSTANTS Pages, Entries, Absent

VARIABLES map,
          lost   \* memory ran out within a call

Init == map = [p \in Pages |-> Absent] /\ lost = FALSE

Insert(p) ==
  \E e \in Entries :
    /\ map[p] = Absent \/ map[p].frame = e.frame
    /\ map' = [map EXCEPT ![p] = e] /\ UNCHANGED lost

Remove(p) == map' = [map EXCEPT ![p] = Absent] /\ UNCHANGED lost

(* From there on nothing is promised. *)
Lose == lost' = TRUE

Next == (\E p \in Pages : Insert(p) \/ Remove(p)) \/ Lose

Spec == Init /\ [][Next]_<<map, lost>>
=============================================================================

----------------------------- MODULE PageAlloc ------------------------------
(***************************************************************************)
(* What alloc_pages and free_pages promise to the rest of the kernel       *)
(* (kern/mm/pmm.h): a caller that gets n pages owns n consecutive frames   *)
(* of usable memory, and no frame has two owners.                          *)
(***************************************************************************)
EXTENDS Integers

CONSTANT Frames      \* the page frames page_init hands to the allocator

VARIABLE live        \* the extents <<first page, number of pages>> callers own

Disjoint(e, f) ==
  e[2] = 0 \/ f[2] = 0 \/ e[1] + e[2] <= f[1] \/ f[1] + f[2] <= e[1]

Init == live = {}

Alloc(e) ==
  /\ e[1] .. e[1] + e[2] - 1 \subseteq Frames
  /\ \A f \in live : Disjoint(e, f)
  /\ live' = live \cup {e}

Free(e) ==
  /\ e \in live
  /\ live' = live \ {e}

Next ==
  \/ \E first, last \in Frames : first <= last /\ Alloc(<<first, last - first + 1>>)
  \/ \E e \in live : Free(e)

Spec == Init /\ [][Next]_live
=============================================================================

------------------------------ MODULE MemoryMap ------------------------------
(***************************************************************************)
(* page_init of kern/mm/pmm.c: from the BIOS memory map, the array of page *)
(* descriptors behind the kernel's image, and the regions handed to the    *)
(* page allocator.  Buddy takes such regions for granted.  Addresses are   *)
(* physical.                                                               *)
(***************************************************************************)
EXTENDS Integers, FiniteSetsExt

CONSTANTS PageSize, KMEMSIZE, PageDesc  \* bytes; PageDesc is sizeof(struct Page)

E820_ARM == 1
ROUNDDOWN(a, n) == a - (a % n)
ROUNDUP(a, n) == ROUNDDOWN(a + n - 1, n)
Least(a, b) == IF a < b THEN a ELSE b
Greatest(a, b) == IF a > b THEN a ELSE b

Usable(map) == {i \in DOMAIN map : map[i].type = E820_ARM}
FreeEnd(r) == r.addr + r.size

(* The number of descriptors: up to the end of the last usable region.       *)
npage(map) ==
  LET ends == {FreeEnd(map[i]) : i \in {j \in Usable(map) : map[j].addr < KMEMSIZE}}
  IN  Least(Max(ends \cup {0}), KMEMSIZE) \div PageSize

pages(end) == ROUNDUP(end, PageSize)
freemem(map, end) == pages(end) + PageDesc * npage(map)

(* Mistake: both ends of a region are rounded the same way.                  *)
Handed_RoundUp(r, free) ==
  LET begin == ROUNDUP(Greatest(r.addr, free), PageSize)
      free_end == ROUNDUP(Least(FreeEnd(r), KMEMSIZE), PageSize)
  IN  begin \div PageSize .. free_end \div PageSize - 1

(* The pages of region r that go to init_memmap; none if its ends meet,      *)
(* before or after they are rounded to whole pages.                          *)
Handed(r, free) ==
  LET begin == ROUNDUP(Greatest(r.addr, free), PageSize)
      free_end == ROUNDDOWN(Least(FreeEnd(r), KMEMSIZE), PageSize)
  IN  begin \div PageSize .. free_end \div PageSize - 1

page_init(map, end) ==
  [npage |-> npage(map), pages |-> pages(end),
   handed |-> [i \in Usable(map) |-> Handed(map[i], freemem(map, end))]]
-----------------------------------------------------------------------------
(* What is handed over of each usable region: exactly the pages that lie in   *)
(* it, behind the descriptors and below KMEMSIZE; each has a descriptor.      *)
HandedExactly(map, out) ==
  LET free == out.pages + PageDesc * out.npage
      Within(p, r) == /\ p * PageSize >= r.addr /\ (p + 1) * PageSize <= r.addr + r.size
                      /\ p * PageSize >= free /\ (p + 1) * PageSize <= KMEMSIZE
  IN  \A i \in DOMAIN map :
        LET due == {p \in 0 .. KMEMSIZE \div PageSize : map[i].type = E820_ARM /\ Within(p, map[i])}
        IN  /\ (IF i \in DOMAIN out.handed THEN out.handed[i] ELSE {}) = due
            /\ \A p \in due : p < out.npage
=============================================================================

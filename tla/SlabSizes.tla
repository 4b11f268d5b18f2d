------------------------------ MODULE SlabSizes ------------------------------
(***************************************************************************)
(* How slab_init of kern/mm/slab.c cuts the slabs of its caches: how many  *)
(* pages and objects, and where the control part goes, into the slab or    *)
(* into an object of another cache.  Slab takes such a division for        *)
(* granted.  Sizes are in bytes.                                           *)
(***************************************************************************)
EXTENDS Integers

CONSTANTS PGSIZE, SlabT, Bufctl,   \* 4096, sizeof(slab_t) 24, sizeof(kmem_bufctl_t) 4
          Align,                   \* 16
          MinSizeOrder, MaxSizeOrder, MaxPageOrder \* 5, 17, KMALLOC_MAX_ORDER 10

RoundedUp(n, unit) == ((n + unit - 1) \div unit) * unit
SlabSize(order) == PGSIZE * 2 ^ order

slab_mgmt_size(num) == RoundedUp(SlabT + num * Bufctl, Align)

(* Mistake: the control part is left out of the sum.                         *)
ObjectsOnSlab_NoControl(order, objsize) == (SlabSize(order) - SlabT) \div objsize

(* cache_estimate: an upper bound, lowered until the objects fit behind       *)
(* their control part.                                                       *)
ObjectsOnSlab(order, objsize) ==
  LET Fitting[n \in Nat] ==
        IF slab_mgmt_size(n) + n * objsize > SlabSize(order) THEN Fitting[n - 1] ELSE n
  IN  Fitting[(SlabSize(order) - SlabT) \div (objsize + Bufctl)]

cache_estimate(order, objsize, off) ==
  LET num == IF off THEN SlabSize(order) \div objsize ELSE ObjectsOnSlab(order, objsize)
  IN  [num |-> num, remainder |-> SlabSize(order) - num * objsize
                                    - (IF off THEN 0 ELSE slab_mgmt_size(num))]

(* calculate_slab_order takes the first order that wastes at most an eighth. *)
Suits(order, objsize, off) ==
  LET e == cache_estimate(order, objsize, off)
  IN  e.num # 0 /\ e.remainder * 8 <= SlabSize(order)
calculate_slab_order(objsize, off) ==
  LET From[o \in 0 .. MaxPageOrder] == IF Suits(o, objsize, off) THEN o ELSE From[o + 1]
  IN  From[0]

getorder(n) ==
  LET From[o \in MinSizeOrder .. MaxSizeOrder] == IF n <= 2 ^ o THEN o ELSE From[o + 1]
  IN  From[MinSizeOrder]

(* init_kmem_cache: a control part kept outside moves into the slab when the *)
(* rest at its end is large enough.                                          *)
init_kmem_cache(size) ==
  LET objsize == RoundedUp(size, Align)
      off == objsize >= PGSIZE \div 8
      order == calculate_slab_order(objsize, off)
      e == cache_estimate(order, objsize, off)
      mgmt == slab_mgmt_size(e.num)
      outside == off /\ e.remainder < mgmt
  IN  [objsize |-> objsize, page_order |-> order, num |-> e.num, off_slab |-> outside,
       offset |-> IF outside THEN 0 ELSE mgmt,
       slab_cachep |-> IF outside THEN getorder(mgmt) ELSE 0]

slab_init == [o \in MinSizeOrder .. MaxSizeOrder |-> init_kmem_cache(2 ^ o)]
-----------------------------------------------------------------------------
(* Objects and control part fit into the slab, or the control part into an    *)
(* object of a cache that keeps its own in its slabs: then making a slab asks *)
(* for at most one other.  No further object would fit, an eighth of the slab *)
(* at most is lost, and the allocator's orders suffice.                       *)
CutWell(c) ==
  LET size == SlabSize(c.page_order)
      mgmt == slab_mgmt_size(c.num)
      used == c.offset + c.num * c.objsize
  IN  /\ c.num > 0 /\ c.page_order <= MaxPageOrder
      /\ used <= size /\ (size - used) * 8 <= size
      /\ IF c.off_slab
           THEN LET control == init_kmem_cache(2 ^ c.slab_cachep)
                IN  ~control.off_slab /\ mgmt <= control.objsize
           ELSE c.offset >= mgmt /\ slab_mgmt_size(c.num + 1) + (c.num + 1) * c.objsize > size
=============================================================================

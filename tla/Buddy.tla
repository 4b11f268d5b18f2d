------------------------------- MODULE Buddy --------------------------------
(***************************************************************************)
(* The page allocator, kern/mm/buddy_pmm.c, from the initialisation of its *)
(* free lists to the allocations and releases of the running kernel.       *)
(*                                                                         *)
(* A page is its index in pages[]; a free list is the sequence of the      *)
(* first pages of its blocks, head first (module DList).  Each iteration   *)
(* of a loop of the code is a step, so what holds between two iterations   *)
(* is checked too.  The allocator is called from one thread at a time and  *)
(* from no interrupt handler: one set of local variables is enough.        *)
(*                                                                         *)
(* The list of order MAX_ORDER is never initialised by buddy_init: its     *)
(* head is zeroed memory.  It grows and shrinks like the others, but it    *)
(* ends in NULL where they end in their head, so it never looks empty and  *)
(* removing its last element or adding to it when it has none writes       *)
(* through NULL.  Until paging is on that write lands in no memory; after, *)
(* it faults.                                                              *)
(***************************************************************************)
EXTENDS Integers, FiniteSets, Sequences

CONSTANTS
  MaxOrder,    \* MAX_ORDER
  OrderSize,   \* OrderSize[k] = 1 << k
  Regions,     \* the runs of usable pages page_init finds: <<first, number>>
  Requests,    \* the n of the alloc_pages(n) calls
  MaxLive      \* bound: how many extents callers hold at once

Orders == 0 .. MaxOrder

Disjoint(e, f) ==
  e[2] = 0 \/ f[2] = 0 \/ e[1] + e[2] <= f[1] \/ f[1] + f[2] <= e[1]

ASSUME OrderAssumption ==
  /\ MaxOrder \in Nat
  /\ OrderSize \in [0 .. MaxOrder + 1 -> Nat]
  /\ OrderSize[0] = 1
  /\ \A k \in Orders : OrderSize[k + 1] = 2 * OrderSize[k]

ASSUME RegionAssumption ==
  /\ Regions \in Seq(Nat \X Nat)
  /\ \A a, b \in DOMAIN Regions : a # b => Disjoint(Regions[a], Regions[b])

ASSUME RequestAssumption == Requests \subseteq Nat /\ MaxLive \in Nat

VARIABLES
  initialised, \* the orders whose list head list_init has run on
  freeList,    \* freeList[k]: the free blocks of order k
  nrFree,      \* free_area[k].nr_free
  pageOrder,   \* the order field of the pages given to init_memmap
  known,       \* how many regions init_memmap has been called with
  paging,      \* enable_paging has run
  live,        \* the extents callers hold
  ret,         \* what the last alloc_pages returned
  pc, op       \* where the call under way is, and its local variables

vars == <<initialised, freeList, nrFree, pageOrder, known, paging, live, ret, pc, op>>

Extent == Nat \X Nat

PagesOf(e) == e[1] .. e[1] + e[2] - 1

Managed == UNION {PagesOf(Regions[r]) : r \in DOMAIN Regions}

-----------------------------------------------------------------------------
(* Local variables.  held is the block in hand and order its order (page    *)
(* and i in alloc_pages_sub, p and i in free_pages_sub); goal is the order  *)
(* requested; <<base, n>> is what free_pages or init_memmap has still to    *)
(* put on a list; <<page, want>> is the extent alloc_pages will return once *)
(* it has given the tail of the block back.                                 *)
NoOp == [held |-> 0, order |-> 0, goal |-> 0, base |-> 0, n |-> 0,
         page |-> 0, want |-> 0]

PCs == {"boot", "memmap", "idle", "split", "carve", "merge", "fault"}

TypeOK ==
  /\ initialised \subseteq Orders
  /\ freeList \in [Orders -> Seq(Nat)]
  /\ nrFree \in [Orders -> Int]
  /\ pageOrder \in [Managed -> Nat]
  /\ known \in 0 .. Len(Regions)
  /\ paging \in BOOLEAN
  /\ live \subseteq Extent
  /\ ret \in {"none", "null", "page"}
  /\ pc \in PCs
  /\ op \in [held : Nat, order : Orders, goal : Orders, base : Nat, n : Nat,
             page : Nat, want : Nat]

-----------------------------------------------------------------------------
(* Lists.                                                                    *)
ListEmpty(k) == freeList[k] = <<>> /\ k \in initialised

(* The write through NULL that adding to, or emptying, such a list makes.    *)
NullWrite(k) == paging /\ k \notin initialised

Push(k, p) ==
  /\ freeList' = [freeList EXCEPT ![k] = <<p>> \o @]
  /\ nrFree' = [nrFree EXCEPT ![k] = @ + 1]

Pop(k) ==
  /\ freeList' = [freeList EXCEPT ![k] = Tail(@)]
  /\ nrFree' = [nrFree EXCEPT ![k] = @ - 1]

-----------------------------------------------------------------------------
(* Boot.  buddy_init stops one order short of the array it initialises.      *)
InitialisedOrders == {k \in Orders : k < MaxOrder}

Init ==
  /\ initialised = {}
  /\ freeList = [k \in Orders |-> <<>>]
  /\ nrFree = [k \in Orders |-> 0]
  /\ pageOrder = [q \in Managed |-> MaxOrder + 1]   \* memory nobody has set
  /\ known = 0
  /\ paging = FALSE
  /\ live = {}
  /\ ret = "none"
  /\ pc = "boot"
  /\ op = NoOp

buddy_init ==
  /\ pc = "boot"
  /\ initialised' = InitialisedOrders
  /\ pc' = "memmap"
  /\ UNCHANGED <<freeList, nrFree, pageOrder, known, paging, live, ret, op>>

(* init_memmap(base, n): every page of the region gets order 0 ...           *)
MemmapRegion ==
  /\ pc = "memmap" /\ op.n = 0 /\ known < Len(Regions)
  /\ known' = known + 1
  /\ LET region == Regions[known + 1]
     IN  /\ pageOrder' = [q \in Managed |->
                            IF q \in PagesOf(region) THEN 0 ELSE pageOrder[q]]
         /\ op' = [NoOp EXCEPT !.base = region[1], !.n = region[2],
                               !.order = MaxOrder]
  /\ UNCHANGED <<initialised, freeList, nrFree, paging, live, ret, pc>>

(* ... and the region is cut into blocks, the largest first.                 *)
MemmapPush ==
  /\ pc = "memmap" /\ op.n # 0 /\ op.n >= OrderSize[op.order]
  /\ pageOrder' = [pageOrder EXCEPT ![op.base] = op.order]
  /\ Push(op.order, op.base)
  /\ op' = [op EXCEPT !.base = @ + OrderSize[op.order],
                      !.n = @ - OrderSize[op.order]]
  /\ UNCHANGED <<initialised, known, paging, live, ret, pc>>

(* Mistake: the loop that lowers the order does not lower it.                *)
MemmapLower_Never ==
  pc = "memmap" /\ op.n # 0 /\ op.n < OrderSize[op.order] /\ UNCHANGED vars

MemmapLower ==
  /\ pc = "memmap" /\ op.n # 0 /\ op.n < OrderSize[op.order]
  /\ op' = [op EXCEPT !.order = @ - 1]
  /\ UNCHANGED <<initialised, freeList, nrFree, pageOrder, known, paging, live,
                 ret, pc>>

MemmapDone ==
  /\ pc = "memmap" /\ op.n = 0 /\ known = Len(Regions)
  /\ pc' = "idle" /\ op' = NoOp
  /\ UNCHANGED <<initialised, freeList, nrFree, pageOrder, known, paging, live, ret>>

EnablePaging ==
  /\ pc = "idle" /\ ~paging
  /\ paging' = TRUE
  /\ UNCHANGED <<initialised, freeList, nrFree, pageOrder, known, live, ret, pc, op>>

-----------------------------------------------------------------------------
(* alloc_pages(n).                                                           *)
GetOrder(n) == CHOOSE k \in Orders :
                 n <= OrderSize[k] /\ \A j \in Orders : n <= OrderSize[j] => k <= j

Refused(n) == n = 0 \/ n > OrderSize[MaxOrder]

(* The orders whose list does not look empty.                                *)
Serving(n) == {k \in GetOrder(n) .. MaxOrder : ~ListEmpty(k)}

Smallest(S) == CHOOSE k \in S : \A j \in S : k <= j

AllocNull(n) ==
  /\ pc = "idle"
  /\ ~Refused(n) => Serving(n) = {}
  /\ ret' = "null"
  /\ UNCHANGED <<initialised, freeList, nrFree, pageOrder, known, paging, live,
                 pc, op>>

(* The head of the smallest list that can serve is taken off it.             *)
AllocTake(n) ==
  /\ pc = "idle" /\ Cardinality(live) < MaxLive
  /\ ~Refused(n) /\ Serving(n) # {}
  /\ LET k == Smallest(Serving(n))
     IN  /\ freeList[k] # <<>>
         /\ Pop(k)
         /\ IF NullWrite(k) /\ Len(freeList[k]) = 1
              THEN pc' = "fault" /\ op' = NoOp
              ELSE /\ pc' = "split"
                   /\ op' = [NoOp EXCEPT !.held = Head(freeList[k]), !.order = k,
                                         !.goal = GetOrder(n), !.want = n]
  /\ ret' = "none"
  /\ UNCHANGED <<initialised, pageOrder, known, paging, live>>

(* The list that does not look empty has no element: its NULL is one.        *)
AllocFromNull(n) ==
  /\ pc = "idle" /\ Cardinality(live) < MaxLive
  /\ ~Refused(n) /\ Serving(n) # {}
  /\ LET k == Smallest(Serving(n))
     IN  /\ freeList[k] = <<>>
         /\ nrFree' = [nrFree EXCEPT ![k] = @ - 1]
  /\ pc' = "fault" /\ ret' = "none"
  /\ UNCHANGED <<initialised, freeList, pageOrder, known, paging, live, op>>

(* Mistake: the lower half goes on the list and is also returned.            *)
SplitStep_Lower ==
  /\ pc = "split" /\ op.order > op.goal
  /\ LET k == op.order - 1
     IN  /\ pageOrder' = [pageOrder EXCEPT ![op.held] = k]
         /\ Push(k, op.held)
         /\ op' = [op EXCEPT !.order = k]
  /\ UNCHANGED <<initialised, known, paging, live, ret, pc>>

(* The block in hand is halved; its upper half goes on the list below.       *)
SplitStep ==
  /\ pc = "split" /\ op.order > op.goal
  /\ LET k == op.order - 1
         buddy == op.held + OrderSize[k]
     IN  /\ pageOrder' = [pageOrder EXCEPT ![buddy] = k]
         /\ Push(k, buddy)
         /\ op' = [op EXCEPT !.order = k]
  /\ UNCHANGED <<initialised, known, paging, live, ret, pc>>

Return(e) == live' = live \cup {e} /\ ret' = "page" /\ pc' = "idle" /\ op' = NoOp
(* Mistake: the pages beyond the n asked for are forgotten.                  *)
SplitDone_NoTrim ==
  /\ pc = "split" /\ op.order = op.goal
  /\ Return(<<op.held, op.want>>)
  /\ UNCHANGED <<initialised, freeList, nrFree, pageOrder, known, paging>>

(* alloc_pages_sub returns; pages beyond the n asked for go to free_pages.   *)
SplitDone ==
  /\ pc = "split" /\ op.order = op.goal
  /\ LET size == OrderSize[op.order]
     IN  IF op.want = size
           THEN Return(<<op.held, op.want>>)
           ELSE /\ pc' = "carve"
                /\ op' = [NoOp EXCEPT !.page = op.held, !.want = op.want,
                                      !.base = op.held + op.want,
                                      !.n = size - op.want]
                /\ UNCHANGED <<live, ret>>
  /\ UNCHANGED <<initialised, freeList, nrFree, pageOrder, known, paging>>

-----------------------------------------------------------------------------
(* free_pages(base, n), called by an owner of the extent or for the tail of  *)
(* an allocation: blocks of decreasing size are cut off and freed.           *)
FreeCall(e) ==
  /\ pc = "idle" /\ e \in live
  /\ live' = live \ {e}
  /\ ret' = "none"
  /\ pc' = "carve"
  /\ op' = [NoOp EXCEPT !.base = e[1], !.n = e[2]]
  /\ UNCHANGED <<initialised, freeList, nrFree, pageOrder, known, paging>>

LargestOrder(n) == CHOOSE k \in Orders : OrderSize[k] <= n /\ n < OrderSize[k + 1]

CarveStep ==
  /\ pc = "carve" /\ op.n # 0
  /\ LET k == LargestOrder(op.n)
     IN  /\ pageOrder' = [pageOrder EXCEPT ![op.base] = k]
         /\ op' = [op EXCEPT !.held = op.base, !.order = k,
                             !.base = @ + OrderSize[k], !.n = @ - OrderSize[k]]
  /\ pc' = "merge"
  /\ UNCHANGED <<initialised, freeList, nrFree, known, paging, live, ret>>

(* Everything is back on a list: return to the caller, or to alloc_pages.    *)
CarveDone ==
  /\ pc = "carve" /\ op.n = 0
  /\ IF op.want > 0
       THEN Return(<<op.page, op.want>>)
       ELSE pc' = "idle" /\ op' = NoOp /\ UNCHANGED <<live, ret>>
  /\ UNCHANGED <<initialised, freeList, nrFree, pageOrder, known, paging>>

(* free_pages_sub compares the block in hand with the first block of its     *)
(* order only.  The sizes it compares with come from the pages' order fields. *)
Candidate == op.order < MaxOrder /\ freeList[op.order] # <<>>
LeftMatch(buddy)  == op.held = buddy + OrderSize[pageOrder[buddy]]
RightMatch(buddy) == op.held + OrderSize[pageOrder[op.held]] = buddy
(* Mistake: the merged block keeps the address of its upper half.            *)
MergeLeft_Upper ==
  /\ pc = "merge" /\ Candidate
  /\ LET buddy == Head(freeList[op.order])
     IN  /\ LeftMatch(buddy)
         /\ pageOrder' = [pageOrder EXCEPT ![op.held] = @ + 1]
         /\ op' = [op EXCEPT !.order = @ + 1]
  /\ Pop(op.order)
  /\ UNCHANGED <<initialised, known, paging, live, ret, pc>>

(* Mistake: the order field of the merged block is not raised.               *)
MergeLeft_OldOrder ==
  /\ pc = "merge" /\ Candidate
  /\ LET buddy == Head(freeList[op.order])
     IN  /\ LeftMatch(buddy)
         /\ op' = [op EXCEPT !.held = buddy, !.order = @ + 1]
  /\ Pop(op.order)
  /\ UNCHANGED <<initialised, pageOrder, known, paging, live, ret, pc>>

MergeLeft ==
  /\ pc = "merge" /\ Candidate
  /\ LET buddy == Head(freeList[op.order])
     IN  /\ LeftMatch(buddy)
         /\ pageOrder' = [pageOrder EXCEPT ![buddy] = @ + 1]
         /\ op' = [op EXCEPT !.held = buddy, !.order = @ + 1]
  /\ Pop(op.order)
  /\ UNCHANGED <<initialised, known, paging, live, ret, pc>>

MergeRight ==
  /\ pc = "merge" /\ Candidate
  /\ LET buddy == Head(freeList[op.order])
     IN  ~LeftMatch(buddy) /\ RightMatch(buddy)
  /\ pageOrder' = [pageOrder EXCEPT ![op.held] = @ + 1]
  /\ op' = [op EXCEPT !.order = @ + 1]
  /\ Pop(op.order)
  /\ UNCHANGED <<initialised, known, paging, live, ret, pc>>

MergeStop ==
  /\ pc = "merge"
  /\ Candidate => LET buddy == Head(freeList[op.order])
                  IN  ~LeftMatch(buddy) /\ ~RightMatch(buddy)
  /\ IF NullWrite(op.order) /\ freeList[op.order] = <<>>
       THEN pc' = "fault" /\ op' = NoOp /\ UNCHANGED <<freeList, nrFree>>
       ELSE /\ Push(op.order, op.held)
            /\ pc' = "carve"
            /\ op' = [op EXCEPT !.held = 0, !.order = 0]
  /\ UNCHANGED <<initialised, pageOrder, known, paging, live, ret>>

-----------------------------------------------------------------------------
(* The steps of a call that has begun, and of the boot.                      *)
Step ==
  \/ buddy_init \/ MemmapRegion \/ MemmapPush \/ MemmapLower \/ MemmapDone
  \/ SplitStep \/ SplitDone
  \/ CarveStep \/ CarveDone
  \/ MergeLeft \/ MergeRight \/ MergeStop

Next ==
  \/ Step
  \/ EnablePaging
  \/ \E n \in Requests : AllocNull(n) \/ AllocTake(n) \/ AllocFromNull(n)
  \/ \E e \in live : FreeCall(e)

(* A call runs to its end: nothing in the allocator blocks.                  *)
Spec == Init /\ [][Next]_vars /\ WF_vars(Step)

-----------------------------------------------------------------------------
(* What the memory is made of: free blocks, extents in callers' hands, and   *)
(* the parts the call under way has in hand.                                 *)
Block(k, x) == <<freeList[k][x], OrderSize[k]>>

Held == IF pc \in {"split", "merge"} THEN <<op.held, OrderSize[op.order]>> ELSE <<0, 0>>
Rest == IF pc \in {"memmap", "carve", "merge"} THEN <<op.base, op.n>> ELSE <<0, 0>>
Kept == IF pc \in {"carve", "merge"} THEN <<op.page, op.want>> ELSE <<0, 0>>

InHand == {Held, Rest, Kept}

FreeDisjoint ==
  \A k, m \in Orders :
    \A x \in DOMAIN freeList[k], y \in DOMAIN freeList[m] :
      <<k, x>> # <<m, y>> => Disjoint(Block(k, x), Block(m, y))

LiveDisjoint ==
  /\ \A e, f \in live : e # f => Disjoint(e, f)
  /\ \A e \in live, k \in Orders :
       \A x \in DOMAIN freeList[k] : Disjoint(e, Block(k, x))

InHandDisjoint ==
  /\ Disjoint(Held, Rest) /\ Disjoint(Held, Kept) /\ Disjoint(Rest, Kept)
  /\ \A h \in InHand :
       /\ \A e \in live : Disjoint(h, e)
       /\ \A k \in Orders : \A x \in DOMAIN freeList[k] : Disjoint(h, Block(k, x))

(* No frame is in two blocks, in two callers' extents, or in both: also not  *)
(* while a call is splitting, trimming or merging.  A frame given twice is   *)
(* what a wrong half, a wrong order field or a wrong match would lead to.    *)
NoOverlap == pc # "fault" => FreeDisjoint /\ LiveDisjoint /\ InHandDisjoint

Given == UNION {PagesOf(Regions[r]) : r \in 1 .. known}

Accounted ==
  (UNION {UNION {PagesOf(Block(k, x)) : x \in DOMAIN freeList[k]} : k \in Orders})
    \cup (UNION {PagesOf(e) : e \in live})
    \cup (UNION {PagesOf(h) : h \in InHand})

(* No frame is lost: splitting a block, trimming an allocation to the size   *)
(* asked for and merging on release leave every usable page on a list or in  *)
(* a caller's hands.                                                         *)
NoLeak == pc # "fault" => Accounted = Given

(* nr_free of an order is the length of its list.                            *)
NrFreeExact == pc # "fault" => \A k \in Orders : nrFree[k] = Len(freeList[k])

(* The order field of a block's first page names the list the block is on,   *)
(* and free_pages_sub's p->order is its i: the sizes it compares with are    *)
(* read from these fields, which alloc_pages leaves behind in other pages.   *)
OrderTags ==
  pc # "fault" =>
    /\ \A k \in Orders : \A x \in DOMAIN freeList[k] : pageOrder[freeList[k][x]] = k
    /\ pc = "merge" => pageOrder[op.held] = op.order

Abstract == INSTANCE PageAlloc WITH Frames <- Managed

(* Callers see an allocator of disjoint extents of usable memory.            *)
ImplementsPageAlloc == Abstract!Spec

(* Every call returns, or has run into the NULL of the last list: the loops  *)
(* of split, carve and merge all come to an end.                             *)
CallsReturn == pc \notin {"idle", "fault"} ~> pc \in {"idle", "fault"}

-----------------------------------------------------------------------------
(* What comments and callers say of the allocator, and it does not do.       *)

(* buddy_pmm.c:5 has free lists "from 2^0 to 2^10", and slab.c:292 expects    *)
(* NULL when there are no pages: no list operation follows a NULL pointer.   *)
NoFault == pc # "fault"

=============================================================================

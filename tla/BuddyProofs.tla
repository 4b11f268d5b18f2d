---------------------------- MODULE BuddyProofs -----------------------------
(***************************************************************************)
(* Proofs about the page allocator for any number of orders, any disjoint  *)
(* regions and any requests.                                               *)
(*                                                                         *)
(* The loops over orders are justified by the least element of a set of    *)
(* orders.  The allocator's invariant is IInv: what its local variables    *)
(* mean at each pc (Shape), where memory comes from (AllInside), and the   *)
(* properties checked, which hold together or not at all: two blocks are   *)
(* merged by their order fields, so NoOverlap needs OrderTags, and an      *)
(* order field is safe from other writes because blocks do not overlap.    *)
(***************************************************************************)
EXTENDS Buddy, CommonLemmas, FiniteSetTheorems, TLAPS

-----------------------------------------------------------------------------
(* Arithmetic of orders.                                                     *)

(* 1 << k is positive, and a larger order is at least twice as large.        *)
LEMMA Sizes ==
  /\ \A k \in 0 .. MaxOrder + 1 : OrderSize[k] \in Nat \ {0}
  /\ \A j, k \in 0 .. MaxOrder + 1 : j < k => 2 * OrderSize[j] <= OrderSize[k]
<1> USE OrderAssumption
<1>1. \A k \in 0 .. MaxOrder + 1 : OrderSize[k] \in Nat \ {0}
  <2> DEFINE Bad == {k \in 0 .. MaxOrder + 1 : OrderSize[k] = 0}
  <2>1. CASE Bad = {}
    BY <2>1
  <2>2. CASE Bad # {}
    <3>0. Bad \in SUBSET Nat
      OBVIOUS
    <3>1. PICK k \in Bad : \A j \in Bad : k <= j
      <4> HIDE DEF Bad
      <4> QED
        BY <2>2, <3>0, LeastNat
    <3>2. k # 0 /\ k - 1 \in Orders /\ OrderSize[(k - 1) + 1] = 2 * OrderSize[k - 1]
      BY DEF Orders
    <3> QED
      BY <3>1, <3>2
  <2> QED
    BY <2>1, <2>2
<1>2. \A j, k \in 0 .. MaxOrder + 1 : j < k => 2 * OrderSize[j] <= OrderSize[k]
  <2> DEFINE Bad == {k \in 0 .. MaxOrder + 1 :
                       \E j \in 0 .. k - 1 : ~(2 * OrderSize[j] <= OrderSize[k])}
  <2>1. CASE Bad = {}
    <3> SUFFICES ASSUME NEW j \in 0 .. MaxOrder + 1, NEW k \in 0 .. MaxOrder + 1, j < k
                 PROVE  2 * OrderSize[j] <= OrderSize[k]
      OBVIOUS
    <3>1. j \in 0 .. k - 1
      OBVIOUS
    <3> QED
      BY <2>1, <3>1
  <2>2. CASE Bad # {}
    <3>0. Bad \in SUBSET Nat
      OBVIOUS
    <3>1. PICK k \in Bad : \A j \in Bad : k <= j
      <4> HIDE DEF Bad
      <4> QED
        BY <2>2, <3>0, LeastNat
    <3>2. PICK j \in 0 .. k - 1 : ~(2 * OrderSize[j] <= OrderSize[k])
      BY <3>1
    <3>3. k - 1 \in Orders /\ OrderSize[k] = 2 * OrderSize[k - 1]
      <4>1. k - 1 \in Orders
        BY <3>2 DEF Orders
      <4>2. OrderSize[(k - 1) + 1] = 2 * OrderSize[k - 1]
        BY <4>1
      <4> QED
        BY <4>1, <4>2
    <3>4. CASE j = k - 1
      BY <3>2, <3>3, <3>4
    <3>5. CASE j < k - 1
      <4>1. 2 * OrderSize[j] <= OrderSize[k - 1]
        <5>1. k - 1 \notin Bad /\ k - 1 \in 0 .. MaxOrder + 1
          BY <3>1, <3>3 DEF Orders
        <5>2. j \in 0 .. (k - 1) - 1
          BY <3>5
        <5> QED
          BY <5>1, <5>2
      <4>2. OrderSize[j] \in Nat /\ OrderSize[k - 1] \in Nat /\ OrderSize[k] \in Nat
        BY <1>1, <3>3, <3>2 DEF Orders
      <4>3. OrderSize[k] = 2 * OrderSize[k - 1]
        BY <3>2, <3>3
      <4>4. 2 * OrderSize[j] <= OrderSize[k]
        BY <4>1, <4>2, <4>3
      <4> QED
        BY <3>2, <4>4
    <3> QED
      BY <3>2, <3>4, <3>5
  <2> QED
    BY <2>1, <2>2
<1> QED
  BY <1>1, <1>2

(* The loop of getorder ends at the smallest order that is large enough.     *)
LEMMA GetOrderFits ==
  ASSUME NEW n \in Nat, n <= OrderSize[MaxOrder]
  PROVE  GetOrder(n) \in Orders /\ n <= OrderSize[GetOrder(n)]
<1> DEFINE S == {k \in Orders : n <= OrderSize[k]}
<1>1. MaxOrder \in S /\ S \in SUBSET Nat
  BY OrderAssumption DEF Orders
<1>2. PICK k \in S : \A j \in S : k <= j
  BY <1>1, LeastNat
<1> QED
  BY <1>2 DEF GetOrder

(* The loop of free_pages finds the largest block that still fits.           *)
LEMMA LargestOrderFits ==
  ASSUME NEW n \in Nat, n # 0, n < OrderSize[MaxOrder + 1]
  PROVE  LargestOrder(n) \in Orders /\ OrderSize[LargestOrder(n)] <= n
<1> USE OrderAssumption
<1> DEFINE S == {k \in 0 .. MaxOrder + 1 : n < OrderSize[k]}
<1>1. S \in SUBSET Nat /\ S # {}
  OBVIOUS
<1>2. PICK k \in S : \A j \in S : k <= j
  BY <1>1, LeastNat
<1>3. k # 0
  BY <1>2
<1>4. k - 1 \in Orders /\ OrderSize[k - 1] <= n /\ n < OrderSize[(k - 1) + 1]
  <2>1. k - 1 \in Orders
    BY <1>3 DEF Orders
  <2>2. k - 1 \notin S /\ OrderSize[k - 1] \in Nat
    BY <1>2, <2>1, Sizes DEF Orders
  <2> QED
    BY <1>2, <2>1, <2>2 DEF Orders
<1> QED
  BY <1>4 DEF LargestOrder

(* The search of alloc_pages_sub stops at the first list that can serve.     *)
LEMMA SmallestServes ==
  ASSUME NEW n \in Nat, ~Refused(n), Serving(n) # {}
  PROVE  /\ Smallest(Serving(n)) \in Orders
         /\ GetOrder(n) <= Smallest(Serving(n))
<1>1. GetOrder(n) \in Orders
  <2>1. n <= OrderSize[MaxOrder]
    BY OrderAssumption, Sizes DEF Refused
  <2> QED
    BY <2>1, GetOrderFits
<1>2. Serving(n) \in SUBSET Nat /\ \A k \in Serving(n) : k \in Orders /\ GetOrder(n) <= k
  <2> SUFFICES ASSUME NEW k \in GetOrder(n) .. MaxOrder
               PROVE  k \in Nat /\ k \in Orders /\ GetOrder(n) <= k
    BY DEF Serving
  <2> QED
    BY <1>1, OrderAssumption DEF Orders
<1>3. PICK k \in Serving(n) : \A j \in Serving(n) : k <= j
  BY <1>2, LeastNat
<1>4. Smallest(Serving(n)) \in Serving(n)
  BY <1>3 DEF Smallest
<1> QED
  BY <1>2, <1>4

-----------------------------------------------------------------------------
(* What the local variables mean.                                            *)
Shape ==
  /\ pc = "boot" => op = NoOp
  /\ pc = "split" => /\ op.goal <= op.order
                     /\ op.want # 0 /\ op.want <= OrderSize[op.goal]
  /\ pc # "memmap" => op.n < OrderSize[MaxOrder + 1] /\ op.want < OrderSize[MaxOrder + 1]
  /\ \A e \in live : e[2] < OrderSize[MaxOrder + 1]

TypeInv == TypeOK /\ Shape

OpType == [held : Nat, order : Orders, goal : Orders, base : Nat, n : Nat,
           page : Nat, want : Nat]

(* The operation that stands for none is one of its kind. *)
LEMMA NoOpType == NoOp \in OpType
  BY OrderAssumption DEF NoOp, OpType, Orders

(* Before buddy_init every list is empty and every counter zero. *)
LEMMA TypeInit == Init => TypeInv
<1> SUFFICES ASSUME Init PROVE TypeInv
  OBVIOUS
<1>1. freeList \in [Orders -> Seq(Nat)] /\ nrFree \in [Orders -> Int]
  BY DEF Init
<1>2. pageOrder \in [Managed -> Nat]
  BY OrderAssumption DEF Init
<1>3. known \in 0 .. Len(Regions)
  BY RegionAssumption DEF Init
<1>4. TypeOK
  BY <1>1, <1>2, <1>3, NoOpType DEF Init, TypeOK, OpType, PCs
<1>5. Shape
  BY Sizes, OrderAssumption DEF Init, Shape, NoOp
<1> QED
  BY <1>4, <1>5 DEF TypeInv

(* The orders above and below the one in hand exist while a call may still   *)
(* merge upwards or split downwards.                                         *)
LEMMA UpperOrder ==
  ASSUME NEW i \in Nat, i < MaxOrder
  PROVE  i + 1 \in Orders
BY OrderAssumption DEF Orders

(* One order below a possible one, while something smaller is wanted. *)
LEMMA LowerOrder ==
  ASSUME NEW i \in Nat, NEW g \in Nat, g < i, i <= MaxOrder
  PROVE  i - 1 \in Orders /\ i - 1 \in Nat /\ g <= i - 1
BY OrderAssumption DEF Orders

(* The locals of the call under way have the ranges TypeOK gives them.       *)
LEMMA Fields ==
  ASSUME TypeOK
  PROVE  /\ op \in OpType
         /\ op.held \in Nat /\ op.base \in Nat /\ op.n \in Nat
         /\ op.page \in Nat /\ op.want \in Nat
         /\ op.order \in Nat /\ op.order <= MaxOrder /\ op.order \in Orders
         /\ op.goal \in Nat /\ op.goal <= MaxOrder /\ op.goal \in Orders
         /\ OrderSize[op.order] \in Nat
         /\ OrderSize[MaxOrder + 1] \in Nat \ {0}
<1>1. op \in OpType
  BY DEF TypeOK, OpType
<1> QED
  BY <1>1, OrderAssumption, Sizes DEF OpType, Orders

(* Lists keep their type when a block enters or leaves one.                  *)
LEMMA PushType ==
  ASSUME TypeOK, NEW k \in Orders, NEW p \in Nat, Push(k, p)
  PROVE  freeList' \in [Orders -> Seq(Nat)] /\ nrFree' \in [Orders -> Int]
<1>1. /\ freeList \in [Orders -> Seq(Nat)] /\ nrFree \in [Orders -> Int]
      /\ freeList' = [freeList EXCEPT ![k] = <<p>> \o @]
      /\ nrFree' = [nrFree EXCEPT ![k] = @ + 1]
  BY DEF TypeOK, Push
<1>2. <<p>> \o freeList[k] \in Seq(Nat)
  BY <1>1
<1>3. nrFree[k] + 1 \in Int
  BY <1>1
<1> QED
  BY <1>1, <1>2, <1>3

(* Taking the first block of a list leaves lists and counters of their kind. *)
LEMMA PopType ==
  ASSUME TypeOK, NEW k \in Orders, freeList[k] # <<>>, Pop(k)
  PROVE  /\ freeList' \in [Orders -> Seq(Nat)] /\ nrFree' \in [Orders -> Int]
         /\ Head(freeList[k]) \in Nat
<1>1. freeList \in [Orders -> Seq(Nat)] /\ freeList' = [freeList EXCEPT ![k] = Tail(@)]
  BY DEF TypeOK, Pop
<1>2. nrFree' \in [Orders -> Int]
  <2>1. nrFree \in [Orders -> Int] /\ nrFree' = [nrFree EXCEPT ![k] = @ - 1]
    BY DEF TypeOK, Pop
  <2>2. nrFree[k] - 1 \in Int
    BY <2>1
  <2> QED
    BY <2>1, <2>2
<1>3. Tail(freeList[k]) \in Seq(Nat) /\ Head(freeList[k]) \in Nat
  BY <1>1
<1>4. freeList' \in [Orders -> Seq(Nat)]
  BY <1>1, <1>3
<1> QED
  BY <1>2, <1>3, <1>4

(* The order field of any page, managed or not, takes a number. *)
LEMMA TagType ==
  ASSUME TypeOK, NEW q, NEW v, q \in Managed => v \in Nat,
         pageOrder' = [pageOrder EXCEPT ![q] = v]
  PROVE  pageOrder' \in [Managed -> Nat]
<1>1. CASE q \in Managed
  BY <1>1 DEF TypeOK
<1>2. CASE q \notin Managed
  <2>1. pageOrder' = pageOrder
    BY <1>2 DEF TypeOK
  <2> QED
    BY <2>1 DEF TypeOK
<1> QED
  BY <1>1, <1>2

(* Boot: the order goes down only while it is not 0.                         *)
LEMMA TypeBoot ==
  ASSUME TypeInv, buddy_init \/ MemmapRegion \/ MemmapPush \/ MemmapLower \/ MemmapDone
  PROVE  TypeInv'
<1>0. TypeOK /\ Shape
  BY DEF TypeInv
<1>1. CASE buddy_init
  <2>1. TypeOK'
    BY <1>0, <1>1, OrderAssumption DEF buddy_init, InitialisedOrders, TypeOK, PCs
  <2> QED
    BY <1>0, <1>1, <2>1 DEF TypeInv, Shape, buddy_init
<1>2. CASE MemmapRegion
  <2>1. Regions[known + 1] \in Nat \X Nat /\ known' \in 0 .. Len(Regions)
    <3>1. /\ Regions \in Seq(Nat \X Nat)
          /\ known \in 0 .. Len(Regions)
      BY <1>0, RegionAssumption DEF TypeOK
    <3>2. known < Len(Regions) /\ known' = known + 1
      BY <1>2 DEF MemmapRegion
    <3> QED
      BY <3>1, <3>2
  <2>2. op' \in OpType
    <3>1. Regions[known + 1][1] \in Nat /\ Regions[known + 1][2] \in Nat /\ MaxOrder \in Orders
      BY <2>1, OrderAssumption DEF Orders
    <3> QED
      BY <1>2, <3>1, NoOpType DEF MemmapRegion, OpType
  <2>3. pageOrder' \in [Managed -> Nat]
    BY <1>0, <1>2 DEF MemmapRegion, TypeOK
  <2>4. TypeOK'
    BY <1>0, <1>2, <2>1, <2>2, <2>3 DEF MemmapRegion, TypeOK, OpType, PCs
  <2> QED
    BY <1>0, <1>2, <2>4 DEF TypeInv, Shape, MemmapRegion
<1>3. CASE MemmapPush
  <2>1. op' \in OpType
    <3>1. op.base + OrderSize[op.order] \in Nat /\ op.n - OrderSize[op.order] \in Nat
      BY <1>0, <1>3, Fields DEF MemmapPush
    <3> QED
      BY <1>0, <1>3, <3>1, Fields DEF MemmapPush, OpType
  <2>2. freeList' \in [Orders -> Seq(Nat)] /\ nrFree' \in [Orders -> Int]
    BY <1>0, <1>3, Fields, PushType DEF MemmapPush
  <2>3. pageOrder' \in [Managed -> Nat]
    BY <1>0, <1>3, Fields, TagType DEF MemmapPush
  <2>4. TypeOK'
    BY <1>0, <1>3, <2>1, <2>2, <2>3 DEF MemmapPush, TypeOK, OpType
  <2> QED
    BY <1>0, <1>3, <2>4 DEF TypeInv, Shape, MemmapPush
<1>4. CASE MemmapLower
  <2>1. op.order - 1 \in Orders
    <3>1. op.order # 0
      BY <1>0, <1>4, Fields, OrderAssumption DEF MemmapLower
    <3> QED
      <4> DEFINE i == op.order
      <4>1. i \in Nat /\ i <= MaxOrder /\ i # 0 /\ MaxOrder \in Nat
        BY <1>0, <3>1, Fields, OrderAssumption
      <4> HIDE DEF i
      <4>2. i - 1 \in 0 .. MaxOrder
        BY <4>1
      <4> QED
        BY <4>2 DEF Orders, i
  <2>2. op' \in OpType
    BY <1>0, <1>4, <2>1, Fields DEF MemmapLower, OpType
  <2>3. TypeOK'
    BY <1>0, <1>4, <2>2 DEF MemmapLower, TypeOK, OpType
  <2> QED
    BY <1>0, <1>4, <2>3 DEF TypeInv, Shape, MemmapLower
<1>5. CASE MemmapDone
  <2>1. TypeOK'
    BY <1>0, <1>5, NoOpType DEF MemmapDone, TypeOK, OpType, PCs
  <2> QED
    BY <1>0, <1>5, <2>1, Fields DEF TypeInv, Shape, MemmapDone, NoOp
<1> QED
  BY <1>1, <1>2, <1>3, <1>4, <1>5

(* Taking a block: the loops find an order, and it is an order of the array. *)
LEMMA TypeTake ==
  ASSUME TypeInv, NEW n \in Requests, AllocTake(n)
  PROVE  TypeInv'
<1> DEFINE k == Smallest(Serving(n))
           InSplit == [NoOp EXCEPT !.held = Head(freeList[k]), !.order = k,
                                   !.goal = GetOrder(n), !.want = n]
<1>0. TypeOK /\ Shape
  BY DEF TypeInv
<1>1. n \in Nat /\ n # 0 /\ n <= OrderSize[MaxOrder]
  BY RequestAssumption, Sizes, OrderAssumption DEF AllocTake, Refused
<1>2. /\ GetOrder(n) \in Orders /\ k \in Orders
      /\ GetOrder(n) <= k /\ n <= OrderSize[GetOrder(n)]
  BY <1>1, GetOrderFits, SmallestServes DEF AllocTake
<1>3. /\ freeList[k] # <<>> /\ Pop(k)
      /\ UNCHANGED <<initialised, pageOrder, known, paging, live>> /\ ret' = "none"
      /\ \/ pc' = "fault" /\ op' = NoOp
         \/ pc' = "split" /\ op' = InSplit
  BY DEF AllocTake
<1>4. /\ freeList' \in [Orders -> Seq(Nat)] /\ nrFree' \in [Orders -> Int]
      /\ Head(freeList[k]) \in Nat
  <2> HIDE DEF k
  <2> QED
    BY <1>0, <1>2, <1>3, PopType
<1>5. InSplit \in OpType /\ InSplit.n = 0 /\ InSplit.order = k
      /\ InSplit.goal = GetOrder(n) /\ InSplit.want = n
  <2> HIDE DEF k
  <2> QED
    BY <1>1, <1>2, <1>4, NoOpType DEF NoOp, OpType
<1> HIDE DEF k, InSplit
<1>6. TypeOK'
  BY <1>0, <1>3, <1>4, <1>5, NoOpType DEF TypeOK, OpType, PCs
<1>7. Shape'
  <2>1. \A e \in live' : e[2] < OrderSize[MaxOrder + 1]
    BY <1>0, <1>3 DEF Shape
  <2>2. CASE pc' = "fault" /\ op' = NoOp
    BY <1>0, <2>1, <2>2, Fields DEF Shape, NoOp
  <2>3. CASE pc' = "split" /\ op' = InSplit
    <3>1. n < OrderSize[MaxOrder + 1]
      BY <1>1, Sizes, OrderAssumption
    <3> QED
      BY <1>0, <1>1, <1>2, <1>5, <2>1, <2>3, <3>1, Fields DEF Shape
  <2> QED
    BY <1>3, <2>2, <2>3
<1> QED
  BY <1>6, <1>7 DEF TypeInv

(* The rest of an allocation.                                                *)
LEMMA TypeAlloc ==
  ASSUME TypeInv,
         \/ \E n \in Requests : AllocNull(n) \/ AllocTake(n) \/ AllocFromNull(n)
         \/ SplitStep \/ SplitDone
  PROVE  TypeInv'
<1>0. TypeOK /\ Shape
  BY DEF TypeInv
<1>1. ASSUME NEW n \in Requests, AllocNull(n)
      PROVE  TypeInv'
  BY <1>0, <1>1 DEF AllocNull, TypeInv, TypeOK, Shape
<1>2. ASSUME NEW n \in Requests, AllocFromNull(n)
      PROVE  TypeInv'
  <2>1. /\ UNCHANGED <<initialised, freeList, pageOrder, known, paging, live, op>>
        /\ pc' = "fault" /\ pc = "idle" /\ ret' = "none" /\ nrFree' \in [Orders -> Int]
    <3>1. \A k : [nrFree EXCEPT ![k] = @ - 1] \in [Orders -> Int]
      <4> SUFFICES ASSUME NEW k
                   PROVE  [nrFree EXCEPT ![k] = @ - 1] \in [Orders -> Int]
        OBVIOUS
      <4>1. CASE k \in Orders
        BY <1>0, <4>1 DEF TypeOK
      <4>2. CASE k \notin Orders
        BY <1>0, <4>2, Zenon DEF TypeOK
      <4> QED
        BY <4>1, <4>2
    <3> QED
      BY <1>2, <3>1 DEF AllocFromNull
  <2> QED
    BY <1>0, <2>1 DEF TypeInv, TypeOK, Shape, PCs
<1>3. CASE SplitStep
  <2> DEFINE k == op.order - 1
  <2>1. k \in Orders /\ k \in Nat /\ op.goal <= k /\ OrderSize[k] \in Nat
    <3>1. k \in Orders /\ k \in Nat /\ op.goal <= k
      <4>1. op.order \in Nat /\ op.order <= MaxOrder /\ op.goal \in Nat
        BY <1>0, Fields
      <4>2. op.goal < op.order
        BY <1>3 DEF SplitStep
      <4> QED
        BY <4>1, <4>2, LowerOrder
    <3> HIDE DEF k
    <3> QED
      BY <3>1, OrderAssumption DEF Orders
  <2>2. op' \in OpType /\ op'.order = k /\ op'.goal = op.goal
        /\ op'.want = op.want /\ op'.n = op.n
    BY <1>0, <1>3, <2>1, Fields DEF SplitStep, OpType
  <2>3. freeList' \in [Orders -> Seq(Nat)] /\ nrFree' \in [Orders -> Int]
    <3>1. Push(k, op.held + OrderSize[k])
      BY <1>3 DEF SplitStep
    <3> HIDE DEF k
    <3>2. op.held + OrderSize[k] \in Nat
      BY <1>0, <2>1, Fields
    <3> QED
      BY <1>0, <2>1, <3>1, <3>2, PushType
  <2>4. pageOrder' \in [Managed -> Nat]
    BY <1>0, <1>3, <2>1, TagType DEF SplitStep
  <2>5. TypeOK'
    BY <1>0, <1>3, <2>2, <2>3, <2>4 DEF SplitStep, TypeOK, OpType
  <2>6. Shape'
    <3> HIDE DEF k
    <3> QED
      BY <1>0, <1>3, <2>1, <2>2 DEF SplitStep, Shape
  <2> QED
    BY <2>5, <2>6 DEF TypeInv
<1>4. CASE SplitDone
  <2>1. /\ OrderSize[op.order] < OrderSize[MaxOrder + 1]
        /\ op.want <= OrderSize[op.order] /\ op.want # 0
    <3>1. 2 * OrderSize[op.order] <= OrderSize[MaxOrder + 1] /\ OrderSize[op.order] # 0
      BY <1>0, Fields, Sizes, OrderAssumption
    <3> QED
      BY <1>0, <1>4, <3>1, Fields DEF SplitDone, Shape
  <2>2. CASE op.want = OrderSize[op.order]
    <3>1. live' = live \cup {<<op.held, op.want>>} /\ pc' = "idle" /\ op' = NoOp /\ ret' = "page"
      BY <1>4, <2>2 DEF SplitDone, Return
    <3>2. live' \subseteq Extent
      <4>1. op.held \in Nat /\ op.want \in Nat
        BY <1>0, Fields
      <4>2. live \subseteq Extent
        BY <1>0 DEF TypeOK
      <4> QED
        BY <3>1, <4>1, <4>2 DEF Extent
    <3>4. TypeOK'
      BY <1>0, <1>4, <3>1, <3>2, NoOpType DEF SplitDone, TypeOK, OpType, PCs
    <3>3. Shape'
      BY <1>0, <2>1, <2>2, <3>1, Fields DEF Shape, NoOp
    <3> QED
      BY <3>3, <3>4 DEF TypeInv
  <2>3. CASE op.want # OrderSize[op.order]
    <3>1. /\ pc' = "carve" /\ live' = live /\ ret' = ret
          /\ op' = [NoOp EXCEPT !.page = op.held, !.want = op.want,
                                !.base = op.held + op.want,
                                !.n = OrderSize[op.order] - op.want]
      BY <1>4, <2>3 DEF SplitDone
    <3>2. /\ op' \in OpType /\ op'.n < OrderSize[MaxOrder + 1]
          /\ op'.want < OrderSize[MaxOrder + 1]
      <4>1. /\ op.held + op.want \in Nat /\ OrderSize[op.order] - op.want \in Nat
            /\ OrderSize[op.order] - op.want < OrderSize[MaxOrder + 1]
            /\ op.want < OrderSize[MaxOrder + 1]
        BY <1>0, <2>1, Fields
      <4> QED
        BY <1>0, <3>1, <4>1, NoOpType, Fields DEF NoOp, OpType
    <3>3. TypeOK'
      BY <1>0, <1>4, <3>1, <3>2 DEF SplitDone, TypeOK, OpType, PCs
    <3>4. Shape'
      BY <1>0, <3>1, <3>2 DEF Shape
    <3> QED
      BY <3>3, <3>4 DEF TypeInv
  <2> QED
    BY <2>2, <2>3
<1> QED
  BY <1>1, <1>2, <1>3, <1>4, TypeTake

(* Release: what is carved off is part of what is left.                      *)
LEMMA TypeFree ==
  ASSUME TypeInv,
         \/ \E e \in live : FreeCall(e)
         \/ CarveStep \/ CarveDone \/ MergeLeft \/ MergeRight \/ MergeStop
  PROVE  TypeInv'
<1>0. TypeOK /\ Shape
  BY DEF TypeInv
<1>1. ASSUME NEW e \in live, FreeCall(e)
      PROVE  TypeInv'
  <2>1. e[1] \in Nat /\ e[2] \in Nat /\ e[2] < OrderSize[MaxOrder + 1]
    BY <1>0 DEF Extent, Shape, TypeOK
  <2>2. op' \in OpType /\ op'.n = e[2] /\ op'.want = 0
    BY <1>1, <2>1, NoOpType DEF FreeCall, NoOp, OpType
  <2>3. TypeOK'
    BY <1>0, <1>1, <2>2 DEF FreeCall, TypeOK, OpType, PCs
  <2> QED
    <3>1. Shape'
      <4>1. live' \subseteq live /\ pc' = "carve"
        BY <1>1 DEF FreeCall
      <4> QED
        BY <1>0, <2>1, <2>2, <4>1, Fields DEF Shape
    <3> QED
      BY <2>3, <3>1 DEF TypeInv
<1>2. CASE CarveStep
  <2> DEFINE k == LargestOrder(op.n)
  <2>1. k \in Orders /\ OrderSize[k] <= op.n /\ op.n < OrderSize[MaxOrder + 1]
    BY <1>0, <1>2, Fields, LargestOrderFits DEF CarveStep, Shape
  <2>2. /\ op' = [op EXCEPT !.held = op.base, !.order = k,
                            !.base = @ + OrderSize[k], !.n = @ - OrderSize[k]]
        /\ pageOrder' = [pageOrder EXCEPT ![op.base] = k]
    BY <1>2 DEF CarveStep
  <2> HIDE DEF k
  <2>3. OrderSize[k] \in Nat /\ k \in Nat
    BY <2>1, OrderAssumption DEF Orders
  <2>4. op' \in OpType /\ op'.n <= op.n /\ op'.want = op.want
    <3>1. /\ op.base + OrderSize[k] \in Nat /\ op.n - OrderSize[k] \in Nat
          /\ op.n - OrderSize[k] <= op.n
      BY <1>0, <2>1, <2>3, Fields
    <3> QED
      BY <1>0, <2>1, <2>2, <3>1, Fields DEF OpType
  <2>5. pageOrder' \in [Managed -> Nat]
    BY <1>0, <2>2, <2>3, TagType
  <2>6. TypeOK'
    BY <1>0, <1>2, <2>4, <2>5 DEF CarveStep, TypeOK, OpType, PCs
  <2>7. op'.n < OrderSize[MaxOrder + 1]
    BY <1>0, <2>1, <2>4, Fields DEF OpType
  <2> QED
    BY <1>0, <1>2, <2>6, <2>7 DEF CarveStep, Shape, TypeInv
<1>3. CASE CarveDone
  <2>1. CASE op.want > 0
    <3>1. op.want < OrderSize[MaxOrder + 1]
      BY <1>0, <1>3 DEF Shape, CarveDone
    <3>2. live' = live \cup {<<op.page, op.want>>} /\ pc' = "idle" /\ op' = NoOp /\ ret' = "page"
      BY <1>3, <2>1 DEF CarveDone, Return
    <3>5. live' \subseteq Extent
      <4>1. live \subseteq Extent /\ <<op.page, op.want>> \in Extent
        BY <1>0, Fields DEF TypeOK, Extent
      <4> QED
        BY <3>2, <4>1
    <3>3. TypeOK'
      BY <1>0, <1>3, <3>2, <3>5, NoOpType DEF CarveDone, TypeOK, OpType, PCs
    <3>4. Shape'
      BY <1>0, <3>1, <3>2, Fields DEF Shape, NoOp
    <3> QED
      BY <3>3, <3>4 DEF TypeInv
  <2>2. CASE ~(op.want > 0)
    <3>1. TypeOK'
      BY <1>0, <1>3, <2>2, NoOpType DEF CarveDone, TypeOK, OpType, PCs
    <3> QED
      BY <1>0, <1>3, <2>2, <3>1, Fields DEF CarveDone, Shape, NoOp, TypeInv
  <2> QED
    BY <2>1, <2>2
<1>4. CASE MergeLeft
  <2> DEFINE buddy == Head(freeList[op.order])
  <2>1. op.order + 1 \in Orders /\ freeList[op.order] # <<>> /\ Pop(op.order)
    <3>1. op.order \in Nat /\ op.order <= MaxOrder /\ op.order \in Orders
      BY <1>0, Fields
    <3>2. op.order < MaxOrder /\ freeList[op.order] # <<>> /\ Pop(op.order)
      BY <1>4 DEF MergeLeft, Candidate
    <3> QED
      BY <3>1, <3>2, UpperOrder
  <2>2. /\ freeList' \in [Orders -> Seq(Nat)] /\ nrFree' \in [Orders -> Int]
        /\ buddy \in Nat
    BY <1>0, <2>1, Fields, PopType
  <2>3. /\ op' = [op EXCEPT !.held = buddy, !.order = @ + 1]
        /\ pageOrder' = [pageOrder EXCEPT ![buddy] = pageOrder[buddy] + 1]
    BY <1>4 DEF MergeLeft
  <2> HIDE DEF buddy
  <2>4. op' \in OpType /\ op'.n = op.n /\ op'.want = op.want
    BY <1>0, <2>1, <2>2, <2>3, Fields DEF OpType
  <2>5. pageOrder' \in [Managed -> Nat]
    <3>1. buddy \in Managed => pageOrder[buddy] + 1 \in Nat
      BY <1>0 DEF TypeOK
    <3> QED
      BY <1>0, <2>3, <3>1, TagType
  <2>6. TypeOK'
    BY <1>0, <1>4, <2>2, <2>4, <2>5 DEF MergeLeft, TypeOK, OpType, PCs
  <2> QED
    BY <1>0, <1>4, <2>4, <2>6 DEF MergeLeft, Shape, TypeInv
<1>5. CASE MergeRight
  <2>1. op.order + 1 \in Orders /\ freeList[op.order] # <<>> /\ Pop(op.order)
    <3>1. op.order \in Nat /\ op.order <= MaxOrder /\ op.order \in Orders
      BY <1>0, Fields
    <3>2. op.order < MaxOrder /\ freeList[op.order] # <<>> /\ Pop(op.order)
      BY <1>5 DEF MergeRight, Candidate
    <3> QED
      BY <3>1, <3>2, UpperOrder
  <2>2. freeList' \in [Orders -> Seq(Nat)] /\ nrFree' \in [Orders -> Int]
    BY <1>0, <2>1, Fields, PopType
  <2>3. /\ op' = [op EXCEPT !.order = @ + 1]
        /\ pageOrder' = [pageOrder EXCEPT ![op.held] = pageOrder[op.held] + 1]
    BY <1>5 DEF MergeRight
  <2>4. op' \in OpType /\ op'.n = op.n /\ op'.want = op.want
    BY <1>0, <2>1, <2>3, Fields DEF OpType
  <2>5. pageOrder' \in [Managed -> Nat]
    <3>1. op.held \in Managed => pageOrder[op.held] + 1 \in Nat
      BY <1>0 DEF TypeOK
    <3> QED
      BY <1>0, <2>3, <3>1, TagType
  <2>6. TypeOK'
    BY <1>0, <1>5, <2>2, <2>4, <2>5 DEF MergeRight, TypeOK, OpType, PCs
  <2> QED
    BY <1>0, <1>5, <2>4, <2>6 DEF MergeRight, Shape, TypeInv
<1>6. CASE MergeStop
  <2>1. CASE NullWrite(op.order) /\ freeList[op.order] = <<>>
    <3>1. TypeOK'
      BY <1>0, <1>6, <2>1, NoOpType DEF MergeStop, TypeOK, OpType, PCs
    <3> QED
      BY <1>0, <1>6, <2>1, <3>1, Fields DEF MergeStop, Shape, NoOp, TypeInv
  <2>2. CASE ~(NullWrite(op.order) /\ freeList[op.order] = <<>>)
    <3>1. /\ Push(op.order, op.held) /\ pc' = "carve"
          /\ op' = [op EXCEPT !.held = 0, !.order = 0]
      BY <1>6, <2>2 DEF MergeStop
    <3>2. op' \in OpType /\ op'.n = op.n /\ op'.want = op.want
      BY <1>0, <3>1, Fields, NoOpType DEF NoOp, OpType
    <3>3. freeList' \in [Orders -> Seq(Nat)] /\ nrFree' \in [Orders -> Int]
      BY <1>0, <3>1, Fields, PushType
    <3>4. TypeOK'
      BY <1>0, <1>6, <3>1, <3>2, <3>3 DEF MergeStop, TypeOK, OpType, PCs
    <3> QED
      BY <1>0, <1>6, <3>1, <3>2, <3>4 DEF MergeStop, Shape, TypeInv
  <2> QED
    BY <2>1, <2>2
<1> QED
  BY <1>1, <1>2, <1>3, <1>4, <1>5, <1>6

(* Every iteration of the allocator's loops keeps its variables in range. *)
LEMMA TypeNext ==
  ASSUME TypeInv, [Next]_vars
  PROVE  TypeInv'
<1>1. CASE EnablePaging
  BY <1>1 DEF EnablePaging, TypeInv, TypeOK, Shape
<1>2. CASE UNCHANGED vars
  BY <1>2 DEF vars, TypeInv, TypeOK, Shape
<1> QED
  BY <1>1, <1>2, TypeBoot, TypeAlloc, TypeFree DEF Next, Step

(* Type correctness: no step of the allocator indexes an array of orders out *)
(* of its bounds, and the size of what is left to free never drops below 0.  *)
THEOREM TypeCorrect == Spec => []TypeOK
<1>1. TypeInv /\ [Next]_vars => TypeInv'
  BY TypeNext
<1>2. TypeInv => TypeOK
  BY DEF TypeInv
<1> QED
  BY <1>1, <1>2, TypeInit, PTL DEF Spec

-----------------------------------------------------------------------------
(* Ownership.  The invariant is in two parts: what is on the lists and in    *)
(* callers' hands (Stored), and what the call under way holds (InHandOK).  A  *)
(* step moves one extent from one part to the other, cuts one in two, or      *)
(* joins two; Apart says of an extent that nothing stored overlaps it.        *)
Apart(e) ==
  /\ \A f \in live : Disjoint(e, f)
  /\ \A k \in Orders : \A x \in DOMAIN freeList[k] : Disjoint(e, Block(k, x))

Inside(e) == PagesOf(e) \subseteq Given

Stored ==
  /\ FreeDisjoint /\ LiveDisjoint
  /\ \A e \in live : Inside(e)
  /\ \A k \in Orders :
       /\ nrFree[k] = Len(freeList[k])
       /\ \A x \in DOMAIN freeList[k] :
            pageOrder[freeList[k][x]] = k /\ Inside(Block(k, x))

InHandOK ==
  /\ Disjoint(Held, Rest) /\ Disjoint(Held, Kept) /\ Disjoint(Rest, Kept)
  /\ Apart(Held) /\ Apart(Rest) /\ Apart(Kept)
  /\ Inside(Held) /\ Inside(Rest) /\ Inside(Kept)
  /\ pc = "merge" => pageOrder[op.held] = op.order

IInv == TypeInv /\ (pc # "fault" => Stored /\ InHandOK)

-----------------------------------------------------------------------------
(* Extents.                                                                  *)
LEMMA DisjointSets ==
  ASSUME NEW e \in Extent, NEW f \in Extent
  PROVE  Disjoint(e, f) <=> PagesOf(e) \cap PagesOf(f) = {}
<1>1. e[1] \in Nat /\ e[2] \in Nat /\ f[1] \in Nat /\ f[2] \in Nat
  BY DEF Extent
<1>2. ASSUME ~Disjoint(e, f) PROVE PagesOf(e) \cap PagesOf(f) # {}
  <2>1. CASE e[1] <= f[1]
    <3>1. f[1] \in PagesOf(e) /\ f[1] \in PagesOf(f)
      BY <1>1, <1>2, <2>1 DEF Disjoint, PagesOf
    <3> QED
      BY <3>1
  <2>2. CASE f[1] <= e[1]
    <3>1. e[1] \in PagesOf(e) /\ e[1] \in PagesOf(f)
      BY <1>1, <1>2, <2>2 DEF Disjoint, PagesOf
    <3> QED
      BY <3>1
  <2> QED
    BY <1>1, <2>1, <2>2
<1>3. ASSUME Disjoint(e, f) PROVE PagesOf(e) \cap PagesOf(f) = {}
  BY <1>1, <1>3 DEF Disjoint, PagesOf
<1> QED
  BY <1>2, <1>3

(* A part of an extent overlaps nothing the whole does not overlap ...       *)
Part(g, e) == e[1] <= g[1] /\ g[1] + g[2] <= e[1] + e[2]

(* A part is disjoint from whatever the whole is disjoint from. *)
LEMMA PartDisjoint ==
  ASSUME NEW e \in Extent, NEW f \in Extent, NEW g \in Extent,
         Part(g, e), Disjoint(e, f)
  PROVE  Disjoint(g, f) /\ Disjoint(f, g)
<1>1. /\ e[1] \in Nat /\ e[2] \in Nat /\ f[1] \in Nat /\ f[2] \in Nat
      /\ g[1] \in Nat /\ g[2] \in Nat
  BY DEF Extent
<1> QED
  BY <1>1 DEF Part, Disjoint

(* A part of managed memory is managed memory. *)
LEMMA PartInside ==
  ASSUME NEW e \in Extent, NEW g \in Extent, Part(g, e), Inside(e)
  PROVE  Inside(g)
<1>1. e[1] \in Nat /\ e[2] \in Nat /\ g[1] \in Nat /\ g[2] \in Nat
  BY DEF Extent
<1>2. PagesOf(g) \subseteq PagesOf(e)
  BY <1>1 DEF Part, PagesOf
<1> QED
  BY <1>2 DEF Inside

(* ... and two adjacent extents overlap together what one of them overlaps.  *)
Adjacent(e, f) == e[2] # 0 /\ f[2] # 0 /\ f[1] = e[1] + e[2]

Joined(e, f) == <<e[1], e[2] + f[2]>>

(* Two adjoining extents meet nothing that neither met. *)
LEMMA JoinDisjoint ==
  ASSUME NEW e \in Extent, NEW f \in Extent, NEW g \in Extent,
         Adjacent(e, f), Disjoint(e, g), Disjoint(f, g)
  PROVE  Disjoint(Joined(e, f), g)
<1>1. /\ e[1] \in Nat /\ e[2] \in Nat /\ f[1] \in Nat /\ f[2] \in Nat
      /\ g[1] \in Nat /\ g[2] \in Nat
  BY DEF Extent
<1> QED
  BY <1>1 DEF Adjacent, Disjoint, Joined

(* Two adjoining extents of managed memory make one. *)
LEMMA JoinInside ==
  ASSUME NEW e \in Extent, NEW f \in Extent, Adjacent(e, f), Inside(e), Inside(f)
  PROVE  Inside(Joined(e, f)) /\ Joined(e, f) \in Extent
<1>1. e[1] \in Nat /\ e[2] \in Nat /\ f[1] \in Nat /\ f[2] \in Nat
  BY DEF Extent
<1>2. PagesOf(Joined(e, f)) \subseteq PagesOf(e) \cup PagesOf(f)
  BY <1>1 DEF Adjacent, PagesOf, Joined
<1>3. Joined(e, f) \in Extent
  BY <1>1 DEF Joined, Extent
<1> QED
  BY <1>2, <1>3 DEF Inside

(* A free block is an extent of at least one page, its head among them.      *)
LEMMA BlockExtent ==
  ASSUME TypeOK, NEW k \in Orders, NEW x \in DOMAIN freeList[k]
  PROVE  /\ freeList[k][x] \in Nat /\ OrderSize[k] \in Nat \ {0}
         /\ Block(k, x) \in Extent
<1>1. freeList[k] \in Seq(Nat)
  BY DEF TypeOK
<1>2. OrderSize[k] \in Nat \ {0}
  BY Sizes, OrderAssumption DEF Orders
<1> QED
  BY <1>1, <1>2 DEF Block, Extent

(* A part of what nobody holds is held by nobody. *)
LEMMA ApartPart ==
  ASSUME TypeOK, NEW e \in Extent, NEW g \in Extent, Part(g, e), Apart(e)
  PROVE  Apart(g)
<1>1. ASSUME NEW f \in live PROVE Disjoint(g, f)
  <2>1. f \in Extent /\ Disjoint(e, f)
    BY DEF TypeOK, Apart
  <2> QED
    BY <2>1, PartDisjoint
<1>2. ASSUME NEW k \in Orders, NEW x \in DOMAIN freeList[k]
      PROVE  Disjoint(g, Block(k, x))
  <2>1. Block(k, x) \in Extent /\ Disjoint(e, Block(k, x))
    BY BlockExtent DEF Apart
  <2> QED
    BY <2>1, PartDisjoint
<1> QED
  BY <1>1, <1>2 DEF Apart

(* Merging: two adjoining blocks that nobody holds make one. *)
LEMMA ApartJoin ==
  ASSUME TypeOK', NEW e \in Extent, NEW f \in Extent,
         Adjacent(e, f), Apart(e)', Apart(f)'
  PROVE  Apart(Joined(e, f))'
<1>1. ASSUME NEW g \in live' PROVE Disjoint(Joined(e, f), g)
  <2>1. g \in Extent /\ Disjoint(e, g) /\ Disjoint(f, g)
    BY DEF TypeOK, Apart
  <2> QED
    BY <2>1, JoinDisjoint
<1>2. ASSUME NEW k \in Orders, NEW x \in DOMAIN freeList'[k]
      PROVE  Disjoint(Joined(e, f), Block(k, x)')
  <2>1. Block(k, x)' \in Extent
    <3>1. freeList'[k] \in Seq(Nat) /\ OrderSize[k] \in Nat
      BY OrderAssumption DEF TypeOK, Orders
    <3> QED
      BY <3>1 DEF Block, Extent
  <2>2. PICK g \in Extent : g = Block(k, x)'
    BY <2>1
  <2>3. Disjoint(e, g) /\ Disjoint(f, g)
    BY <2>2 DEF Apart
  <2> QED
    BY <2>2, <2>3, JoinDisjoint
<1> QED
  BY <1>1, <1>2 DEF Apart, Joined

(* No free block begins at the first page of an extent apart from them all.  *)
LEMMA ApartHead ==
  ASSUME TypeOK, NEW p \in Nat, NEW s \in Nat \ {0}, Apart(<<p, s>>),
         NEW k \in Orders, NEW x \in DOMAIN freeList[k]
  PROVE  freeList[k][x] # p
<1>1. Disjoint(<<p, s>>, Block(k, x))
  BY DEF Apart
<1>2. freeList[k][x] \in Nat /\ OrderSize[k] \in Nat \ {0}
  BY BlockExtent
<1> QED
  BY <1>1, <1>2 DEF Disjoint, Block

(* The first page of an extent of managed memory is managed. *)
LEMMA ManagedGiven ==
  ASSUME TypeOK, NEW p \in Nat, NEW s \in Nat \ {0}, Inside(<<p, s>>)
  PROVE  p \in Managed
<1>1. p \in PagesOf(<<p, s>>)
  BY DEF PagesOf
<1>2. p \in Given
  BY <1>1 DEF Inside
<1>3. \A r \in 1 .. known : r \in DOMAIN Regions
  BY RegionAssumption DEF TypeOK
<1> QED
  BY <1>2, <1>3 DEF Given, Managed

-----------------------------------------------------------------------------
(* Lists.  After a push, a block is the new one or was there; after a pop,   *)
(* every block was there, and the one taken off overlaps none of the rest.   *)
LEMMA PushBlocks ==
  ASSUME TypeOK, NEW k \in Orders, NEW p \in Nat, Push(k, p),
         NEW m \in Orders, NEW y \in DOMAIN freeList'[m]
  PROVE  \/ m = k /\ y = 1 /\ freeList'[m][y] = p
         \/ /\ m = k /\ y # 1 /\ y - 1 \in DOMAIN freeList[m]
            /\ freeList'[m][y] = freeList[m][y - 1]
         \/ m # k /\ y \in DOMAIN freeList[m] /\ freeList'[m][y] = freeList[m][y]
<1>1. freeList[m] \in Seq(Nat) /\ freeList \in [Orders -> Seq(Nat)]
  BY DEF TypeOK
<1>2. freeList' = [freeList EXCEPT ![k] = <<p>> \o @]
  BY DEF Push
<1>3. CASE m # k
  BY <1>1, <1>2, <1>3
<1>4. CASE m = k
  <2>1. freeList'[m] = <<p>> \o freeList[m]
    BY <1>1, <1>2, <1>4
  <2> QED
    BY <1>1, <1>4, <2>1
<1> QED
  BY <1>3, <1>4

(* The blocks of the lists after list_del are blocks from before. *)
LEMMA PopBlocks ==
  ASSUME TypeOK, NEW k \in Orders, freeList[k] # <<>>, Pop(k),
         NEW m \in Orders, NEW y \in DOMAIN freeList'[m]
  PROVE  \/ /\ m = k /\ y + 1 \in DOMAIN freeList[m] /\ y + 1 # 1
            /\ freeList'[m][y] = freeList[m][y + 1]
         \/ m # k /\ y \in DOMAIN freeList[m] /\ freeList'[m][y] = freeList[m][y]
<1>1. freeList[m] \in Seq(Nat) /\ freeList \in [Orders -> Seq(Nat)]
  BY DEF TypeOK
<1>2. freeList' = [freeList EXCEPT ![k] = Tail(@)]
  BY DEF Pop
<1>3. CASE m # k
  BY <1>1, <1>2, <1>3
<1>4. CASE m = k
  <2>1. freeList'[m] = Tail(freeList[m])
    BY <1>1, <1>2, <1>4
  <2>2. Len(freeList'[m]) = Len(freeList[m]) - 1
    BY <1>1, <1>4, <2>1
  <2> QED
    BY <1>1, <1>4, <2>1, <2>2
<1> QED
  BY <1>3, <1>4

(* list_add and nr_free++ keep the counters exact. *)
LEMMA PushCount ==
  ASSUME TypeOK, Stored, NEW k \in Orders, NEW p \in Nat, Push(k, p), NEW m \in Orders
  PROVE  nrFree'[m] = Len(freeList'[m])
<1>1. /\ freeList[m] \in Seq(Nat) /\ freeList \in [Orders -> Seq(Nat)]
      /\ nrFree \in [Orders -> Int] /\ nrFree[m] = Len(freeList[m])
  BY DEF TypeOK, Stored
<1>2. CASE m = k
  <2>1. freeList'[m] = <<p>> \o freeList[m] /\ nrFree'[m] = nrFree[m] + 1
    BY <1>1, <1>2 DEF Push
  <2> QED
    BY <1>1, <2>1
<1>3. CASE m # k
  BY <1>1, <1>3 DEF Push
<1> QED
  BY <1>2, <1>3

(* list_del and nr_free-- keep the counters exact. *)
LEMMA PopCount ==
  ASSUME TypeOK, Stored, NEW k \in Orders, freeList[k] # <<>>, Pop(k), NEW m \in Orders
  PROVE  nrFree'[m] = Len(freeList'[m])
<1>1. /\ freeList[m] \in Seq(Nat) /\ freeList \in [Orders -> Seq(Nat)]
      /\ nrFree \in [Orders -> Int] /\ nrFree[m] = Len(freeList[m])
  BY DEF TypeOK, Stored
<1>2. CASE m = k
  <2>1. freeList'[m] = Tail(freeList[m]) /\ nrFree'[m] = nrFree[m] - 1
    BY <1>1, <1>2 DEF Pop
  <2> QED
    BY <1>1, <1>2, <2>1
<1>3. CASE m # k
  BY <1>1, <1>3 DEF Pop
<1> QED
  BY <1>2, <1>3

(* The head of a free block is a managed page. *)
LEMMA HeadManaged ==
  ASSUME TypeOK, Stored, NEW k \in Orders, NEW x \in DOMAIN freeList[k]
  PROVE  freeList[k][x] \in Managed
<1>1. freeList[k][x] \in Nat /\ OrderSize[k] \in Nat \ {0}
  BY BlockExtent
<1>2. Inside(<<freeList[k][x], OrderSize[k]>>)
  BY DEF Stored, Block
<1> QED
  BY <1>1, <1>2, ManagedGiven

(* The order field of the pushed block is its list's, the others' are kept.  *)
PushTags(k, p) ==
  /\ pageOrder'[p] = k
  /\ pageOrder' = pageOrder \/ pageOrder' = [pageOrder EXCEPT ![p] = k]

(* Giving a block that nobody holds to a list keeps what is stored disjoint. *)
LEMMA PushStored ==
  ASSUME TypeOK, Stored, NEW k \in Orders, NEW p \in Nat, Push(k, p),
         UNCHANGED <<live, known>>, PushTags(k, p),
         Apart(<<p, OrderSize[k]>>), Inside(<<p, OrderSize[k]>>)
  PROVE  /\ Stored'
         /\ \A e \in Extent :
              Apart(e) /\ Disjoint(e, <<p, OrderSize[k]>>) => Apart(e)'
<1> DEFINE B == <<p, OrderSize[k]>>
<1>0. OrderSize[k] \in Nat \ {0} /\ B \in Extent
  BY Sizes, OrderAssumption DEF Orders, Extent
<1>1. ASSUME NEW m \in Orders, NEW y \in DOMAIN freeList'[m]
      PROVE  /\ \/ m = k /\ y = 1
                \/ m = k /\ y # 1 /\ y - 1 \in DOMAIN freeList[m]
                \/ m # k /\ y \in DOMAIN freeList[m]
             /\ Block(m, y)' = IF m = k /\ y = 1 THEN B
                               ELSE Block(m, IF m = k THEN y - 1 ELSE y)
  BY <1>1, PushBlocks DEF Block
<1>2. ASSUME NEW m \in Orders, NEW y \in DOMAIN freeList'[m]
      PROVE  pageOrder'[freeList'[m][y]] = m
  <2>1. ASSUME NEW x \in DOMAIN freeList[m]
        PROVE  pageOrder'[freeList[m][x]] = m
    <3>1. freeList[m][x] # p /\ pageOrder[freeList[m][x]] = m
      BY <1>0, <2>1, ApartHead DEF Stored
    <3>2. freeList[m][x] \in Managed
      BY <2>1, HeadManaged
    <3> QED
      BY <3>1, <3>2 DEF PushTags, TypeOK
  <2> QED
    BY <1>2, <2>1, PushBlocks DEF PushTags
<1>3. ASSUME NEW m \in Orders, NEW y \in DOMAIN freeList'[m]
      PROVE  Inside(Block(m, y))'
  <2>1. Given' = Given
    BY DEF Given
  <2> DEFINE x == IF m = k THEN y - 1 ELSE y
  <2>2. CASE m = k /\ y = 1
    BY <1>1, <1>3, <2>1, <2>2 DEF Inside
  <2>3. CASE ~(m = k /\ y = 1)
    <3>1. x \in DOMAIN freeList[m] /\ Block(m, y)' = Block(m, x)
      BY <1>1, <1>3, <2>3
    <3> HIDE DEF x
    <3>2. Inside(Block(m, x))
      BY <1>3, <3>1 DEF Stored
    <3> QED
      BY <2>1, <3>1, <3>2 DEF Inside
  <2> QED
    BY <2>2, <2>3
<1>4. ASSUME NEW e \in Extent, Apart(e), Disjoint(e, B)
      PROVE  Apart(e)'
  <2>1. ASSUME NEW m \in Orders, NEW y \in DOMAIN freeList'[m]
        PROVE  Disjoint(e, Block(m, y)')
    BY <1>1, <1>4, <2>1 DEF Apart
  <2> QED
    BY <1>4, <2>1 DEF Apart
<1>5. LiveDisjoint'
  <2>1. ASSUME NEW e \in live, NEW m \in Orders, NEW y \in DOMAIN freeList'[m]
        PROVE  Disjoint(e, Block(m, y)')
    <3>1. CASE m = k /\ y = 1
      <4>1. Disjoint(B, e)
        BY <2>1 DEF Apart
      <4> QED
        BY <1>1, <2>1, <3>1, <4>1 DEF Disjoint
    <3>2. CASE ~(m = k /\ y = 1)
      <4> DEFINE x == IF m = k THEN y - 1 ELSE y
      <4>1. x \in DOMAIN freeList[m] /\ Block(m, y)' = Block(m, x)
        BY <1>1, <2>1, <3>2
      <4> HIDE DEF x
      <4> QED
        BY <2>1, <4>1 DEF Stored, LiveDisjoint
    <3> QED
      BY <3>1, <3>2
  <2> QED
    BY <2>1 DEF Stored, LiveDisjoint
<1>6. FreeDisjoint'
  <2>1. ASSUME NEW m \in Orders, NEW y \in DOMAIN freeList'[m],
               NEW n \in Orders, NEW z \in DOMAIN freeList'[n],
               <<m, y>> # <<n, z>>
        PROVE  Disjoint(Block(m, y)', Block(n, z)')
    <3>1. CASE m = k /\ y = 1
      <4>1. Disjoint(B, Block(n, IF n = k THEN z - 1 ELSE z))
        BY <1>1, <2>1, <3>1 DEF Apart
      <4> QED
        BY <1>1, <2>1, <3>1, <4>1
    <3>2. CASE n = k /\ z = 1
      <4>1. Disjoint(B, Block(m, IF m = k THEN y - 1 ELSE y))
        BY <1>1, <2>1, <3>2 DEF Apart
      <4> QED
        BY <1>1, <2>1, <3>2, <4>1 DEF Disjoint
    <3>3. CASE ~(m = k /\ y = 1) /\ ~(n = k /\ z = 1)
      <4>1. /\ (IF m = k THEN y - 1 ELSE y) \in DOMAIN freeList[m]
            /\ (IF n = k THEN z - 1 ELSE z) \in DOMAIN freeList[n]
        BY <1>1, <2>1, <3>3
      <4>2. <<m, IF m = k THEN y - 1 ELSE y>> # <<n, IF n = k THEN z - 1 ELSE z>>
        <5>1. y \in Int /\ z \in Int
          <6>1. freeList'[m] \in Seq(Nat) /\ freeList'[n] \in Seq(Nat)
            BY <2>1, PushType
          <6> QED
            BY <2>1, <6>1
        <5> QED
          BY <2>1, <5>1
      <4>3. Disjoint(Block(m, IF m = k THEN y - 1 ELSE y), Block(n, IF n = k THEN z - 1 ELSE z))
        BY <4>1, <4>2 DEF Stored, FreeDisjoint
      <4> QED
        BY <1>1, <2>1, <3>3, <4>3
    <3> QED
      BY <3>1, <3>2, <3>3
  <2> QED
    BY <2>1 DEF FreeDisjoint
<1>7. \A e \in live' : Inside(e)'
  BY DEF Stored, Inside, Given
<1>8. Stored'
  BY <1>2, <1>3, <1>5, <1>6, <1>7, PushCount DEF Stored
<1> QED
  BY <1>4, <1>8

(* The order field of the popped block, or of a page no free block holds,    *)
(* may change.                                                               *)
LEMMA PopStored ==
  ASSUME TypeOK, Stored, NEW k \in Orders, freeList[k] # <<>>, Pop(k),
         UNCHANGED <<live, known>>,
         NEW B, B = <<Head(freeList[k]), OrderSize[k]>>,
         NEW q \in Nat, NEW v,
         pageOrder' = pageOrder \/ pageOrder' = [pageOrder EXCEPT ![q] = v],
         q = Head(freeList[k]) \/ \E s \in Nat \ {0} : Apart(<<q, s>>)
  PROVE  /\ Stored'
         /\ B \in Extent /\ Inside(B) /\ Apart(B)'
         /\ pageOrder[Head(freeList[k])] = k
         /\ \A e \in Extent : Apart(e) => Apart(e)' /\ Disjoint(e, B)
<1>0. /\ freeList \in [Orders -> Seq(Nat)] /\ freeList' \in [Orders -> Seq(Nat)]
      /\ 1 \in DOMAIN freeList[k] /\ Head(freeList[k]) = freeList[k][1]
      /\ OrderSize[k] \in Nat \ {0}
  <2>1. freeList \in [Orders -> Seq(Nat)] /\ freeList' \in [Orders -> Seq(Nat)]
    BY PopType DEF TypeOK
  <2>2. OrderSize[k] \in Nat \ {0}
    BY Sizes, OrderAssumption DEF Orders
  <2> QED
    BY <2>1, <2>2
<1>1. /\ B = Block(k, 1) /\ B \in Extent /\ Inside(B)
      /\ pageOrder[Head(freeList[k])] = k
  BY <1>0, BlockExtent DEF Stored, Block
<1>2. ASSUME NEW m \in Orders, NEW y \in DOMAIN freeList'[m]
      PROVE  \E x \in DOMAIN freeList[m] :
                /\ x = (IF m = k THEN y + 1 ELSE y) /\ <<m, x>> # <<k, 1>>
                /\ freeList'[m][y] = freeList[m][x] /\ Block(m, y)' = Block(m, x)
  BY <1>2, PopBlocks DEF Block
<1>3. ASSUME NEW m \in Orders, NEW y \in DOMAIN freeList'[m]
      PROVE  pageOrder'[freeList'[m][y]] = m /\ Inside(Block(m, y))'
  <2>1. PICK x \in DOMAIN freeList[m] :
          /\ <<m, x>> # <<k, 1>>
          /\ freeList'[m][y] = freeList[m][x] /\ Block(m, y)' = Block(m, x)
    BY <1>2, <1>3
  <2>2. freeList[m][x] # q
    <3>1. CASE q = Head(freeList[k])
      <4>1. Disjoint(Block(k, 1), Block(m, x))
        BY <1>0, <2>1 DEF Stored, FreeDisjoint
      <4>2. /\ freeList[m][x] \in Nat /\ OrderSize[m] \in Nat \ {0}
            /\ freeList[k][1] \in Nat /\ OrderSize[k] \in Nat \ {0}
        BY <1>0, BlockExtent
      <4>3. \/ freeList[k][1] + OrderSize[k] <= freeList[m][x]
            \/ freeList[m][x] + OrderSize[m] <= freeList[k][1]
        BY <1>0, <4>1, <4>2 DEF Disjoint, Block
      <4>4. q = freeList[k][1]
        BY <1>0, <3>1
      <4> QED
        BY <4>2, <4>3, <4>4
    <3>2. CASE \E s \in Nat \ {0} : Apart(<<q, s>>)
      BY <3>2, ApartHead
    <3> QED
      BY <3>1, <3>2
  <2>3. pageOrder[freeList[m][x]] = m /\ freeList[m][x] \in Managed /\ Inside(Block(m, x))
    BY HeadManaged DEF Stored
  <2>4. Given' = Given
    BY DEF Given
  <2> QED
    BY <2>1, <2>2, <2>3, <2>4 DEF TypeOK, Inside
<1>4. ASSUME NEW e \in Extent, Apart(e)
      PROVE  Apart(e)' /\ Disjoint(e, B)
  <2>1. ASSUME NEW m \in Orders, NEW y \in DOMAIN freeList'[m]
        PROVE  Disjoint(e, Block(m, y)')
    BY <1>2, <1>4, <2>1 DEF Apart
  <2>2. Disjoint(e, Block(k, 1))
    BY <1>0, <1>4 DEF Apart
  <2> QED
    BY <1>1, <1>4, <2>1, <2>2 DEF Apart
<1>5. FreeDisjoint'
  <2>1. ASSUME NEW m \in Orders, NEW y \in DOMAIN freeList'[m],
               NEW n \in Orders, NEW z \in DOMAIN freeList'[n],
               <<m, y>> # <<n, z>>
        PROVE  Disjoint(Block(m, y)', Block(n, z)')
    <3>1. PICK a \in DOMAIN freeList[m] :
            a = (IF m = k THEN y + 1 ELSE y) /\ Block(m, y)' = Block(m, a)
      BY <1>2, <2>1
    <3>2. PICK b \in DOMAIN freeList[n] :
            b = (IF n = k THEN z + 1 ELSE z) /\ Block(n, z)' = Block(n, b)
      BY <1>2, <2>1
    <3>3. <<m, a>> # <<n, b>>
      <4>1. y \in Int /\ z \in Int
        <5>1. freeList'[m] \in Seq(Nat) /\ freeList'[n] \in Seq(Nat)
          BY <1>0
        <5> QED
          BY <2>1, <5>1
      <4> QED
        BY <2>1, <3>1, <3>2, <4>1
    <3> QED
      BY <3>1, <3>2, <3>3 DEF Stored, FreeDisjoint
  <2> QED
    BY <2>1 DEF FreeDisjoint
<1>6. ASSUME NEW e \in live, NEW m \in Orders, NEW y \in DOMAIN freeList'[m]
      PROVE  Disjoint(e, Block(m, y)')
  <2>1. PICK x \in DOMAIN freeList[m] : Block(m, y)' = Block(m, x)
    BY <1>2, <1>6
  <2> QED
    BY <1>6, <2>1 DEF Stored, LiveDisjoint
<1>7. LiveDisjoint'
  BY <1>6 DEF Stored, LiveDisjoint
<1>8. Apart(B)'
  <2>1. ASSUME NEW m \in Orders, NEW y \in DOMAIN freeList'[m]
        PROVE  Disjoint(B, Block(m, y)')
    <3>1. PICK x \in DOMAIN freeList[m] :
            <<m, x>> # <<k, 1>> /\ Block(m, y)' = Block(m, x)
      BY <1>2, <2>1
    <3>2. Disjoint(Block(k, 1), Block(m, x))
      BY <1>0, <3>1 DEF Stored, FreeDisjoint
    <3> QED
      BY <1>1, <3>1, <3>2
  <2>2. \A e \in live' : Disjoint(B, e)
    <3>1. ASSUME NEW e \in live PROVE Disjoint(B, e)
      <4>1. Disjoint(e, Block(k, 1))
        BY <1>0, <3>1 DEF Stored, LiveDisjoint
      <4> QED
        BY <1>1, <4>1 DEF Disjoint
    <3> QED
      BY <3>1
  <2> QED
    BY <2>1, <2>2 DEF Apart
<1>9. Stored'
  <2>1. \A e \in live' : Inside(e)'
    BY DEF Stored, Inside, Given
  <2> QED
    BY <1>3, <1>5, <1>7, <2>1, PopCount DEF Stored
<1> QED
  BY <1>1, <1>4, <1>8, <1>9

(* Order fields of pages that no free block begins at, callers' extents and  *)
(* the given regions may change while the lists do not.                      *)
LEMMA KeepStored ==
  ASSUME TypeOK, Stored, UNCHANGED <<freeList, nrFree, live, known>>,
         NEW q \in Nat, NEW v,
         \/ pageOrder' = pageOrder
         \/ /\ pageOrder' = [pageOrder EXCEPT ![q] = v]
            /\ \E s \in Nat \ {0} : Apart(<<q, s>>)
  PROVE  Stored' /\ \A e : (Apart(e)' <=> Apart(e)) /\ (Inside(e)' <=> Inside(e))
<1>1. \A e : (Apart(e)' <=> Apart(e)) /\ (Inside(e)' <=> Inside(e))
  BY DEF Apart, Inside, Given, Block
<1>2. ASSUME NEW k \in Orders, NEW x \in DOMAIN freeList[k]
      PROVE  pageOrder'[freeList[k][x]] = k
  <2>1. pageOrder[freeList[k][x]] = k /\ freeList[k][x] \in Managed
    BY HeadManaged DEF Stored
  <2>2. CASE pageOrder' = pageOrder
    BY <2>1, <2>2
  <2>3. CASE /\ pageOrder' = [pageOrder EXCEPT ![q] = v]
             /\ \E s \in Nat \ {0} : Apart(<<q, s>>)
    <3>1. freeList[k][x] # q
      BY <2>3, ApartHead
    <3> QED
      BY <2>1, <2>3, <3>1 DEF TypeOK
  <2> QED
    BY <2>2, <2>3
<1> QED
  BY <1>1, <1>2 DEF Stored, FreeDisjoint, LiveDisjoint, Block, Inside

(* alloc_pages: what nobody holds becomes a caller's. *)
LEMMA GiveStored ==
  ASSUME TypeOK, Stored, UNCHANGED <<freeList, nrFree, pageOrder, known>>,
         NEW e \in Extent, Apart(e), Inside(e), live' = live \cup {e}
  PROVE  Stored' /\ \A f : Apart(f) /\ Disjoint(f, e) => Apart(f)'
<1>1. \A f : Apart(f) /\ Disjoint(f, e) => Apart(f)'
  BY DEF Apart, Block
<1>2. LiveDisjoint'
  <2>1. \A f \in live : Disjoint(e, f) /\ Disjoint(f, e)
    BY DEF Apart, Disjoint
  <2> QED
    <3>1. \A f, g \in live \cup {e} : f # g => Disjoint(f, g)
      BY <2>1 DEF Stored, LiveDisjoint
    <3>2. \A f \in live \cup {e}, k \in Orders :
            \A x \in DOMAIN freeList[k] : Disjoint(f, Block(k, x))
      BY DEF Stored, LiveDisjoint, Apart
    <3> QED
      BY <3>1, <3>2 DEF LiveDisjoint, Block
<1> QED
  BY <1>1, <1>2 DEF Stored, FreeDisjoint, Block, Inside, Given

(* free_pages: what a caller held is held by nobody. *)
LEMMA TakeBackStored ==
  ASSUME TypeOK, Stored, UNCHANGED <<freeList, nrFree, pageOrder, known>>,
         NEW e \in live, live' = live \ {e}
  PROVE  Stored' /\ Apart(e)' /\ Inside(e)
<1>1. Apart(e)'
  <2>1. \A f \in live' : Disjoint(e, f)
    BY DEF Stored, LiveDisjoint
  <2> QED
    BY <2>1 DEF Stored, LiveDisjoint, Apart, Block
<1> QED
  BY <1>1 DEF Stored, FreeDisjoint, LiveDisjoint, Block, Inside, Given

-----------------------------------------------------------------------------
(* What the call under way holds.                                            *)
LEMMA HandsExtent ==
  ASSUME TypeOK
  PROVE  Held \in Extent /\ Rest \in Extent /\ Kept \in Extent
  BY Fields DEF Held, Rest, Kept, Extent

(* An extent of no pages meets nothing. *)
LEMMA Nothing ==
  ASSUME NEW b \in Nat
  PROVE  /\ <<b, 0>> \in Extent /\ Apart(<<b, 0>>) /\ Inside(<<b, 0>>)
         /\ \A e : Disjoint(e, <<b, 0>>) /\ Disjoint(<<b, 0>>, e)
         /\ Apart(<<b, 0>>)' /\ Inside(<<b, 0>>)'
  BY DEF Extent, Apart, Inside, Disjoint, PagesOf

(* The three extents an operation holds, after a step that names the new ones. *)
LEMMA HandsNext ==
  ASSUME NEW h, NEW r, NEW c, Held' = h, Rest' = r, Kept' = c,
         Disjoint(h, r), Disjoint(h, c), Disjoint(r, c),
         Apart(h)', Apart(r)', Apart(c)', Inside(h)', Inside(r)', Inside(c)',
         pc' = "merge" => pageOrder'[op'.held] = op'.order
  PROVE  InHandOK'
  BY DEF InHandOK, Apart, Inside, Disjoint, PagesOf

(* The call under way holds nothing that counts.                             *)
LEMMA EmptyHanded ==
  ASSUME pc' \notin {"split", "memmap", "carve", "merge"}
  PROVE  InHandOK'
<1>1. Held' = <<0, 0>> /\ Rest' = <<0, 0>> /\ Kept' = <<0, 0>>
  BY DEF Held, Rest, Kept
<1> QED
  BY <1>1, Nothing, HandsNext

-----------------------------------------------------------------------------
(* Boot.  A region is given whole; no page of it was given before.           *)
LEMMA OwnMemmapRegion ==
  ASSUME IInv, MemmapRegion
  PROVE  Stored' /\ InHandOK'
<1>1. TypeOK /\ Stored /\ pc = "memmap" /\ pc' = "memmap" /\ op.n = 0
  BY DEF IInv, TypeInv, MemmapRegion
<1>2. PICK e \in Extent : e = Regions[known + 1] /\ known + 1 \in DOMAIN Regions
  <2>1. known + 1 \in DOMAIN Regions
    BY <1>1, RegionAssumption DEF MemmapRegion, TypeOK
  <2> QED
    BY <2>1, RegionAssumption DEF Extent
<1>3. /\ known' = known + 1 /\ UNCHANGED <<freeList, nrFree, live>>
      /\ op' = [NoOp EXCEPT !.base = e[1], !.n = e[2], !.order = MaxOrder]
      /\ pageOrder' = [q \in Managed |-> IF q \in PagesOf(e) THEN 0 ELSE pageOrder[q]]
  BY <1>2 DEF MemmapRegion
<1>4. Given' = Given \cup PagesOf(e)
  <2>1. 1 .. known' = (1 .. known) \cup {known + 1}
    BY <1>1, <1>3 DEF TypeOK
  <2> QED
    BY <1>2, <2>1 DEF Given
<1>5. Given \cap PagesOf(e) = {}
  <2>1. ASSUME NEW r \in 1 .. known PROVE PagesOf(Regions[r]) \cap PagesOf(e) = {}
    <3>1. r \in DOMAIN Regions /\ r # known + 1
      BY <1>1, RegionAssumption DEF TypeOK
    <3>2. Regions[r] \in Extent /\ Disjoint(Regions[r], e)
      BY <1>2, <3>1, RegionAssumption DEF Extent
    <3> QED
      BY <3>2, DisjointSets
  <2> QED
    BY <2>1 DEF Given
<1>6. \A f \in Extent : Inside(f) => Disjoint(e, f) /\ Inside(f)'
  BY <1>4, <1>5, DisjointSets DEF Inside
<1>7. Apart(e)' /\ Inside(e)'
  <2>1. \A f \in live : Disjoint(e, f)
    BY <1>1, <1>6 DEF Stored, TypeOK
  <2>2. ASSUME NEW k \in Orders, NEW x \in DOMAIN freeList[k] PROVE Disjoint(e, Block(k, x))
    BY <1>1, <1>6, BlockExtent DEF Stored
  <2> QED
    BY <1>3, <1>4, <2>1, <2>2 DEF Apart, Block, Inside
<1>8. ASSUME NEW k \in Orders, NEW x \in DOMAIN freeList[k]
      PROVE  pageOrder'[freeList[k][x]] = k /\ Inside(Block(k, x))'
  <2>1. Block(k, x) \in Extent /\ Inside(Block(k, x)) /\ Block(k, x)' = Block(k, x)
    BY <1>1, <1>3, BlockExtent DEF Stored, Block
  <2>2. freeList[k][x] \in Managed /\ pageOrder[freeList[k][x]] = k
    BY <1>1, HeadManaged DEF Stored
  <2>3. freeList[k][x] \in PagesOf(Block(k, x))
    <3>1. freeList[k][x] \in Nat /\ OrderSize[k] \in Nat \ {0}
      BY <1>1, BlockExtent
    <3> QED
      BY <3>1 DEF PagesOf, Block
  <2>4. freeList[k][x] \notin PagesOf(e)
    BY <1>5, <2>1, <2>3 DEF Inside
  <2> QED
    BY <1>3, <1>4, <2>1, <2>2, <2>4 DEF Inside
<1>9. Stored'
  <2>1. \A f \in live' : Inside(f)'
    BY <1>1, <1>3, <1>6 DEF Stored, TypeOK
  <2> QED
    BY <1>1, <1>3, <1>8, <2>1 DEF Stored, FreeDisjoint, LiveDisjoint, Block
<1>10. Held' = <<0, 0>> /\ Rest' = e /\ Kept' = <<0, 0>>
  BY <1>1, <1>2, <1>3 DEF Held, Rest, Kept, NoOp, Extent
<1> QED
  BY <1>1, <1>7, <1>9, <1>10, Nothing, HandsNext

(* init_memmap: a block goes from the region to its list. *)
LEMMA OwnMemmapPush ==
  ASSUME IInv, MemmapPush
  PROVE  Stored' /\ InHandOK'
<1>1. /\ TypeOK /\ Stored /\ InHandOK /\ pc = "memmap" /\ pc' = "memmap"
      /\ UNCHANGED <<live, known>>
  BY DEF IInv, TypeInv, MemmapPush
<1>2. PICK k \in Orders, p \in Nat, n \in Nat : k = op.order /\ p = op.base /\ n = op.n
  BY <1>1, Fields
<1>3. /\ OrderSize[k] \in Nat \ {0} /\ n >= OrderSize[k] /\ Push(k, p)
      /\ pageOrder' = [pageOrder EXCEPT ![p] = k]
      /\ op' = [op EXCEPT !.base = p + OrderSize[k], !.n = n - OrderSize[k]]
  BY <1>2, Sizes, OrderAssumption DEF MemmapPush, Orders
<1> DEFINE e == <<p, n>>
           B == <<p, OrderSize[k]>>
           r == <<p + OrderSize[k], n - OrderSize[k]>>
<1>4. e \in Extent /\ Apart(e) /\ Inside(e)
  BY <1>1, <1>2 DEF InHandOK, Rest, Extent
<1>5. /\ B \in Extent /\ r \in Extent /\ Part(B, e) /\ Part(r, e)
      /\ Disjoint(r, B)
  BY <1>2, <1>3 DEF Extent, Part, Disjoint
<1>6. Apart(B) /\ Apart(r) /\ Inside(B) /\ Inside(r)
  <2> HIDE DEF e, B, r
  <2> QED
    BY <1>1, <1>4, <1>5, ApartPart, PartInside
<1>7. PushTags(k, p)
  <2>1. p \in Managed
    BY <1>1, <1>3, <1>6, ManagedGiven
  <2> QED
    BY <1>1, <1>3, <2>1 DEF PushTags, TypeOK
<1>8. Stored' /\ Apart(r)'
  <2> HIDE DEF r
  <2> QED
    BY <1>1, <1>3, <1>5, <1>6, <1>7, PushStored
<1>9. Inside(r)'
  BY <1>1, <1>6 DEF Inside, Given
<1>10. Held' = <<0, 0>> /\ Rest' = r /\ Kept' = <<0, 0>>
  <2>1. op \in OpType
    BY <1>1, Fields
  <2> QED
    BY <1>1, <1>3, <2>1 DEF Held, Rest, Kept, OpType
<1> HIDE DEF r
<1> QED
  BY <1>1, <1>8, <1>9, <1>10, Nothing, HandsNext

-----------------------------------------------------------------------------
(* Allocation.  A popped block is held; its halves are apart from the rest.  *)
LEMMA OwnAllocTake ==
  ASSUME IInv, NEW n \in Requests, AllocTake(n), pc' # "fault"
  PROVE  Stored' /\ InHandOK'
<1>1. /\ TypeOK /\ Stored /\ pc = "idle" /\ UNCHANGED <<live, known, pageOrder>>
      /\ n \in Nat /\ ~Refused(n) /\ Serving(n) # {}
  BY RequestAssumption DEF IInv, TypeInv, AllocTake
<1>2. PICK k \in Orders : k = Smallest(Serving(n))
  BY <1>1, SmallestServes
<1>3. /\ freeList[k] # <<>> /\ Pop(k) /\ pc' = "split"
      /\ op' = [NoOp EXCEPT !.held = Head(freeList[k]), !.order = k,
                            !.goal = GetOrder(n), !.want = n]
  BY <1>2 DEF AllocTake
<1>4. PICK B : B = <<Head(freeList[k]), OrderSize[k]>>
  OBVIOUS
<1>5. Stored' /\ Apart(B)' /\ Inside(B)
  BY <1>1, <1>3, <1>4, PopStored, PopType
<1>6. Inside(B)'
  BY <1>1, <1>5 DEF Inside, Given
<1>7. Held' = B /\ Rest' = <<0, 0>> /\ Kept' = <<0, 0>>
  BY <1>3, <1>4 DEF Held, Rest, Kept, NoOp
<1> QED
  BY <1>3, <1>5, <1>6, <1>7, Nothing, HandsNext

(* alloc_pages: the upper half of a block goes to the list below. *)
LEMMA OwnSplitStep ==
  ASSUME IInv, SplitStep
  PROVE  Stored' /\ InHandOK'
<1>1. /\ TypeOK /\ Stored /\ InHandOK /\ pc = "split" /\ pc' = "split"
      /\ UNCHANGED <<live, known>>
  BY DEF IInv, TypeInv, SplitStep
<1>2. PICK k \in Orders, p \in Nat : k + 1 = op.order /\ p = op.held
  <2>1. PICK i \in Nat : i = op.order /\ i <= MaxOrder /\ i # 0
    BY <1>1, Fields DEF SplitStep
  <2>2. i - 1 \in Orders /\ (i - 1) + 1 = i
    <3>1. MaxOrder \in Nat
      BY OrderAssumption
    <3> QED
      BY <2>1, <3>1 DEF Orders
  <2> QED
    BY <1>1, <2>1, <2>2, Fields
<1>3. k = op.order - 1 /\ OrderSize[k] \in Nat \ {0} /\ OrderSize[k + 1] = 2 * OrderSize[k]
  <2>1. OrderSize[k] \in Nat \ {0}
    BY Sizes, OrderAssumption DEF Orders
  <2>2. k \in Nat
    BY OrderAssumption DEF Orders
  <2> QED
    BY <1>2, <2>1, <2>2, OrderAssumption
<1>4. PICK b \in Nat : b = p + OrderSize[k]
  BY <1>3
<1>5. /\ Push(k, b) /\ pageOrder' = [pageOrder EXCEPT ![b] = k]
      /\ op' = [op EXCEPT !.order = k]
  BY <1>2, <1>3, <1>4 DEF SplitStep
<1> DEFINE e == <<p, OrderSize[k + 1]>>
           B == <<b, OrderSize[k]>>
           h == <<p, OrderSize[k]>>
<1>6. e \in Extent /\ Apart(e) /\ Inside(e)
  BY <1>1, <1>2, <1>3 DEF InHandOK, Held, Extent
<1>7. /\ B \in Extent /\ h \in Extent /\ Part(B, e) /\ Part(h, e)
      /\ Disjoint(h, B)
  BY <1>2, <1>3, <1>4 DEF Extent, Part, Disjoint
<1>8. Apart(B) /\ Apart(h) /\ Inside(B) /\ Inside(h)
  <2> HIDE DEF e, B, h
  <2> QED
    BY <1>1, <1>6, <1>7, ApartPart, PartInside
<1>9. PushTags(k, b)
  <2>1. b \in Managed
    BY <1>1, <1>3, <1>8, ManagedGiven
  <2> QED
    BY <1>1, <1>5, <2>1 DEF PushTags, TypeOK
<1>10. Stored' /\ Apart(h)'
  <2> HIDE DEF h
  <2> QED
    BY <1>1, <1>5, <1>7, <1>8, <1>9, PushStored
<1>11. Inside(h)'
  BY <1>1, <1>8 DEF Inside, Given
<1>12. Held' = h /\ Rest' = <<0, 0>> /\ Kept' = <<0, 0>>
  <2>1. op \in OpType
    BY <1>1, Fields
  <2> QED
    BY <1>1, <1>2, <1>5, <2>1 DEF Held, Rest, Kept, OpType
<1> HIDE DEF h
<1> QED
  BY <1>1, <1>10, <1>11, <1>12, Nothing, HandsNext

(* The block goes to the caller, or is cut in two at the page asked for.     *)
LEMMA OwnSplitDone ==
  ASSUME IInv, SplitDone
  PROVE  Stored' /\ InHandOK'
<1>1. /\ TypeOK /\ Shape /\ Stored /\ InHandOK /\ pc = "split"
      /\ UNCHANGED <<freeList, nrFree, pageOrder, known>>
  BY DEF IInv, TypeInv, SplitDone
<1>2. PICK p \in Nat, s \in Nat, n \in Nat : p = op.held /\ s = OrderSize[op.order] /\ n = op.want
  BY <1>1, Fields
<1>3. n # 0 /\ n <= s
  BY <1>1, <1>2 DEF SplitDone, Shape
<1> DEFINE e == <<p, s>>
           c == <<p, n>>
           r == <<p + n, s - n>>
<1>4. e \in Extent /\ Apart(e) /\ Inside(e)
  BY <1>1, <1>2 DEF InHandOK, Held, Extent
<1>5. CASE n = s
  <2>1. live' = live \cup {c} /\ pc' = "idle" /\ c = e
    BY <1>2, <1>5 DEF SplitDone, Return
  <2> HIDE DEF e, c
  <2> QED
    BY <1>1, <1>4, <2>1, GiveStored, EmptyHanded
<1>6. CASE n # s
  <2>1. /\ pc' = "carve" /\ live' = live
        /\ op' = [NoOp EXCEPT !.page = p, !.want = n, !.base = p + n, !.n = s - n]
    BY <1>2, <1>6 DEF SplitDone
  <2>2. /\ c \in Extent /\ r \in Extent /\ Part(c, e) /\ Part(r, e) /\ Disjoint(r, c)
    BY <1>3 DEF Extent, Part, Disjoint
  <2>3. Held' = <<0, 0>> /\ Rest' = r /\ Kept' = c
    BY <2>1 DEF Held, Rest, Kept, NoOp
  <2> HIDE DEF e, c, r
  <2>4. Apart(c) /\ Apart(r) /\ Inside(c) /\ Inside(r)
    BY <1>1, <1>4, <2>2, ApartPart, PartInside
  <2>5. Stored' /\ Apart(c)' /\ Apart(r)' /\ Inside(c)' /\ Inside(r)'
    BY <1>1, <2>1, <2>4, KeepStored
  <2> QED
    BY <2>1, <2>2, <2>3, <2>5, Nothing, HandsNext
<1> QED
  BY <1>5, <1>6

-----------------------------------------------------------------------------
(* Release.  The caller's extent is what is left to free.                    *)
LEMMA OwnFreeCall ==
  ASSUME IInv, NEW e \in live, FreeCall(e)
  PROVE  Stored' /\ InHandOK'
<1>1. /\ TypeOK /\ Stored /\ UNCHANGED <<freeList, nrFree, pageOrder, known>>
      /\ live' = live \ {e} /\ pc' = "carve" /\ e \in Extent
      /\ op' = [NoOp EXCEPT !.base = e[1], !.n = e[2]]
  BY DEF IInv, TypeInv, FreeCall, TypeOK
<1>2. Stored' /\ Apart(e)' /\ Inside(e)
  BY <1>1, TakeBackStored
<1>3. Inside(e)'
  BY <1>1, <1>2 DEF Inside, Given
<1>4. Held' = <<0, 0>> /\ Rest' = e /\ Kept' = <<0, 0>>
  BY <1>1 DEF Held, Rest, Kept, NoOp, Extent
<1> QED
  BY <1>1, <1>2, <1>3, <1>4, Nothing, HandsNext

(* free_pages: a block is cut off the extent being released. *)
LEMMA OwnCarveStep ==
  ASSUME IInv, CarveStep
  PROVE  Stored' /\ InHandOK'
<1>1. /\ TypeOK /\ Shape /\ Stored /\ InHandOK /\ pc = "carve" /\ pc' = "merge"
      /\ UNCHANGED <<freeList, nrFree, live, known>>
  BY DEF IInv, TypeInv, CarveStep
<1>2. PICK k \in Orders, p \in Nat, n \in Nat, c \in Extent :
        k = LargestOrder(op.n) /\ p = op.base /\ n = op.n /\ c = Kept
  <2>1. LargestOrder(op.n) \in Orders
    BY <1>1, Fields, LargestOrderFits DEF CarveStep, Shape
  <2> QED
    BY <1>1, <2>1, Fields, HandsExtent
<1>3. OrderSize[k] \in Nat \ {0} /\ OrderSize[k] <= n
  <2>1. OrderSize[k] <= n
    BY <1>1, <1>2, LargestOrderFits DEF CarveStep, Shape
  <2> QED
    BY <2>1, Sizes, OrderAssumption DEF Orders
<1>4. /\ pageOrder' = [pageOrder EXCEPT ![p] = k]
      /\ op' = [op EXCEPT !.held = p, !.order = k,
                          !.base = p + OrderSize[k], !.n = n - OrderSize[k]]
  BY <1>2 DEF CarveStep
<1> DEFINE e == <<p, n>>
           h == <<p, OrderSize[k]>>
           r == <<p + OrderSize[k], n - OrderSize[k]>>
<1>5. e \in Extent /\ Apart(e) /\ Inside(e) /\ Apart(c) /\ Inside(c) /\ Disjoint(e, c)
  BY <1>1, <1>2 DEF InHandOK, Rest, Extent
<1>6. h \in Extent /\ r \in Extent /\ Part(h, e) /\ Part(r, e) /\ Disjoint(h, r)
  BY <1>3 DEF Extent, Part, Disjoint
<1>7. Held' = h /\ Rest' = r /\ Kept' = c /\ op'.held = p /\ op'.order = k
  <2>1. op \in OpType
    BY <1>1, Fields
  <2> QED
    BY <1>1, <1>2, <1>4, <2>1 DEF Held, Rest, Kept, OpType
<1>8. /\ Apart(h) /\ Apart(r) /\ Inside(h) /\ Inside(r)
      /\ Disjoint(h, c) /\ Disjoint(r, c)
  <2> HIDE DEF e, h, r
  <2> QED
    BY <1>1, <1>2, <1>5, <1>6, ApartPart, PartInside, PartDisjoint
<1>9. /\ Stored' /\ Apart(h)' /\ Apart(r)' /\ Apart(c)'
      /\ Inside(h)' /\ Inside(r)' /\ Inside(c)'
  <2>1. Stored' /\ \A f : (Apart(f)' <=> Apart(f)) /\ (Inside(f)' <=> Inside(f))
    BY <1>1, <1>3, <1>4, <1>8, KeepStored
  <2> HIDE DEF h, r
  <2> QED
    BY <1>5, <1>8, <2>1
<1>10. pageOrder'[op'.held] = op'.order
  <2>1. p \in Managed
    BY <1>1, <1>3, <1>8, ManagedGiven
  <2> QED
    BY <1>1, <1>4, <1>7, <2>1 DEF TypeOK
<1> HIDE DEF h, r
<1> QED
  BY <1>6, <1>7, <1>8, <1>9, <1>10, HandsNext

(* free_pages: nothing is left of the extent. *)
LEMMA OwnCarveDone ==
  ASSUME IInv, CarveDone
  PROVE  Stored' /\ InHandOK'
<1>1. /\ TypeOK /\ Stored /\ InHandOK /\ pc = "carve" /\ pc' = "idle"
      /\ UNCHANGED <<freeList, nrFree, pageOrder, known>>
  BY DEF IInv, TypeInv, CarveDone, Return
<1>2. PICK c \in Extent : c = <<op.page, op.want>> /\ c = Kept
  BY <1>1, HandsExtent DEF Kept
<1>3. Apart(c) /\ Inside(c)
  BY <1>1, <1>2 DEF InHandOK
<1>4. CASE op.want > 0
  <2>1. live' = live \cup {c}
    BY <1>2, <1>4 DEF CarveDone, Return
  <2> QED
    BY <1>1, <1>3, <2>1, GiveStored, EmptyHanded
<1>5. CASE ~(op.want > 0)
  <2>1. live' = live
    BY <1>5 DEF CarveDone
  <2> QED
    BY <1>1, <2>1, KeepStored, EmptyHanded
<1> QED
  BY <1>4, <1>5

(* What every merge does: the first block of the order leaves its list, and  *)
(* with the block held makes one of the next order.                          *)
LEMMA OwnMerge ==
  ASSUME IInv, MergeLeft \/ MergeRight
  PROVE  Stored' /\ InHandOK'
<1>1. /\ TypeOK /\ Stored /\ InHandOK /\ pc = "merge" /\ pc' = "merge"
      /\ UNCHANGED <<live, known>> /\ Candidate /\ Pop(op.order)
  BY DEF IInv, TypeInv, MergeLeft, MergeRight
<1>2. PICK k \in Orders, p \in Nat, b \in Nat, r \in Extent, c \in Extent :
        /\ k = op.order /\ p = op.held /\ b = Head(freeList[op.order])
        /\ r = Rest /\ c = Kept
  <2>1. Head(freeList[op.order]) \in Nat
    BY <1>1, Fields, PopType DEF Candidate
  <2> QED
    BY <1>1, <2>1, Fields, HandsExtent
<1>3. /\ OrderSize[k] \in Nat \ {0} /\ OrderSize[k + 1] = 2 * OrderSize[k]
      /\ freeList[k] # <<>> /\ Pop(k)
  <2>1. OrderSize[k] \in Nat \ {0}
    BY Sizes, OrderAssumption DEF Orders
  <2>2. OrderSize[k + 1] = 2 * OrderSize[k]
    BY OrderAssumption
  <2> QED
    BY <1>1, <1>2, <2>1, <2>2 DEF Candidate
<1> DEFINE H == <<p, OrderSize[k]>>
           B == <<b, OrderSize[k]>>
<1>4. /\ H \in Extent /\ Apart(H) /\ Inside(H) /\ pageOrder[p] = k
      /\ Apart(r) /\ Inside(r) /\ Apart(c) /\ Inside(c)
      /\ Disjoint(H, r) /\ Disjoint(H, c) /\ Disjoint(r, c)
  BY <1>1, <1>2, <1>3 DEF InHandOK, Held, Extent
<1>5. B \in Extent /\ Inside(B) /\ pageOrder[b] = k
  <2>1. 1 \in DOMAIN freeList[k] /\ b = freeList[k][1]
    BY <1>1, <1>2, <1>3 DEF TypeOK
  <2> QED
    BY <1>1, <2>1, BlockExtent DEF Stored, Block
<1>6. p \in Managed /\ b \in Managed
  BY <1>1, <1>3, <1>4, <1>5, ManagedGiven
<1>7. op \in OpType
  BY <1>1, Fields
(* The low and the high half, and the page whose order field changes.        *)
<1>8. \E l \in Nat :
        /\ \/ l = b /\ p = b + OrderSize[k]
           \/ l = p /\ b = p + OrderSize[k]
        /\ pageOrder' = [pageOrder EXCEPT ![l] = k + 1]
        /\ op'.held = l /\ op'.order = k + 1
        /\ op'.base = op.base /\ op'.n = op.n /\ op'.page = op.page /\ op'.want = op.want
  <2>1. CASE MergeLeft
    <3>1. /\ p = b + OrderSize[k] /\ pageOrder' = [pageOrder EXCEPT ![b] = k + 1]
          /\ op' = [op EXCEPT !.held = b, !.order = k + 1]
      BY <1>2, <1>5, <2>1 DEF MergeLeft, LeftMatch
    <3> QED
      BY <1>7, <3>1 DEF OpType
  <2>2. CASE MergeRight
    <3>1. /\ b = p + OrderSize[k] /\ pageOrder' = [pageOrder EXCEPT ![p] = k + 1]
          /\ op' = [op EXCEPT !.order = k + 1]
      BY <1>2, <1>4, <2>2 DEF MergeRight, RightMatch
    <3> QED
      BY <1>2, <1>7, <3>1 DEF OpType
  <2> QED
    BY <2>1, <2>2
<1>9. PICK l \in Nat :
        /\ \/ l = b /\ p = b + OrderSize[k]
           \/ l = p /\ b = p + OrderSize[k]
        /\ pageOrder' = [pageOrder EXCEPT ![l] = k + 1]
        /\ op'.held = l /\ op'.order = k + 1
        /\ op'.base = op.base /\ op'.n = op.n /\ op'.page = op.page /\ op'.want = op.want
  BY <1>8
<1>10. Stored' /\ Apart(B)' /\ \A e \in Extent : Apart(e) => Apart(e)' /\ Disjoint(e, B)
  <2>1. l = Head(freeList[k]) \/ \E s \in Nat \ {0} : Apart(<<l, s>>)
    BY <1>2, <1>3, <1>4, <1>9
  <2> QED
    BY <1>1, <1>2, <1>3, <1>9, <2>1, PopStored
<1> DEFINE J == <<l, 2 * OrderSize[k]>>
<1>11. /\ J \in Extent /\ Apart(J)' /\ Inside(J)
       /\ Disjoint(J, r) /\ Disjoint(J, c)
  <2>1. /\ Apart(H)' /\ Apart(B)' /\ TypeOK'
        /\ Disjoint(B, r) /\ Disjoint(B, c)
    <3>1. TypeOK'
      BY TypeFree DEF IInv, TypeInv
    <3> QED
      BY <1>4, <1>10, <3>1 DEF Disjoint
  <2>2. CASE p = b + OrderSize[k] /\ l = b
    <3>1. Adjacent(B, H) /\ J = Joined(B, H)
      BY <1>3, <2>2 DEF Adjacent, Joined
    <3> HIDE DEF B, H, J
    <3> QED
      BY <1>4, <1>5, <2>1, <3>1, ApartJoin, JoinInside, JoinDisjoint
  <2>3. CASE b = p + OrderSize[k] /\ l = p
    <3>1. Adjacent(H, B) /\ J = Joined(H, B)
      BY <1>3, <2>3 DEF Adjacent, Joined
    <3> HIDE DEF B, H, J
    <3> QED
      BY <1>4, <1>5, <2>1, <3>1, ApartJoin, JoinInside, JoinDisjoint
  <2> QED
    BY <1>9, <2>2, <2>3
<1>12. /\ Apart(r)' /\ Apart(c)' /\ Inside(J)' /\ Inside(r)' /\ Inside(c)'
  BY <1>1, <1>4, <1>10, <1>11 DEF Inside, Given
<1>13. Held' = J /\ Rest' = r /\ Kept' = c
  BY <1>1, <1>2, <1>3, <1>9 DEF Held, Rest, Kept
<1>14. pageOrder'[op'.held] = op'.order
  BY <1>1, <1>6, <1>9 DEF TypeOK
<1> HIDE DEF J
<1> QED
  BY <1>4, <1>10, <1>11, <1>12, <1>13, <1>14, HandsNext

(* free_pages: the merged block goes to its list. *)
LEMMA OwnMergeStop ==
  ASSUME IInv, MergeStop, pc' # "fault"
  PROVE  Stored' /\ InHandOK'
<1>1. /\ TypeOK /\ Stored /\ InHandOK /\ pc = "merge" /\ pc' = "carve"
      /\ UNCHANGED <<live, known, pageOrder>> /\ Push(op.order, op.held)
      /\ op' = [op EXCEPT !.held = 0, !.order = 0]
  BY DEF IInv, TypeInv, MergeStop
<1>2. PICK k \in Orders, p \in Nat, r \in Extent, c \in Extent :
        k = op.order /\ p = op.held /\ r = Rest /\ c = Kept
  BY <1>1, Fields, HandsExtent
<1>3. /\ Apart(<<p, OrderSize[k]>>) /\ Inside(<<p, OrderSize[k]>>) /\ pageOrder[p] = k
      /\ Apart(r) /\ Inside(r) /\ Apart(c) /\ Inside(c) /\ Disjoint(r, c)
      /\ Disjoint(r, <<p, OrderSize[k]>>) /\ Disjoint(c, <<p, OrderSize[k]>>)
  BY <1>1, <1>2 DEF InHandOK, Held, Disjoint
<1>4. Stored' /\ Apart(r)' /\ Apart(c)'
  BY <1>1, <1>2, <1>3, PushStored DEF PushTags
<1>5. Inside(r)' /\ Inside(c)'
  BY <1>1, <1>3 DEF Inside, Given
<1>6. Held' = <<0, 0>> /\ Rest' = r /\ Kept' = c
  <2>1. op \in OpType
    BY <1>1, Fields
  <2> QED
    BY <1>1, <1>2, <2>1 DEF Held, Rest, Kept, OpType
<1> QED
  BY <1>1, <1>3, <1>4, <1>5, <1>6, Nothing, HandsNext

-----------------------------------------------------------------------------
(* buddy_init holds no page. *)
LEMMA OwnBuddyInit ==
  ASSUME IInv, buddy_init
  PROVE  Stored' /\ InHandOK'
<1>1. /\ TypeOK /\ Stored /\ pc' = "memmap" /\ op' = NoOp
      /\ UNCHANGED <<freeList, nrFree, pageOrder, live, known>>
  BY DEF IInv, TypeInv, Shape, buddy_init
<1>2. Held' = <<0, 0>> /\ Rest' = <<0, 0>> /\ Kept' = <<0, 0>>
  BY <1>1 DEF Held, Rest, Kept, NoOp
<1> QED
  BY <1>1, <1>2, KeepStored, Nothing, HandsNext

(* init_memmap: a smaller order, the same pages. *)
LEMMA OwnMemmapLower ==
  ASSUME IInv, MemmapLower
  PROVE  Stored' /\ InHandOK'
<1>1. /\ TypeOK /\ Stored /\ InHandOK /\ pc = "memmap" /\ pc' = "memmap"
      /\ UNCHANGED <<freeList, nrFree, pageOrder, live, known>>
      /\ op' = [op EXCEPT !.order = @ - 1]
  BY DEF IInv, TypeInv, MemmapLower
<1>2. PICK h, r, c : h = Held /\ r = Rest /\ c = Kept
  OBVIOUS
<1>3. Held' = h /\ Rest' = r /\ Kept' = c
  <2>1. op \in OpType
    BY <1>1, Fields
  <2> QED
    BY <1>1, <1>2, <2>1 DEF Held, Rest, Kept, OpType
<1>4. Stored' /\ \A e : (Apart(e)' <=> Apart(e)) /\ (Inside(e)' <=> Inside(e))
  BY <1>1, KeepStored
<1> QED
  BY <1>1, <1>2, <1>3, <1>4, HandsNext DEF InHandOK

(* At the start nobody holds anything. *)
LEMMA OwnInit == Init => IInv
<1> SUFFICES ASSUME Init PROVE IInv
  OBVIOUS
<1>1. TypeInv
  BY TypeInit
<1>2. \A k \in Orders : freeList[k] = <<>> /\ nrFree[k] = 0
  BY DEF Init
<1>3. Stored
  BY <1>2 DEF Init, Stored, FreeDisjoint, LiveDisjoint
<1>4. Held = <<0, 0>> /\ Rest = <<0, 0>> /\ Kept = <<0, 0>> /\ pc = "boot"
  BY DEF Init, Held, Rest, Kept
<1>5. InHandOK
  BY <1>4, Nothing DEF InHandOK
<1> QED
  BY <1>1, <1>3, <1>5 DEF IInv

(* Every step keeps every page with one owner. *)
LEMMA OwnNext ==
  ASSUME IInv, [Next]_vars
  PROVE  IInv'
<1>1. TypeInv'
  BY TypeNext DEF IInv
<1>2. CASE pc' = "fault"
  BY <1>1, <1>2 DEF IInv
<1>3. ASSUME pc' # "fault", UNCHANGED <<freeList, nrFree, pageOrder, live, known>>, pc # "fault",
             pc' \notin {"split", "memmap", "carve", "merge"} \/ UNCHANGED <<pc, op>>
      PROVE  IInv'
  <2>1. TypeOK /\ Stored /\ InHandOK
    BY <1>3 DEF IInv, TypeInv
  <2>2. Stored' /\ \A e : (Apart(e)' <=> Apart(e)) /\ (Inside(e)' <=> Inside(e))
    BY <1>3, <2>1, KeepStored
  <2>3. CASE UNCHANGED <<pc, op>>
    <3>1. PICK h, r, c : h = Held /\ r = Rest /\ c = Kept
      OBVIOUS
    <3>2. Held' = h /\ Rest' = r /\ Kept' = c
      BY <2>3, <3>1 DEF Held, Rest, Kept
    <3>3. InHandOK'
      BY <1>3, <2>1, <2>2, <2>3, <3>1, <3>2, HandsNext DEF InHandOK
    <3> QED
      BY <1>1, <2>2, <3>3 DEF IInv
  <2> QED
    BY <1>1, <1>3, <2>2, <2>3, EmptyHanded DEF IInv
<1>4. CASE UNCHANGED vars
  BY <1>2, <1>3, <1>4 DEF vars, IInv
<1>5. CASE EnablePaging
  BY <1>3, <1>5 DEF EnablePaging
<1>6. ASSUME NEW n \in Requests, AllocNull(n) \/ AllocTake(n) \/ AllocFromNull(n)
      PROVE  IInv'
  <2>1. CASE AllocNull(n)
    BY <1>3, <2>1 DEF AllocNull
  <2>2. CASE AllocTake(n)
    BY <1>1, <1>2, <2>2, OwnAllocTake DEF IInv
  <2>3. CASE AllocFromNull(n)
    BY <1>2, <2>3 DEF AllocFromNull
  <2> QED
    BY <1>6, <2>1, <2>2, <2>3
<1>7. ASSUME NEW e \in live, FreeCall(e)
      PROVE  IInv'
  BY <1>1, <1>7, OwnFreeCall DEF IInv
<1>8. CASE buddy_init
  BY <1>1, <1>8, OwnBuddyInit DEF IInv
<1>9. CASE MemmapLower
  BY <1>1, <1>9, OwnMemmapLower DEF IInv
<1>10. CASE MemmapDone
  BY <1>3, <1>10 DEF MemmapDone
<1>11. CASE MergeStop
  BY <1>1, <1>2, <1>11, OwnMergeStop DEF IInv
<1>12. CASE \/ MemmapRegion \/ MemmapPush \/ SplitStep \/ SplitDone
            \/ CarveStep \/ CarveDone \/ MergeLeft \/ MergeRight
  BY <1>1, <1>12, OwnMemmapRegion, OwnMemmapPush, OwnSplitStep, OwnSplitDone,
     OwnCarveStep, OwnCarveDone, OwnMerge DEF IInv
<1> QED
  BY <1>4, <1>5, <1>6, <1>7, <1>8, <1>9, <1>10, <1>11, <1>12 DEF Next, Step

(* The invariant contains the properties. *)
LEMMA IInvImplies == IInv => NoOverlap /\ OrderTags /\ NrFreeExact
<1> SUFFICES ASSUME IInv, pc # "fault"
             PROVE  NoOverlap /\ OrderTags /\ NrFreeExact
  BY DEF IInv, NoOverlap, OrderTags, NrFreeExact
<1>1. Stored /\ InHandOK
  BY DEF IInv
<1>2. InHandDisjoint
  BY <1>1 DEF InHandOK, Apart, InHand, InHandDisjoint
<1> QED
  BY <1>1, <1>2 DEF Stored, InHandOK, NoOverlap, OrderTags, NrFreeExact

(* Ownership: while the allocator runs, no page is in two free blocks, in    *)
(* two callers' extents, or in both, at any iteration of its loops.          *)
THEOREM PagesHaveOneOwner == Spec => []NoOverlap
<1>1. IInv /\ [Next]_vars => IInv'
  BY OwnNext
<1> QED
  BY <1>1, OwnInit, IInvImplies, PTL DEF Spec

(* The order field read by a merge is the order of the block it heads.       *)
THEOREM TagsExact == Spec => []OrderTags
<1>1. IInv /\ [Next]_vars => IInv'
  BY OwnNext
<1> QED
  BY <1>1, OwnInit, IInvImplies, PTL DEF Spec

(* nr_free counts the blocks of its list, whatever mix of calls came before. *)
THEOREM CountsExact == Spec => []NrFreeExact
<1>1. IInv /\ [Next]_vars => IInv'
  BY OwnNext
<1> QED
  BY <1>1, OwnInit, IInvImplies, PTL DEF Spec

-----------------------------------------------------------------------------
(* What callers see.                                                         *)
(* A caller is handed pages of usable memory that no other caller has.       *)
LEMMA AllocStep ==
  ASSUME TypeOK, NEW p \in Nat, NEW n \in Nat \ {0},
         Apart(<<p, n>>), Inside(<<p, n>>), live' = live \cup {<<p, n>>}
  PROVE  Abstract!Next
<1>1. \A r \in 1 .. known : r \in DOMAIN Regions
  BY RegionAssumption DEF TypeOK
<1>2. p .. p + n - 1 \subseteq Managed
  BY <1>1 DEF Inside, PagesOf, Given, Managed
<1>3. PICK last \in Managed : p \in Managed /\ p <= last /\ last - p + 1 = n
  <2>1. p \in p .. p + n - 1 /\ p + n - 1 \in p .. p + n - 1
    OBVIOUS
  <2>2. p <= p + n - 1 /\ (p + n - 1) - p + 1 = n
    OBVIOUS
  <2>3. p \in Managed /\ p + n - 1 \in Managed
    BY <1>2, <2>1
  <2> QED
    BY <2>2, <2>3
<1>4. \A f \in live : Abstract!Disjoint(<<p, n>>, f)
  BY DEF Apart, Disjoint, Abstract!Disjoint
<1>5. Abstract!Alloc(<<p, n>>)
  BY <1>2, <1>4 DEF Abstract!Alloc
<1>6. Abstract!Alloc(<<p, last - p + 1>>)
  BY <1>3, <1>5
<1> QED
  BY <1>3, <1>6, Zenon DEF Abstract!Next

(* Every step of the loops is a step of PageAlloc or changes no caller's extents. *)
LEMMA RefinementStep ==
  ASSUME IInv, [Next]_vars
  PROVE  Abstract!Next \/ live' = live
<1>1. CASE SplitDone
  <2>1. TypeOK /\ Shape /\ InHandOK /\ pc = "split"
    BY <1>1 DEF IInv, TypeInv, SplitDone
  <2>2. CASE op.want = OrderSize[op.order]
    <3>1. PICK p \in Nat, n \in Nat \ {0} : p = op.held /\ n = op.want
      BY <2>1, Fields DEF Shape
    <3>2. Apart(<<p, n>>) /\ Inside(<<p, n>>)
      BY <2>1, <2>2, <3>1 DEF InHandOK, Held
    <3>3. live' = live \cup {<<p, n>>}
      BY <1>1, <2>2, <3>1 DEF SplitDone, Return
    <3> QED
      BY <2>1, <3>2, <3>3, AllocStep
  <2> QED
    BY <1>1, <2>2 DEF SplitDone
<1>2. CASE CarveDone
  <2>1. TypeOK /\ InHandOK /\ pc = "carve"
    BY <1>2 DEF IInv, TypeInv, CarveDone
  <2>2. CASE op.want > 0
    <3>1. PICK p \in Nat, n \in Nat \ {0} : p = op.page /\ n = op.want
      BY <2>1, <2>2, Fields
    <3>2. Apart(<<p, n>>) /\ Inside(<<p, n>>)
      BY <2>1, <3>1 DEF InHandOK, Kept
    <3>3. live' = live \cup {<<p, n>>}
      BY <1>2, <2>2, <3>1 DEF CarveDone, Return
    <3> QED
      BY <2>1, <3>2, <3>3, AllocStep
  <2> QED
    BY <1>2, <2>2 DEF CarveDone
<1>3. ASSUME NEW e \in live, FreeCall(e)
      PROVE  Abstract!Next
  <2>1. Abstract!Free(e)
    BY <1>3 DEF FreeCall, Abstract!Free
  <2> QED
    BY <2>1 DEF Abstract!Next
<1>4. ASSUME NEW n \in Requests, AllocNull(n) \/ AllocTake(n) \/ AllocFromNull(n)
      PROVE  live' = live
  BY <1>4 DEF AllocNull, AllocTake, AllocFromNull
<1>5. CASE buddy_init \/ MemmapRegion \/ MemmapPush \/ MemmapLower \/ MemmapDone \/ EnablePaging
  BY <1>5 DEF buddy_init, MemmapRegion, MemmapPush, MemmapLower, MemmapDone, EnablePaging
<1>6. CASE SplitStep \/ CarveStep \/ MergeLeft \/ MergeRight \/ MergeStop
  BY <1>6 DEF SplitStep, CarveStep, MergeLeft, MergeRight, MergeStop
<1>7. CASE UNCHANGED vars
  BY <1>7 DEF vars
<1> QED
  BY <1>1, <1>2, <1>3, <1>4, <1>5, <1>6, <1>7 DEF Next, Step

(* The allocator implements its specification: a returned extent is usable   *)
(* memory that no other caller holds, a freed one goes, and nothing else     *)
(* changes who owns what.                                                    *)
THEOREM Implements == Spec => ImplementsPageAlloc
<1>1. Init => Abstract!Init
  BY DEF Init, Abstract!Init
<1>2. IInv /\ [Next]_vars => IInv'
  BY OwnNext
<1>3. IInv /\ [Next]_vars => [Abstract!Next]_live
  BY RefinementStep
<1> QED
  BY <1>1, <1>2, <1>3, OwnInit, PTL DEF Spec, ImplementsPageAlloc, Abstract!Spec

-----------------------------------------------------------------------------
(* No leak.  That nothing but given pages is accounted for is in Stored and  *)
(* InHandOK; the other half is that a page given once is on a list, in a     *)
(* caller's hands or in the hands of the call under way at every step since. *)
OnLists(q) == \E k \in Orders : \E x \in DOMAIN freeList[k] : q \in PagesOf(Block(k, x))
Sold(q)    == \E e \in live : q \in PagesOf(e)
InHands(q) == q \in PagesOf(Held) \/ q \in PagesOf(Rest) \/ q \in PagesOf(Kept)
Owned(q)   == OnLists(q) \/ Sold(q) \/ InHands(q)

NoneLost == pc # "fault" => \A q \in Given : Owned(q)

(* Hands that hold no page. *)
LEMMA NoPages == \A p \in Nat : PagesOf(<<p, 0>>) = {}
  BY DEF PagesOf

(* list_add puts the pages of the block on the lists, and takes none off.    *)
LEMMA PushCovers ==
  ASSUME TypeOK, NEW k \in Orders, NEW p \in Nat, Push(k, p), NEW q,
         OnLists(q) \/ q \in PagesOf(<<p, OrderSize[k]>>)
  PROVE  OnLists(q)'
<1>1. /\ freeList \in [Orders -> Seq(Nat)]
      /\ freeList' = [freeList EXCEPT ![k] = <<p>> \o freeList[k]]
  BY DEF TypeOK, Push
<1>2. PICK s : s = <<p>> \o freeList[k]
  OBVIOUS
<1>3. /\ Len(s) = Len(freeList[k]) + 1 /\ s[1] = p /\ DOMAIN s = 1 .. Len(s)
      /\ Len(freeList[k]) \in Nat
      /\ \A x \in DOMAIN freeList[k] : x + 1 \in DOMAIN s /\ s[x + 1] = freeList[k][x]
  <2>1. freeList[k] \in Seq(Nat) /\ DOMAIN freeList[k] = 1 .. Len(freeList[k])
    BY <1>1
  <2>2. /\ s \in Seq(Nat) /\ Len(s) = Len(freeList[k]) + 1 /\ s[1] = p
        /\ \A x \in 1 .. Len(freeList[k]) : s[x + 1] = freeList[k][x]
    BY <1>2, <2>1
  <2>3. Len(freeList[k]) \in Nat /\ DOMAIN s = 1 .. Len(s)
    BY <2>1, <2>2
  <2>4. \A x \in 1 .. Len(freeList[k]) : x + 1 \in 1 .. Len(s)
    BY <2>2, <2>3
  <2> QED
    BY <2>1, <2>2, <2>3, <2>4
<1>4. freeList'[k] = s /\ \A m \in Orders : m # k => freeList'[m] = freeList[m]
  BY <1>1, <1>2
<1>5. CASE q \in PagesOf(<<p, OrderSize[k]>>)
  <2>1. 1 \in DOMAIN freeList'[k] /\ freeList'[k][1] = p
    BY <1>3, <1>4
  <2> QED
    BY <1>5, <2>1 DEF OnLists, Block
<1>6. CASE OnLists(q)
  <2>1. PICK m \in Orders : \E x \in DOMAIN freeList[m] : q \in PagesOf(Block(m, x))
    BY <1>6 DEF OnLists
  <2>2. PICK x \in DOMAIN freeList[m] : q \in PagesOf(<<freeList[m][x], OrderSize[m]>>)
    BY <2>1 DEF Block
  <2>3. \E y \in DOMAIN freeList'[m] : freeList'[m][y] = freeList[m][x]
    BY <1>3, <1>4, <2>2
  <2> QED
    BY <2>2, <2>3 DEF OnLists, Block
<1> QED
  BY <1>5, <1>6

(* list_del of the head takes the pages of that block off the lists.         *)
LEMMA PopCovers ==
  ASSUME TypeOK, NEW k \in Orders, freeList[k] # <<>>, Pop(k), NEW q, OnLists(q)
  PROVE  OnLists(q)' \/ q \in PagesOf(<<Head(freeList[k]), OrderSize[k]>>)
<1>1. /\ freeList \in [Orders -> Seq(Nat)]
      /\ freeList' = [freeList EXCEPT ![k] = Tail(freeList[k])]
  BY DEF TypeOK, Pop
<1>2. PICK s : s = Tail(freeList[k])
  OBVIOUS
<1>3. /\ freeList[k][1] = Head(freeList[k])
      /\ \A x \in DOMAIN freeList[k] :
           x = 1 \/ (x - 1 \in DOMAIN s /\ s[x - 1] = freeList[k][x])
  <2>1. freeList[k] \in Seq(Nat) /\ DOMAIN freeList[k] = 1 .. Len(freeList[k])
    BY <1>1
  <2>2. /\ s \in Seq(Nat) /\ Len(s) = Len(freeList[k]) - 1 /\ DOMAIN s = 1 .. Len(s)
        /\ \A x \in 1 .. Len(s) : s[x] = freeList[k][x + 1]
        /\ Len(freeList[k]) \in Nat /\ freeList[k][1] = Head(freeList[k])
    BY <1>2, <2>1
  <2>3. ASSUME NEW x \in 1 .. Len(freeList[k]), x # 1
        PROVE  x - 1 \in 1 .. Len(s) /\ s[x - 1] = freeList[k][x]
    <3>1. x - 1 \in 1 .. Len(s) /\ (x - 1) + 1 = x
      BY <2>2, <2>3
    <3> QED
      BY <2>2, <3>1
  <2> QED
    BY <2>1, <2>2, <2>3
<1>4. freeList'[k] = s /\ \A m \in Orders : m # k => freeList'[m] = freeList[m]
  BY <1>1, <1>2
<1>5. PICK m \in Orders : \E x \in DOMAIN freeList[m] : q \in PagesOf(Block(m, x))
  BY DEF OnLists
<1>6. PICK x \in DOMAIN freeList[m] : q \in PagesOf(<<freeList[m][x], OrderSize[m]>>)
  BY <1>5 DEF Block
<1>7. CASE m = k /\ x = 1
  BY <1>3, <1>6, <1>7
<1>8. CASE ~(m = k /\ x = 1)
  <2>1. \E y \in DOMAIN freeList'[m] : freeList'[m][y] = freeList[m][x]
    BY <1>3, <1>4, <1>6, <1>8
  <2> QED
    BY <1>6, <2>1 DEF OnLists, Block
<1> QED
  BY <1>7, <1>8

(* What is on the lists or sold stays so while they do not change.           *)
LEMMA ListsCover ==
  ASSUME UNCHANGED freeList, NEW q
  PROVE  OnLists(q)' <=> OnLists(q)
  BY DEF OnLists, Block

(* The hands after a step that names what they hold.                         *)
LEMMA HandsCover ==
  ASSUME NEW h, NEW r, NEW c, Held' = h, Rest' = r, Kept' = c, NEW q
  PROVE  InHands(q)' <=> q \in PagesOf(h) \/ q \in PagesOf(r) \/ q \in PagesOf(c)
  BY DEF InHands, PagesOf

(* init_memmap: the pages of the next region are in hand.                    *)
LEMMA CoverRegion ==
  ASSUME IInv, MemmapRegion, NEW q, Owned(q) \/ (q \in Given' /\ q \notin Given)
  PROVE  Owned(q)'
<1>1. /\ TypeOK /\ pc = "memmap" /\ pc' = "memmap" /\ op.n = 0
      /\ UNCHANGED <<freeList, live>>
  BY DEF IInv, TypeInv, MemmapRegion
<1>2. PICK e \in Extent : e = Regions[known + 1]
  <2>1. known + 1 \in DOMAIN Regions
    BY <1>1, RegionAssumption DEF MemmapRegion, TypeOK
  <2> QED
    BY <2>1, RegionAssumption DEF Extent
<1>3. Held' = <<0, 0>> /\ Rest' = e /\ Kept' = <<0, 0>>
  BY <1>1, <1>2 DEF Held, Rest, Kept, NoOp, Extent, MemmapRegion
<1>4. Given' = Given \cup PagesOf(e)
  <2>1. 1 .. known' = (1 .. known) \cup {known + 1}
    BY <1>1 DEF TypeOK, MemmapRegion
  <2> QED
    BY <1>2, <2>1 DEF Given
<1>5. CASE q \in PagesOf(e)
  BY <1>3, <1>5, HandsCover DEF Owned
<1>6. CASE OnLists(q) \/ Sold(q)
  BY <1>1, <1>6, ListsCover DEF Owned, Sold
<1>7. CASE InHands(q)
  <2>1. op.base \in Nat
    BY <1>1, Fields
  <2>2. PagesOf(<<op.base, 0>>) = {} /\ PagesOf(<<0, 0>>) = {}
    BY <2>1, NoPages
  <2> QED
    BY <1>1, <1>7, <2>2 DEF InHands, Held, Rest, Kept
<1> QED
  BY <1>4, <1>5, <1>6, <1>7 DEF Owned

(* init_memmap: a block goes from hand to its list.                          *)
LEMMA CoverMemmapPush ==
  ASSUME IInv, MemmapPush, NEW q, Owned(q)
  PROVE  Owned(q)'
<1>1. /\ TypeOK /\ pc = "memmap" /\ pc' = "memmap" /\ UNCHANGED live
  BY DEF IInv, TypeInv, MemmapPush
<1>2. PICK k \in Orders, p \in Nat, n \in Nat : k = op.order /\ p = op.base /\ n = op.n
  BY <1>1, Fields
<1>3. PICK m \in Nat : m = OrderSize[k]
  BY <1>2, OrderAssumption DEF Orders
<1>4. /\ m <= n /\ Push(k, p) /\ op \in OpType
      /\ op' = [op EXCEPT !.base = p + m, !.n = n - m]
  BY <1>1, <1>2, <1>3, Fields DEF MemmapPush
<1>5. Held' = <<0, 0>> /\ Rest' = <<p + m, n - m>> /\ Kept' = <<0, 0>>
  BY <1>1, <1>4 DEF Held, Rest, Kept, OpType
<1>6. CASE OnLists(q) \/ q \in PagesOf(<<p, m>>)
  BY <1>1, <1>3, <1>4, <1>6, PushCovers DEF Owned
<1>7. CASE Sold(q)
  BY <1>1, <1>7 DEF Owned, Sold
<1>8. CASE q \in PagesOf(<<p + m, n - m>>)
  BY <1>5, <1>8, HandsCover DEF Owned
<1>9. InHands(q) => q \in PagesOf(<<p, m>>) \/ q \in PagesOf(<<p + m, n - m>>)
  <2>1. PagesOf(<<0, 0>>) = {}
    BY NoPages
  <2>2. PagesOf(<<p, n>>) = PagesOf(<<p, m>>) \cup PagesOf(<<p + m, n - m>>)
    BY <1>4 DEF PagesOf
  <2> QED
    BY <1>1, <1>2, <2>1, <2>2 DEF InHands, Held, Rest, Kept
<1> QED
  BY <1>6, <1>7, <1>8, <1>9 DEF Owned

(* alloc_pages takes the first block of a list in hand.                      *)
LEMMA CoverAllocTake ==
  ASSUME IInv, NEW n \in Requests, AllocTake(n), pc' # "fault", NEW q, Owned(q)
  PROVE  Owned(q)'
<1>1. /\ TypeOK /\ pc = "idle" /\ UNCHANGED live
      /\ n \in Nat /\ ~Refused(n) /\ Serving(n) # {}
  BY RequestAssumption DEF IInv, TypeInv, AllocTake
<1>2. PICK k \in Orders : k = Smallest(Serving(n))
  BY <1>1, SmallestServes
<1>3. /\ freeList[k] # <<>> /\ Pop(k) /\ pc' = "split"
      /\ op' = [NoOp EXCEPT !.held = Head(freeList[k]), !.order = k,
                            !.goal = GetOrder(n), !.want = n]
  BY <1>2 DEF AllocTake
<1>4. /\ Held' = <<Head(freeList[k]), OrderSize[k]>>
      /\ Rest' = <<0, 0>> /\ Kept' = <<0, 0>>
  BY <1>3 DEF Held, Rest, Kept, NoOp
<1>5. CASE OnLists(q)
  BY <1>1, <1>3, <1>4, <1>5, PopCovers, HandsCover DEF Owned
<1>6. CASE Sold(q)
  BY <1>1, <1>6 DEF Owned, Sold
<1>7. ~InHands(q)
  <2>1. PagesOf(<<0, 0>>) = {}
    BY NoPages
  <2> QED
    BY <1>1, <2>1 DEF InHands, Held, Rest, Kept
<1> QED
  BY <1>5, <1>6, <1>7 DEF Owned

(* alloc_pages: the upper half goes to a list, the lower half stays in hand. *)
LEMMA CoverSplitStep ==
  ASSUME IInv, SplitStep, NEW q, Owned(q)
  PROVE  Owned(q)'
<1>1. TypeOK /\ pc = "split" /\ pc' = "split" /\ UNCHANGED live
  BY DEF IInv, TypeInv, SplitStep
<1>2. PICK k \in Orders, p \in Nat : k + 1 = op.order /\ k = op.order - 1 /\ p = op.held
  <2>1. PICK i \in Nat : i = op.order /\ i <= MaxOrder /\ i # 0
    BY <1>1, Fields DEF SplitStep
  <2>2. i - 1 \in Orders /\ (i - 1) + 1 = i
    <3>1. MaxOrder \in Nat
      BY OrderAssumption
    <3> QED
      BY <2>1, <3>1 DEF Orders
  <2> QED
    BY <1>1, <2>1, <2>2, Fields
<1>3. PICK m \in Nat : m = OrderSize[k] /\ OrderSize[k + 1] = 2 * m
  <2>1. OrderSize[k] \in Nat /\ OrderSize[k + 1] = 2 * OrderSize[k]
    BY Sizes, OrderAssumption DEF Orders
  <2> QED
    BY <2>1
<1>4. PICK b \in Nat : b = p + m
  BY <1>3
<1>5. Push(k, b) /\ op' = [op EXCEPT !.order = k] /\ op \in OpType
  BY <1>1, <1>2, <1>3, <1>4, Fields DEF SplitStep
<1>6. Held' = <<p, m>> /\ Rest' = <<0, 0>> /\ Kept' = <<0, 0>>
  BY <1>1, <1>2, <1>3, <1>5 DEF Held, Rest, Kept, OpType
<1>7. CASE OnLists(q) \/ q \in PagesOf(<<b, m>>)
  BY <1>1, <1>3, <1>5, <1>7, PushCovers DEF Owned
<1>8. CASE Sold(q)
  BY <1>1, <1>8 DEF Owned, Sold
<1>9. CASE q \in PagesOf(<<p, m>>)
  BY <1>6, <1>9, HandsCover DEF Owned
<1>10. InHands(q) => q \in PagesOf(<<p, m>>) \/ q \in PagesOf(<<b, m>>)
  <2>1. PagesOf(<<0, 0>>) = {}
    BY NoPages
  <2>2. PagesOf(<<p, 2 * m>>) = PagesOf(<<p, m>>) \cup PagesOf(<<b, m>>)
    <3>1. PICK n \in Nat : n = 2 * m /\ m <= n /\ n - m = m
      OBVIOUS
    <3>2. PagesOf(<<p, n>>) = PagesOf(<<p, m>>) \cup PagesOf(<<p + m, n - m>>)
      BY <3>1 DEF PagesOf
    <3> QED
      BY <1>4, <3>1, <3>2
  <2> QED
    BY <1>1, <1>2, <1>3, <2>1, <2>2 DEF InHands, Held, Rest, Kept
<1> QED
  BY <1>7, <1>8, <1>9, <1>10 DEF Owned

(* alloc_pages_sub returns: to the caller, or cut at the page asked for.     *)
LEMMA CoverSplitDone ==
  ASSUME IInv, SplitDone, NEW q, Owned(q)
  PROVE  Owned(q)'
<1>1. TypeOK /\ Shape /\ pc = "split" /\ UNCHANGED freeList
  BY DEF IInv, TypeInv, SplitDone
<1>2. PICK p \in Nat, s \in Nat, n \in Nat : p = op.held /\ s = OrderSize[op.order] /\ n = op.want
  BY <1>1, Fields
<1>3. n <= s
  BY <1>1, <1>2 DEF SplitDone, Shape
<1>4. CASE OnLists(q)
  BY <1>1, <1>4, ListsCover DEF Owned
<1>5. CASE Sold(q)
  <2>1. live \subseteq live'
    BY DEF SplitDone, Return
  <2> QED
    BY <1>5, <2>1 DEF Owned, Sold
<1>6. CASE q \in PagesOf(<<p, s>>)
  <2>1. CASE n = s
    <3>1. live' = live \cup {<<p, n>>}
      BY <1>2, <2>1 DEF SplitDone, Return
    <3> QED
      BY <1>6, <2>1, <3>1 DEF Owned, Sold
  <2>2. CASE n # s
    <3>1. /\ pc' = "carve"
          /\ op' = [NoOp EXCEPT !.page = p, !.want = n, !.base = p + n, !.n = s - n]
      BY <1>2, <2>2 DEF SplitDone
    <3>2. Held' = <<0, 0>> /\ Rest' = <<p + n, s - n>> /\ Kept' = <<p, n>>
      BY <3>1 DEF Held, Rest, Kept, NoOp
    <3>3. PagesOf(<<p, s>>) = PagesOf(<<p, n>>) \cup PagesOf(<<p + n, s - n>>)
      BY <1>3 DEF PagesOf
    <3> QED
      BY <1>6, <3>2, <3>3, HandsCover DEF Owned
  <2> QED
    BY <2>1, <2>2
<1>7. InHands(q) => q \in PagesOf(<<p, s>>)
  <2>1. PagesOf(<<0, 0>>) = {}
    BY NoPages
  <2> QED
    BY <1>1, <1>2, <2>1 DEF InHands, Held, Rest, Kept
<1> QED
  BY <1>4, <1>5, <1>6, <1>7 DEF Owned

(* free_pages: what a caller held is in hand.                                *)
LEMMA CoverFreeCall ==
  ASSUME IInv, NEW e \in live, FreeCall(e), NEW q, Owned(q)
  PROVE  Owned(q)'
<1>1. /\ pc = "idle" /\ UNCHANGED freeList
      /\ live' = live \ {e} /\ pc' = "carve" /\ e \in Extent
      /\ op' = [NoOp EXCEPT !.base = e[1], !.n = e[2]]
  BY DEF IInv, TypeInv, FreeCall, TypeOK
<1>2. Held' = <<0, 0>> /\ Rest' = e /\ Kept' = <<0, 0>>
  BY <1>1 DEF Held, Rest, Kept, NoOp, Extent
<1>3. CASE OnLists(q)
  BY <1>1, <1>3, ListsCover DEF Owned
<1>4. CASE Sold(q)
  <2>1. PICK f \in live : q \in PagesOf(f)
    BY <1>4 DEF Sold
  <2>2. CASE f = e
    BY <1>2, <2>1, <2>2, HandsCover DEF Owned
  <2>3. CASE f # e
    BY <1>1, <2>1, <2>3 DEF Owned, Sold
  <2> QED
    BY <2>2, <2>3
<1>5. ~InHands(q)
  BY <1>1, NoPages DEF InHands, Held, Rest, Kept
<1> QED
  BY <1>3, <1>4, <1>5 DEF Owned

(* free_pages: the block cut off stays in hand, and so does the rest.        *)
LEMMA CoverCarveStep ==
  ASSUME IInv, CarveStep, NEW q, Owned(q)
  PROVE  Owned(q)'
<1>1. TypeOK /\ Shape /\ pc = "carve" /\ pc' = "merge" /\ UNCHANGED <<freeList, live>>
  BY DEF IInv, TypeInv, CarveStep
<1>2. PICK k \in Orders, p \in Nat, n \in Nat, c \in Extent :
        k = LargestOrder(op.n) /\ p = op.base /\ n = op.n /\ c = Kept
  <2>1. LargestOrder(op.n) \in Orders
    BY <1>1, Fields, LargestOrderFits DEF CarveStep, Shape
  <2> QED
    BY <1>1, <2>1, Fields, HandsExtent
<1>3. PICK m \in Nat : m = OrderSize[k] /\ m <= n
  <2>1. OrderSize[k] <= n
    BY <1>1, <1>2, LargestOrderFits DEF CarveStep, Shape
  <2> QED
    BY <2>1, OrderAssumption DEF Orders
<1>4. op' = [op EXCEPT !.held = p, !.order = k, !.base = p + m, !.n = n - m]
  BY <1>2, <1>3 DEF CarveStep
<1>5. Held' = <<p, m>> /\ Rest' = <<p + m, n - m>> /\ Kept' = c
  <2>1. op \in OpType
    BY <1>1, Fields
  <2> QED
    BY <1>1, <1>2, <1>3, <1>4, <2>1 DEF Held, Rest, Kept, OpType
<1>6. CASE OnLists(q) \/ Sold(q)
  BY <1>1, <1>6, ListsCover DEF Owned, Sold
<1>7. CASE q \in PagesOf(<<p, m>>) \/ q \in PagesOf(<<p + m, n - m>>) \/ q \in PagesOf(c)
  BY <1>5, <1>7, HandsCover DEF Owned
<1>8. PagesOf(<<p, n>>) = PagesOf(<<p, m>>) \cup PagesOf(<<p + m, n - m>>)
  BY <1>3 DEF PagesOf
<1>9. InHands(q) => q \in PagesOf(<<p, n>>) \/ q \in PagesOf(c)
  BY <1>1, <1>2, NoPages DEF InHands, Held, Rest
<1> QED
  BY <1>6, <1>7, <1>8, <1>9 DEF Owned

(* free_pages returns; what was kept for the caller is the caller's.         *)
LEMMA CoverCarveDone ==
  ASSUME IInv, CarveDone, NEW q, Owned(q)
  PROVE  Owned(q)'
<1>1. TypeOK /\ pc = "carve" /\ op.n = 0 /\ UNCHANGED freeList
  BY DEF IInv, TypeInv, CarveDone
<1>2. PICK p \in Nat, n \in Nat, b \in Nat : p = op.page /\ n = op.want /\ b = op.base
  BY <1>1, Fields
<1>3. CASE OnLists(q)
  BY <1>1, <1>3, ListsCover DEF Owned
<1>4. CASE Sold(q)
  <2>1. live \subseteq live'
    BY DEF CarveDone, Return
  <2> QED
    BY <1>4, <2>1 DEF Owned, Sold
<1>5. CASE q \in PagesOf(<<p, n>>)
  <2>1. n # 0
    BY <1>5, NoPages
  <2>2. live' = live \cup {<<p, n>>}
    BY <1>2, <2>1 DEF CarveDone, Return
  <2> QED
    BY <1>5, <2>2 DEF Owned, Sold
<1>6. InHands(q) => q \in PagesOf(<<p, n>>)
  BY <1>1, <1>2, NoPages DEF InHands, Held, Rest, Kept
<1> QED
  BY <1>3, <1>4, <1>5, <1>6 DEF Owned

(* A merge: the first block of the list joins the block in hand.             *)
LEMMA CoverMerge ==
  ASSUME IInv, MergeLeft \/ MergeRight, NEW q, Owned(q)
  PROVE  Owned(q)'
<1>1. /\ TypeOK /\ Stored /\ InHandOK /\ pc = "merge" /\ pc' = "merge"
      /\ UNCHANGED live /\ Candidate /\ Pop(op.order)
  BY DEF IInv, TypeInv, MergeLeft, MergeRight
<1>2. PICK k \in Orders, p \in Nat, b \in Nat, r \in Extent, c \in Extent :
        /\ k = op.order /\ p = op.held /\ b = Head(freeList[op.order])
        /\ r = Rest /\ c = Kept
  <2>1. Head(freeList[op.order]) \in Nat
    BY <1>1, Fields, PopType DEF Candidate
  <2> QED
    BY <1>1, <2>1, Fields, HandsExtent
<1>3. PICK m \in Nat : m = OrderSize[k] /\ OrderSize[k + 1] = 2 * m
  <2>1. OrderSize[k] \in Nat /\ OrderSize[k + 1] = 2 * OrderSize[k]
    BY Sizes, OrderAssumption DEF Orders
  <2> QED
    BY <2>1
<1>4. freeList[k] # <<>> /\ Pop(k) /\ pageOrder[p] = k /\ pageOrder[b] = k
  <2>1. freeList[k] # <<>> /\ Pop(k) /\ pageOrder[p] = k
    BY <1>1, <1>2 DEF Candidate, InHandOK
  <2>2. 1 \in DOMAIN freeList[k] /\ b = freeList[k][1]
    BY <1>1, <1>2, <2>1 DEF TypeOK
  <2> QED
    BY <1>1, <2>1, <2>2 DEF Stored
<1>5. op \in OpType
  BY <1>1, Fields
(* The low half of the two becomes the block in hand.                        *)
<1>6. \E l \in Nat :
        /\ \/ l = b /\ p = b + m
           \/ l = p /\ b = p + m
        /\ Held' = <<l, 2 * m>> /\ Rest' = r /\ Kept' = c
  <2>1. CASE MergeLeft
    <3>1. p = b + m /\ op' = [op EXCEPT !.held = b, !.order = k + 1]
      BY <1>2, <1>3, <1>4, <2>1 DEF MergeLeft, LeftMatch
    <3> QED
      BY <1>1, <1>2, <1>3, <1>5, <3>1 DEF Held, Rest, Kept, OpType
  <2>2. CASE MergeRight
    <3>1. b = p + m /\ op' = [op EXCEPT !.order = k + 1]
      BY <1>2, <1>3, <1>4, <2>2 DEF MergeRight, RightMatch
    <3> QED
      BY <1>1, <1>2, <1>3, <1>5, <3>1 DEF Held, Rest, Kept, OpType
  <2> QED
    BY <2>1, <2>2
<1>7. PICK l \in Nat :
        /\ \/ l = b /\ p = b + m
           \/ l = p /\ b = p + m
        /\ Held' = <<l, 2 * m>> /\ Rest' = r /\ Kept' = c
  BY <1>6
<1>8. PagesOf(<<l, 2 * m>>) = PagesOf(<<p, m>>) \cup PagesOf(<<b, m>>)
  BY <1>7 DEF PagesOf
<1>9. CASE OnLists(q)
  <2>1. OnLists(q)' \/ q \in PagesOf(<<b, m>>)
    BY <1>1, <1>2, <1>3, <1>4, <1>9, PopCovers
  <2> QED
    BY <1>7, <1>8, <2>1, HandsCover DEF Owned
<1>10. CASE Sold(q)
  BY <1>1, <1>10 DEF Owned, Sold
<1>11. CASE q \in PagesOf(<<p, m>>) \/ q \in PagesOf(r) \/ q \in PagesOf(c)
  BY <1>7, <1>8, <1>11, HandsCover DEF Owned
<1>12. InHands(q) => q \in PagesOf(<<p, m>>) \/ q \in PagesOf(r) \/ q \in PagesOf(c)
  BY <1>1, <1>2, <1>3 DEF InHands, Held
<1> QED
  BY <1>9, <1>10, <1>11, <1>12 DEF Owned

(* free_pages_sub puts the block in hand on its list.                        *)
LEMMA CoverMergeStop ==
  ASSUME IInv, MergeStop, pc' # "fault", NEW q, Owned(q)
  PROVE  Owned(q)'
<1>1. /\ TypeOK /\ pc = "merge" /\ pc' = "carve" /\ UNCHANGED live
      /\ Push(op.order, op.held) /\ op' = [op EXCEPT !.held = 0, !.order = 0]
  BY DEF IInv, TypeInv, MergeStop
<1>2. PICK k \in Orders, p \in Nat, r \in Extent, c \in Extent :
        k = op.order /\ p = op.held /\ r = Rest /\ c = Kept
  BY <1>1, Fields, HandsExtent
<1>3. Held' = <<0, 0>> /\ Rest' = r /\ Kept' = c
  <2>1. op \in OpType
    BY <1>1, Fields
  <2> QED
    BY <1>1, <1>2, <2>1 DEF Held, Rest, Kept, OpType
<1>4. CASE OnLists(q) \/ q \in PagesOf(<<p, OrderSize[k]>>)
  BY <1>1, <1>2, <1>4, PushCovers DEF Owned
<1>5. CASE Sold(q)
  BY <1>1, <1>5 DEF Owned, Sold
<1>6. CASE q \in PagesOf(r) \/ q \in PagesOf(c)
  BY <1>3, <1>6, HandsCover DEF Owned
<1>7. InHands(q) => \/ q \in PagesOf(<<p, OrderSize[k]>>)
                    \/ q \in PagesOf(r) \/ q \in PagesOf(c)
  BY <1>1, <1>2 DEF InHands, Held
<1> QED
  BY <1>4, <1>5, <1>6, <1>7 DEF Owned

(* The steps that move no page.                                              *)
LEMMA CoverRest ==
  ASSUME IInv, NEW q, Owned(q),
         \/ buddy_init \/ MemmapLower \/ MemmapDone \/ EnablePaging \/ UNCHANGED vars
         \/ \E n \in Requests : AllocNull(n)
  PROVE  Owned(q)'
<1>1. UNCHANGED <<freeList, live>>
  BY DEF buddy_init, MemmapLower, MemmapDone, EnablePaging, vars, AllocNull
<1>2. CASE OnLists(q) \/ Sold(q)
  BY <1>1, <1>2, ListsCover DEF Owned, Sold
<1>3. CASE InHands(q)
  <2>1. PICK h, r, c : h = Held /\ r = Rest /\ c = Kept
    OBVIOUS
  <2>2. CASE buddy_init \/ MemmapDone
    <3>1. op.base \in Nat /\ (pc = "memmap" => op.n = 0) /\ pc \in {"boot", "memmap"}
      BY <2>2, Fields DEF IInv, TypeInv, buddy_init, MemmapDone
    <3> QED
      BY <1>3, <3>1, NoPages DEF InHands, Held, Rest, Kept
  <2>3. CASE MemmapLower
    <3>1. op \in OpType
      BY Fields DEF IInv, TypeInv
    <3>2. Held' = h /\ Rest' = r /\ Kept' = c
      BY <2>1, <2>3, <3>1 DEF MemmapLower, Held, Rest, Kept, OpType
    <3> QED
      BY <1>3, <2>1, <3>2, HandsCover DEF Owned, InHands
  <2>4. CASE EnablePaging \/ UNCHANGED vars \/ \E n \in Requests : AllocNull(n)
    <3>1. UNCHANGED <<pc, op>>
      BY <2>4 DEF EnablePaging, vars, AllocNull
    <3>2. Held' = h /\ Rest' = r /\ Kept' = c
      BY <2>1, <3>1 DEF Held, Rest, Kept
    <3> QED
      BY <1>3, <2>1, <3>2, HandsCover DEF Owned, InHands
  <2> QED
    BY <2>2, <2>3, <2>4
<1> QED
  BY <1>2, <1>3 DEF Owned

(* No step loses a page.                                                     *)
LEMMA CoverNext == IInv /\ NoneLost /\ [Next]_vars => NoneLost'
<1> SUFFICES ASSUME IInv, NoneLost, [Next]_vars, pc' # "fault", NEW q \in Given'
             PROVE  Owned(q)'
  BY DEF NoneLost
<1>1. pc # "fault"
  <2>1. CASE UNCHANGED vars
    BY <2>1 DEF vars
  <2>2. CASE Next
    BY <2>2 DEF Next, Step, buddy_init, MemmapRegion, MemmapPush, MemmapLower, MemmapDone,
       SplitStep, SplitDone, CarveStep, CarveDone, MergeLeft, MergeRight, MergeStop,
       EnablePaging, AllocNull, AllocTake, AllocFromNull, FreeCall
  <2> QED
    BY <2>1, <2>2
<1>2. CASE MemmapRegion
  BY <1>1, <1>2, CoverRegion DEF NoneLost
<1>3. ASSUME UNCHANGED known PROVE Owned(q)
  BY <1>1, <1>3 DEF NoneLost, Given
<1>4. ASSUME NEW n \in Requests, AllocTake(n) PROVE Owned(q)'
  BY <1>3, <1>4, CoverAllocTake DEF AllocTake
<1>5. ASSUME NEW n \in Requests, AllocFromNull(n) PROVE FALSE
  BY <1>5 DEF AllocFromNull
<1>6. ASSUME NEW e \in live, FreeCall(e) PROVE Owned(q)'
  BY <1>3, <1>6, CoverFreeCall DEF FreeCall
<1>7. CASE MemmapPush
  BY <1>3, <1>7, CoverMemmapPush DEF MemmapPush
<1>8. CASE SplitStep
  BY <1>3, <1>8, CoverSplitStep DEF SplitStep
<1>9. CASE SplitDone
  BY <1>3, <1>9, CoverSplitDone DEF SplitDone
<1>10. CASE CarveStep
  BY <1>3, <1>10, CoverCarveStep DEF CarveStep
<1>11. CASE CarveDone
  BY <1>3, <1>11, CoverCarveDone DEF CarveDone
<1>12. CASE MergeLeft \/ MergeRight
  BY <1>3, <1>12, CoverMerge DEF MergeLeft, MergeRight
<1>13. CASE MergeStop
  BY <1>3, <1>13, CoverMergeStop DEF MergeStop
<1>14. CASE \/ buddy_init \/ MemmapLower \/ MemmapDone \/ EnablePaging \/ UNCHANGED vars
            \/ \E n \in Requests : AllocNull(n)
  <2>1. UNCHANGED known
    BY <1>14 DEF buddy_init, MemmapLower, MemmapDone, EnablePaging, vars, AllocNull
  <2> QED
    BY <1>3, <1>14, <2>1, CoverRest
<1> QED
  BY <1>2, <1>4, <1>5, <1>6, <1>7, <1>8, <1>9, <1>10, <1>11, <1>12, <1>13, <1>14
     DEF Next, Step

(* No frame is lost, whatever alloc_pages splits and trims and free_pages     *)
(* merges: at every iteration of their loops each usable page is in a free   *)
(* block, in an extent a caller holds or in the hands of the call under way. *)
THEOREM NoPageLost == Spec => []NoLeak
<1>1. Init => NoneLost
  BY DEF Init, NoneLost, Given
<1>2. IInv /\ [Next]_vars => IInv'
  BY OwnNext
<1>3. IInv /\ NoneLost => NoLeak
  <2> SUFFICES ASSUME IInv, NoneLost, pc # "fault" PROVE Accounted = Given
    BY DEF NoLeak
  <2>1. Stored /\ InHandOK
    BY DEF IInv
  <2>2. ASSUME NEW q \in Given PROVE q \in Accounted
    <3>1. OnLists(q) \/ Sold(q) \/ InHands(q)
      BY DEF NoneLost, Owned
    <3>2. OnLists(q) => q \in UNION {UNION {PagesOf(Block(k, x)) : x \in DOMAIN freeList[k]} : k \in Orders}
      BY DEF OnLists
    <3>3. Sold(q) => q \in UNION {PagesOf(e) : e \in live}
      BY DEF Sold
    <3>4. InHands(q) => q \in UNION {PagesOf(h) : h \in InHand}
      BY DEF InHands, InHand
    <3> QED
      BY <3>1, <3>2, <3>3, <3>4 DEF Accounted
  <2>3. ASSUME NEW q \in Accounted PROVE q \in Given
    <3>1. CASE q \in UNION {UNION {PagesOf(Block(k, x)) : x \in DOMAIN freeList[k]} : k \in Orders}
      BY <2>1, <3>1 DEF Stored, Inside
    <3>2. CASE q \in UNION {PagesOf(e) : e \in live}
      BY <2>1, <3>2 DEF Stored, Inside
    <3>3. CASE q \in UNION {PagesOf(h) : h \in InHand}
      BY <2>1, <3>3 DEF InHandOK, Inside, InHand
    <3> QED
      BY <2>3, <3>1, <3>2, <3>3 DEF Accounted
  <2> QED
    BY <2>2, <2>3
<1> QED
  BY <1>1, <1>2, <1>3, OwnInit, CoverNext, PTL DEF Spec
=============================================================================

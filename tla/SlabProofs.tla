----------------------------- MODULE SlabProofs -----------------------------
(***************************************************************************)
(* The object allocator, for any caches, any memory and any callers.  What *)
(* makes it inductive: the free chain of a slab is a sequence of the       *)
(* indices nobody has (Chain), a slab is on the list its chain says, once  *)
(* (Lists), the page extents of slabs and of the slab being made lie apart *)
(* (Extents), and only the activation that has just made a slab is about   *)
(* to use it (Unused).                                                     *)
(***************************************************************************)
EXTENDS Slab, CommonLemmas

Activations == [cache : Caches, page : Frames \cup {Nothing}]

Links == UNION {[0 .. Num[c] - 1 -> Int] : c \in Caches}

Controls == [cache : Caches, header : Object \cup {InPage}, inuse : Nat, free : Int,
             bufctl : Links]

(* Every variable holds a value of its kind. *)
TypeOK ==
  /\ full \in [Caches -> Seq(Frames)] /\ notfull \in [Caches -> Seq(Frames)]
  /\ Slabs \subseteq Frames /\ slab \in [Slabs -> Controls]
  /\ \A s \in Slabs : slab[s].bufctl \in [Indices(s) -> Int]
  /\ pageSlab \in [Frames -> BOOLEAN]
  /\ back \in [Frames -> (Caches \X Frames) \cup {Nothing}]
  /\ stack \in Seq(Activations)
  /\ rv \in Object \cup {Nothing, NoValue} /\ pending \in Object \cup {Nothing}
  /\ user \subseteq Object

(* The activation of a grow that has its pages and waits for a control part. *)
Waiting(f) ==
  f.page # Nothing /\ f.cache \in OffSlab /\ notfull[f.cache] = <<>>

(* kmem_cache_alloc is active at most twice, the second time for the control  *)
(* part of a slab of the first; an object is freed when it is not active.     *)
Calls ==
  \/ stack = <<>> /\ rv = NoValue
  \/ /\ pending = Nothing /\ Len(stack) = 1
     /\ \/ stack[1].page = Nothing /\ rv = NoValue
        \/ Waiting(stack[1]) /\ rv \in Object \cup {Nothing}
  \/ /\ pending = Nothing /\ Len(stack) = 2 /\ rv = NoValue
     /\ Waiting(stack[1])
     /\ stack[2] = [cache |-> HeaderCache[stack[1].cache], page |-> Nothing]

-----------------------------------------------------------------------------
(* Memory. *)
Growing == {f \in ToSet(stack) : f.page # Nothing}

Mine(p, c) == p .. p + Pages[c] - 1

Apart(p, c, q, d) == p + Pages[c] <= q \/ q + Pages[d] <= p

(* The pages of slabs, and of the slab being made, are frames, and apart.    *)
Extents ==
  /\ \A s \in Slabs : Mine(s, slab[s].cache) \subseteq Frames
  /\ \A s, t \in Slabs : s # t => Apart(s, slab[s].cache, t, slab[t].cache)
  /\ \A f \in Growing :
       /\ Mine(f.page, f.cache) \subseteq Frames
       /\ \A s \in Slabs : Apart(f.page, f.cache, s, slab[s].cache)

LiveExact ==
  live = {<<s, Pages[slab[s].cache]>> : s \in Slabs}
           \cup {<<f.page, Pages[f.cache]>> : f \in Growing}

Memory == Extents /\ LiveExact /\ BackPointers

-----------------------------------------------------------------------------
(* Objects. *)
Given(s) == {k \in Indices(s) : <<s, k>> \in Allocated}

(* ch is what following bufctl from free meets.                              *)
Follows(ch, free, bufctl) ==
  /\ free = IF ch = <<>> THEN END ELSE ch[1]
  /\ \A i \in 1 .. Len(ch) : bufctl[ch[i]] = IF i = Len(ch) THEN END ELSE ch[i + 1]

Chain(s, ch) ==
  /\ Distinct(ch) /\ Range(ch) = Indices(s) \ Given(s)
  /\ Follows(ch, slab[s].free, slab[s].bufctl)
  /\ Len(ch) + slab[s].inuse = Num[slab[s].cache]

Chains ==
  \A s \in Slabs :
    /\ \E ch \in Seq(Indices(s)) : Chain(s, ch)
    /\ slab[s].inuse = Cardinality(Given(s))

(* Exactly the caches with off_slab set keep control parts in objects.       *)
HeadersPlaced ==
  \A s \in Slabs :
    slab[s].header \in IF slab[s].cache \in OffSlab THEN Object ELSE {InPage}

Objects == Chains /\ HeadersOwned /\ HeadersPlaced

-----------------------------------------------------------------------------
(* The lists of a cache: its full slabs, and the others. *)
Lists ==
  \A c \in Caches :
    /\ Distinct(full[c]) /\ Distinct(notfull[c])
    /\ Range(full[c]) = {s \in Slabs : slab[s].cache = c /\ slab[s].free = END}
    /\ Range(notfull[c]) = {s \in Slabs : slab[s].cache = c /\ slab[s].free # END}

(* A slab without objects in use is the one just made, about to be used.     *)
Unused ==
  \A s \in Slabs :
    slab[s].inuse = 0 =>
      /\ stack # <<>> /\ Top.page = Nothing
      /\ Top.cache = slab[s].cache /\ notfull[Top.cache] = <<s>>

IInv == TypeOK /\ Calls /\ Memory /\ Objects /\ Lists /\ Unused
-----------------------------------------------------------------------------
(* What the assumptions say of a cache, and of objects.                       *)
LEMMA CacheFacts ==
  ASSUME NEW c \in Caches
  PROVE  /\ Num[c] \in Nat /\ Num[c] > 0 /\ Pages[c] \in Nat /\ Pages[c] > 0
         /\ c \in OffSlab =>
              HeaderCache[c] \in Caches /\ HeaderCache[c] \notin OffSlab /\ HeaderCache[c] # c
<1>1. /\ Num \in [Caches -> Nat \ {0}] /\ Pages \in [Caches -> Nat \ {0}]
      /\ HeaderCache \in [OffSlab -> Caches \ OffSlab]
  BY CacheAssumption
<1>2. Num[c] \in Nat \ {0} /\ Pages[c] \in Nat \ {0}
  BY <1>1
<1>3. c \in OffSlab => HeaderCache[c] \in Caches \ OffSlab
  BY <1>1
<1> QED
  BY <1>2, <1>3

LEMMA ObjectFacts ==
  /\ Nothing \notin Object /\ NoValue \notin Object /\ Nothing # NoValue
  /\ Nothing \notin Frames /\ NoValue \notin Frames
  /\ \A s \in Frames, k \in Nat : <<s, k>> \in Object
  /\ \A o \in Object : o = <<o[1], o[2]>> /\ o[1] \in Frames /\ o[2] \in Nat
  /\ Frames \subseteq Nat
BY NullAssumption, CacheAssumption DEF Object

(* What a slab's fields hold. *)
LEMMA SlabFacts ==
  ASSUME TypeOK, NEW s \in Slabs
  PROVE  /\ s \in Frames /\ s \in Nat /\ slab[s] \in Controls /\ slab[s].cache \in Caches
         /\ slab[s].inuse \in Nat /\ slab[s].free \in Int
         /\ slab[s].header \in Object \cup {InPage}
         /\ slab[s].bufctl \in [Indices(s) -> Int]
         /\ Indices(s) = 0 .. Num[slab[s].cache] - 1
         /\ Num[slab[s].cache] \in Nat /\ Num[slab[s].cache] > 0
         /\ Pages[slab[s].cache] \in Nat /\ Pages[slab[s].cache] > 0
<1>1. s \in Frames /\ slab[s] \in Controls /\ slab[s].bufctl \in [Indices(s) -> Int]
  BY DEF TypeOK
<1>2. /\ slab[s].cache \in Caches /\ slab[s].inuse \in Nat /\ slab[s].free \in Int
      /\ slab[s].header \in Object \cup {InPage}
  BY <1>1 DEF Controls
<1> QED
  BY <1>1, <1>2, CacheFacts, ObjectFacts DEF Indices

(* The activations, one or two of them.                                       *)
LEMMA OneActive ==
  ASSUME NEW f
  PROVE  /\ Last(<<f>>) = f /\ ToSet(<<f>>) = {f} /\ Front(<<f>>) = <<>> /\ <<f>> # <<>>
         /\ Len(<<f>>) = 1
<1>1. Front(<<f>>) = <<>>
  BY DEF Front
<1> QED
  BY <1>1 DEF Last, ToSet

LEMMA TwoActive ==
  ASSUME NEW f, NEW g
  PROVE  /\ Last(<<f, g>>) = g /\ ToSet(<<f, g>>) = {f, g} /\ Front(<<f, g>>) = <<f>>
         /\ <<f, g>> # <<>> /\ Len(<<f, g>>) = 2
<1>1. Front(<<f, g>>) = <<f>>
  <2>1. <<f, g>> \in Seq({f, g}) /\ <<f>> \in Seq({f, g}) /\ Len(<<f, g>>) = 2
    OBVIOUS
  <2>2. /\ SubSeq(<<f, g>>, 1, 1) \in Seq({f, g}) /\ Len(SubSeq(<<f, g>>, 1, 1)) = 1
        /\ SubSeq(<<f, g>>, 1, 1)[1] = f
    OBVIOUS
  <2> DEFINE r == SubSeq(<<f, g>>, 1, 1)
             one == <<f>>
  <2>3. r \in Seq({f, g}) /\ one \in Seq({f, g}) /\ Len(one) = 1 /\ one[1] = f
    BY <2>1, <2>2
  <2>4. r = one
    <3> HIDE DEF r, one
    <3>1. Len(r) = 1 /\ r[1] = f
      BY <2>2 DEF r
    <3>2. \A i \in 1 .. Len(r) : r[i] = one[i]
      BY <2>3, <3>1
    <3> QED
      BY <2>3, <3>1, <3>2, SeqEqual
  <2> QED
    BY <2>1, <2>4 DEF Front
<1> QED
  BY <1>1 DEF Last, ToSet

LEMMA ActiveAgain ==
  ASSUME NEW S, NEW f \in S, NEW g \in S
  PROVE  Append(<<f>>, g) = <<f, g>>
<1> DEFINE r == Append(<<f>>, g)
           two == <<f, g>>
<1>1. <<f>> \in Seq(S) /\ Len(<<f>>) = 1 /\ <<f>>[1] = f
  OBVIOUS
<1>2. r \in Seq(S) /\ Len(r) = 2 /\ r[1] = f /\ r[2] = g
  BY <1>1, AppendProperties
<1>3. two \in Seq(S) /\ Len(two) = 2 /\ two[1] = f /\ two[2] = g
  OBVIOUS
<1> HIDE DEF r, two
<1>4. \A i \in 1 .. Len(r) : r[i] = two[i]
  BY <1>2, <1>3
<1>5. r = two
  BY <1>2, <1>3, <1>4, SeqEqual
<1> QED
  BY <1>5 DEF r, two

(* The three shapes of the stack.                                             *)
LEMMA StackShape ==
  ASSUME TypeOK, Calls, stack # <<>>
  PROVE  /\ pending = Nothing /\ Top \in Activations
         /\ \/ \E f \in Activations :
                 /\ stack = <<f>> /\ Top = f
                 /\ \/ f.page = Nothing /\ rv = NoValue /\ Growing = {}
                    \/ Waiting(f) /\ rv \in Object \cup {Nothing} /\ Growing = {f}
            \/ \E f, g \in Activations :
                 /\ stack = <<f, g>> /\ Top = g /\ Waiting(f) /\ rv = NoValue
                 /\ g = [cache |-> HeaderCache[f.cache], page |-> Nothing]
                 /\ Growing = {f}
<1>1. CASE Len(stack) = 1
  <2>1. stack = <<stack[1]>> /\ stack[1] \in Activations
    BY <1>1 DEF TypeOK
  <2>2. Top = stack[1] /\ ToSet(stack) = {stack[1]}
    BY <2>1, OneActive DEF Top
  <2>3. \/ stack[1].page = Nothing /\ rv = NoValue
        \/ Waiting(stack[1]) /\ rv \in Object \cup {Nothing}
    BY <1>1 DEF Calls
  <2>4. \/ stack[1].page = Nothing /\ rv = NoValue /\ Growing = {}
        \/ Waiting(stack[1]) /\ rv \in Object \cup {Nothing} /\ Growing = {stack[1]}
    BY <2>2, <2>3 DEF Growing, Waiting
  <2>5. pending = Nothing
    BY <1>1 DEF Calls
  <2> QED
    BY <2>1, <2>2, <2>4, <2>5
<1>2. CASE Len(stack) = 2
  <2>1. stack = <<stack[1], stack[2]>> /\ stack[1] \in Activations /\ stack[2] \in Activations
    <3> DEFINE two == <<stack[1], stack[2]>>
    <3>1. stack \in Seq(Activations) /\ stack[1] \in Activations /\ stack[2] \in Activations
      <4>1. stack \in Seq(Activations) /\ 1 \in 1 .. Len(stack) /\ 2 \in 1 .. Len(stack)
        BY <1>2 DEF TypeOK
      <4> HIDE DEF two
      <4> QED
        BY <4>1, ElementOfSeq
    <3>2. two \in Seq(Activations) /\ Len(two) = 2 /\ two[1] = stack[1] /\ two[2] = stack[2]
      BY <3>1
    <3>3. \A i \in 1 .. Len(stack) : stack[i] = two[i]
      <4> HIDE DEF two
      <4> QED
        BY <1>2, <3>2
    <3>4. stack = two
      <4> HIDE DEF two
      <4> QED
        BY <1>2, <3>1, <3>2, <3>3, SeqEqual
    <3> QED
      BY <3>1, <3>4
  <2>2. Top = stack[2] /\ ToSet(stack) = {stack[1], stack[2]}
    BY <2>1, TwoActive DEF Top
  <2>3. /\ pending = Nothing /\ rv = NoValue /\ Waiting(stack[1])
        /\ stack[2] = [cache |-> HeaderCache[stack[1].cache], page |-> Nothing]
    BY <1>2 DEF Calls
  <2>4. Growing = {stack[1]}
    BY <2>2, <2>3 DEF Growing, Waiting
  <2> QED
    BY <2>1, <2>2, <2>3, <2>4
<1> QED
  BY <1>1, <1>2 DEF Calls

(* The running activation of kmem_cache_alloc returns v, to its caller or to  *)
(* the grow that waits below it.                                              *)
LEMMA Returning ==
  ASSUME TypeOK, Calls, stack # <<>>, Top.page = Nothing, rv = NoValue,
         NEW v \in Object \cup {Nothing}, Return(v), pending' = pending,
         \A c \in Caches : c # Top.cache => notfull'[c] = notfull[c]
  PROVE  /\ Calls' /\ stack' \in Seq(Activations)
         /\ rv' \in Object \cup {Nothing, NoValue} /\ user' \subseteq Object
         /\ Growing' = Growing /\ pending' = Nothing
         /\ \/ stack' = <<>> /\ rv' = NoValue /\ user' = user \cup ({v} \ {Nothing})
            \/ stack' # <<>> /\ rv' = v /\ user' = user /\ Waiting(Top)'
<1>0. user \subseteq Object /\ pending' = Nothing
  BY StackShape DEF TypeOK
<1>1. ASSUME NEW f \in Activations, stack = <<f>>, Growing = {}
      PROVE  /\ Calls' /\ stack' = <<>> /\ Growing' = Growing
             /\ rv' = NoValue /\ user' = user \cup ({v} \ {Nothing})
  <2>1. stack' = <<>> /\ rv' = NoValue /\ user' = user \cup ({v} \ {Nothing})
    BY <1>1, OneActive DEF Return
  <2> QED
    BY <1>1, <2>1 DEF Calls, Growing, ToSet
<1>2. ASSUME NEW f \in Activations, NEW g \in Activations, stack = <<f, g>>, Top = g,
             Waiting(f), g = [cache |-> HeaderCache[f.cache], page |-> Nothing],
             Growing = {f}
      PROVE  /\ Calls' /\ stack' = <<f>> /\ Growing' = Growing /\ Waiting(Top)'
             /\ rv' = v /\ user' = user
  <2>1. stack' = <<f>> /\ rv' = v /\ user' = user
    BY <1>2, TwoActive DEF Return
  <2>2. f.cache \in Caches /\ f.cache # Top.cache
    BY <1>2, CacheFacts DEF Waiting, Activations
  <2>3. f.page # Nothing /\ f.cache \in OffSlab /\ notfull'[f.cache] = <<>>
    BY <1>2, <2>2 DEF Waiting
  <2>4. Top' = f /\ Len(stack') = 1 /\ stack'[1] = f /\ ToSet(stack') = {f}
    BY <2>1, OneActive DEF Top
  <2>5. Growing' = {f}
    BY <2>3, <2>4 DEF Growing
  <2> QED
    BY <1>0, <1>2, <2>1, <2>3, <2>4, <2>5 DEF Calls, Waiting
<1>3. CASE \E f \in Activations : stack = <<f>> /\ Growing = {}
  <2>1. Calls' /\ stack' = <<>> /\ Growing' = Growing
        /\ rv' = NoValue /\ user' = user \cup ({v} \ {Nothing})
    BY <1>1, <1>3
  <2> QED
    BY <1>0, <2>1
<1>4. CASE \E f, g \in Activations :
              /\ stack = <<f, g>> /\ Top = g /\ Waiting(f) /\ Growing = {f}
              /\ g = [cache |-> HeaderCache[f.cache], page |-> Nothing]
  <2>1. PICK f \in Activations : /\ Calls' /\ stack' = <<f>> /\ Growing' = Growing
                                 /\ Waiting(Top)' /\ rv' = v /\ user' = user
    BY <1>2, <1>4
  <2>2. stack' # <<>> /\ stack' \in Seq(Activations)
    BY <2>1
  <2> QED
    BY <1>0, <2>1, <2>2
<1> QED
  BY <1>3, <1>4, StackShape DEF Waiting

(* Nothing moves in memory. *)
LEMMA MemorySame ==
  ASSUME Memory, Slabs' = Slabs, \A s \in Slabs : slab'[s].cache = slab[s].cache,
         UNCHANGED <<pageSlab, back, live>>, Growing' = Growing
  PROVE  Memory'
<1>1. Extents'
  BY DEF Memory, Extents
<1>2. LiveExact'
  <2>1. {<<s, Pages[slab'[s].cache]>> : s \in Slabs'} = {<<s, Pages[slab[s].cache]>> : s \in Slabs}
    OBVIOUS
  <2> QED
    BY <2>1 DEF Memory, LiveExact
<1>3. BackPointers'
  <2>1. \A p \in Frames : {s \in Slabs' : p \in s .. s + Pages[slab'[s].cache] - 1}
                            = {s \in Slabs : p \in s .. s + Pages[slab[s].cache] - 1}
    OBVIOUS
  <2>2. \A p \in Frames : \A s \in {t \in Slabs : p \in t .. t + Pages[slab[t].cache] - 1} :
          slab'[s].cache = slab[s].cache
    OBVIOUS
  <2> QED
    BY <2>1, <2>2 DEF Memory, BackPointers
<1> QED
  BY <1>1, <1>2, <1>3 DEF Memory

(* No object changes hands. *)
LEMMA ChainsSame ==
  ASSUME Chains, slab' = slab, Allocated' = Allocated
  PROVE  Chains'
<1>1. \A s \in Slabs : Given(s)' = Given(s) /\ Indices(s)' = Indices(s)
  BY DEF Given, Indices
<1>2. \A s \in Slabs : \A ch : Chain(s, ch) => Chain(s, ch)'
  BY <1>1 DEF Chain
<1>3. Slabs' = Slabs
  BY DEF Slabs
<1>4. ASSUME NEW s \in Slabs
      PROVE  /\ \E ch \in Seq(Indices(s)') : Chain(s, ch)'
             /\ slab'[s].inuse = Cardinality(Given(s)')
  <2>1. PICK ch \in Seq(Indices(s)) : Chain(s, ch)
    BY DEF Chains
  <2>2. Chain(s, ch)' /\ ch \in Seq(Indices(s)')
    BY <1>1, <1>2, <2>1
  <2> QED
    BY <1>1, <2>2 DEF Chains
<1> QED
  BY <1>3, <1>4 DEF Chains

(* Control parts lie in objects, and nobody has NULL.                         *)
LEMMA HeadersAreObjects ==
  ASSUME TypeOK, HeadersPlaced
  PROVE  Headers \subseteq Object /\ user \cup Headers \subseteq Object
BY DEF TypeOK, HeadersPlaced, Headers

(* While a list of slabs with free objects is empty, no slab is unused.       *)
LEMMA NoneUnused ==
  ASSUME Unused, \/ stack = <<>>
                 \/ Top.page # Nothing
                 \/ notfull[Top.cache] = <<>>
  PROVE  \A s \in Slabs : slab[s].inuse # 0
BY DEF Unused

(* An activation begins. *)
LEMMA KmallocIInv ==
  ASSUME IInv, NEW size \in Sizes, kmalloc(size)
  PROVE  IInv'
<1> DEFINE c == Smallest(Fits(size))
           f == [cache |-> c, page |-> Nothing]
<1>1. /\ stack = <<>> /\ pending = Nothing /\ rv = NoValue /\ Fits(size) # {}
      /\ stack' = Append(stack, f)
      /\ UNCHANGED <<full, notfull, slab, pageSlab, back, live, rv, pending, user>>
  BY DEF kmalloc, Idle, Call, IInv, Calls
<1>2. f \in Activations
  <2>1. Fits(size) \in SUBSET Nat
    BY CacheAssumption DEF Fits
  <2>2. \E k \in Fits(size) : \A j \in Fits(size) : k <= j
    BY <1>1, <2>1, LeastNat
  <2>3. c \in Fits(size)
    BY <2>2 DEF Smallest
  <2>4. c \in Caches
    BY <2>3 DEF Fits
  <2> HIDE DEF c
  <2> QED
    BY <2>4 DEF Activations
<1> HIDE DEF f
<1>3. /\ stack' = <<f>> /\ Len(stack') = 1 /\ stack'[1] = f /\ stack' \in Seq(Activations)
      /\ ToSet(stack') = {f} /\ f.page = Nothing
  BY <1>1, <1>2, OneActive DEF f
<1>4. Growing' = {} /\ Growing = {}
  BY <1>1, <1>3 DEF Growing, ToSet
<1>5. TypeOK'
  BY <1>1, <1>3 DEF IInv, TypeOK, Slabs, Indices
<1>6. Calls'
  BY <1>1, <1>3 DEF Calls
<1>7. Memory'
  BY <1>1, <1>4, MemorySame DEF IInv, Slabs
<1>8. Allocated' = Allocated /\ Slabs' = Slabs
  BY <1>1 DEF Allocated, Headers, Slabs
<1>9. Objects'
  <2>1. Chains'
    BY <1>1, <1>8, ChainsSame DEF IInv, Objects
  <2>2. HeadersOwned' /\ HeadersPlaced'
    BY <1>1, <1>8 DEF IInv, Objects, HeadersOwned, HeadersPlaced, Headers, Indices
  <2> QED
    BY <2>1, <2>2 DEF Objects
<1>10. Lists'
  BY <1>1, <1>8 DEF IInv, Lists
<1>11. Unused'
  BY <1>1, <1>8, NoneUnused DEF IInv, Unused
<1> QED
  BY <1>5, <1>6, <1>7, <1>9, <1>10, <1>11 DEF IInv

(* NULL is returned: nobody gets anything.                                    *)
LEMMA ReturnNullOwned ==
  ASSUME TypeOK, Objects, pending' = Nothing, pending = Nothing, slab' = slab,
         rv \in {NoValue, Nothing}, rv' \in {NoValue, Nothing}, user' = user
  PROVE  Objects'
<1>1. Slabs' = Slabs /\ Headers' = Headers /\ \A s : Indices(s)' = Indices(s)
  BY DEF Slabs, Headers, Indices
<1>2. {rv', pending'} \cap Object = {} /\ {rv, pending} \cap Object = {}
  BY ObjectFacts
<1>3. Allocated' = Allocated
  BY <1>1, <1>2 DEF Allocated
<1>4. Chains'
  BY <1>3, ChainsSame DEF Objects
<1>5. HeadersPlaced'
  BY <1>1 DEF Objects, HeadersPlaced
<1>6. {rv', pending'} \cap (user' \cup Headers') = {}
  BY <1>1, <1>2, HeadersAreObjects DEF Objects
<1>7. HeadersOwned'
  BY <1>1, <1>3, <1>6 DEF Objects, HeadersOwned
<1> QED
  BY <1>4, <1>5, <1>7 DEF Objects

(* No pages: the running activation returns NULL.                             *)
LEMMA GrowNoPagesIInv ==
  ASSUME IInv, GrowNoPages
  PROVE  IInv'
<1>1. /\ stack # <<>> /\ Top.page = Nothing /\ rv = NoValue /\ Return(Nothing)
      /\ notfull[Top.cache] = <<>> /\ pending = Nothing
      /\ UNCHANGED <<full, notfull, slab, pageSlab, back, live, pending>>
  BY StackShape DEF GrowNoPages, NeedsGrow, IInv
<1>2. /\ Calls' /\ stack' \in Seq(Activations)
      /\ rv' \in Object \cup {Nothing, NoValue} /\ user' \subseteq Object
      /\ Growing' = Growing /\ pending' = Nothing
      /\ rv' \in {NoValue, Nothing} /\ user' = user
  <2>1. PICK v \in Object \cup {Nothing} : v = Nothing
    OBVIOUS
  <2>2. \A c \in Caches : c # Top.cache => notfull'[c] = notfull[c]
    BY <1>1
  <2>3. /\ Calls' /\ stack' \in Seq(Activations)
        /\ rv' \in Object \cup {Nothing, NoValue} /\ user' \subseteq Object
        /\ Growing' = Growing /\ pending' = Nothing
        /\ \/ rv' = NoValue /\ user' = user \cup ({v} \ {Nothing})
           \/ rv' = v /\ user' = user
    BY <1>1, <2>1, <2>2, Returning DEF IInv
  <2> QED
    BY <2>1, <2>3
<1>3. Slabs' = Slabs
  BY <1>1 DEF Slabs
<1>4. TypeOK'
  BY <1>1, <1>2, <1>3 DEF IInv, TypeOK, Indices
<1>5. Memory'
  BY <1>1, <1>2, <1>3, MemorySame DEF IInv
<1>6. Objects'
  BY <1>1, <1>2, ReturnNullOwned DEF IInv
<1>7. Lists'
  BY <1>1, <1>3 DEF IInv, Lists
<1>8. Unused'
  BY <1>1, <1>3, NoneUnused DEF IInv, Unused
<1> QED
  BY <1>2, <1>4, <1>5, <1>6, <1>7, <1>8 DEF IInv

(* A caller gives an object back. *)
LEMMA KfreeIInv ==
  ASSUME IInv, NEW o \in user, kfree(o)
  PROVE  IInv'
<1>1. /\ stack = <<>> /\ pending = Nothing /\ rv = NoValue
      /\ user' = user \ {o} /\ pending' = o
      /\ UNCHANGED <<full, notfull, slab, pageSlab, back, live, stack, rv>>
  BY DEF kfree, Idle, IInv, Calls
<1>2. o \in Object /\ Slabs' = Slabs /\ Headers' = Headers /\ Growing' = Growing
  BY <1>1 DEF IInv, TypeOK, Slabs, Headers, Growing
<1>3. TypeOK'
  BY <1>1, <1>2 DEF IInv, TypeOK, Indices
<1>4. Calls'
  BY <1>1 DEF Calls
<1>5. Memory'
  BY <1>1, <1>2, MemorySame DEF IInv
<1>6. Allocated' = Allocated
  <2>1. {rv', pending'} \cap Object = {o} /\ {rv, pending} \cap Object = {}
    BY <1>1, <1>2, ObjectFacts
  <2> QED
    BY <1>1, <1>2, <2>1 DEF Allocated
<1>7. Objects'
  <2>1. Chains'
    BY <1>1, <1>6, ChainsSame DEF IInv, Objects
  <2>2. HeadersPlaced'
    BY <1>1, <1>2 DEF IInv, Objects, HeadersPlaced
  <2>3. {rv', pending'} \cap (user' \cup Headers') = {}
    <3>1. o \notin Headers /\ NoValue \notin user \cup Headers
      BY HeadersAreObjects, ObjectFacts DEF IInv, Objects, HeadersOwned
    <3> QED
      BY <1>1, <1>2, <3>1
  <2>4. HeadersOwned'
    BY <1>1, <1>2, <1>6, <2>3 DEF IInv, Objects, HeadersOwned, Indices
  <2> QED
    BY <2>1, <2>2, <2>4 DEF Objects
<1>8. Lists'
  BY <1>1, <1>2 DEF IInv, Lists
<1>9. Unused'
  BY <1>1, <1>2, NoneUnused DEF IInv, Unused
<1> QED
  BY <1>3, <1>4, <1>5, <1>7, <1>8, <1>9 DEF IInv

(* Pages from the page allocator are frames, apart from those of every slab.  *)
LEMMA PagesApart ==
  ASSUME TypeOK, LiveExact, NEW p \in Frames, NEW c \in Caches, Page!Alloc(<<p, Pages[c]>>)
  PROVE  /\ Mine(p, c) \subseteq Frames
         /\ \A s \in Slabs : Apart(p, c, s, slab[s].cache)
         /\ p \notin Slabs
         /\ live' = live \cup {<<p, Pages[c]>>}
<1>1. /\ p .. p + Pages[c] - 1 \subseteq Frames
      /\ \A f \in live : Page!Disjoint(<<p, Pages[c]>>, f)
      /\ live' = live \cup {<<p, Pages[c]>>}
  BY DEF Page!Alloc
<1>2. p \in Nat /\ Pages[c] \in Nat /\ Pages[c] > 0
  BY CacheFacts, ObjectFacts
<1>3. ASSUME NEW s \in Slabs
      PROVE  Apart(p, c, s, slab[s].cache)
  <2>1. <<s, Pages[slab[s].cache]>> \in live
    BY DEF LiveExact
  <2>2. Page!Disjoint(<<p, Pages[c]>>, <<s, Pages[slab[s].cache]>>)
    BY <1>1, <2>1
  <2> QED
    BY <1>2, <2>2, SlabFacts DEF Page!Disjoint, Apart
<1>4. p \notin Slabs
  <2> SUFFICES ASSUME p \in Slabs PROVE FALSE
    OBVIOUS
  <2> QED
    BY <1>2, <1>3, SlabFacts DEF Apart
<1> QED
  BY <1>1, <1>3, <1>4 DEF Mine

(* The pages are taken, and kmem_cache_alloc begins again for a control part. *)
LEMMA GrowOffSlabIInv ==
  ASSUME IInv, NEW p \in Frames, GrowOffSlab(p)
  PROVE  IInv'
<1>1. /\ stack # <<>> /\ Top.page = Nothing /\ rv = NoValue /\ pending = Nothing
      /\ notfull[Top.cache] = <<>> /\ Top.cache \in OffSlab
      /\ Page!Alloc(<<p, Pages[Top.cache]>>)
      /\ UNCHANGED <<full, notfull, slab, pageSlab, back, rv, pending, user>>
  BY StackShape DEF GrowOffSlab, NeedsGrow, IInv
<1>2. PICK f \in Activations : stack = <<f>> /\ Top = f /\ Growing = {}
  <2>1. ASSUME NEW f \in Activations, NEW g \in Activations,
               Top = g, Waiting(f), g = [cache |-> HeaderCache[f.cache], page |-> Nothing]
        PROVE  FALSE
    <3>1. f.cache \in Caches /\ f.cache \in OffSlab
      BY <2>1 DEF Waiting, Activations
    <3> QED
      BY <1>1, <2>1, <3>1, CacheFacts
  <2> QED
    BY <1>1, <2>1, StackShape DEF IInv, Waiting
<1> DEFINE c == f.cache
           w == [f EXCEPT !.page = p]
           g == [cache |-> HeaderCache[c], page |-> Nothing]
<1>3. /\ c \in Caches /\ c \in OffSlab /\ notfull[c] = <<>>
      /\ w \in Activations /\ w.cache = c /\ w.page = p /\ p # Nothing
      /\ g \in Activations /\ g.page = Nothing
  <2>1. c \in Caches /\ c \in OffSlab /\ notfull[c] = <<>>
    BY <1>1, <1>2 DEF Activations
  <2>2. w \in Activations /\ w.cache = c /\ w.page = p /\ p # Nothing
    BY ObjectFacts DEF Activations
  <2>3. HeaderCache[c] \in Caches
    BY <2>1, CacheFacts
  <2> QED
    BY <2>1, <2>2, <2>3 DEF Activations
<1>4. stack' = <<w, g>>
  <2>1. stack' = Append([stack EXCEPT ![Len(stack)].page = p],
                        [cache |-> HeaderCache[Top.cache], page |-> Nothing])
    BY DEF GrowOffSlab
  <2>2. [stack EXCEPT ![Len(stack)].page = p] = <<w>>
    BY <1>2, OneActive
  <2>3. [cache |-> HeaderCache[Top.cache], page |-> Nothing] = g
    BY <1>2
  <2>4. w \in Activations /\ g \in Activations
    BY <1>3
  <2> HIDE DEF w, g, c
  <2>5. stack' = Append(<<w>>, g)
    BY <2>1, <2>2, <2>3, Zenon
  <2>6. Append(<<w>>, g) = <<w, g>>
    BY <2>4, ActiveAgain
  <2> QED
    BY <2>5, <2>6
<1> HIDE DEF w
<1>5. /\ Len(stack') = 2 /\ stack'[1] = w /\ stack'[2] = g /\ ToSet(stack') = {w, g}
      /\ stack' \in Seq(Activations)
  BY <1>3, <1>4, TwoActive
<1>6. Growing' = {w}
  BY <1>3, <1>5 DEF Growing
<1>7. Slabs' = Slabs /\ Headers' = Headers /\ Allocated' = Allocated
  BY <1>1 DEF Slabs, Headers, Allocated
<1>8. TypeOK'
  BY <1>1, <1>5, <1>7 DEF IInv, TypeOK, Indices
<1>9. Calls'
  BY <1>1, <1>3, <1>5 DEF Calls, Waiting
<1>10. /\ Mine(p, c) \subseteq Frames
       /\ \A s \in Slabs : Apart(p, c, s, slab[s].cache)
       /\ p \notin Slabs /\ live' = live \cup {<<p, Pages[c]>>}
  <2>1. Page!Alloc(<<p, Pages[c]>>)
    BY <1>1, <1>2
  <2> QED
    BY <1>3, <2>1, PagesApart DEF IInv, Memory
<1>11. Memory'
  <2>1. Extents'
    BY <1>1, <1>3, <1>6, <1>7, <1>10 DEF IInv, Memory, Extents, Mine, Apart
  <2>2. LiveExact'
    <3>1. live = {<<s, Pages[slab[s].cache]>> : s \in Slabs}
      BY <1>2 DEF IInv, Memory, LiveExact
    <3>2. {<<h.page, Pages[h.cache]>> : h \in {w}} = {<<p, Pages[c]>>}
      BY <1>3
    <3> QED
      BY <1>1, <1>6, <1>7, <1>10, <3>1, <3>2 DEF LiveExact
  <2>3. BackPointers'
    BY <1>1, <1>7 DEF IInv, Memory, BackPointers
  <2> QED
    BY <2>1, <2>2, <2>3 DEF Memory
<1>12. Objects'
  <2>1. Chains'
    BY <1>1, <1>7, ChainsSame DEF IInv, Objects
  <2>2. HeadersOwned' /\ HeadersPlaced'
    BY <1>1, <1>7 DEF IInv, Objects, HeadersOwned, HeadersPlaced, Indices
  <2> QED
    BY <2>1, <2>2 DEF Objects
<1>13. Lists'
  BY <1>1, <1>7 DEF IInv, Lists
<1>14. Unused'
  BY <1>1, <1>7, NoneUnused DEF IInv, Unused
<1> QED
  BY <1>8, <1>9, <1>11, <1>12, <1>13, <1>14 DEF IInv

(* No control part: the pages go back and NULL is returned.                   *)
LEMMA GrowNoHeaderIInv ==
  ASSUME IInv, GrowNoHeader
  PROVE  IInv'
<1>1. /\ stack # <<>> /\ Top.page # Nothing /\ rv = Nothing /\ pending = Nothing
      /\ Page!Free(<<Top.page, Pages[Top.cache]>>) /\ Return(Nothing)
      /\ UNCHANGED <<full, notfull, slab, pageSlab, back, pending>>
  BY StackShape DEF GrowNoHeader, IInv
<1>2. PICK f \in Activations : stack = <<f>> /\ Top = f /\ Growing = {f} /\ Waiting(f)
  BY <1>1, StackShape DEF IInv
<1>3. stack' = <<>> /\ rv' = NoValue /\ user' = user /\ Growing' = {}
  <2>1. stack' = <<>> /\ rv' = NoValue /\ user' = user \cup ({Nothing} \ {Nothing})
    BY <1>1, <1>2, OneActive DEF Return
  <2> QED
    BY <2>1 DEF Growing, ToSet
<1>4. Slabs' = Slabs
  BY <1>1 DEF Slabs
<1>5. TypeOK'
  BY <1>1, <1>3, <1>4 DEF IInv, TypeOK, Indices
<1>6. Calls'
  BY <1>3 DEF Calls
<1>7. Memory'
  <2>1. Extents'
    BY <1>1, <1>3, <1>4 DEF IInv, Memory, Extents
  <2>2. LiveExact'
    <3>1. live = {<<s, Pages[slab[s].cache]>> : s \in Slabs} \cup {<<f.page, Pages[f.cache]>>}
      BY <1>2 DEF IInv, Memory, LiveExact
    <3>2. live' = live \ {<<f.page, Pages[f.cache]>>}
      BY <1>1, <1>2 DEF Page!Free
    <3>3. f.page \notin Slabs
      <4>1. /\ f.cache \in Caches
            /\ \A s \in Slabs : Apart(f.page, f.cache, s, slab[s].cache)
        BY <1>2 DEF IInv, Memory, Extents, Activations
      <4> SUFFICES ASSUME f.page \in Slabs PROVE FALSE
        OBVIOUS
      <4>2. f.page \in Nat
        BY SlabFacts DEF IInv
      <4> QED
        BY <4>1, <4>2, CacheFacts, SlabFacts DEF IInv, Apart
    <3>4. <<f.page, Pages[f.cache]>> \notin {<<s, Pages[slab[s].cache]>> : s \in Slabs}
      BY <3>3
    <3>5. live' = {<<s, Pages[slab'[s].cache]>> : s \in Slabs'}
      BY <1>1, <1>4, <3>1, <3>2, <3>4
    <3> QED
      BY <1>3, <3>5 DEF LiveExact
  <2>3. BackPointers'
    BY <1>1, <1>4 DEF IInv, Memory, BackPointers
  <2> QED
    BY <2>1, <2>2, <2>3 DEF Memory
<1>8. Objects'
  BY <1>1, <1>3, ReturnNullOwned DEF IInv
<1>9. Lists'
  BY <1>1, <1>4 DEF IInv, Lists
<1>10. Unused'
  BY <1>1, <1>4, NoneUnused DEF IInv, Unused
<1> QED
  BY <1>5, <1>6, <1>7, <1>8, <1>9, <1>10 DEF IInv

(* slab_init: no slab, no list entry, nothing out. *)
LEMMA InitIInv == Init => IInv
<1> SUFFICES ASSUME Init PROVE IInv
  OBVIOUS
<1>1. Slabs = {} /\ Growing = {} /\ Headers = {} /\ user = {} /\ live = {}
  BY DEF Init, Slabs, Growing, Headers, ToSet, Page!Init
<1>2. /\ stack = <<>> /\ rv = NoValue /\ pending = Nothing
      /\ full = [c \in Caches |-> <<>>] /\ notfull = [c \in Caches |-> <<>>]
  BY DEF Init
<1>3. TypeOK
  <2>1. slab \in [Slabs -> Controls]
    BY <1>1 DEF Init, Slabs
  <2>2. /\ full \in [Caches -> Seq(Frames)] /\ notfull \in [Caches -> Seq(Frames)]
        /\ stack \in Seq(Activations)
    BY <1>2
  <2>3. pageSlab \in [Frames -> BOOLEAN] /\ back \in [Frames -> (Caches \X Frames) \cup {Nothing}]
    BY DEF Init
  <2> QED
    BY <1>1, <1>2, <2>1, <2>2, <2>3 DEF TypeOK
<1>4. Calls
  BY <1>2 DEF Calls
<1>5. Memory
  <2>1. pageSlab = [p \in Frames |-> FALSE]
    BY DEF Init
  <2>2. BackPointers
    BY <1>1, <2>1 DEF BackPointers
  <2> QED
    BY <1>1, <2>2 DEF Memory, Extents, LiveExact
<1>6. Allocated = {}
  BY <1>1, <1>2, ObjectFacts DEF Allocated
<1>7. Objects
  BY <1>1, <1>2, <1>6 DEF Objects, Chains, HeadersOwned, HeadersPlaced
<1>8. Lists
  BY <1>1, <1>2 DEF Lists, Distinct, Range
<1>9. Unused
  BY <1>1 DEF Unused
<1> QED
  BY <1>3, <1>4, <1>5, <1>7, <1>8, <1>9 DEF IInv

(* The control part kmem_cache_grow writes. *)
FreshControl(c, header) ==
  [cache |-> c, header |-> header, inuse |-> 0, free |-> 0,
   bufctl |-> [k \in 0 .. Num[c] - 1 |-> IF k = Num[c] - 1 THEN END ELSE k + 1]]

(* What Link leaves: one slab more, at the head of a list that was empty.     *)
LEMMA LinkShape ==
  ASSUME TypeOK, NEW c \in Caches, NEW p \in Frames, p \notin Slabs,
         NEW h \in Object \cup {InPage}, Link(c, p, h), notfull[c] = <<>>
  PROVE  /\ Slabs' = Slabs \cup {p} /\ slab'[p] = FreshControl(c, h)
         /\ \A s \in Slabs : slab'[s] = slab[s] /\ s # p
         /\ slab' \in [Slabs' -> Controls] /\ Slabs' \subseteq Frames
         /\ \A s \in Slabs' : slab'[s].bufctl \in [Indices(s)' -> Int]
         /\ \A s \in Slabs : Indices(s)' = Indices(s)
         /\ Indices(p)' = 0 .. Num[c] - 1
         /\ notfull'[c] = <<p>> /\ \A d \in Caches : d # c => notfull'[d] = notfull[d]
         /\ notfull' \in [Caches -> Seq(Frames)]
         /\ pageSlab' \in [Frames -> BOOLEAN]
         /\ back' \in [Frames -> (Caches \X Frames) \cup {Nothing}]
<1> DEFINE links == [k \in 0 .. Num[c] - 1 |-> IF k = Num[c] - 1 THEN END ELSE k + 1]
<1>0. Num[c] \in Nat /\ Num[c] > 0
  BY CacheFacts
<1>1. /\ slab' = [s \in Slabs \cup {p} |-> IF s = p THEN FreshControl(c, h) ELSE slab[s]]
      /\ back' = [q \in Frames |-> IF q \in Mine(p, c) THEN <<c, p>> ELSE back[q]]
      /\ pageSlab' = [q \in Frames |-> q \in Mine(p, c) \/ pageSlab[q]]
      /\ notfull' = [notfull EXCEPT ![c] = <<p>> \o @]
  BY DEF Link, FreshControl, Mine
<1>2. /\ Slabs' = Slabs \cup {p} /\ slab'[p] = FreshControl(c, h)
      /\ \A s \in Slabs : slab'[s] = slab[s] /\ s # p
  BY <1>1 DEF Slabs
<1>3. links \in [0 .. Num[c] - 1 -> Int]
  BY <1>0 DEF END
<1>4. links \in Links
  <2> HIDE DEF links
  <2> QED
    BY <1>3 DEF Links
<1>5. FreshControl(c, h) \in Controls /\ FreshControl(c, h).bufctl = links
      /\ FreshControl(c, h).cache = c
  <2>1. FreshControl(c, h) = [cache |-> c, header |-> h, inuse |-> 0, free |-> 0,
                              bufctl |-> links]
    BY DEF FreshControl
  <2> HIDE DEF links
  <2> QED
    BY <1>4, <2>1 DEF Controls
<1>6. Indices(p)' = 0 .. Num[c] - 1 /\ \A s \in Slabs : Indices(s)' = Indices(s)
  BY <1>2, <1>5 DEF Indices
<1>7. slab' \in [Slabs' -> Controls] /\ Slabs' \subseteq Frames
  <2>1. slab \in [Slabs -> Controls] /\ Slabs \subseteq Frames
    BY DEF TypeOK
  <2>2. slab' \in [Slabs \cup {p} -> Controls]
    BY <1>1, <1>5, <2>1
  <2> QED
    BY <1>2, <2>1, <2>2
<1>8. \A s \in Slabs' : slab'[s].bufctl \in [Indices(s)' -> Int]
  <2>1. ASSUME NEW s \in Slabs
        PROVE  slab'[s].bufctl \in [Indices(s)' -> Int]
    BY <1>2, <1>6 DEF TypeOK
  <2>2. slab'[p].bufctl \in [Indices(p)' -> Int]
    <3> HIDE DEF links
    <3> QED
      BY <1>2, <1>3, <1>5, <1>6
  <2> QED
    BY <1>2, <2>1, <2>2
<1>9. /\ notfull'[c] = <<p>> /\ \A d \in Caches : d # c => notfull'[d] = notfull[d]
      /\ notfull' \in [Caches -> Seq(Frames)]
  <2>1. notfull \in [Caches -> Seq(Frames)]
    BY DEF TypeOK
  <2>2. <<p>> \o notfull[c] = <<p>>
    <3>1. \A x \in Seq(Frames) : x \o <<>> = x
      OBVIOUS
    <3>2. <<p>> \in Seq(Frames)
      OBVIOUS
    <3> QED
      BY <3>1, <3>2
  <2>3. notfull' = [notfull EXCEPT ![c] = <<p>>]
    BY <1>1, <2>2
  <2> QED
    BY <2>1, <2>3
<1>10. /\ pageSlab' \in [Frames -> BOOLEAN]
       /\ back' \in [Frames -> (Caches \X Frames) \cup {Nothing}]
  BY <1>1 DEF TypeOK
<1> QED
  BY <1>2, <1>6, <1>7, <1>8, <1>9, <1>10

LEMMA LinkHeaders ==
  ASSUME TypeOK, NEW c \in Caches, NEW p \in Frames, p \notin Slabs,
         NEW h \in Object \cup {InPage}, Link(c, p, h), notfull[c] = <<>>
  PROVE  Headers' = Headers \cup (IF c \in OffSlab THEN {h} ELSE {})
<1>1. /\ Slabs' = Slabs \cup {p} /\ slab'[p] = FreshControl(c, h)
      /\ \A s \in Slabs : slab'[s] = slab[s] /\ s # p
  BY LinkShape
<1>2. slab'[p].cache = c /\ slab'[p].header = h
  BY <1>1 DEF FreshControl
<1>3. Headers' = {slab'[s].header : s \in {t \in Slabs' : slab'[t].cache \in OffSlab}}
  BY DEF Headers
<1>4. {t \in Slabs' : slab'[t].cache \in OffSlab}
        = {t \in Slabs : slab[t].cache \in OffSlab} \cup (IF c \in OffSlab THEN {p} ELSE {})
  BY <1>1, <1>2
<1> QED
  BY <1>1, <1>2, <1>3, <1>4 DEF Headers

(* Its chain runs through all its objects, nobody has any of them, and it is  *)
(* on the list of slabs with free objects.                                    *)
LEMMA LinkObjects ==
  ASSUME TypeOK, Objects, Lists, NEW c \in Caches, NEW p \in Frames, p \notin Slabs,
         NEW h \in Object \cup {InPage}, Link(c, p, h), notfull[c] = <<>>, full' = full,
         h \in IF c \in OffSlab THEN Object ELSE {InPage}, Allocated' = Allocated
  PROVE  Chains' /\ HeadersPlaced' /\ Lists'
<1>1. /\ Slabs' = Slabs \cup {p} /\ slab'[p] = FreshControl(c, h)
      /\ \A s \in Slabs : slab'[s] = slab[s] /\ s # p /\ Indices(s)' = Indices(s)
      /\ Indices(p)' = 0 .. Num[c] - 1
      /\ notfull'[c] = <<p>> /\ \A d \in Caches : d # c => notfull'[d] = notfull[d]
  BY LinkShape
<1>2. Num[c] \in Nat /\ Num[c] > 0
  BY CacheFacts
<1> DEFINE n == Num[c]
           links == [k \in 0 .. n - 1 |-> IF k = n - 1 THEN END ELSE k + 1]
<1>3. /\ slab'[p].cache = c /\ slab'[p].header = h /\ slab'[p].inuse = 0
      /\ slab'[p].free = 0 /\ slab'[p].bufctl = links
  BY <1>1 DEF FreshControl
<1>4. \A s \in Slabs : Given(s)' = Given(s)
  BY <1>1 DEF Given
<1>5. Given(p)' = {}
  <2> SUFFICES ASSUME NEW k, <<p, k>> \in Allocated PROVE FALSE
    BY DEF Given
  <2>1. <<p, k>>[1] \in Slabs
    BY DEF Objects, HeadersOwned
  <2> QED
    BY <2>1
<1>6. ASSUME NEW s \in Slabs
      PROVE  /\ \E ch \in Seq(Indices(s)') : Chain(s, ch)'
             /\ slab'[s].inuse = Cardinality(Given(s)')
  <2>1. PICK ch \in Seq(Indices(s)) : Chain(s, ch)
    BY DEF Objects, Chains
  <2>2. Chain(s, ch)' /\ ch \in Seq(Indices(s)')
    BY <1>1, <1>4, <2>1 DEF Chain
  <2> QED
    BY <1>1, <1>4, <2>2 DEF Objects, Chains
<1>7. \E ch \in Seq(Indices(p)') : Chain(p, ch)'
  <2> DEFINE all == [i \in 1 .. n |-> i - 1]
  <2>1. PICK ch : ch = all
    OBVIOUS
  <2>2. ch \in Seq(0 .. n - 1) /\ Len(ch) = n /\ \A i \in 1 .. n : ch[i] = i - 1
    BY <1>2, <2>1
  <2> HIDE DEF all
  <2>3. Distinct(ch)
    BY <1>2, <2>2 DEF Distinct
  <2>4. Range(ch) = 0 .. n - 1
    <3>1. DOMAIN ch = 1 .. n
      BY <2>2
    <3>2. \A k \in 0 .. n - 1 : k + 1 \in 1 .. n /\ ch[k + 1] = k
      BY <1>2, <2>2
    <3> QED
      BY <1>2, <2>2, <3>1, <3>2 DEF Range
  <2>5. Follows(ch, 0, links)
    <3>1. ch # <<>> /\ ch[1] = 0
      BY <1>2, <2>2
    <3>2. ASSUME NEW i \in 1 .. n
          PROVE  links[ch[i]] = IF i = n THEN END ELSE ch[i + 1]
      <4>1. ch[i] = i - 1 /\ i - 1 \in 0 .. n - 1 /\ (i - 1 = n - 1 <=> i = n)
            /\ (i - 1) + 1 = i
        BY <1>2, <2>2
      <4>2. i # n => i + 1 \in 1 .. n /\ (i + 1) - 1 = i
        BY <1>2
      <4>3. i # n => ch[i + 1] = i
        <5> HIDE DEF n
        <5> QED
          BY <2>2, <4>2
      <4> QED
        BY <4>1, <4>3
    <3> HIDE DEF links
    <3> QED
      BY <2>2, <3>1, <3>2 DEF Follows
  <2>6. Chain(p, ch)'
    <3> HIDE DEF links
    <3>1. Range(ch) = Indices(p)' \ Given(p)'
      BY <1>1, <1>5, <2>4
    <3>2. Len(ch) + slab'[p].inuse = Num[slab'[p].cache]
      BY <1>2, <1>3, <2>2
    <3>3. Follows(ch, slab'[p].free, slab'[p].bufctl)
      BY <1>3, <2>5
    <3> QED
      BY <2>3, <3>1, <3>2, <3>3 DEF Chain
  <2> QED
    BY <1>1, <2>2, <2>6
<1>8. slab'[p].inuse = Cardinality(Given(p)')
  BY <1>3, <1>5, FS_EmptySet
<1>9. Chains'
  BY <1>1, <1>6, <1>7, <1>8 DEF Chains
<1>10. HeadersPlaced'
  BY <1>1, <1>3 DEF Objects, HeadersPlaced
<1>11. Lists'
  <2>1. 0 # END
    BY DEF END
  <2>2. ASSUME NEW d \in Caches
        PROVE  /\ {s \in Slabs' : slab'[s].cache = d /\ slab'[s].free = END}
                    = {s \in Slabs : slab[s].cache = d /\ slab[s].free = END}
               /\ {s \in Slabs' : slab'[s].cache = d /\ slab'[s].free # END}
                    = {s \in Slabs : slab[s].cache = d /\ slab[s].free # END}
                        \cup (IF d = c THEN {p} ELSE {})
    BY <1>1, <1>3, <2>1
  <2>3. Distinct(notfull'[c]) /\ Range(notfull'[c]) = {p} /\ Range(notfull[c]) = {}
    BY <1>1 DEF Distinct, Range
  <2> QED
    BY <1>1, <2>2, <2>3 DEF Lists
<1> QED
  BY <1>9, <1>10, <1>11

(* The pages of the new slab point to it, and the extents stay apart.         *)
LEMMA LinkMemory ==
  ASSUME TypeOK, Memory, NEW c \in Caches, NEW p \in Frames, p \notin Slabs,
         NEW h \in Object \cup {InPage}, Link(c, p, h), notfull[c] = <<>>,
         Mine(p, c) \subseteq Frames, Growing' \subseteq Growing,
         \A s \in Slabs : Apart(p, c, s, slab[s].cache),
         \A f \in Growing' : Apart(f.page, f.cache, p, c),
         live' = {<<s, Pages[slab[s].cache]>> : s \in Slabs} \cup {<<p, Pages[c]>>}
                   \cup {<<f.page, Pages[f.cache]>> : f \in Growing'}
  PROVE  Memory'
<1>1. /\ Slabs' = Slabs \cup {p} /\ slab'[p].cache = c
      /\ \A s \in Slabs : slab'[s] = slab[s] /\ s # p
  <2>1. /\ Slabs' = Slabs \cup {p} /\ slab'[p] = FreshControl(c, h)
        /\ \A s \in Slabs : slab'[s] = slab[s] /\ s # p
    BY LinkShape
  <2> QED
    BY <2>1 DEF FreshControl
<1>2. /\ \A q \in Frames : back'[q] = IF q \in Mine(p, c) THEN <<c, p>> ELSE back[q]
      /\ \A q \in Frames : pageSlab'[q] = (q \in Mine(p, c) \/ pageSlab[q])
  BY DEF Link, Mine
<1>3. p \in Nat /\ Pages[c] \in Nat /\ Pages[c] > 0
  BY CacheFacts, ObjectFacts
<1>4. Extents'
  <2>1. \A s \in Slabs' : Mine(s, slab'[s].cache) \subseteq Frames
    BY <1>1 DEF Memory, Extents
  <2>2. \A s, t \in Slabs' : s # t => Apart(s, slab'[s].cache, t, slab'[t].cache)
    BY <1>1 DEF Memory, Extents, Apart
  <2>3. \A f \in Growing' :
          /\ Mine(f.page, f.cache) \subseteq Frames
          /\ \A s \in Slabs' : Apart(f.page, f.cache, s, slab'[s].cache)
    BY <1>1 DEF Memory, Extents
  <2> QED
    BY <2>1, <2>2, <2>3 DEF Extents
<1>5. LiveExact'
  <2>1. {<<s, Pages[slab'[s].cache]>> : s \in Slabs'}
          = {<<s, Pages[slab[s].cache]>> : s \in Slabs} \cup {<<p, Pages[c]>>}
    BY <1>1
  <2> QED
    BY <2>1 DEF LiveExact
<1>6. BackPointers'
  <2> DEFINE owners(q) == {s \in Slabs : q \in s .. s + Pages[slab[s].cache] - 1}
             owners2(q) == {s \in Slabs' : q \in s .. s + Pages[slab'[s].cache] - 1}
  <2>1. ASSUME NEW q \in Frames, q \in Mine(p, c)
        PROVE  owners2(q) = {p}
    <3>1. q \in Nat /\ p <= q /\ q < p + Pages[c]
      BY <1>3, <2>1, ObjectFacts DEF Mine
    <3>2. ASSUME NEW s \in Slabs, q \in s .. s + Pages[slab[s].cache] - 1
          PROVE  FALSE
      <4>1. Apart(p, c, s, slab[s].cache) /\ s \in Nat /\ Pages[slab[s].cache] \in Nat
        BY SlabFacts
      <4> QED
        BY <1>3, <3>1, <3>2, <4>1 DEF Apart
    <3>3. \A s \in Slabs : q \notin s .. s + Pages[slab'[s].cache] - 1
      BY <1>1, <3>2
    <3>4. q \in p .. p + Pages[slab'[p].cache] - 1
      BY <1>1, <1>3, <3>1
    <3> QED
      BY <1>1, <3>3, <3>4
  <2>2. ASSUME NEW q \in Frames, q \notin Mine(p, c)
        PROVE  owners2(q) = owners(q)
    BY <1>1, <2>2 DEF Mine
  <2>3. ASSUME NEW q \in Frames
        PROVE  /\ pageSlab'[q] = (owners2(q) # {})
               /\ \A s \in owners2(q) : back'[q] = <<slab'[s].cache, s>>
    <3>1. CASE q \in Mine(p, c)
      <4>1. pageSlab'[q] = TRUE /\ owners2(q) # {}
        <5>1. owners2(q) = {p}
          BY <2>1, <3>1
        <5> HIDE DEF owners2
        <5> QED
          BY <1>2, <3>1, <5>1
      <4>2. \A s \in owners2(q) : back'[q] = <<slab'[s].cache, s>>
        <5>1. owners2(q) = {p}
          BY <2>1, <3>1
        <5> HIDE DEF owners2
        <5> QED
          BY <1>1, <1>2, <3>1, <5>1
      <4> HIDE DEF owners2
      <4> QED
        BY <4>1, <4>2, Zenon
    <3>2. CASE q \notin Mine(p, c)
      <4>1. pageSlab[q] = (owners(q) # {}) /\ \A s \in owners(q) : back[q] = <<slab[s].cache, s>>
        BY DEF Memory, BackPointers
      <4>2. owners2(q) = owners(q)
        BY <2>2, <3>2
      <4>3. pageSlab[q] \in BOOLEAN /\ pageSlab'[q] = (q \in Mine(p, c) \/ pageSlab[q])
        BY <1>2 DEF TypeOK
      <4>4. pageSlab'[q] = pageSlab[q]
        BY <3>2, <4>3, Zenon
      <4>5. \A s \in owners(q) : s \in Slabs
        OBVIOUS
      <4> HIDE DEF owners, owners2
      <4>6. pageSlab'[q] = (owners2(q) # {})
        BY <4>1, <4>2, <4>4, Zenon
      <4>7. \A s \in owners2(q) : back'[q] = <<slab'[s].cache, s>>
        BY <1>1, <1>2, <3>2, <4>1, <4>2, <4>5
      <4> QED
        BY <4>6, <4>7, Zenon
    <3> QED
      BY <3>1, <3>2
  <2> QED
    BY <2>3 DEF BackPointers
<1> QED
  BY <1>4, <1>5, <1>6 DEF Memory

(* A slab with its control part in its first page.                            *)
LEMMA GrowOnSlabIInv ==
  ASSUME IInv, NEW p \in Frames, GrowOnSlab(p)
  PROVE  IInv'
<1>1. /\ stack # <<>> /\ Top.page = Nothing /\ rv = NoValue /\ pending = Nothing
      /\ notfull[Top.cache] = <<>> /\ Top.cache \notin OffSlab /\ Top.cache \in Caches
      /\ Page!Alloc(<<p, Pages[Top.cache]>>)
      /\ Link(Top.cache, p, InPage)
      /\ UNCHANGED <<full, stack, rv, pending, user>>
  BY StackShape DEF GrowOnSlab, NeedsGrow, IInv, Activations
<1>2. PICK c \in Caches : c = Top.cache
  BY <1>1
<1>3. /\ Mine(p, c) \subseteq Frames
      /\ \A s \in Slabs : Apart(p, c, s, slab[s].cache)
      /\ p \notin Slabs /\ live' = live \cup {<<p, Pages[c]>>}
  BY <1>1, <1>2, PagesApart DEF IInv, Memory
<1>4. InPage \in Object \cup {InPage} /\ Link(c, p, InPage) /\ notfull[c] = <<>>
      /\ c \notin OffSlab
  BY <1>1, <1>2
<1>5. /\ Slabs' = Slabs \cup {p} /\ slab'[p] = FreshControl(c, InPage)
      /\ \A s \in Slabs : slab'[s] = slab[s] /\ s # p /\ Indices(s)' = Indices(s)
      /\ slab' \in [Slabs' -> Controls] /\ Slabs' \subseteq Frames
      /\ \A s \in Slabs' : slab'[s].bufctl \in [Indices(s)' -> Int]
      /\ notfull'[c] = <<p>> /\ \A d \in Caches : d # c => notfull'[d] = notfull[d]
      /\ notfull' \in [Caches -> Seq(Frames)]
      /\ pageSlab' \in [Frames -> BOOLEAN]
      /\ back' \in [Frames -> (Caches \X Frames) \cup {Nothing}]
  BY <1>3, <1>4, LinkShape DEF IInv
<1>6. slab'[p].cache = c /\ slab'[p].header = InPage /\ slab'[p].inuse = 0
  BY <1>5 DEF FreshControl
<1>7. Headers' = Headers
  BY <1>3, <1>4, LinkHeaders DEF IInv
<1>8. Allocated' = Allocated /\ Growing' = Growing /\ Top' = Top
  BY <1>1, <1>7 DEF Allocated, Growing, Top
<1>9. TypeOK'
  BY <1>1, <1>5 DEF IInv, TypeOK
<1>10. Calls'
  <2>1. CASE \E f \in Activations : stack = <<f>> /\ f.page = Nothing
    BY <1>1, <2>1 DEF Calls
  <2>2. CASE \E f, g \in Activations :
               /\ stack = <<f, g>> /\ Top = g /\ Waiting(f)
               /\ g = [cache |-> HeaderCache[f.cache], page |-> Nothing]
    <3>1. PICK f \in Activations, g \in Activations :
               /\ stack = <<f, g>> /\ Top = g /\ Waiting(f)
               /\ g = [cache |-> HeaderCache[f.cache], page |-> Nothing]
      BY <2>2
    <3>2. f.cache \in Caches /\ f.cache # c
      BY <1>2, <3>1, CacheFacts DEF Waiting, Activations
    <3>3. Waiting(f)'
      BY <1>5, <3>1, <3>2 DEF Waiting
    <3>4. Len(stack') = 2 /\ stack'[1] = f /\ stack'[2] = g
      BY <1>1, <3>1, TwoActive
    <3> QED
      BY <1>1, <3>1, <3>3, <3>4 DEF Calls, Waiting
  <2> QED
    BY <1>1, <2>1, <2>2, StackShape DEF IInv, Waiting
<1>11. Memory'
  <2>1. \A f \in Growing : Apart(f.page, f.cache, p, c)
    <3> SUFFICES ASSUME NEW f \in Growing PROVE Apart(f.page, f.cache, p, c)
      OBVIOUS
    <3>1. f \in Activations /\ f.page \in Frames /\ f.cache \in Caches
      <4>1. f \in ToSet(stack) /\ f.page # Nothing /\ stack \in Seq(Activations)
        BY DEF Growing, IInv, TypeOK
      <4>2. f \in Activations
        BY <4>1 DEF ToSet
      <4> QED
        BY <4>1, <4>2 DEF Activations
    <3>2. <<f.page, Pages[f.cache]>> \in live
      BY DEF IInv, Memory, LiveExact
    <3>3. Page!Disjoint(<<p, Pages[c]>>, <<f.page, Pages[f.cache]>>)
      BY <1>1, <1>2, <3>2 DEF Page!Alloc
    <3>4. /\ p \in Nat /\ Pages[c] \in Nat /\ Pages[c] > 0
          /\ f.page \in Nat /\ Pages[f.cache] \in Nat /\ Pages[f.cache] > 0
      BY <3>1, CacheFacts, ObjectFacts
    <3> QED
      BY <3>3, <3>4 DEF Page!Disjoint, Apart
  <2>2. live' = {<<s, Pages[slab[s].cache]>> : s \in Slabs} \cup {<<p, Pages[c]>>}
                  \cup {<<f.page, Pages[f.cache]>> : f \in Growing'}
    BY <1>3, <1>8 DEF IInv, Memory, LiveExact
  <2>3. \A f \in Growing' : Apart(f.page, f.cache, p, c)
    BY <1>8, <2>1
  <2> QED
    BY <1>3, <1>4, <1>8, <2>2, <2>3, LinkMemory DEF IInv
<1>12. Objects'
  <2>1. Chains' /\ HeadersPlaced'
    BY <1>1, <1>3, <1>4, <1>8, LinkObjects DEF IInv
  <2>2. /\ Headers' \cap user' = {} /\ {rv', pending'} \cap (user' \cup Headers') = {}
        /\ \A o \in Allocated' : o[1] \in Slabs' /\ o[2] \in Indices(o[1])'
    BY <1>1, <1>5, <1>7, <1>8 DEF IInv, Objects, HeadersOwned
  <2>3. \A s, t \in Slabs' : slab'[s].header = slab'[t].header /\ s # t
                               => slab'[s].header = InPage
    BY <1>5, <1>6 DEF IInv, Objects, HeadersOwned
  <2> QED
    BY <2>1, <2>2, <2>3 DEF Objects, HeadersOwned
<1>13. Lists'
  BY <1>1, <1>3, <1>4, <1>8, LinkObjects DEF IInv
<1>14. Unused'
  <2>1. \A s \in Slabs : slab'[s].inuse # 0
    BY <1>1, <1>5, NoneUnused DEF IInv
  <2> QED
    BY <1>1, <1>2, <1>5, <1>6, <1>8, <2>1 DEF Unused
<1> QED
  BY <1>9, <1>10, <1>11, <1>12, <1>13, <1>14 DEF IInv

(* The control part is there: the slab is made, and the activation tries      *)
(* again.                                                                     *)
LEMMA GrowGotHeaderIInv ==
  ASSUME IInv, GrowGotHeader
  PROVE  IInv'
<1>1. /\ stack # <<>> /\ Top.page # Nothing /\ rv \in Object /\ pending = Nothing
      /\ Link(Top.cache, Top.page, rv)
      /\ stack' = [stack EXCEPT ![Len(stack)].page = Nothing] /\ rv' = NoValue
      /\ UNCHANGED <<full, live, pending, user>>
  BY StackShape DEF GrowGotHeader, IInv
<1>2. PICK f \in Activations : stack = <<f>> /\ Top = f /\ Growing = {f} /\ Waiting(f)
  BY <1>1, StackShape DEF IInv
<1>3. PICK c \in Caches, p \in Frames, h \in Object :
        c = f.cache /\ p = f.page /\ h = rv
  BY <1>1, <1>2 DEF Activations
<1>4. /\ c \in OffSlab /\ notfull[c] = <<>> /\ Link(c, p, h)
      /\ h \in Object \cup {InPage} /\ h \notin user /\ h \notin Headers
  BY <1>1, <1>2, <1>3 DEF Waiting, IInv, Objects, HeadersOwned
<1>5. /\ Mine(p, c) \subseteq Frames
      /\ \A s \in Slabs : Apart(p, c, s, slab[s].cache)
  BY <1>2, <1>3 DEF IInv, Memory, Extents
<1>6. p \notin Slabs
  <2> SUFFICES ASSUME p \in Slabs PROVE FALSE
    OBVIOUS
  <2> QED
    BY <1>5, CacheFacts, SlabFacts DEF IInv, Apart
<1> DEFINE w == [f EXCEPT !.page = Nothing]
<1>7. w \in Activations /\ w.cache = c /\ w.page = Nothing
  BY <1>3 DEF Activations
<1>8. stack' = <<w>>
  BY <1>1, <1>2, OneActive
<1> HIDE DEF w
<1>9. /\ stack' \in Seq(Activations) /\ Len(stack') = 1 /\ stack'[1] = w /\ stack' # <<>>
      /\ Top' = w /\ ToSet(stack') = {w}
  BY <1>7, <1>8, OneActive DEF Top
<1>10. Growing' = {}
  BY <1>7, <1>9 DEF Growing
<1>11. /\ Slabs' = Slabs \cup {p} /\ slab'[p] = FreshControl(c, h)
       /\ \A s \in Slabs : slab'[s] = slab[s] /\ s # p /\ Indices(s)' = Indices(s)
       /\ slab' \in [Slabs' -> Controls] /\ Slabs' \subseteq Frames
       /\ \A s \in Slabs' : slab'[s].bufctl \in [Indices(s)' -> Int]
       /\ notfull'[c] = <<p>>
       /\ notfull' \in [Caches -> Seq(Frames)]
       /\ pageSlab' \in [Frames -> BOOLEAN]
       /\ back' \in [Frames -> (Caches \X Frames) \cup {Nothing}]
  BY <1>4, <1>6, LinkShape DEF IInv
<1>12. slab'[p].cache = c /\ slab'[p].header = h /\ slab'[p].inuse = 0
  BY <1>11 DEF FreshControl
<1>13. Headers' = Headers \cup {h}
  BY <1>4, <1>6, LinkHeaders DEF IInv
<1>14. {rv, pending} \cap Object = {h} /\ {rv', pending'} \cap Object = {}
  BY <1>1, <1>3, ObjectFacts
<1>15. Allocated' = Allocated
  BY <1>1, <1>13, <1>14 DEF Allocated
<1>16. TypeOK'
  BY <1>1, <1>9, <1>11 DEF IInv, TypeOK
<1>17. Calls'
  BY <1>1, <1>7, <1>9 DEF Calls
<1>18. Memory'
  <2>1. live' = {<<s, Pages[slab[s].cache]>> : s \in Slabs} \cup {<<p, Pages[c]>>}
                  \cup {<<k.page, Pages[k.cache]>> : k \in Growing'}
    BY <1>1, <1>2, <1>3, <1>10 DEF IInv, Memory, LiveExact
  <2>2. Growing' \subseteq Growing /\ \A k \in Growing' : Apart(k.page, k.cache, p, c)
    BY <1>10
  <2> QED
    BY <1>4, <1>5, <1>6, <2>1, <2>2, LinkMemory DEF IInv
<1>19. Chains' /\ HeadersPlaced' /\ Lists'
  BY <1>1, <1>4, <1>6, <1>15, LinkObjects DEF IInv
<1>20. HeadersOwned'
  <2>1. Headers' \cap user' = {}
    BY <1>1, <1>4, <1>13 DEF IInv, Objects, HeadersOwned
  <2>2. {rv', pending'} \cap (user' \cup Headers') = {}
    <3>1. user' \cup Headers' \subseteq Object
      BY <1>1, <1>13, HeadersAreObjects DEF IInv, Objects
    <3> QED
      BY <1>14, <3>1
  <2>3. \A o \in Allocated' : o[1] \in Slabs' /\ o[2] \in Indices(o[1])'
    BY <1>11, <1>15 DEF IInv, Objects, HeadersOwned
  <2>4. \A s \in Slabs : slab[s].header # h
    <3> SUFFICES ASSUME NEW s \in Slabs, slab[s].header = h PROVE FALSE
      OBVIOUS
    <3>1. slab[s].cache \notin OffSlab
      BY <1>4 DEF Headers
    <3>2. slab[s].header = InPage
      BY <3>1 DEF IInv, Objects, HeadersPlaced
    <3> QED
      BY <3>2, ObjectFacts DEF InPage
  <2>5. \A s, t \in Slabs' : slab'[s].header = slab'[t].header /\ s # t
                               => slab'[s].header = InPage
    BY <1>11, <1>12, <2>4 DEF IInv, Objects, HeadersOwned
  <2> QED
    BY <2>1, <2>2, <2>3, <2>5 DEF HeadersOwned
<1>21. Unused'
  <2>1. \A s \in Slabs : slab'[s].inuse # 0
    BY <1>1, <1>11, NoneUnused DEF IInv
  <2> QED
    BY <1>7, <1>9, <1>11, <1>12, <2>1 DEF Unused
<1> QED
  BY <1>16, <1>17, <1>18, <1>19, <1>20, <1>21 DEF IInv, Objects

-----------------------------------------------------------------------------
(* The control part of one slab changes, its cache and header do not.         *)
LEMMA ControlShape ==
  ASSUME TypeOK, NEW s \in Slabs, NEW after \in Controls,
         after.cache = slab[s].cache, after.header = slab[s].header,
         after.bufctl \in [Indices(s) -> Int], slab' = [slab EXCEPT ![s] = after]
  PROVE  /\ Slabs' = Slabs /\ slab'[s] = after /\ \A t \in Slabs : t # s => slab'[t] = slab[t]
         /\ \A t \in Slabs : slab'[t].cache = slab[t].cache /\ slab'[t].header = slab[t].header
         /\ \A t \in Slabs : Indices(t)' = Indices(t)
         /\ slab' \in [Slabs' -> Controls]
         /\ \A t \in Slabs' : slab'[t].bufctl \in [Indices(t)' -> Int]
         /\ Headers' = Headers /\ (HeadersPlaced => HeadersPlaced')
<1>1. slab \in [Slabs -> Controls]
  BY DEF TypeOK
<1>2. /\ Slabs' = Slabs /\ slab'[s] = after /\ slab' \in [Slabs' -> Controls]
      /\ \A t \in Slabs : t # s => slab'[t] = slab[t]
  BY <1>1 DEF Slabs
<1>3. \A t \in Slabs : slab'[t].cache = slab[t].cache /\ slab'[t].header = slab[t].header
  BY <1>2
<1>4. \A t \in Slabs : Indices(t)' = Indices(t)
  BY <1>3 DEF Indices
<1>5. \A t \in Slabs' : slab'[t].bufctl \in [Indices(t)' -> Int]
  BY <1>2, <1>4 DEF TypeOK
<1>6. Headers' = Headers
  <2>1. Headers' = {slab'[t].header : t \in {u \in Slabs' : slab'[u].cache \in OffSlab}}
    BY DEF Headers
  <2>2. {u \in Slabs' : slab'[u].cache \in OffSlab} = {u \in Slabs : slab[u].cache \in OffSlab}
    BY <1>2, <1>3
  <2> QED
    BY <1>3, <2>1, <2>2 DEF Headers
<1>7. HeadersPlaced => HeadersPlaced'
  BY <1>2, <1>3 DEF HeadersPlaced
<1> QED
  BY <1>2, <1>3, <1>4, <1>5, <1>6, <1>7

(* Only what is given out of that slab changes: its chain is the new one.     *)
LEMMA ChainsChange ==
  ASSUME TypeOK, Chains, NEW s \in Slabs, NEW ch \in Seq(Indices(s)), Slabs' = Slabs,
         \A t \in Slabs : Indices(t)' = Indices(t),
         \A t \in Slabs : t # s => slab'[t] = slab[t] /\ Given(t)' = Given(t),
         Chain(s, ch)', slab'[s].inuse = Cardinality(Given(s)')
  PROVE  Chains'
<1>1. ASSUME NEW t \in Slabs, t # s
      PROVE  /\ \E list \in Seq(Indices(t)') : Chain(t, list)'
             /\ slab'[t].inuse = Cardinality(Given(t)')
  <2>1. PICK list \in Seq(Indices(t)) : Chain(t, list)
    BY DEF Chains
  <2>2. Chain(t, list)' /\ list \in Seq(Indices(t)')
    BY <1>1, <2>1 DEF Chain
  <2> QED
    BY <1>1, <2>2 DEF Chains
<1>2. \E list \in Seq(Indices(s)') : Chain(s, list)'
  <2>1. ch \in Seq(Indices(s)')
    OBVIOUS
  <2> QED
    BY <2>1
<1> QED
  BY <1>1, <1>2 DEF Chains

(* The first slab of a list is a slab of that cache with a free object.       *)
LEMMA FirstNotFull ==
  ASSUME TypeOK, Lists, NEW c \in Caches, notfull[c] # <<>>
  PROVE  /\ Head(notfull[c]) \in Slabs /\ slab[Head(notfull[c])].cache = c
         /\ slab[Head(notfull[c])].free # END
<1>1. notfull[c] \in Seq(Frames) /\ Distinct(notfull[c])
  BY DEF TypeOK, Lists
<1>2. Head(notfull[c]) \in Range(notfull[c])
  BY <1>1, TakeFirst
<1> QED
  BY <1>2 DEF Lists

(* What the chain of a slab with a free object begins with.                   *)
LEMMA ChainFirst ==
  ASSUME TypeOK, Chains, NEW s \in Slabs, slab[s].free # END
  PROVE  \E ch \in Seq(Indices(s)) :
           /\ Chain(s, ch) /\ ch # <<>> /\ Len(ch) > 0 /\ ch[1] = slab[s].free
           /\ slab[s].free \in Indices(s) \ Given(s)
           /\ slab[s].bufctl[slab[s].free] = (IF Len(ch) = 1 THEN END ELSE ch[2])
           /\ (slab[s].bufctl[slab[s].free] = END <=> Len(ch) = 1)
<1>1. PICK ch \in Seq(Indices(s)) : Chain(s, ch)
  BY DEF Chains
<1>2. ch # <<>> /\ Len(ch) \in Nat /\ Len(ch) > 0 /\ ch[1] = slab[s].free
  BY <1>1 DEF Chain, Follows
<1>3. slab[s].bufctl[ch[1]] = IF Len(ch) = 1 THEN END ELSE ch[2]
  <2>1. 1 \in 1 .. Len(ch)
    BY <1>2
  <2>2. slab[s].bufctl[ch[1]] = IF 1 = Len(ch) THEN END ELSE ch[1 + 1]
    BY <1>1, <2>1 DEF Chain, Follows
  <2> QED
    BY <2>2
<1>4. ch[1] \in Indices(s) \ Given(s)
  <2>1. ch[1] \in Range(ch)
    BY <1>2 DEF Range
  <2> QED
    BY <1>1, <2>1 DEF Chain
<1>5. Len(ch) # 1 => ch[2] # END
  <2> SUFFICES ASSUME Len(ch) # 1 PROVE ch[2] # END
    OBVIOUS
  <2>1. 2 \in 1 .. Len(ch)
    <3>1. \A n \in Nat : n > 0 /\ n # 1 => 2 \in 1 .. n
      OBVIOUS
    <3> QED
      BY <1>2, <3>1
  <2>2. ch[2] \in Indices(s)
    BY <2>1, ElementOfSeq
  <2> QED
    BY <2>2, SlabFacts DEF END
<1> QED
  BY <1>1, <1>2, <1>3, <1>4, <1>5

(* The first object of a chain is given out, the rest is the chain.           *)
LEMMA ChainTaken ==
  ASSUME TypeOK, Objects, NEW s \in Slabs, NEW ch \in Seq(Indices(s)), Chain(s, ch), ch # <<>>,
         slab[s].bufctl[ch[1]] = (IF Len(ch) = 1 THEN END ELSE ch[2]),
         Slabs' = Slabs, \A t \in Slabs : Indices(t)' = Indices(t),
         \A t \in Slabs : t # s => slab'[t] = slab[t],
         slab'[s].inuse = slab[s].inuse + 1, slab'[s].free = slab[s].bufctl[ch[1]],
         slab'[s].bufctl = slab[s].bufctl, slab'[s].cache = slab[s].cache,
         Allocated' = Allocated \cup {<<s, ch[1]>>}
  PROVE  Chains'
<1>1. PICK k : k = ch[1]
  OBVIOUS
<1> DEFINE rest == Tail(ch)
<1>2. /\ Len(ch) \in Nat /\ Len(ch) > 0 /\ k \in Indices(s) \ Given(s)
      /\ Range(ch) = Indices(s) \ Given(s)
  <2>1. Len(ch) \in Nat /\ Len(ch) > 0
    OBVIOUS
  <2>2. ch[1] \in Range(ch)
    BY <2>1 DEF Range
  <2> QED
    BY <1>1, <2>1, <2>2 DEF Chain
<1>3. /\ rest \in Seq(Indices(s)) /\ Distinct(rest) /\ Len(rest) = Len(ch) - 1
      /\ \A i \in 1 .. Len(rest) : rest[i] = ch[i + 1]
      /\ Range(rest) = Range(ch) \ {k}
  BY <1>1, TakeFirst DEF Chain
<1>4. PICK r : r = rest
  OBVIOUS
<1> HIDE DEF rest
<1>5. Given(s)' = Given(s) \cup {k}
  BY <1>1, <1>2 DEF Given
<1>6. \A t \in Slabs : t # s => Given(t)' = Given(t)
  BY DEF Given
<1>7. Follows(r, slab'[s].free, slab'[s].bufctl)
  <2>1. slab'[s].free = IF r = <<>> THEN END ELSE r[1]
    <3>1. Len(ch) = 1 <=> r = <<>>
      BY <1>2, <1>3, <1>4
    <3>2. r # <<>> => r[1] = ch[2]
      BY <1>2, <1>3, <1>4
    <3> QED
      BY <1>1, <3>1, <3>2
  <2>2. ASSUME NEW i \in 1 .. Len(r)
        PROVE  slab'[s].bufctl[r[i]] = IF i = Len(r) THEN END ELSE r[i + 1]
    <3>1. i + 1 \in 1 .. Len(ch) /\ r[i] = ch[i + 1] /\ (i + 1 = Len(ch) <=> i = Len(r))
      BY <1>2, <1>3, <1>4
    <3>2. i # Len(r) => i + 1 \in 1 .. Len(r) /\ r[i + 1] = ch[(i + 1) + 1]
      BY <1>2, <1>3, <1>4
    <3>3. slab[s].bufctl[ch[i + 1]] = IF i + 1 = Len(ch) THEN END ELSE ch[(i + 1) + 1]
      BY <3>1 DEF Chain, Follows
    <3> QED
      BY <3>1, <3>2, <3>3
  <2> QED
    BY <2>1, <2>2 DEF Follows
<1>8. Chain(s, r)'
  <2>1. Len(r) + slab'[s].inuse = Num[slab'[s].cache]
    <3>1. Len(ch) + slab[s].inuse = Num[slab[s].cache]
      BY DEF Chain
    <3>2. slab[s].inuse \in Nat /\ Len(r) = Len(ch) - 1
      BY <1>3, <1>4, SlabFacts
    <3>3. Num[slab'[s].cache] = Num[slab[s].cache]
      OBVIOUS
    <3>4. \A l, i \in Nat : (l - 1) + (i + 1) = l + i
      OBVIOUS
    <3>5. Len(r) + slab'[s].inuse = Len(ch) + slab[s].inuse
      BY <1>2, <3>2, <3>4
    <3> QED
      BY <3>1, <3>3, <3>5
  <2>2. Distinct(r) /\ Range(r) = Indices(s)' \ Given(s)'
    BY <1>2, <1>3, <1>4, <1>5
  <2> QED
    BY <1>7, <2>1, <2>2 DEF Chain
<1>9. slab'[s].inuse = Cardinality(Given(s)')
  <2>1. IsFiniteSet(Given(s))
    <3>1. Given(s) \subseteq 0 .. Num[slab[s].cache] - 1 /\ Num[slab[s].cache] - 1 \in Int
      BY SlabFacts DEF Given, Indices
    <3>2. PICK n \in Int : n = Num[slab[s].cache] - 1
      BY <3>1
    <3>3. IsFiniteSet(0 .. n)
      BY FS_Interval
    <3> QED
      BY <3>1, <3>2, <3>3, FS_Subset
  <2>2. Cardinality(Given(s) \cup {k}) = Cardinality(Given(s)) + 1
    BY <1>2, <2>1, FS_AddElement
  <2> QED
    BY <1>5, <2>2 DEF Objects, Chains
<1> QED
  BY <1>3, <1>4, <1>6, <1>8, <1>9, ChainsChange DEF Objects

(* The head of the free chain is returned. *)
LEMMA AllocOneIInv ==
  ASSUME IInv, AllocOne
  PROVE  IInv'
<1>1. /\ stack # <<>> /\ Top.page = Nothing /\ rv = NoValue /\ pending = Nothing
      /\ Top.cache \in Caches /\ notfull[Top.cache] # <<>>
      /\ UNCHANGED <<pageSlab, back, live, pending>>
  BY StackShape DEF AllocOne, IInv, Activations
<1>2. PICK c, s, k, rest : /\ c = Top.cache /\ s = Head(notfull[c])
                           /\ k = slab[s].free /\ rest = slab[s].bufctl[k]
  OBVIOUS
<1>3. c \in Caches /\ s \in Slabs /\ slab[s].cache = c /\ slab[s].free # END
  BY <1>1, <1>2, FirstNotFull DEF IInv
<1>4. /\ slab' = [slab EXCEPT ![s].inuse = @ + 1, ![s].free = rest]
      /\ IF rest = END
           THEN /\ notfull' = [notfull EXCEPT ![c] = Tail(@)]
                /\ full' = [full EXCEPT ![c] = <<s>> \o @]
           ELSE UNCHANGED <<full, notfull>>
      /\ Return(<<s, k>>)
  BY <1>2 DEF AllocOne
<1>5. PICK ch \in Seq(Indices(s)) :
           /\ Chain(s, ch) /\ ch # <<>> /\ Len(ch) > 0 /\ ch[1] = k
           /\ k \in Indices(s) \ Given(s)
           /\ rest = (IF Len(ch) = 1 THEN END ELSE ch[2])
           /\ (rest = END <=> Len(ch) = 1)
  BY <1>2, <1>3, ChainFirst DEF IInv, Objects
<1>6. PICK o : o = <<s, k>>
  OBVIOUS
<1>7. o \in Object /\ o \notin Allocated /\ o[1] = s /\ o[2] = k /\ k \in Nat
  <2>1. k \in Nat /\ s \in Frames
    BY <1>3, <1>5, SlabFacts DEF IInv
  <2>2. o \in Object
    BY <1>6, <2>1 DEF Object
  <2>3. o \notin Allocated
    BY <1>5, <1>6 DEF Given
  <2> QED
    BY <1>6, <2>1, <2>2, <2>3
<1> DEFINE after == [slab[s] EXCEPT !.inuse = @ + 1, !.free = rest]
<1>8. slab[s] \in Controls /\ slab[s].inuse \in Nat /\ rest \in Int
      /\ slab[s].bufctl \in [Indices(s) -> Int]
  <2>1. slab[s] \in Controls /\ slab[s].inuse \in Nat /\ slab[s].bufctl \in [Indices(s) -> Int]
    BY <1>3, SlabFacts DEF IInv
  <2>2. rest \in Int
    BY <1>2, <1>5, <2>1
  <2> QED
    BY <2>1, <2>2
<1>9. /\ after \in Controls /\ after.cache = slab[s].cache /\ after.header = slab[s].header
      /\ after.bufctl = slab[s].bufctl /\ after.inuse = slab[s].inuse + 1 /\ after.free = rest
  <2>1. PICK old \in Controls : old = slab[s] /\ old.inuse + 1 \in Nat
    BY <1>8
  <2>2. after = [old EXCEPT !.inuse = @ + 1, !.free = rest]
    BY <2>1
  <2> HIDE DEF after
  <2>3. /\ after.cache = old.cache /\ after.header = old.header
        /\ after.bufctl = old.bufctl /\ after.inuse = old.inuse + 1 /\ after.free = rest
    BY <2>1, <2>2 DEF Controls
  <2>4. after \in Controls
    BY <1>8, <2>1, <2>2 DEF Controls
  <2> QED
    BY <2>1, <2>3, <2>4
<1>10. slab' = [slab EXCEPT ![s] = after]
  BY <1>3, <1>4, <1>8 DEF IInv, TypeOK
<1> HIDE DEF after
<1>11. /\ Slabs' = Slabs /\ slab'[s] = after /\ \A t \in Slabs : t # s => slab'[t] = slab[t]
       /\ \A t \in Slabs : slab'[t].cache = slab[t].cache
       /\ \A t \in Slabs : Indices(t)' = Indices(t)
       /\ slab' \in [Slabs' -> Controls]
       /\ \A t \in Slabs' : slab'[t].bufctl \in [Indices(t)' -> Int]
       /\ Headers' = Headers /\ HeadersPlaced'
       /\ \A t \in Slabs : slab'[t].header = slab[t].header
  BY <1>3, <1>8, <1>9, <1>10, ControlShape DEF IInv, Objects
<1>12. \A d \in Caches : d # c => notfull'[d] = notfull[d] /\ full'[d] = full[d]
  BY <1>4 DEF IInv, TypeOK
<1>13. /\ Calls' /\ stack' \in Seq(Activations)
       /\ rv' \in Object \cup {Nothing, NoValue} /\ user' \subseteq Object
       /\ Growing' = Growing /\ pending' = Nothing
       /\ \/ stack' = <<>> /\ rv' = NoValue /\ user' = user \cup {o}
          \/ stack' # <<>> /\ rv' = o /\ user' = user /\ Waiting(Top)'
  <2>1. o \in Object \cup {Nothing} /\ {o} \ {Nothing} = {o} /\ Return(o)
    BY <1>4, <1>6, <1>7, ObjectFacts
  <2> QED
    BY <1>1, <1>2, <1>12, <2>1, Returning DEF IInv
<1>14. Allocated' = Allocated \cup {o}
  <2>1. {rv, pending} \cap Object = {}
    BY <1>1, ObjectFacts
  <2>2. CASE rv' = NoValue /\ user' = user \cup {o}
    <3>1. {rv', pending'} \cap Object = {}
      BY <1>13, <2>2, ObjectFacts
    <3> QED
      BY <1>11, <2>1, <2>2, <3>1 DEF Allocated
  <2>3. CASE rv' = o /\ user' = user
    <3>1. {rv', pending'} \cap Object = {o}
      BY <1>7, <1>13, <2>3, ObjectFacts
    <3> QED
      BY <1>11, <2>1, <2>3, <3>1 DEF Allocated
  <2> QED
    BY <1>13, <2>2, <2>3
<1>15. Memory'
  BY <1>1, <1>11, <1>13, MemorySame DEF IInv
<1>16. Chains'
  <2>1. /\ slab'[s].inuse = slab[s].inuse + 1 /\ slab'[s].free = slab[s].bufctl[ch[1]]
        /\ slab'[s].bufctl = slab[s].bufctl /\ slab'[s].cache = slab[s].cache
    BY <1>2, <1>5, <1>9, <1>11
  <2>2. slab[s].bufctl[ch[1]] = (IF Len(ch) = 1 THEN END ELSE ch[2])
    BY <1>2, <1>5
  <2>3. Allocated' = Allocated \cup {<<s, ch[1]>>}
    BY <1>5, <1>6, <1>14
  <2> QED
    BY <1>3, <1>5, <1>11, <2>1, <2>2, <2>3, ChainTaken DEF IInv
<1>17. HeadersOwned'
  <2>1. user \cup Headers \subseteq Allocated /\ user \cup Headers \subseteq Object
    BY HeadersAreObjects DEF IInv, Objects, Allocated
  <2>2. Headers' \cap user' = {}
    BY <1>7, <1>11, <1>13, <2>1 DEF IInv, Objects, HeadersOwned
  <2>3. {rv', pending'} \cap (user' \cup Headers') = {}
    BY <1>7, <1>11, <1>13, <2>1, ObjectFacts
  <2>4. \A x \in Allocated' : x[1] \in Slabs' /\ x[2] \in Indices(x[1])'
    BY <1>3, <1>5, <1>7, <1>11, <1>14 DEF IInv, Objects, HeadersOwned
  <2> QED
    BY <1>11, <2>2, <2>3, <2>4 DEF IInv, Objects, HeadersOwned
<1>18. full' \in [Caches -> Seq(Frames)] /\ notfull' \in [Caches -> Seq(Frames)] /\ Lists'
  <2>0. slab'[s].free = rest
    BY <1>9, <1>11
  <2>1. CASE rest # END
    <3>1. full' = full /\ notfull' = notfull
      BY <1>4, <2>1
    <3>2. \A t \in Slabs : slab'[t].free = END <=> slab[t].free = END
      BY <1>3, <1>11, <2>0, <2>1
    <3> QED
      BY <1>11, <3>1, <3>2 DEF IInv, TypeOK, Lists
  <2>2. CASE rest = END
    <3>1. /\ full[c] \in Seq(Frames) /\ notfull[c] \in Seq(Frames)
          /\ Distinct(full[c]) /\ Distinct(notfull[c])
          /\ s \in Frames /\ s \notin Range(full[c])
          /\ full \in [Caches -> Seq(Frames)] /\ notfull \in [Caches -> Seq(Frames)]
      BY <1>3, SlabFacts DEF IInv, TypeOK, Lists
    <3>2. PICK nf : nf = Tail(notfull[c])
      OBVIOUS
    <3>3. PICK fl : fl = <<s>> \o full[c]
      OBVIOUS
    <3>4. nf \in Seq(Frames) /\ Distinct(nf) /\ Range(nf) = Range(notfull[c]) \ {s}
      BY <1>1, <1>2, <3>1, <3>2, TakeFirst
    <3>5. fl \in Seq(Frames) /\ Distinct(fl) /\ Range(fl) = Range(full[c]) \cup {s}
      BY <3>1, <3>3, PutFirst
    <3>6. notfull' = [notfull EXCEPT ![c] = nf] /\ full' = [full EXCEPT ![c] = fl]
      BY <1>4, <2>2, <3>2, <3>3
    <3>7. /\ full' \in [Caches -> Seq(Frames)] /\ notfull' \in [Caches -> Seq(Frames)]
          /\ full'[c] = fl /\ notfull'[c] = nf
      BY <1>3, <3>1, <3>4, <3>5, <3>6
    <3>8. /\ {t \in Slabs : slab'[t].cache = c /\ slab'[t].free = END}
                = {t \in Slabs : slab[t].cache = c /\ slab[t].free = END} \cup {s}
          /\ {t \in Slabs : slab'[t].cache = c /\ slab'[t].free # END}
                = {t \in Slabs : slab[t].cache = c /\ slab[t].free # END} \ {s}
      BY <1>3, <1>11, <2>0, <2>2
    <3>9. \A d \in Caches : d # c =>
            /\ {t \in Slabs : slab'[t].cache = d /\ slab'[t].free = END}
                 = {t \in Slabs : slab[t].cache = d /\ slab[t].free = END}
            /\ {t \in Slabs : slab'[t].cache = d /\ slab'[t].free # END}
                 = {t \in Slabs : slab[t].cache = d /\ slab[t].free # END}
      BY <1>3, <1>11
    <3>10. /\ Range(full[c]) = {t \in Slabs : slab[t].cache = c /\ slab[t].free = END}
           /\ Range(notfull[c]) = {t \in Slabs : slab[t].cache = c /\ slab[t].free # END}
      BY <1>3 DEF IInv, Lists
    <3>11. ASSUME NEW d \in Caches
           PROVE  /\ Distinct(full'[d]) /\ Distinct(notfull'[d])
                  /\ Range(full'[d]) = {t \in Slabs : slab'[t].cache = d /\ slab'[t].free = END}
                  /\ Range(notfull'[d]) = {t \in Slabs : slab'[t].cache = d /\ slab'[t].free # END}
      <4>1. CASE d = c
        BY <3>4, <3>5, <3>7, <3>8, <3>10, <4>1
      <4>2. CASE d # c
        BY <1>12, <3>9, <4>2 DEF IInv, Lists
      <4> QED
        BY <4>1, <4>2
    <3> QED
      BY <1>11, <3>7, <3>11 DEF Lists
  <2> QED
    BY <2>1, <2>2
<1>19. TypeOK'
  BY <1>1, <1>11, <1>13, <1>18 DEF IInv, TypeOK
<1>20. Unused'
  <2>1. ASSUME NEW t \in Slabs, t # s, slab[t].inuse = 0
        PROVE  FALSE
    <3>1. notfull[c] = <<t>>
      BY <1>2, <2>1 DEF IInv, Unused
    <3> QED
      BY <1>2, <2>1, <3>1
  <2>2. slab'[s].inuse # 0
    BY <1>8, <1>9, <1>11
  <2> QED
    BY <1>11, <2>1, <2>2 DEF Unused
<1> QED
  BY <1>13, <1>15, <1>16, <1>11, <1>17, <1>18, <1>19, <1>20 DEF IInv, Objects

-----------------------------------------------------------------------------
(* kmem_cache_free finds cache and slab of the object through its page.       *)
LEMMA PendingFound ==
  ASSUME TypeOK, Calls, Memory, Objects, pending # Nothing
  PROVE  /\ stack = <<>> /\ rv = NoValue /\ pending \in Object /\ pending \in Allocated
         /\ pending = <<pending[1], pending[2]>>
         /\ pending[1] \in Slabs /\ pending[2] \in Given(pending[1])
         /\ pending[2] \in Indices(pending[1])
         /\ PageCache = slab[pending[1]].cache /\ PageOfSlab = pending[1]
         /\ Allocated = user \cup Headers \cup {pending} /\ pending \notin user \cup Headers
<1>1. /\ stack = <<>> /\ rv = NoValue /\ pending \in Object
      /\ pending = <<pending[1], pending[2]>>
  BY ObjectFacts DEF Calls, TypeOK
<1>2. {rv, pending} \cap Object = {pending}
  BY <1>1, ObjectFacts
<1>3. Allocated = user \cup Headers \cup {pending} /\ pending \notin user \cup Headers
  BY <1>2 DEF Allocated, Objects, HeadersOwned
<1>4. pending[1] \in Slabs /\ pending[2] \in Indices(pending[1])
  BY <1>3 DEF Objects, HeadersOwned
<1>5. pending[2] \in Given(pending[1])
  BY <1>1, <1>3, <1>4 DEF Given
<1>6. back[pending[1]] = <<slab[pending[1]].cache, pending[1]>>
  <2>1. PICK s \in Slabs : s = pending[1]
    BY <1>4
  <2>2. s \in Frames /\ s \in s .. s + Pages[slab[s].cache] - 1
    BY SlabFacts
  <2>3. back[s] = <<slab[s].cache, s>>
    BY <2>2 DEF Memory, BackPointers
  <2> QED
    BY <2>1, <2>3
<1> QED
  BY <1>1, <1>3, <1>4, <1>5, <1>6 DEF PageCache, PageOfSlab

(* An object fewer is given out.                                              *)
LEMMA GivenLess ==
  ASSUME TypeOK, Chains, NEW s \in Slabs, NEW k \in Given(s)
  PROVE  /\ Cardinality(Given(s) \ {k}) = slab[s].inuse - 1 /\ slab[s].inuse - 1 \in Nat
         /\ slab[s].inuse = 1 => Given(s) = {k}
<1>1. IsFiniteSet(Given(s))
  <2>1. Given(s) \subseteq 0 .. Num[slab[s].cache] - 1 /\ Num[slab[s].cache] - 1 \in Int
    BY SlabFacts DEF Given, Indices
  <2>2. PICK n \in Int : n = Num[slab[s].cache] - 1
    BY <2>1
  <2>3. IsFiniteSet(0 .. n)
    BY FS_Interval
  <2> QED
    BY <2>1, <2>2, <2>3, FS_Subset
<1>2. IsFiniteSet(Given(s) \ {k}) /\ Cardinality(Given(s) \ {k}) = Cardinality(Given(s)) - 1
  BY <1>1, FS_RemoveElement
<1>3. slab[s].inuse = Cardinality(Given(s)) /\ slab[s].inuse \in Nat
  BY SlabFacts DEF Chains
<1>4. Cardinality(Given(s) \ {k}) \in Nat
  BY <1>2, FS_CardinalityType
<1>5. slab[s].inuse = 1 => Given(s) \ {k} = {}
  <2>1. slab[s].inuse = 1 => Cardinality(Given(s) \ {k}) = 0
    BY <1>2, <1>3
  <2> QED
    BY <1>2, <2>1, FS_EmptySet
<1> QED
  BY <1>2, <1>3, <1>4, <1>5

(* A freed object leads the chain of its slab.                                *)
LEMMA ChainReturned ==
  ASSUME TypeOK, Objects, NEW s \in Slabs, NEW ch \in Seq(Indices(s)), Chain(s, ch),
         NEW k \in Given(s), k \in Indices(s),
         Slabs' = Slabs, \A t \in Slabs : Indices(t)' = Indices(t),
         \A t \in Slabs : t # s => slab'[t] = slab[t],
         slab'[s].inuse = slab[s].inuse - 1, slab'[s].free = k,
         slab'[s].bufctl = [slab[s].bufctl EXCEPT ![k] = slab[s].free],
         slab'[s].cache = slab[s].cache,
         Allocated' = Allocated \ {<<s, k>>}
  PROVE  Chains'
<1>1. slab[s].bufctl \in [Indices(s) -> Int] /\ Len(ch) \in Nat
  BY SlabFacts
<1>2. k \notin Range(ch) /\ Distinct(ch) /\ Range(ch) = Indices(s) \ Given(s)
  BY DEF Chain
<1>3. PICK r : r = <<k>> \o ch
  OBVIOUS
<1>4. /\ r \in Seq(Indices(s)) /\ Distinct(r) /\ r # <<>>
      /\ Range(r) = Range(ch) \cup {k}
      /\ Len(r) = Len(ch) + 1 /\ r[1] = k
      /\ \A i \in 1 .. Len(ch) : r[i + 1] = ch[i]
  BY <1>2, <1>3, PutFirst
<1>5. Given(s)' = Given(s) \ {k}
  BY DEF Given
<1>6. \A t \in Slabs : t # s => Given(t)' = Given(t)
  BY DEF Given
<1>7. Follows(r, slab'[s].free, slab'[s].bufctl)
  <2>1. ASSUME NEW i \in 1 .. Len(r)
        PROVE  slab'[s].bufctl[r[i]] = IF i = Len(r) THEN END ELSE r[i + 1]
    <3>1. CASE i = 1
      <4>1. slab'[s].bufctl[k] = slab[s].free
        BY <1>1
      <4>2. slab[s].free = IF ch = <<>> THEN END ELSE ch[1]
        BY DEF Chain, Follows
      <4>3. (ch = <<>> <=> Len(r) = 1) /\ (ch # <<>> => r[2] = ch[1])
        BY <1>1, <1>4
      <4> QED
        BY <1>4, <3>1, <4>1, <4>2, <4>3
    <3>2. CASE i # 1
      <4>1. PICK j \in 1 .. Len(ch) : i = j + 1
        BY <1>1, <1>4, <3>2
      <4>2. r[i] = ch[j] /\ (i = Len(r) <=> j = Len(ch))
        <5>1. r[j + 1] = ch[j]
          BY <1>4
        <5>2. \A m, n \in Nat : m + 1 = n + 1 <=> m = n
          OBVIOUS
        <5>3. j + 1 = Len(ch) + 1 <=> j = Len(ch)
          BY <1>1, <5>2
        <5> QED
          BY <1>4, <4>1, <5>1, <5>3
      <4>3. ch[j] \in Range(ch) /\ ch[j] # k
        BY <1>1, <1>2 DEF Range
      <4>4. slab'[s].bufctl[ch[j]] = slab[s].bufctl[ch[j]]
        BY <1>1, <1>2, <4>3
      <4>5. slab[s].bufctl[ch[j]] = IF j = Len(ch) THEN END ELSE ch[j + 1]
        BY DEF Chain, Follows
      <4>6. j # Len(ch) => r[i + 1] = ch[j + 1]
        <5>1. j # Len(ch) => j + 1 \in 1 .. Len(ch)
          BY <1>1
        <5>2. j # Len(ch) => r[(j + 1) + 1] = ch[j + 1]
          BY <1>4, <5>1
        <5> QED
          BY <4>1, <5>2
      <4> QED
        BY <4>2, <4>4, <4>5, <4>6
    <3> QED
      BY <3>1, <3>2
  <2> QED
    BY <1>4, <2>1 DEF Follows
<1>8. Chain(s, r)'
  <2>1. Len(r) + slab'[s].inuse = Num[slab'[s].cache]
    <3>1. Len(ch) + slab[s].inuse = Num[slab[s].cache]
      BY DEF Chain
    <3>2. slab[s].inuse \in Nat
      BY SlabFacts
    <3>3. Num[slab'[s].cache] = Num[slab[s].cache]
      OBVIOUS
    <3>4. \A l, i \in Nat : (l + 1) + (i - 1) = l + i
      OBVIOUS
    <3>5. Len(r) + slab'[s].inuse = Len(ch) + slab[s].inuse
      BY <1>1, <1>4, <3>2, <3>4
    <3> QED
      BY <3>1, <3>3, <3>5
  <2>2. Range(r) = Indices(s)' \ Given(s)'
    BY <1>2, <1>4, <1>5
  <2> QED
    BY <1>4, <1>7, <2>1, <2>2 DEF Chain
<1>9. slab'[s].inuse = Cardinality(Given(s)')
  BY <1>5, GivenLess DEF Objects
<1> QED
  BY <1>4, <1>6, <1>8, <1>9, ChainsChange DEF Objects

(* A slab is full exactly when all its objects are given out.                 *)
LEMMA FullSlab ==
  ASSUME TypeOK, NEW s \in Slabs, NEW ch \in Seq(Indices(s)), Chain(s, ch)
  PROVE  slab[s].free = END <=> slab[s].inuse = Num[slab[s].cache]
<1>1. Len(ch) + slab[s].inuse = Num[slab[s].cache]
  BY DEF Chain
<1>2. slab[s].inuse \in Nat /\ Num[slab[s].cache] \in Nat /\ Len(ch) \in Nat
  BY SlabFacts
<1>3. slab[s].free = END <=> ch = <<>>
  <2>1. slab[s].free = IF ch = <<>> THEN END ELSE ch[1]
    BY DEF Chain, Follows
  <2>2. ASSUME ch # <<>>
        PROVE  ch[1] # END
    <3>1. ch[1] \in Indices(s)
      BY <2>2
    <3> QED
      BY <3>1, SlabFacts DEF END
  <2> QED
    BY <2>1, <2>2
<1>4. ch = <<>> <=> Len(ch) = 0
  OBVIOUS
<1>5. Len(ch) = 0 <=> slab[s].inuse = Num[slab[s].cache]
  BY <1>1, <1>2
<1> QED
  BY <1>3, <1>4, <1>5

(* An object goes back to a slab that keeps others.                           *)
LEMMA FreeOneIInv ==
  ASSUME IInv, FreeOne
  PROVE  IInv'
<1>1. pending # Nothing /\ pending' = Nothing
      /\ UNCHANGED <<pageSlab, back, live, stack, rv, user>>
  BY DEF FreeOne
<1>2. PICK o, s, k, c : o = pending /\ s = o[1] /\ k = o[2] /\ c = slab[s].cache
  OBVIOUS
<1>3. /\ stack = <<>> /\ rv = NoValue /\ o = <<s, k>> /\ s \in Slabs
      /\ k \in Given(s) /\ k \in Indices(s) /\ PageCache = c /\ PageOfSlab = s
      /\ Allocated = user \cup Headers \cup {o} /\ o \notin user \cup Headers
  BY <1>1, <1>2, PendingFound DEF IInv
<1>4. /\ c \in Caches /\ slab[s] \in Controls /\ slab[s].inuse \in Nat /\ slab[s].free \in Int
      /\ slab[s].bufctl \in [Indices(s) -> Int] /\ s \in Frames /\ k \in Nat
      /\ slab[s].inuse - 1 \in Nat /\ Num[c] \in Nat /\ k # END
  <2>1. k \in Nat
    BY <1>3, SlabFacts DEF IInv
  <2> QED
    <3>1. slab[s].inuse - 1 \in Nat
      BY <1>3, GivenLess DEF IInv, Objects
    <3>2. k # END
      BY <2>1 DEF END
    <3>3. /\ c \in Caches /\ slab[s] \in Controls /\ slab[s].inuse \in Nat
          /\ slab[s].free \in Int /\ slab[s].bufctl \in [Indices(s) -> Int]
          /\ s \in Frames /\ Num[c] \in Nat
      BY <1>2, <1>3, SlabFacts DEF IInv
    <3> QED
      BY <2>1, <3>1, <3>2, <3>3
<1>5. PICK after : after = Freed(s, k)
  OBVIOUS
<1>6. /\ after.inuse # 0 /\ slab' = [slab EXCEPT ![s] = after]
      /\ IF after.inuse = Num[c] - 1
           THEN /\ full' = [full EXCEPT ![c] = RemoveFirst(@, s)]
                /\ notfull' = [notfull EXCEPT ![c] = <<s>> \o RemoveFirst(@, s)]
           ELSE UNCHANGED <<full, notfull>>
  BY <1>2, <1>3, <1>5 DEF FreeOne
<1>7. /\ after \in Controls /\ after.cache = c /\ after.header = slab[s].header
      /\ after.bufctl = [slab[s].bufctl EXCEPT ![k] = slab[s].free]
      /\ after.inuse = slab[s].inuse - 1 /\ after.free = k
  <2>1. PICK links : links = [slab[s].bufctl EXCEPT ![k] = slab[s].free]
    OBVIOUS
  <2>2. links \in [Indices(s) -> Int]
    BY <1>3, <1>4, <2>1
  <2>3. links \in Links
    BY <1>2, <1>4, <2>2 DEF Links, Indices
  <2>4. PICK old \in Controls : old = slab[s]
    BY <1>4
  <2>5. after = [old EXCEPT !.bufctl = links, !.free = k, !.inuse = @ - 1]
    BY <1>5, <2>1, <2>4 DEF Freed, Controls
  <2>6. old.inuse - 1 \in Nat /\ k \in Int
    BY <1>4, <2>4
  <2>7. /\ after.cache = old.cache /\ after.header = old.header /\ after.bufctl = links
        /\ after.inuse = old.inuse - 1 /\ after.free = k
    BY <2>5 DEF Controls
  <2>8. after \in Controls
    BY <2>3, <2>5, <2>6 DEF Controls
  <2> QED
    BY <1>2, <2>1, <2>4, <2>7, <2>8
<1>8. after.bufctl \in [Indices(s) -> Int]
  BY <1>3, <1>4, <1>7
<1>9. /\ Slabs' = Slabs /\ slab'[s] = after /\ \A t \in Slabs : t # s => slab'[t] = slab[t]
      /\ \A t \in Slabs : slab'[t].cache = slab[t].cache
      /\ \A t \in Slabs : Indices(t)' = Indices(t)
      /\ slab' \in [Slabs' -> Controls]
      /\ \A t \in Slabs' : slab'[t].bufctl \in [Indices(t)' -> Int]
      /\ Headers' = Headers /\ HeadersPlaced'
      /\ \A t \in Slabs : slab'[t].header = slab[t].header
  BY <1>2, <1>3, <1>6, <1>7, <1>8, ControlShape DEF IInv, Objects
<1>10. Allocated' = Allocated \ {o} /\ Growing' = Growing
  <2>1. {rv', pending'} \cap Object = {}
    BY <1>1, <1>3, ObjectFacts
  <2> QED
    BY <1>1, <1>3, <1>9, <2>1 DEF Allocated, Growing
<1>11. Calls'
  BY <1>1, <1>3 DEF Calls
<1>12. Memory'
  BY <1>1, <1>9, <1>10, MemorySame DEF IInv
<1>13. PICK ch \in Seq(Indices(s)) : Chain(s, ch)
  BY <1>3 DEF IInv, Objects, Chains
<1>14. Chains'
  <2>1. /\ slab'[s].inuse = slab[s].inuse - 1 /\ slab'[s].free = k
        /\ slab'[s].bufctl = [slab[s].bufctl EXCEPT ![k] = slab[s].free]
        /\ slab'[s].cache = slab[s].cache
    BY <1>2, <1>7, <1>9
  <2>2. Allocated' = Allocated \ {<<s, k>>}
    BY <1>3, <1>10
  <2> QED
    BY <1>3, <1>9, <1>13, <2>1, <2>2, ChainReturned DEF IInv
<1>15. HeadersOwned'
  <2>1. Headers' \cap user' = {}
    BY <1>1, <1>9 DEF IInv, Objects, HeadersOwned
  <2>2. {rv', pending'} \cap (user' \cup Headers') = {}
    BY <1>1, <1>3, <1>9, HeadersAreObjects, ObjectFacts DEF IInv, Objects
  <2>3. \A x \in Allocated' : x[1] \in Slabs' /\ x[2] \in Indices(x[1])'
    BY <1>9, <1>10 DEF IInv, Objects, HeadersOwned
  <2> QED
    BY <1>9, <2>1, <2>2, <2>3 DEF IInv, Objects, HeadersOwned
<1>16. slab[s].free = END <=> after.inuse = Num[c] - 1
  <2>1. slab[s].free = END <=> slab[s].inuse = Num[c]
    BY <1>2, <1>3, <1>13, FullSlab DEF IInv
  <2>2. \A m, n \in Nat : m - 1 = n - 1 <=> m = n
    OBVIOUS
  <2>3. after.inuse = Num[c] - 1 <=> slab[s].inuse = Num[c]
    BY <1>4, <1>7, <2>2
  <2> QED
    BY <2>1, <2>3
<1>17. full' \in [Caches -> Seq(Frames)] /\ notfull' \in [Caches -> Seq(Frames)] /\ Lists'
  <2>0. slab'[s].free # END
    BY <1>4, <1>7, <1>9
  <2>1. CASE slab[s].free # END
    <3>1. full' = full /\ notfull' = notfull
      BY <1>6, <1>16, <2>1
    <3>2. \A t \in Slabs : slab'[t].free = END <=> slab[t].free = END
      BY <1>9, <2>0, <2>1
    <3> QED
      BY <1>9, <3>1, <3>2 DEF IInv, TypeOK, Lists
  <2>2. CASE slab[s].free = END
    <3>1. /\ full[c] \in Seq(Frames) /\ notfull[c] \in Seq(Frames)
          /\ Distinct(full[c]) /\ Distinct(notfull[c])
          /\ full \in [Caches -> Seq(Frames)] /\ notfull \in [Caches -> Seq(Frames)]
          /\ Range(full[c]) = {t \in Slabs : slab[t].cache = c /\ slab[t].free = END}
          /\ Range(notfull[c]) = {t \in Slabs : slab[t].cache = c /\ slab[t].free # END}
      BY <1>4 DEF IInv, TypeOK, Lists
    <3>2. PICK fl : fl = RemoveFirst(full[c], s)
      OBVIOUS
    <3>3. PICK nf : nf = RemoveFirst(notfull[c], s)
      OBVIOUS
    <3>4. PICK put : put = <<s>> \o nf
      OBVIOUS
    <3>5. fl \in Seq(Frames) /\ Distinct(fl) /\ Range(fl) = Range(full[c]) \ {s}
      BY <3>1, <3>2, Removed
    <3>6. nf \in Seq(Frames) /\ Distinct(nf) /\ Range(nf) = Range(notfull[c]) \ {s}
      BY <3>1, <3>3, Removed
    <3>7. put \in Seq(Frames) /\ Distinct(put) /\ Range(put) = Range(nf) \cup {s}
      BY <1>4, <3>4, <3>6, PutFirst
    <3>8. full' = [full EXCEPT ![c] = fl] /\ notfull' = [notfull EXCEPT ![c] = put]
      BY <1>6, <1>16, <2>2, <3>2, <3>3, <3>4
    <3>9. /\ full' \in [Caches -> Seq(Frames)] /\ notfull' \in [Caches -> Seq(Frames)]
          /\ full'[c] = fl /\ notfull'[c] = put
          /\ \A d \in Caches : d # c => full'[d] = full[d] /\ notfull'[d] = notfull[d]
      BY <1>4, <3>1, <3>5, <3>7, <3>8
    <3>10. /\ {t \in Slabs : slab'[t].cache = c /\ slab'[t].free = END}
                = {t \in Slabs : slab[t].cache = c /\ slab[t].free = END} \ {s}
           /\ {t \in Slabs : slab'[t].cache = c /\ slab'[t].free # END}
                = {t \in Slabs : slab[t].cache = c /\ slab[t].free # END} \cup {s}
      BY <1>2, <1>3, <1>9, <2>0, <2>2
    <3>11. \A d \in Caches : d # c =>
            /\ {t \in Slabs : slab'[t].cache = d /\ slab'[t].free = END}
                 = {t \in Slabs : slab[t].cache = d /\ slab[t].free = END}
            /\ {t \in Slabs : slab'[t].cache = d /\ slab'[t].free # END}
                 = {t \in Slabs : slab[t].cache = d /\ slab[t].free # END}
      <4>1. \A t \in Slabs : t # s => slab'[t] = slab[t]
        BY <1>9
      <4>2. slab'[s].cache = c /\ slab[s].cache = c
        BY <1>2, <1>3, <1>9
      <4> QED
        BY <4>1, <4>2
    <3>12. ASSUME NEW d \in Caches
           PROVE  /\ Distinct(full'[d]) /\ Distinct(notfull'[d])
                  /\ Range(full'[d]) = {t \in Slabs : slab'[t].cache = d /\ slab'[t].free = END}
                  /\ Range(notfull'[d]) = {t \in Slabs : slab'[t].cache = d /\ slab'[t].free # END}
      <4>1. CASE d = c
        BY <3>1, <3>5, <3>6, <3>7, <3>9, <3>10, <4>1
      <4>2. CASE d # c
        BY <3>9, <3>11, <4>2 DEF IInv, Lists
      <4> QED
        BY <4>1, <4>2
    <3> QED
      BY <1>9, <3>9, <3>12 DEF Lists
  <2> QED
    BY <2>1, <2>2
<1>18. TypeOK'
  BY <1>1, <1>9, <1>17 DEF IInv, TypeOK
<1>19. Unused'
  <2>1. \A t \in Slabs : slab[t].inuse # 0
    BY <1>3, NoneUnused DEF IInv
  <2> QED
    BY <1>6, <1>9, <2>1 DEF Unused
<1> QED
  BY <1>9, <1>11, <1>12, <1>14, <1>15, <1>17, <1>18, <1>19 DEF IInv, Objects

(* The last object goes back: the slab's pages too, and its control part, if  *)
(* that is an object, becomes the one to free.                                *)
LEMMA FreeLastIInv ==
  ASSUME IInv, FreeLast
  PROVE  IInv'
<1>1. pending # Nothing /\ UNCHANGED <<stack, rv, user>>
  BY DEF FreeLast
<1>2. PICK o, s, k, c : o = pending /\ s = o[1] /\ k = o[2] /\ c = slab[s].cache
  OBVIOUS
<1>3. /\ stack = <<>> /\ rv = NoValue /\ o = <<s, k>> /\ s \in Slabs
      /\ k \in Given(s) /\ k \in Indices(s) /\ PageCache = c /\ PageOfSlab = s
      /\ Allocated = user \cup Headers \cup {o} /\ o \notin user \cup Headers
  BY <1>1, <1>2, PendingFound DEF IInv
<1>4. /\ c \in Caches /\ slab[s] \in Controls /\ slab[s].inuse \in Nat
      /\ s \in Frames /\ s \in Nat /\ Pages[c] \in Nat /\ Pages[c] > 0
  BY <1>2, <1>3, SlabFacts DEF IInv
<1>5. /\ Freed(s, k).inuse = 0
      /\ full' = [full EXCEPT ![c] = RemoveFirst(@, s)]
      /\ notfull' = [notfull EXCEPT ![c] = RemoveFirst(@, s)]
      /\ pageSlab' = [q \in Frames |-> IF q \in Mine(s, c) THEN ~pageSlab[q] ELSE pageSlab[q]]
      /\ back' = [q \in Frames |-> IF q \in Mine(s, c) THEN Nothing ELSE back[q]]
      /\ live' = live \ {<<s, Pages[c]>>}
      /\ pending' = IF c \in OffSlab THEN slab[s].header ELSE Nothing
      /\ slab' = [t \in Slabs \ {s} |-> slab[t]]
  BY <1>2, <1>3 DEF FreeLast, Page!Free, Mine
<1>6. Given(s) = {k}
  <2>1. PICK old \in Controls : old = slab[s]
    BY <1>4
  <2>2. Freed(s, k).inuse = old.inuse - 1
    BY <2>1 DEF Freed, Controls
  <2>3. slab[s].inuse = 1
    BY <1>4, <1>5, <2>1, <2>2
  <2> QED
    BY <1>3, <2>3, GivenLess DEF IInv, Objects
<1>7. /\ Slabs' = Slabs \ {s} /\ \A t \in Slabs' : slab'[t] = slab[t] /\ t \in Slabs /\ t # s
      /\ \A t \in Slabs' : Indices(t)' = Indices(t)
  <2>1. /\ Slabs' = Slabs \ {s}
        /\ \A t \in Slabs' : slab'[t] = slab[t] /\ t \in Slabs /\ t # s
    BY <1>5 DEF Slabs
  <2> QED
    BY <2>1 DEF Indices
<1>8. /\ Headers' = IF c \in OffSlab THEN Headers \ {slab[s].header} ELSE Headers
      /\ c \in OffSlab => slab[s].header \in Headers
  <2>1. Headers' = {slab[t].header : t \in {u \in Slabs \ {s} : slab[u].cache \in OffSlab}}
    <3>1. Headers' = {slab'[t].header : t \in {u \in Slabs' : slab'[u].cache \in OffSlab}}
      BY DEF Headers
    <3>2. {u \in Slabs' : slab'[u].cache \in OffSlab}
            = {u \in Slabs \ {s} : slab[u].cache \in OffSlab}
      BY <1>7
    <3> QED
      BY <1>7, <3>1, <3>2
  <2>2. Headers = {slab[t].header : t \in {u \in Slabs : slab[u].cache \in OffSlab}}
    BY DEF Headers
  <2>3. \A t \in Slabs : slab[t].cache \in OffSlab => slab[t].header \in Object
    BY DEF IInv, Objects, HeadersPlaced
  <2>4. CASE c \in OffSlab
    <3>1. \A t \in Slabs : slab[t].cache \in OffSlab /\ t # s => slab[t].header # slab[s].header
      BY <1>3, <2>3, ObjectFacts DEF IInv, Objects, HeadersOwned, InPage
    <3> QED
      BY <1>2, <1>3, <2>1, <2>2, <2>4, <3>1
  <2>5. CASE c \notin OffSlab
    <3>1. {u \in Slabs \ {s} : slab[u].cache \in OffSlab} = {u \in Slabs : slab[u].cache \in OffSlab}
      BY <1>2, <2>5
    <3> QED
      BY <2>1, <2>2, <2>5, <3>1
  <2> QED
    BY <2>4, <2>5
<1>9. pending' \in Object \cup {Nothing} /\ (c \in OffSlab => pending' \in Object)
  BY <1>2, <1>3, <1>5 DEF IInv, Objects, HeadersPlaced
<1>10. Headers \subseteq Object /\ user \subseteq Object
  BY HeadersAreObjects DEF IInv, Objects
<1>11. Allocated' = Allocated \ {o}
  <2>1. CASE c \in OffSlab
    <3>1. {rv', pending'} \cap Object = {slab[s].header}
      BY <1>1, <1>3, <1>5, <1>9, <2>1, ObjectFacts
    <3> QED
      BY <1>1, <1>3, <1>8, <2>1, <3>1 DEF Allocated
  <2>2. CASE c \notin OffSlab
    <3>1. {rv', pending'} \cap Object = {}
      BY <1>1, <1>3, <1>5, <2>2, ObjectFacts
    <3> QED
      BY <1>1, <1>3, <1>8, <2>2, <3>1 DEF Allocated
  <2> QED
    BY <2>1, <2>2
<1>12. full' \in [Caches -> Seq(Frames)] /\ notfull' \in [Caches -> Seq(Frames)] /\ Lists'
  <2>1. /\ full[c] \in Seq(Frames) /\ notfull[c] \in Seq(Frames)
        /\ Distinct(full[c]) /\ Distinct(notfull[c])
        /\ full \in [Caches -> Seq(Frames)] /\ notfull \in [Caches -> Seq(Frames)]
        /\ Range(full[c]) = {t \in Slabs : slab[t].cache = c /\ slab[t].free = END}
        /\ Range(notfull[c]) = {t \in Slabs : slab[t].cache = c /\ slab[t].free # END}
    BY <1>4 DEF IInv, TypeOK, Lists
  <2>2. PICK fl : fl = RemoveFirst(full[c], s)
    OBVIOUS
  <2>3. PICK nf : nf = RemoveFirst(notfull[c], s)
    OBVIOUS
  <2>4. fl \in Seq(Frames) /\ Distinct(fl) /\ Range(fl) = Range(full[c]) \ {s}
    BY <2>1, <2>2, Removed
  <2>5. nf \in Seq(Frames) /\ Distinct(nf) /\ Range(nf) = Range(notfull[c]) \ {s}
    BY <2>1, <2>3, Removed
  <2>6. full' = [full EXCEPT ![c] = fl] /\ notfull' = [notfull EXCEPT ![c] = nf]
    BY <1>5, <2>2, <2>3
  <2>7. /\ full' \in [Caches -> Seq(Frames)] /\ notfull' \in [Caches -> Seq(Frames)]
        /\ full'[c] = fl /\ notfull'[c] = nf
        /\ \A d \in Caches : d # c => full'[d] = full[d] /\ notfull'[d] = notfull[d]
    BY <1>4, <2>1, <2>4, <2>5, <2>6
  <2>8. ASSUME NEW d \in Caches
        PROVE  /\ Distinct(full'[d]) /\ Distinct(notfull'[d])
               /\ Range(full'[d]) = {t \in Slabs' : slab'[t].cache = d /\ slab'[t].free = END}
               /\ Range(notfull'[d]) = {t \in Slabs' : slab'[t].cache = d /\ slab'[t].free # END}
    <3>1. PICK F, N :
               /\ F = {t \in Slabs : slab[t].cache = d /\ slab[t].free = END}
               /\ N = {t \in Slabs : slab[t].cache = d /\ slab[t].free # END}
      OBVIOUS
    <3>2. PICK F2, N2 :
               /\ F2 = {t \in Slabs' : slab'[t].cache = d /\ slab'[t].free = END}
               /\ N2 = {t \in Slabs' : slab'[t].cache = d /\ slab'[t].free # END}
      OBVIOUS
    <3>3. F2 = F \ {s} /\ N2 = N \ {s}
      <4>1. \A t : t \in F2 <=> t \in Slabs' /\ slab'[t].cache = d /\ slab'[t].free = END
        BY <3>2
      <4>2. \A t : t \in N2 <=> t \in Slabs' /\ slab'[t].cache = d /\ slab'[t].free # END
        BY <3>2
      <4>3. \A t : t \in F <=> t \in Slabs /\ slab[t].cache = d /\ slab[t].free = END
        BY <3>1
      <4>4. \A t : t \in N <=> t \in Slabs /\ slab[t].cache = d /\ slab[t].free # END
        BY <3>1
      <4> QED
        BY <1>7, <4>1, <4>2, <4>3, <4>4
    <3>4. /\ Distinct(full[d]) /\ Distinct(notfull[d])
          /\ Range(full[d]) = F /\ Range(notfull[d]) = N
      BY <3>1 DEF IInv, Lists
    <3>5. /\ Distinct(full'[d]) /\ Distinct(notfull'[d])
          /\ Range(full'[d]) = F2 /\ Range(notfull'[d]) = N2
      <4>1. CASE d = c
        BY <2>4, <2>5, <2>7, <3>3, <3>4, <4>1
      <4>2. CASE d # c
        <5>1. s \notin F /\ s \notin N
          BY <1>2, <3>1, <4>2
        <5> QED
          BY <2>7, <3>3, <3>4, <4>2, <5>1
      <4> QED
        BY <4>1, <4>2
    <3> QED
      BY <3>2, <3>5
  <2> QED
    BY <2>7, <2>8 DEF Lists
<1>13. TypeOK'
  <2>1. slab' \in [Slabs' -> Controls] /\ Slabs' \subseteq Frames
    <3>1. slab \in [Slabs -> Controls] /\ Slabs \subseteq Frames
      BY DEF IInv, TypeOK
    <3>2. slab' \in [Slabs \ {s} -> Controls]
      BY <1>5, <3>1
    <3> QED
      BY <1>7, <3>1, <3>2
  <2>2. \A t \in Slabs' : slab'[t].bufctl \in [Indices(t)' -> Int]
    BY <1>7 DEF IInv, TypeOK
  <2>3. /\ pageSlab' \in [Frames -> BOOLEAN]
        /\ back' \in [Frames -> (Caches \X Frames) \cup {Nothing}]
    BY <1>5 DEF IInv, TypeOK
  <2> QED
    BY <1>1, <1>9, <1>12, <2>1, <2>2, <2>3 DEF IInv, TypeOK
<1>14. Calls'
  BY <1>1, <1>3 DEF Calls
<1>15. Growing = {} /\ Growing' = {}
  BY <1>1, <1>3 DEF Growing, ToSet
<1>16. \A t \in Slabs : t # s => Apart(s, c, t, slab[t].cache)
  BY <1>2, <1>3 DEF IInv, Memory, Extents
<1>17. Extents' /\ LiveExact'
  <2>1. Extents'
    BY <1>7, <1>15 DEF IInv, Memory, Extents
  <2>2. live = {<<t, Pages[slab[t].cache]>> : t \in Slabs}
    BY <1>15 DEF IInv, Memory, LiveExact
  <2>3. {<<t, Pages[slab'[t].cache]>> : t \in Slabs'}
          = {<<t, Pages[slab[t].cache]>> : t \in Slabs} \ {<<s, Pages[c]>>}
    BY <1>2, <1>7
  <2> QED
    BY <1>5, <1>15, <2>1, <2>2, <2>3 DEF LiveExact
<1>18. BackPointers'
  <2> DEFINE owners(q) == {t \in Slabs : q \in t .. t + Pages[slab[t].cache] - 1}
             owners2(q) == {t \in Slabs' : q \in t .. t + Pages[slab'[t].cache] - 1}
  <2>1. ASSUME NEW q \in Frames
        PROVE  owners2(q) = owners(q) \ {s}
    BY <1>7
  <2>2. ASSUME NEW q \in Frames
        PROVE  q \in Mine(s, c) <=> s \in owners(q)
    BY <1>2, <1>3 DEF Mine
  <2>3. ASSUME NEW q \in Frames, q \in Mine(s, c)
        PROVE  owners(q) = {s}
    <3>1. q \in Nat /\ s <= q /\ q < s + Pages[c]
      BY <1>4, <2>3, ObjectFacts DEF Mine
    <3>2. ASSUME NEW t \in Slabs, t # s, q \in t .. t + Pages[slab[t].cache] - 1
          PROVE  FALSE
      <4>1. Apart(s, c, t, slab[t].cache) /\ t \in Nat /\ Pages[slab[t].cache] \in Nat
        BY <1>16, <3>2, SlabFacts DEF IInv
      <4> QED
        BY <1>4, <3>1, <3>2, <4>1 DEF Apart
    <3> QED
      BY <2>2, <2>3, <3>2
  <2>4. ASSUME NEW q \in Frames
        PROVE  /\ pageSlab'[q] = (owners2(q) # {})
               /\ \A t \in owners2(q) : back'[q] = <<slab'[t].cache, t>>
    <3>1. pageSlab[q] = (owners(q) # {}) /\ \A t \in owners(q) : back[q] = <<slab[t].cache, t>>
      BY DEF IInv, Memory, BackPointers
    <3>2. pageSlab'[q] = (IF q \in Mine(s, c) THEN ~pageSlab[q] ELSE pageSlab[q])
      BY <1>5
    <3>3. owners2(q) = owners(q) \ {s} /\ (q \in Mine(s, c) <=> s \in owners(q))
      BY <2>1, <2>2
    <3>4. q \in Mine(s, c) => owners(q) = {s}
      BY <2>3
    <3>5. \A t \in owners2(q) : t \in Slabs'
      OBVIOUS
    <3> HIDE DEF owners, owners2
    <3>6. CASE q \in Mine(s, c)
      <4>1. owners2(q) = {} /\ owners(q) # {}
        BY <3>3, <3>4, <3>6
      <4>2. pageSlab'[q] = (~(owners(q) # {}))
        BY <3>1, <3>2, <3>6, Zenon
      <4>3. pageSlab'[q] = (owners2(q) # {})
        BY <4>1, <4>2, Zenon
      <4>4. \A t \in owners2(q) : back'[q] = <<slab'[t].cache, t>>
        BY <4>1
      <4> QED
        BY <4>3, <4>4, Zenon
    <3>7. CASE q \notin Mine(s, c)
      <4>1. owners2(q) = owners(q)
        BY <3>3, <3>7
      <4>2. pageSlab'[q] = (owners2(q) # {})
        BY <3>1, <3>2, <3>7, <4>1, Zenon
      <4>3. back'[q] = back[q]
        BY <1>5, <3>7
      <4>4. \A t \in owners2(q) : back'[q] = <<slab'[t].cache, t>>
        BY <1>7, <3>1, <3>5, <4>1, <4>3
      <4> QED
        BY <4>2, <4>4, Zenon
    <3> QED
      BY <3>6, <3>7, Zenon
  <2> QED
    BY <2>4 DEF BackPointers
<1>19. Chains'
  <2>1. ASSUME NEW t \in Slabs'
        PROVE  /\ \E list \in Seq(Indices(t)') : Chain(t, list)'
               /\ slab'[t].inuse = Cardinality(Given(t)')
    <3>1. t \in Slabs /\ t # s /\ slab'[t] = slab[t] /\ Indices(t)' = Indices(t)
      BY <1>7
    <3>2. Given(t)' = Given(t)
      BY <1>3, <1>11, <3>1 DEF Given
    <3>3. PICK list \in Seq(Indices(t)) : Chain(t, list)
      BY <3>1 DEF IInv, Objects, Chains
    <3>4. Chain(t, list)' /\ list \in Seq(Indices(t)')
      BY <3>1, <3>2, <3>3 DEF Chain
    <3>5. slab[t].inuse = Cardinality(Given(t))
      BY <3>1 DEF IInv, Objects, Chains
    <3> QED
      BY <3>1, <3>2, <3>4, <3>5
  <2> QED
    BY <2>1 DEF Chains
<1>20. HeadersOwned'
  <2>1. Headers' \cap user' = {}
    BY <1>1, <1>8 DEF IInv, Objects, HeadersOwned
  <2>2. {rv', pending'} \cap (user' \cup Headers') = {}
    <3>1. rv' \notin user' \cup Headers'
      BY <1>1, <1>3, <1>8, <1>10, ObjectFacts
    <3>2. pending' \notin user' \cup Headers'
      <4>1. CASE c \in OffSlab
        BY <1>1, <1>5, <1>8, <4>1 DEF IInv, Objects, HeadersOwned
      <4>2. CASE c \notin OffSlab
        BY <1>1, <1>5, <1>8, <1>10, <4>2, ObjectFacts
      <4> QED
        BY <4>1, <4>2
    <3> QED
      BY <3>1, <3>2
  <2>3. \A t, u \in Slabs' : slab'[t].header = slab'[u].header /\ t # u
                               => slab'[t].header = InPage
    BY <1>7 DEF IInv, Objects, HeadersOwned
  <2>4. ASSUME NEW x \in Allocated'
        PROVE  x[1] \in Slabs' /\ x[2] \in Indices(x[1])'
    <3>1. x \in Allocated /\ x # o /\ x[1] \in Slabs /\ x[2] \in Indices(x[1])
      BY <1>11 DEF IInv, Objects, HeadersOwned
    <3>2. x = <<x[1], x[2]>>
      <4>1. x \in Object
        BY <1>3, <1>10, <3>1
      <4> QED
        BY <4>1, ObjectFacts
    <3>3. x[1] # s
      <4> SUFFICES ASSUME x[1] = s PROVE FALSE
        OBVIOUS
      <4>1. x[2] \in Given(s)
        BY <3>1, <3>2 DEF Given
      <4> QED
        BY <1>3, <1>6, <3>1, <3>2, <4>1
    <3> QED
      BY <1>7, <3>1, <3>3
  <2> QED
    BY <2>1, <2>2, <2>3, <2>4 DEF HeadersOwned
<1>21. HeadersPlaced'
  BY <1>7 DEF IInv, Objects, HeadersPlaced
<1>22. Unused'
  <2>1. \A t \in Slabs : slab[t].inuse # 0
    BY <1>3, NoneUnused DEF IInv
  <2> QED
    BY <1>7, <2>1 DEF Unused
<1> QED
  BY <1>12, <1>13, <1>14, <1>17, <1>18, <1>19, <1>20, <1>21, <1>22
     DEF IInv, Memory, Objects

-----------------------------------------------------------------------------
LEMMA NextIInv == IInv /\ [Next]_vars => IInv'
<1> SUFFICES ASSUME IInv, [Next]_vars PROVE IInv'
  OBVIOUS
<1>1. CASE AllocOne
  BY <1>1, AllocOneIInv
<1>2. CASE GrowNoPages
  BY <1>2, GrowNoPagesIInv
<1>3. CASE GrowGotHeader
  BY <1>3, GrowGotHeaderIInv
<1>4. CASE GrowNoHeader
  BY <1>4, GrowNoHeaderIInv
<1>5. ASSUME NEW p \in Frames, GrowOnSlab(p) PROVE IInv'
  BY <1>5, GrowOnSlabIInv
<1>6. ASSUME NEW p \in Frames, GrowOffSlab(p) PROVE IInv'
  BY <1>6, GrowOffSlabIInv
<1>7. CASE FreeOne
  BY <1>7, FreeOneIInv
<1>8. CASE FreeLast
  BY <1>8, FreeLastIInv
<1>9. ASSUME NEW size \in Sizes, kmalloc(size) PROVE IInv'
  BY <1>9, KmallocIInv
<1>10. ASSUME NEW o \in user, kfree(o) PROVE IInv'
  BY <1>10, KfreeIInv
<1>11. CASE UNCHANGED vars
  <2>1. UNCHANGED <<full, notfull, slab, pageSlab, back, live, stack, rv, pending, user>>
    BY <1>11 DEF vars
  <2>2. Slabs' = Slabs /\ Headers' = Headers /\ Allocated' = Allocated /\ Growing' = Growing
        /\ Top' = Top
    BY <2>1 DEF Slabs, Headers, Allocated, Growing, Top
  <2>3. TypeOK' /\ Calls'
    BY <2>1, <2>2 DEF IInv, TypeOK, Calls, Waiting, Indices
  <2>4. Memory'
    BY <2>1, <2>2, MemorySame DEF IInv
  <2>5. Chains'
    BY <2>1, <2>2, ChainsSame DEF IInv, Objects
  <2>6. HeadersOwned' /\ HeadersPlaced'
    BY <2>1, <2>2 DEF IInv, Objects, HeadersOwned, HeadersPlaced, Indices
  <2>7. Lists' /\ Unused'
    BY <2>1, <2>2 DEF IInv, Lists, Unused
  <2> QED
    BY <2>3, <2>4, <2>5, <2>6, <2>7 DEF IInv, Objects
<1> QED
  BY <1>1, <1>2, <1>3, <1>4, <1>5, <1>6, <1>7, <1>8, <1>9, <1>10, <1>11 DEF Next, Step

(* kmalloc, kfree and what they call keep the invariant, over any caches.     *)
THEOREM InvariantHolds == Spec => []IInv
BY InitIInv, NextIInv, PTL DEF Spec

-----------------------------------------------------------------------------
(* No object has two uses: what kmalloc returned is never also the control    *)
(* part kmem_cache_slabmgmt took for a slab, no two slabs share a control     *)
(* part, and every object given out lies in a slab there is.                  *)
THEOREM NoObjectTwice == Spec => []HeadersOwned
<1>1. IInv => HeadersOwned
  BY DEF IInv, Objects
<1> QED
  BY <1>1, InvariantHolds, PTL

(* kfree finds cache and slab through page_link: exactly the pages of slabs   *)
(* carry PG_slab, although ClearPageSlab only complements it, and each points *)
(* to the one slab it belongs to.                                             *)
THEOREM PagesFindTheirSlab == Spec => []BackPointers
<1>1. IInv => BackPointers
  BY DEF IInv, Memory
<1> QED
  BY <1>1, InvariantHolds, PTL

(* kmem_cache_grow keeps no pages when it fails and kmem_slab_destroy leaves  *)
(* no slab without objects in use: what is taken from the page allocator is   *)
(* what the slabs need.                                                       *)
THEOREM NoPageKept == Spec => []PagesReturned
<1>1. IInv => PagesReturned
  <2> SUFFICES ASSUME IInv PROVE PagesReturned
    OBVIOUS
  <2>1. live = {<<s, Pages[slab[s].cache]>> : s \in Slabs}
                 \cup {<<f.page, Pages[f.cache]>> : f \in {g \in ToSet(stack) : g.page # Nothing}}
    BY DEF IInv, Memory, LiveExact, Growing
  <2>2. ASSUME Idle, NEW s \in Slabs
        PROVE  slab[s].inuse > 0
    <3>1. slab[s].inuse # 0 /\ slab[s].inuse \in Nat
      BY <2>2, NoneUnused, SlabFacts DEF IInv, Idle
    <3> QED
      BY <3>1
  <2> QED
    BY <2>1, <2>2 DEF PagesReturned
<1> QED
  BY <1>1, InvariantHolds, PTL

(* How often an entry is on a list that names nothing twice.                  *)
LEMMA Occurs ==
  ASSUME NEW list \in Seq(Frames), Distinct(list), NEW s
  PROVE  Cardinality({i \in DOMAIN list : list[i] = s}) = IF s \in Range(list) THEN 1 ELSE 0
<1> DEFINE places == {i \in DOMAIN list : list[i] = s}
<1>1. DOMAIN list = 1 .. Len(list)
  OBVIOUS
<1>2. CASE s \in Range(list)
  <2>1. PICK i \in 1 .. Len(list) : list[i] = s
    BY <1>1, <1>2 DEF Range
  <2>2. places = {i}
    BY <1>1, <2>1 DEF Distinct
  <2> QED
    BY <1>2, <2>2, FS_Singleton
<1>3. CASE s \notin Range(list)
  <2>1. places = {}
    BY <1>3 DEF Range
  <2> QED
    BY <1>3, <2>1, FS_EmptySet
<1> QED
  BY <1>2, <1>3

(* Every slab is on exactly one list, once: that of the full slabs of its     *)
(* cache when its free chain is empty, the other otherwise.  list_del and     *)
(* list_add of kmem_cache_alloc_one and kmem_cache_free_one keep it so.       *)
THEOREM SlabsOnTheirList == Spec => []ListsExact
<1>1. IInv => ListsExact
  <2> SUFFICES ASSUME IInv, NEW s \in Slabs, NEW c \in Caches
               PROVE  /\ Cardinality({i \in DOMAIN full[c] : full[c][i] = s}) =
                           (IF c = slab[s].cache /\ slab[s].free = END THEN 1 ELSE 0)
                      /\ Cardinality({i \in DOMAIN notfull[c] : notfull[c][i] = s}) =
                           (IF c = slab[s].cache /\ slab[s].free # END THEN 1 ELSE 0)
    BY DEF ListsExact
  <2>1. /\ full[c] \in Seq(Frames) /\ Distinct(full[c])
        /\ notfull[c] \in Seq(Frames) /\ Distinct(notfull[c])
    BY DEF IInv, TypeOK, Lists
  <2>2. /\ s \in Range(full[c]) <=> c = slab[s].cache /\ slab[s].free = END
        /\ s \in Range(notfull[c]) <=> c = slab[s].cache /\ slab[s].free # END
    BY DEF IInv, Lists
  <2>3. /\ Cardinality({i \in DOMAIN full[c] : full[c][i] = s})
             = IF s \in Range(full[c]) THEN 1 ELSE 0
        /\ Cardinality({i \in DOMAIN notfull[c] : notfull[c][i] = s})
             = IF s \in Range(notfull[c]) THEN 1 ELSE 0
    BY <2>1, Occurs
  <2> QED
    BY <2>2, <2>3
<1> QED
  BY <1>1, InvariantHolds, PTL

-----------------------------------------------------------------------------
(* What the recursive function of FreeChain is. *)
Hops(s, f) ==
  f = [n \in 0 .. Num[slab[s].cache] |->
         IF n = 0 THEN slab[s].free
         ELSE IF f[n - 1] = END THEN END ELSE slab[s].bufctl[f[n - 1]]]

(* Following bufctl from free meets the chain, and then END.                  *)
LEMMA HopsAlongChain ==
  ASSUME TypeOK, NEW s \in Slabs, NEW ch \in Seq(Indices(s)), Chain(s, ch)
  PROVE  /\ Len(ch) <= Num[slab[s].cache] /\ \A i \in 1 .. Len(ch) : ch[i] # END
         /\ Hops(s, [n \in 0 .. Num[slab[s].cache] |-> IF n < Len(ch) THEN ch[n + 1] ELSE END])
         /\ \A f : Hops(s, f) =>
              f = [n \in 0 .. Num[slab[s].cache] |-> IF n < Len(ch) THEN ch[n + 1] ELSE END]
<1>1. PICK N, L : N = Num[slab[s].cache] /\ L = Len(ch)
  OBVIOUS
<1>2. N \in Nat /\ L \in Nat /\ L <= N
  <2>1. Len(ch) + slab[s].inuse = Num[slab[s].cache] /\ slab[s].inuse \in Nat
    BY SlabFacts DEF Chain
  <2>2. Num[slab[s].cache] \in Nat /\ Len(ch) \in Nat
    BY SlabFacts
  <2> QED
    BY <1>1, <2>1, <2>2
<1>3. \A i \in 1 .. L : ch[i] # END
  <2> SUFFICES ASSUME NEW i \in 1 .. L PROVE ch[i] # END
    OBVIOUS
  <2>1. ch[i] \in Indices(s)
    BY <1>1, ElementOfSeq
  <2> QED
    BY <2>1, SlabFacts DEF END
<1>4. slab[s].free = IF 0 < L THEN ch[1] ELSE END
  <2>1. slab[s].free = IF ch = <<>> THEN END ELSE ch[1]
    BY DEF Chain, Follows
  <2>2. ch = <<>> <=> L = 0
    BY <1>1
  <2> QED
    BY <1>2, <2>1, <2>2
<1>5. \A i \in 1 .. L : slab[s].bufctl[ch[i]] = IF i < L THEN ch[i + 1] ELSE END
  <2> SUFFICES ASSUME NEW i \in 1 .. L
               PROVE  slab[s].bufctl[ch[i]] = IF i < L THEN ch[i + 1] ELSE END
    OBVIOUS
  <2>1. slab[s].bufctl[ch[i]] = IF i = L THEN END ELSE ch[i + 1]
    BY <1>1 DEF Chain, Follows
  <2>2. i < L <=> i # L
    BY <1>2
  <2> QED
    BY <2>1, <2>2
<1>6. PICK g : g = [n \in 0 .. N |-> IF n < L THEN ch[n + 1] ELSE END]
  OBVIOUS
<1> DEFINE hop(f, n) == IF n = 0 THEN slab[s].free
                        ELSE IF f[n - 1] = END THEN END ELSE slab[s].bufctl[f[n - 1]]
<1>7. ASSUME NEW n \in 0 .. N, NEW f, n # 0 => f[n - 1] = g[n - 1]
      PROVE  hop(f, n) = g[n]
  <2>1. g[n] = IF n < L THEN ch[n + 1] ELSE END
    BY <1>6
  <2>2. CASE n = 0
    BY <1>4, <2>1, <2>2
  <2>3. CASE n # 0
    <3>1. n - 1 \in 0 .. N /\ g[n - 1] = IF n - 1 < L THEN ch[(n - 1) + 1] ELSE END
      BY <1>2, <1>6, <2>3
    <3>2. (n - 1) + 1 = n /\ (n - 1 < L <=> n \in 1 .. L) /\ (n < L => n \in 1 .. L)
      BY <1>2, <2>3
    <3>3. hop(f, n) = IF g[n - 1] = END THEN END ELSE slab[s].bufctl[g[n - 1]]
      BY <1>7, <2>3
    <3>4. CASE n \in 1 .. L
      <4>1. g[n - 1] = ch[n] /\ ch[n] # END
        BY <1>3, <3>1, <3>2, <3>4
      <4>2. hop(f, n) = slab[s].bufctl[ch[n]]
        BY <3>3, <4>1
      <4> HIDE DEF hop
      <4> QED
        BY <1>5, <2>1, <3>4, <4>2
    <3>5. CASE n \notin 1 .. L
      <4>1. g[n - 1] = END /\ g[n] = END
        BY <2>1, <3>1, <3>2, <3>5
      <4> QED
        BY <3>3, <4>1
    <3> QED
      BY <3>4, <3>5
  <2> QED
    BY <2>2, <2>3
<1>8. Hops(s, g)
  <2>1. \A n \in 0 .. N : hop(g, n) = g[n]
    BY <1>7
  <2>2. g = [n \in 0 .. N |-> g[n]]
    BY <1>6
  <2>3. g = [n \in 0 .. N |-> hop(g, n)]
    <3> HIDE DEF hop
    <3> QED
      BY <2>1, <2>2
  <2> QED
    BY <1>1, <2>3 DEF Hops
<1>9. ASSUME NEW f, Hops(s, f)
      PROVE  f = g
  <2>1. f = [n \in 0 .. N |-> hop(f, n)]
    BY <1>1, <1>9 DEF Hops
  <2>2. \A n \in 0 .. N : f[n] = hop(f, n)
    <3> HIDE DEF hop
    <3>1. PICK h : h = [n \in 0 .. N |-> hop(f, n)]
      OBVIOUS
    <3>2. \A n \in 0 .. N : h[n] = hop(f, n)
      BY <3>1
    <3> QED
      BY <2>1, <3>1, <3>2
  <2> DEFINE Good == {n \in 0 .. N : f[n] = g[n]}
  <2>3. 0 \in Good
    <3>1. 0 \in 0 .. N
      BY <1>2
    <3>2. hop(f, 0) = g[0]
      BY <1>7, <3>1
    <3> HIDE DEF hop
    <3> QED
      BY <2>2, <3>1, <3>2
  <2>4. ASSUME NEW i \in 0 .. N, i \in Good, i < N
        PROVE  i + 1 \in Good
    <3>1. i + 1 \in 0 .. N /\ (i + 1) - 1 = i
      BY <1>2, <2>4
    <3>2. f[(i + 1) - 1] = g[(i + 1) - 1]
      BY <2>4, <3>1
    <3>3. hop(f, i + 1) = g[i + 1]
      BY <1>7, <3>1, <3>2
    <3> HIDE DEF hop
    <3> QED
      BY <2>2, <3>1, <3>3
  <2>5. Good = 0 .. N
    <3>1. Good \in SUBSET (0 .. N) /\ 0 \in Nat /\ N \in Nat
      BY <1>2
    <3> HIDE DEF Good
    <3> QED
      BY <2>3, <2>4, <3>1, Steps
  <2>6. \A n \in 0 .. N : hop(f, n) = g[n]
    <3> HIDE DEF hop
    <3> QED
      BY <2>2, <2>5
  <2>7. g = [n \in 0 .. N |-> g[n]]
    BY <1>6
  <2>8. f = [n \in 0 .. N |-> g[n]]
    <3> HIDE DEF hop
    <3> QED
      BY <2>1, <2>6
  <2> QED
    BY <2>7, <2>8
<1> QED
  BY <1>1, <1>2, <1>3, <1>6, <1>8, <1>9

(* So FreeChain, the walk over the array, is the chain.                       *)
LEMMA FreeChainIs ==
  ASSUME TypeOK, NEW s \in Slabs, NEW ch \in Seq(Indices(s)), Chain(s, ch)
  PROVE  FreeChain(s) = ch
<1>1. PICK N, L : N = Num[slab[s].cache] /\ L = Len(ch)
  OBVIOUS
<1>2. PICK g : g = [n \in 0 .. N |-> IF n < L THEN ch[n + 1] ELSE END]
  OBVIOUS
<1>3. /\ L <= N /\ \A i \in 1 .. L : ch[i] # END
      /\ Hops(s, g) /\ \A f : Hops(s, f) => f = g
  BY <1>1, <1>2, HopsAlongChain
<1>4. N \in Nat /\ L \in Nat
  BY <1>1, SlabFacts
<1>5. (CHOOSE f : Hops(s, f)) = g
  BY <1>3
<1>6. FreeChain(s) = [n \in 1 .. Cardinality({i \in DOMAIN g : g[i] # END}) |-> g[n - 1]]
  <2> DEFINE cut(h) == [n \in 1 .. Cardinality({i \in DOMAIN h : h[i] # END}) |-> h[n - 1]]
  <2>1. FreeChain(s) = cut(CHOOSE f : Hops(s, f))
    BY DEF FreeChain, Hops
  <2>2. cut(CHOOSE f : Hops(s, f)) = cut(g)
    <3> HIDE DEF cut
    <3> QED
      BY <1>5
  <2> QED
    BY <2>1, <2>2
<1>7. Cardinality({i \in DOMAIN g : g[i] # END}) = L
  <2>1. {i \in DOMAIN g : g[i] # END} = 0 .. L - 1
    <3>1. DOMAIN g = 0 .. N /\ \A n \in 0 .. N : g[n] = IF n < L THEN ch[n + 1] ELSE END
      BY <1>2
    <3>2. \A n \in 0 .. N : n < L => n + 1 \in 1 .. L
      BY <1>4
    <3>3. \A n : n \in 0 .. L - 1 <=> n \in 0 .. N /\ n < L
      BY <1>3, <1>4
    <3> QED
      BY <1>3, <3>1, <3>2, <3>3
  <2>2. Cardinality(0 .. L - 1) = L
    <3>1. PICK m \in Int : m = L - 1
      BY <1>4
    <3>2. Cardinality(0 .. m) = IF 0 > m THEN 0 ELSE m - 0 + 1
      BY FS_Interval
    <3> QED
      BY <1>4, <3>1, <3>2
  <2> QED
    BY <2>1, <2>2
<1>8. PICK r : r = [n \in 1 .. L |-> g[n - 1]]
  OBVIOUS
<1>9. \A n \in 1 .. L : n - 1 \in 0 .. N /\ n - 1 < L /\ (n - 1) + 1 = n
  BY <1>3, <1>4
<1>10. \A n \in 1 .. L : g[n - 1] = ch[n]
  BY <1>2, <1>9
<1>11. r = ch
  <2>1. \A n \in 1 .. L : r[n] = ch[n]
    BY <1>8, <1>10
  <2>2. ch = [n \in 1 .. L |-> ch[n]]
    BY <1>1
  <2> QED
    BY <1>8, <1>10, <2>2
<1> QED
  BY <1>6, <1>7, <1>8, <1>11

(* The free chain kept in the bufctl array holds exactly the objects nobody   *)
(* has, each once, and inuse counts the others: kmem_cache_alloc_one never    *)
(* gives an object out twice, and kmem_cache_free_one forgets none.           *)
THEOREM ChainsHoldFreeObjects == Spec => []ChainExact
<1>1. IInv => ChainExact
  <2> SUFFICES ASSUME IInv, NEW s \in Slabs
               PROVE  /\ ToSet(FreeChain(s)) = Indices(s) \ Given(s)
                      /\ Len(FreeChain(s)) + Cardinality(Given(s)) = Num[slab[s].cache]
                      /\ slab[s].inuse = Cardinality(Given(s))
    BY DEF ChainExact, Given
  <2>1. PICK ch \in Seq(Indices(s)) : Chain(s, ch)
    BY DEF IInv, Objects, Chains
  <2>2. slab[s].inuse = Cardinality(Given(s))
    BY DEF IInv, Objects, Chains
  <2>3. FreeChain(s) = ch
    BY <2>1, FreeChainIs DEF IInv
  <2>4. ToSet(ch) = Range(ch)
    BY DEF ToSet, Range
  <2> QED
    BY <2>1, <2>2, <2>3, <2>4 DEF Chain
<1> QED
  BY <1>1, InvariantHolds, PTL

-----------------------------------------------------------------------------
(* What slab_allocated adds up: the bytes of the objects in use of a slab.   *)
InUse(s) == {s} \X Given(s)

SlabBytes(s) == InUse(s) \X (0 .. ObjSize[slab[s].cache] - 1)

ObjectBytes(o) == {o} \X (0 .. ObjSize[slab[o[1]].cache] - 1)

BytesOf(S) == UNION {SlabBytes(s) : s \in S}

(* An object in use is one of its slab's, and a slab has as many bytes in use *)
(* as inuse says.                                                             *)
LEMMA SlabBytesFacts ==
  ASSUME IInv, NEW s \in Slabs
  PROVE  /\ IsFiniteSet(Slabs) /\ IsFiniteSet(InUse(s)) /\ IsFiniteSet(SlabBytes(s))
         /\ InUse(s) = {o \in Allocated : o[1] = s}
         /\ ObjSize[slab[s].cache] \in Nat
         /\ Cardinality(SlabBytes(s)) = slab[s].inuse * ObjSize[slab[s].cache]
         /\ slab[s].free = END => slab[s].inuse = Num[slab[s].cache]
<1> USE DEF IInv
<1>1. IsFiniteSet(Slabs)
  <2>1. IsFiniteSet(Frames) /\ Slabs \in SUBSET Frames
    BY CacheAssumption DEF TypeOK
  <2> QED
    BY <2>1, FS_Subset
<1>2. PICK z \in Nat \ {0} : z = ObjSize[slab[s].cache]
  <2>1. ObjSize \in [Caches -> Nat \ {0}] /\ slab[s].cache \in Caches
    BY CacheAssumption, SlabFacts
  <2> QED
    BY <2>1
<1>3. IsFiniteSet(Given(s)) /\ Cardinality(Given(s)) = slab[s].inuse
  <2>1. PICK n \in Int : n = Num[slab[s].cache] - 1
    BY SlabFacts
  <2>2. Given(s) \in SUBSET (0 .. n)
    BY <2>1, SlabFacts DEF Given
  <2>3. IsFiniteSet(0 .. n)
    BY FS_Interval
  <2> QED
    BY <2>2, <2>3, FS_Subset DEF Objects, Chains
<1>4. IsFiniteSet(InUse(s)) /\ Cardinality(InUse(s)) = slab[s].inuse
  <2>1. IsFiniteSet({s}) /\ Cardinality({s}) = 1
    BY FS_Singleton
  <2>2. IsFiniteSet(InUse(s)) /\ Cardinality(InUse(s)) = 1 * slab[s].inuse
    BY <1>3, <2>1, FS_Product DEF InUse
  <2> QED
    BY <2>2, SlabFacts
<1>5. IsFiniteSet(SlabBytes(s)) /\ Cardinality(SlabBytes(s)) = slab[s].inuse * z
  <2>1. PICK n \in Int : n = z - 1
    OBVIOUS
  <2>2. IsFiniteSet(0 .. n) /\ Cardinality(0 .. n) = z
    <3>1. Cardinality(0 .. n) = IF 0 > n THEN 0 ELSE n - 0 + 1
      BY FS_Interval
    <3> QED
      BY <2>1, <3>1, FS_Interval
  <2>3. SlabBytes(s) = InUse(s) \X (0 .. n)
    BY <1>2, <2>1 DEF SlabBytes
  <2>4. /\ IsFiniteSet(InUse(s) \X (0 .. n))
        /\ Cardinality(InUse(s) \X (0 .. n)) = Cardinality(InUse(s)) * Cardinality(0 .. n)
    BY <1>4, <2>2, FS_Product
  <2> QED
    BY <1>4, <2>2, <2>3, <2>4
<1>6. InUse(s) = {o \in Allocated : o[1] = s}
  <2>1. \A o \in Allocated : o = <<o[1], o[2]>> /\ o[2] \in Indices(o[1])
    <3> SUFFICES ASSUME NEW o \in Allocated
                 PROVE  o = <<o[1], o[2]>> /\ o[2] \in Indices(o[1])
      OBVIOUS
    <3>1. o \in Object
      BY HeadersAreObjects DEF Allocated, TypeOK, Objects
    <3>2. o[2] \in Indices(o[1])
      BY DEF Objects, HeadersOwned
    <3> QED
      BY <3>1, <3>2, ObjectFacts
  <2>2. \A k \in Given(s) : <<s, k>> \in Allocated
    BY DEF Given
  <2>3. ASSUME NEW o \in Allocated, o[1] = s
        PROVE  o \in InUse(s)
    <3>1. o = <<s, o[2]>> /\ o[2] \in Given(s)
      BY <2>1, <2>3 DEF Given
    <3> QED
      BY <3>1 DEF InUse
  <2>4. \A o \in InUse(s) : o \in Allocated /\ o[1] = s
    BY <2>2 DEF InUse
  <2> QED
    BY <2>3, <2>4
<1>7. slab[s].free = END => slab[s].inuse = Num[slab[s].cache]
  <2>1. PICK ch \in Seq(Indices(s)) : Chain(s, ch)
    BY DEF Objects, Chains
  <2>2. slab[s].free = IF ch = <<>> THEN END ELSE ch[1]
    BY <2>1 DEF Chain, Follows
  <2>3. ch # <<>> => ch[1] # END
    <3>1. \A i \in 1 .. Len(ch) : ch[i] # END
      BY <2>1, HopsAlongChain
    <3>2. ch # <<>> => 1 \in 1 .. Len(ch)
      BY EmptySeq
    <3> QED
      BY <3>1, <3>2
  <2>4. Len(ch) + slab[s].inuse = Num[slab[s].cache]
    BY <2>1 DEF Chain
  <2>5. ch = <<>> => Len(ch) = 0
    OBVIOUS
  <2> QED
    BY <2>2, <2>3, <2>4, <2>5, SlabFacts
<1> QED
  BY <1>1, <1>2, <1>4, <1>5, <1>6, <1>7

(* Bytes of two slabs, and of two objects, lie apart.                        *)
LEMMA BytesApart ==
  /\ \A s, t : s # t => SlabBytes(s) \cap SlabBytes(t) = {}
  /\ \A o, p : o # p => ObjectBytes(o) \cap ObjectBytes(p) = {}
BY DEF SlabBytes, ObjectBytes, InUse

(* The sum over one list is the number of bytes in use of its slabs.          *)
LEMMA ListSums ==
  ASSUME IInv, NEW list \in Seq(Frames), Distinct(list), Range(list) \subseteq Slabs,
         NEW size,
         \A i \in DOMAIN list : size[i] = Cardinality(SlabBytes(list[i]))
  PROVE  /\ IsFiniteSet(BytesOf(Range(list)))
         /\ SumIs(DOMAIN list, size, Cardinality(BytesOf(Range(list))))
<1>1. PICK D, part : D = DOMAIN list /\ part = [i \in D |-> SlabBytes(list[i])]
  OBVIOUS
<1>2. D = 1 .. Len(list) /\ IsFiniteSet(D)
  <2>1. DOMAIN list = 1 .. Len(list) /\ Len(list) \in Nat
    OBVIOUS
  <2>2. IsFiniteSet(1 .. Len(list))
    BY <2>1, FS_Interval
  <2> QED
    BY <1>1, <2>1, <2>2
<1>3. \A i \in D : list[i] \in Slabs
  BY <1>1 DEF Range
<1>4. \A i \in D : IsFiniteSet(part[i]) /\ size[i] = Cardinality(part[i])
  BY <1>1, <1>3, SlabBytesFacts
<1>5. \A i, j \in D : i # j => part[i] \cap part[j] = {}
  <2> SUFFICES ASSUME NEW i \in D, NEW j \in D, i # j
               PROVE  part[i] \cap part[j] = {}
    OBVIOUS
  <2>1. list[i] # list[j]
    BY <1>2 DEF Distinct
  <2>2. part[i] = SlabBytes(list[i]) /\ part[j] = SlabBytes(list[j])
    BY <1>1
  <2> QED
    BY <2>1, <2>2, BytesApart
<1>6. Together(D, part) = BytesOf(Range(list))
  <2>1. \A b : b \in Together(D, part) <=> \E i \in D : b \in part[i]
    BY DEF Together
  <2>2. \A b : b \in BytesOf(Range(list)) <=> \E i \in D : b \in SlabBytes(list[i])
    BY <1>1 DEF BytesOf, Range
  <2>3. \A i \in D : part[i] = SlabBytes(list[i])
    BY <1>1
  <2> QED
    BY <2>1, <2>2, <2>3
<1>7. Sized(D, part, size)
  BY <1>4, <1>5 DEF Sized
<1> QED
  BY <1>1, <1>2, <1>6, <1>7, SumCounts

(* What slab_allocated adds for one cache.                                    *)
FullBytes(c) == FoldSeq(LAMBDA s, total : total + Num[c] * ObjSize[c], 0, full[c])

NotFullBytes(c) ==
  FoldSeq(LAMBDA s, total : total + slab[s].inuse * ObjSize[c], 0, notfull[c])

CacheBytes(c) == BytesOf({s \in Slabs : slab[s].cache = c})

LEMMA FullBytesCount ==
  ASSUME IInv, NEW c \in Caches
  PROVE  /\ FullBytes(c) = Cardinality(BytesOf(Range(full[c])))
         /\ IsFiniteSet(BytesOf(Range(full[c])))
<1> DEFINE D == DOMAIN full[c]
           pick(s) == CHOOSE y \in s : TRUE
           next(f, s) == IF s = {} THEN 0 ELSE f[s \ {pick(s)}] + Num[c] * ObjSize[c]
           Is(f) == f = [s \in SUBSET D |-> next(f, s)]
<1>1. FullBytes(c) = (CHOOSE f : Is(f))[D]
  BY DEF FullBytes, FoldSeq, FoldFunction, FoldFunctionOnSet, MapThenFoldSet
<1>2. PICK size : size = [i \in D |-> Num[c] * ObjSize[c]]
  OBVIOUS
<1>3. \A f : Is(f) <=> Sums(f, D, size)
  <2> SUFFICES ASSUME NEW f
               PROVE  Is(f) <=> Sums(f, D, size)
    OBVIOUS
  <2> DEFINE step(s) == IF s = {} THEN 0 ELSE f[s \ {pick(s)}] + size[pick(s)]
  <2>1. \A s \in SUBSET D : next(f, s) = step(s)
    BY <1>2
  <2>2. [s \in SUBSET D |-> next(f, s)] = [s \in SUBSET D |-> step(s)]
    <3> HIDE DEF next, step
    <3> QED
      BY <2>1
  <2>3. Sums(f, D, size) <=> f = [s \in SUBSET D |-> step(s)]
    BY DEF Sums
  <2> HIDE DEF next, step
  <2> QED
    BY <2>2, <2>3
<1>4. /\ full[c] \in Seq(Frames) /\ Distinct(full[c]) /\ Range(full[c]) \subseteq Slabs
      /\ \A i \in D : slab[full[c][i]].cache = c /\ slab[full[c][i]].free = END
  BY DEF IInv, TypeOK, Lists, Range
<1>5. \A i \in D : size[i] = Cardinality(SlabBytes(full[c][i]))
  <2> SUFFICES ASSUME NEW i \in D
               PROVE  size[i] = Cardinality(SlabBytes(full[c][i]))
    OBVIOUS
  <2>1. PICK s \in Slabs : s = full[c][i]
    BY <1>4 DEF Range
  <2>2. Cardinality(SlabBytes(s)) = slab[s].inuse * ObjSize[slab[s].cache]
    BY SlabBytesFacts
  <2>3. slab[s].inuse = Num[c] /\ slab[s].cache = c
    BY <1>4, <2>1, SlabBytesFacts
  <2> QED
    BY <1>2, <2>1, <2>2, <2>3
<1>6. PICK F : /\ F[D] = Cardinality(BytesOf(Range(full[c])))
               /\ \A f : Sums(f, D, size) <=> f = F
  BY <1>4, <1>5, ListSums DEF SumIs
<1>7. (CHOOSE f : Is(f)) = F
  <2> HIDE DEF Is
  <2> QED
    BY <1>3, <1>6
<1>8. IsFiniteSet(BytesOf(Range(full[c])))
  BY <1>4, <1>5, ListSums
<1> QED
  BY <1>1, <1>6, <1>7, <1>8

LEMMA NotFullBytesCount ==
  ASSUME IInv, NEW c \in Caches
  PROVE  /\ NotFullBytes(c) = Cardinality(BytesOf(Range(notfull[c])))
         /\ IsFiniteSet(BytesOf(Range(notfull[c])))
<1> DEFINE D == DOMAIN notfull[c]
           pick(s) == CHOOSE y \in s : TRUE
           next(f, s) == IF s = {} THEN 0
                         ELSE f[s \ {pick(s)}] + slab[notfull[c][pick(s)]].inuse * ObjSize[c]
           Is(f) == f = [s \in SUBSET D |-> next(f, s)]
<1>1. NotFullBytes(c) = (CHOOSE f : Is(f))[D]
  BY DEF NotFullBytes, FoldSeq, FoldFunction, FoldFunctionOnSet, MapThenFoldSet
<1>2. PICK size : size = [i \in D |-> slab[notfull[c][i]].inuse * ObjSize[c]]
  OBVIOUS
<1>3. \A f : Is(f) <=> Sums(f, D, size)
  <2> SUFFICES ASSUME NEW f
               PROVE  Is(f) <=> Sums(f, D, size)
    OBVIOUS
  <2> DEFINE step(s) == IF s = {} THEN 0 ELSE f[s \ {pick(s)}] + size[pick(s)]
  <2>1. \A s \in SUBSET D : next(f, s) = step(s)
    BY <1>2
  <2>2. [s \in SUBSET D |-> next(f, s)] = [s \in SUBSET D |-> step(s)]
    <3> HIDE DEF next, step
    <3> QED
      BY <2>1
  <2>3. Sums(f, D, size) <=> f = [s \in SUBSET D |-> step(s)]
    BY DEF Sums
  <2> HIDE DEF next, step
  <2> QED
    BY <2>2, <2>3
<1>4. /\ notfull[c] \in Seq(Frames) /\ Distinct(notfull[c]) /\ Range(notfull[c]) \subseteq Slabs
      /\ \A i \in D : slab[notfull[c][i]].cache = c
  BY DEF IInv, TypeOK, Lists, Range
<1>5. \A i \in D : size[i] = Cardinality(SlabBytes(notfull[c][i]))
  <2> SUFFICES ASSUME NEW i \in D
               PROVE  size[i] = Cardinality(SlabBytes(notfull[c][i]))
    OBVIOUS
  <2>1. PICK s \in Slabs : s = notfull[c][i]
    BY <1>4 DEF Range
  <2>2. Cardinality(SlabBytes(s)) = slab[s].inuse * ObjSize[slab[s].cache]
    BY SlabBytesFacts
  <2>3. slab[s].cache = c
    BY <1>4, <2>1
  <2> QED
    BY <1>2, <2>1, <2>2, <2>3
<1>6. PICK F : /\ F[D] = Cardinality(BytesOf(Range(notfull[c])))
               /\ \A f : Sums(f, D, size) <=> f = F
  BY <1>4, <1>5, ListSums DEF SumIs
<1>7. (CHOOSE f : Is(f)) = F
  <2> HIDE DEF Is
  <2> QED
    BY <1>3, <1>6
<1>8. IsFiniteSet(BytesOf(Range(notfull[c])))
  BY <1>4, <1>5, ListSums
<1> QED
  BY <1>1, <1>6, <1>7, <1>8

(* What it adds for one cache is the cache's bytes in use. *)
LEMMA CacheBytesCount ==
  ASSUME IInv, NEW c \in Caches
  PROVE  /\ FullBytes(c) + NotFullBytes(c) = Cardinality(CacheBytes(c))
         /\ IsFiniteSet(CacheBytes(c))
<1>1. PICK A, B : A = BytesOf(Range(full[c])) /\ B = BytesOf(Range(notfull[c]))
  OBVIOUS
<1>2. /\ Range(full[c]) = {s \in Slabs : slab[s].cache = c /\ slab[s].free = END}
      /\ Range(notfull[c]) = {s \in Slabs : slab[s].cache = c /\ slab[s].free # END}
  BY DEF IInv, Lists
<1>3. CacheBytes(c) = A \cup B
  <2>1. {s \in Slabs : slab[s].cache = c} = Range(full[c]) \cup Range(notfull[c])
    BY <1>2
  <2>2. \A S, T : BytesOf(S \cup T) = BytesOf(S) \cup BytesOf(T)
    BY DEF BytesOf
  <2> QED
    BY <1>1, <2>1, <2>2 DEF CacheBytes
<1>4. A \cap B = {}
  <2> SUFFICES ASSUME NEW b \in A, b \in B
               PROVE  FALSE
    OBVIOUS
  <2>1. PICK s \in Range(full[c]), t \in Range(notfull[c]) : b \in SlabBytes(s) /\ b \in SlabBytes(t)
    BY <1>1 DEF BytesOf
  <2>2. s # t
    BY <1>2
  <2> QED
    BY <2>1, <2>2, BytesApart
<1>5. /\ FullBytes(c) = Cardinality(A) /\ IsFiniteSet(A)
      /\ NotFullBytes(c) = Cardinality(B) /\ IsFiniteSet(B)
  BY <1>1, FullBytesCount, NotFullBytesCount
<1>6. Cardinality(A \cup B) = Cardinality(A) + Cardinality(B) - Cardinality(A \cap B)
      /\ IsFiniteSet(A \cup B)
  BY <1>5, FS_Union
<1>7. Cardinality(A) \in Nat /\ Cardinality(B) \in Nat /\ Cardinality(A \cap B) = 0
  BY <1>4, <1>5, FS_CardinalityType, FS_EmptySet
<1> QED
  BY <1>3, <1>5, <1>6, <1>7

LEMMA ReportedBytes ==
  ASSUME IInv
  PROVE  slab_allocated = Cardinality(BytesOf(Slabs)) /\ IsFiniteSet(BytesOf(Slabs))
<1> DEFINE pick(s) == CHOOSE y \in s : TRUE
           of(c) == FullBytes(c) + NotFullBytes(c)
           next(f, s) == IF s = {} THEN 0 ELSE f[s \ {pick(s)}] + of(pick(s))
           Is(f) == f = [s \in SUBSET Caches |-> next(f, s)]
<1>1. slab_allocated = (CHOOSE f : Is(f))[Caches]
  BY DEF slab_allocated, FullBytes, NotFullBytes, FoldSet, MapThenFoldSet
<1>2. PICK size : size = [c \in Caches |-> of(c)]
  OBVIOUS
<1>3. \A f : Is(f) <=> Sums(f, Caches, size)
  <2> SUFFICES ASSUME NEW f
               PROVE  Is(f) <=> Sums(f, Caches, size)
    OBVIOUS
  <2> DEFINE step(s) == IF s = {} THEN 0 ELSE f[s \ {pick(s)}] + size[pick(s)]
  <2>1. \A s \in SUBSET Caches : next(f, s) = step(s)
    <3> HIDE DEF of
    <3> QED
      BY <1>2
  <2>2. [s \in SUBSET Caches |-> next(f, s)] = [s \in SUBSET Caches |-> step(s)]
    <3> HIDE DEF next, step
    <3> QED
      BY <2>1
  <2>3. Sums(f, Caches, size) <=> f = [s \in SUBSET Caches |-> step(s)]
    BY DEF Sums
  <2> HIDE DEF next, step
  <2> QED
    BY <2>2, <2>3
<1>4. PICK part : part = [c \in Caches |-> CacheBytes(c)]
  OBVIOUS
<1>5. Sized(Caches, part, size)
  <2>1. ASSUME NEW c \in Caches
        PROVE  IsFiniteSet(part[c]) /\ size[c] = Cardinality(part[c])
    <3>1. of(c) = Cardinality(CacheBytes(c)) /\ IsFiniteSet(CacheBytes(c))
      BY CacheBytesCount
    <3> HIDE DEF of
    <3> QED
      BY <1>2, <1>4, <3>1
  <2>2. ASSUME NEW c \in Caches, NEW d \in Caches, c # d, NEW b \in part[c], b \in part[d]
        PROVE  FALSE
    <3>1. b \in CacheBytes(c) /\ b \in CacheBytes(d)
      BY <1>4, <2>2
    <3>2. PICK s \in Slabs, t \in Slabs :
            /\ b \in SlabBytes(s) /\ b \in SlabBytes(t)
            /\ slab[s].cache = c /\ slab[t].cache = d
      BY <3>1 DEF CacheBytes, BytesOf
    <3> QED
      BY <2>2, <3>2, BytesApart
  <2> HIDE DEF of
  <2> QED
    BY <2>1, <2>2 DEF Sized
<1>6. Together(Caches, part) = BytesOf(Slabs)
  <2>1. \A b : b \in Together(Caches, part) <=> \E c \in Caches : b \in CacheBytes(c)
    BY <1>4 DEF Together
  <2>2. \A b, c : b \in CacheBytes(c) <=> \E s \in Slabs : slab[s].cache = c /\ b \in SlabBytes(s)
    BY DEF CacheBytes, BytesOf
  <2>3. \A b : b \in BytesOf(Slabs) <=> \E s \in Slabs : b \in SlabBytes(s)
    BY DEF BytesOf
  <2>4. \A s \in Slabs : slab[s].cache \in Caches
    BY SlabFacts DEF IInv
  <2> QED
    BY <2>1, <2>2, <2>3, <2>4
<1>7. IsFiniteSet(Caches)
  BY CacheAssumption
<1>8. IsFiniteSet(BytesOf(Slabs)) /\ SumIs(Caches, size, Cardinality(BytesOf(Slabs)))
  <2> HIDE DEF of
  <2> QED
    BY <1>5, <1>6, <1>7, SumCounts
<1>9. PICK F : /\ F[Caches] = Cardinality(BytesOf(Slabs))
               /\ \A f : Sums(f, Caches, size) <=> f = F
  <2> HIDE DEF of
  <2> QED
    BY <1>8 DEF SumIs
<1>10. (CHOOSE f : Is(f)) = F
  <2> HIDE DEF Is
  <2> QED
    BY <1>3, <1>9
<1> QED
  BY <1>1, <1>8, <1>9, <1>10

(* The sum over the objects is the same number of bytes.                      *)
LEMMA AllocatedBytes ==
  ASSUME IInv
  PROVE  FoldSet(LAMBDA o, total : total + ObjSize[slab[o[1]].cache], 0, Allocated)
           = Cardinality(BytesOf(Slabs))
<1> DEFINE pick(s) == CHOOSE y \in s : TRUE
           of(o) == ObjSize[slab[o[1]].cache]
           next(f, s) == IF s = {} THEN 0 ELSE f[s \ {pick(s)}] + of(pick(s))
           Is(f) == f = [s \in SUBSET Allocated |-> next(f, s)]
<1>1. FoldSet(LAMBDA o, total : total + ObjSize[slab[o[1]].cache], 0, Allocated)
        = (CHOOSE f : Is(f))[Allocated]
  BY DEF FoldSet, MapThenFoldSet
<1>2. PICK size : size = [o \in Allocated |-> of(o)]
  OBVIOUS
<1>3. \A f : Is(f) <=> Sums(f, Allocated, size)
  <2> SUFFICES ASSUME NEW f
               PROVE  Is(f) <=> Sums(f, Allocated, size)
    OBVIOUS
  <2> DEFINE step(s) == IF s = {} THEN 0 ELSE f[s \ {pick(s)}] + size[pick(s)]
  <2>1. \A s \in SUBSET Allocated : next(f, s) = step(s)
    <3> HIDE DEF of
    <3> QED
      BY <1>2
  <2>2. [s \in SUBSET Allocated |-> next(f, s)] = [s \in SUBSET Allocated |-> step(s)]
    <3> HIDE DEF next, step
    <3> QED
      BY <2>1
  <2>3. Sums(f, Allocated, size) <=> f = [s \in SUBSET Allocated |-> step(s)]
    BY DEF Sums
  <2> HIDE DEF next, step
  <2> QED
    BY <2>2, <2>3
<1>4. PICK part : part = [o \in Allocated |-> ObjectBytes(o)]
  OBVIOUS
<1>5. Sized(Allocated, part, size)
  <2>1. ASSUME NEW o \in Allocated
        PROVE  IsFiniteSet(part[o]) /\ size[o] = Cardinality(part[o])
    <3>1. PICK z \in Nat : z = of(o)
      <4>1. o[1] \in Slabs
        BY DEF IInv, Objects, HeadersOwned
      <4> QED
        BY <4>1, SlabBytesFacts
    <3>2. PICK n \in Int : n = z - 1
      OBVIOUS
    <3>3. IsFiniteSet(0 .. n) /\ Cardinality(0 .. n) = z
      <4>1. Cardinality(0 .. n) = IF 0 > n THEN 0 ELSE n - 0 + 1
        BY FS_Interval
      <4> QED
        BY <3>2, <4>1, FS_Interval
    <3>4. IsFiniteSet({o}) /\ Cardinality({o}) = 1
      BY FS_Singleton
    <3>5. IsFiniteSet({o} \X (0 .. n)) /\ Cardinality({o} \X (0 .. n)) = 1 * z
      BY <3>3, <3>4, FS_Product
    <3>6. part[o] = {o} \X (0 .. n) /\ size[o] = z
      BY <1>2, <1>4, <3>1, <3>2 DEF ObjectBytes
    <3> QED
      BY <3>5, <3>6
  <2>2. ASSUME NEW o \in Allocated, NEW p \in Allocated, o # p
        PROVE  part[o] \cap part[p] = {}
    <3>1. part[o] = ObjectBytes(o) /\ part[p] = ObjectBytes(p)
      BY <1>4
    <3> QED
      BY <2>2, <3>1, BytesApart
  <2> HIDE DEF of
  <2> QED
    BY <2>1, <2>2 DEF Sized
<1>6. Together(Allocated, part) = BytesOf(Slabs)
  <2>1. \A b : b \in Together(Allocated, part) <=> \E o \in Allocated : b \in ObjectBytes(o)
    BY <1>4 DEF Together
  <2>2. \A b : b \in BytesOf(Slabs) <=> \E s \in Slabs : b \in SlabBytes(s)
    BY DEF BytesOf
  <2>3. \A s \in Slabs : \A b : b \in SlabBytes(s) <=> \E o \in InUse(s) : b \in ObjectBytes(o)
    <3> SUFFICES ASSUME NEW s \in Slabs
                 PROVE  SlabBytes(s) = UNION {ObjectBytes(o) : o \in InUse(s)}
      OBVIOUS
    <3>1. PICK Z : Z = 0 .. ObjSize[slab[s].cache] - 1
      OBVIOUS
    <3>2. \A o \in InUse(s) : ObjectBytes(o) = {o} \X Z
      BY <3>1 DEF InUse, ObjectBytes
    <3>3. SlabBytes(s) = InUse(s) \X Z
      BY <3>1 DEF SlabBytes
    <3> QED
      BY <3>2, <3>3
  <2>4. \A s \in Slabs : InUse(s) = {o \in Allocated : o[1] = s}
    BY SlabBytesFacts
  <2>5. \A o \in Allocated : o[1] \in Slabs
    BY DEF IInv, Objects, HeadersOwned
  <2> QED
    BY <2>1, <2>2, <2>3, <2>4, <2>5
<1>7. IsFiniteSet(Allocated)
  <2>1. IsFiniteSet(Slabs)
    <3>1. IsFiniteSet(Frames) /\ Slabs \in SUBSET Frames
      BY CacheAssumption DEF IInv, TypeOK
    <3> QED
      BY <3>1, FS_Subset
  <2>2. PICK uses, all : uses = [s \in Slabs |-> InUse(s)] /\ all = {uses[s] : s \in Slabs}
    OBVIOUS
  <2>3. IsFiniteSet(all)
    <3>1. uses \in Surjection(Slabs, all)
      BY <2>2 DEF Surjection
    <3> QED
      BY <2>1, <3>1, FS_Surjection
  <2>4. \A S \in all : IsFiniteSet(S)
    BY <2>2, SlabBytesFacts
  <2>5. Allocated = UNION all
    <3>1. \A s \in Slabs : uses[s] = {o \in Allocated : o[1] = s}
      BY <2>2, SlabBytesFacts
    <3>2. \A o \in Allocated : o[1] \in Slabs
      BY DEF IInv, Objects, HeadersOwned
    <3> QED
      BY <2>2, <3>1, <3>2
  <2> QED
    BY <2>3, <2>4, <2>5, FS_UNION
<1>8. SumIs(Allocated, size, Cardinality(BytesOf(Slabs)))
  <2> HIDE DEF of
  <2> QED
    BY <1>5, <1>6, <1>7, SumCounts
<1>9. PICK F : /\ F[Allocated] = Cardinality(BytesOf(Slabs))
               /\ \A f : Sums(f, Allocated, size) <=> f = F
  <2> HIDE DEF of
  <2> QED
    BY <1>8 DEF SumIs
<1>10. (CHOOSE f : Is(f)) = F
  <2> HIDE DEF Is
  <2> QED
    BY <1>3, <1>9
<1> QED
  BY <1>1, <1>9, <1>10

(* slab_allocated, which walks the lists of all caches, reports the size of   *)
(* all objects in use, the control parts of large slabs included.             *)
THEOREM ReportIsExact == Spec => []AllocatedExact
<1>1. IInv => AllocatedExact
  BY ReportedBytes, AllocatedBytes DEF AllocatedExact
<1> QED
  BY <1>1, InvariantHolds, PTL
=============================================================================

-------------------------------- MODULE Slab --------------------------------
(***************************************************************************)
(* The object allocator, kern/mm/slab.c: kmalloc and kfree over caches of  *)
(* equal objects, above the page allocator as its callers see it (module   *)
(* PageAlloc, which may also say that it has no pages).                    *)
(*                                                                         *)
(* A slab is named by its first page.  Its control part (slab_t and the    *)
(* bufctl array) lies in that page, or, for a cache with off_slab set, in  *)
(* an object of another cache: growing such a cache calls kmem_cache_alloc *)
(* again before it is done, and destroying one of its slabs frees that     *)
(* object, which may destroy a second slab.  The nested activations of     *)
(* kmem_cache_alloc are the frames of `stack', the last one running.       *)
(***************************************************************************)
EXTENDS Integers, FiniteSets, Sequences, SequencesExt

CONSTANTS
  Caches,       \* indices of slab_cache[]
  ObjSize,      \* objsize of a cache; a larger index has larger objects
  Num,          \* num: objects per slab
  Pages,        \* 1 << page_order
  OffSlab,      \* the caches whose control part is off slab
  HeaderCache,  \* slab_cachep of those
  Sizes,        \* the arguments of kmalloc
  MaxUser,      \* bound: how many objects callers hold at once
  Frames,       \* the pages the page allocator manages
  Nothing,      \* no page, no object: NULL
  NoValue       \* nothing has been returned

ASSUME NullAssumption ==
  /\ Nothing # NoValue
  /\ \A v \in {Nothing, NoValue} : v \notin Frames /\ v \notin Frames \X Nat

ASSUME CacheAssumption ==
  /\ Caches \subseteq Nat /\ IsFiniteSet(Caches)
  /\ ObjSize \in [Caches -> Nat \ {0}]
  /\ \A c, d \in Caches : c < d => ObjSize[c] < ObjSize[d]
  /\ Num \in [Caches -> Nat \ {0}]
  /\ Pages \in [Caches -> Nat \ {0}]
  /\ OffSlab \subseteq Caches
  /\ HeaderCache \in [OffSlab -> Caches \ OffSlab]
  /\ Frames \subseteq Nat /\ IsFiniteSet(Frames)

VARIABLES
  full, notfull,  \* the two lists of slabs of every cache, head first
  slab,           \* the control part of every slab there is
  pageSlab,       \* the PG_slab flag of every page
  back,           \* the cache and slab a page's page_link points to
  live,           \* the extents taken from the page allocator
  stack, rv,      \* activations of kmem_cache_alloc; value just returned
  pending,        \* the object kmem_cache_free is about to free
  user            \* the objects kmalloc's callers hold

vars == <<full, notfull, slab, pageSlab, back, live, stack, rv, pending, user>>

END == -1
InPage == NoValue      \* header of a control part in the slab itself

Page == INSTANCE PageAlloc

Object == Frames \X Nat     \* slab and index in it

Slabs == DOMAIN slab

(* slab_init: every cache with two empty lists.                              *)
Init ==
  /\ full = [c \in Caches |-> <<>>]
  /\ notfull = [c \in Caches |-> <<>>]
  /\ slab = [s \in {} |-> Nothing]
  /\ pageSlab = [p \in Frames |-> FALSE]
  /\ back = [p \in Frames |-> Nothing]
  /\ Page!Init
  /\ stack = <<>> /\ rv = NoValue /\ pending = Nothing
  /\ user = {}

-----------------------------------------------------------------------------
Idle == stack = <<>> /\ pending = Nothing

Fits(size) == {c \in Caches : size <= ObjSize[c]}

Smallest(S) == CHOOSE c \in S : \A d \in S : c <= d

Top == Last(stack)

(* kmem_cache_alloc is entered; at most one activation is below it.          *)
Call(c) == stack' = Append(stack, [cache |-> c, page |-> Nothing])

(* The running activation returns v, to kmalloc's caller or to the grow      *)
(* below it.                                                                 *)
Return(v) ==
  /\ stack' = Front(stack)
  /\ IF Len(stack) = 1
       THEN rv' = NoValue /\ user' = user \cup ({v} \ {Nothing})
       ELSE rv' = v /\ UNCHANGED user

kmalloc(size) ==
  /\ Idle /\ Cardinality(user) < MaxUser
  /\ Fits(size) # {}         \* otherwise NULL, and nothing changes
  /\ Call(Smallest(Fits(size)))
  /\ UNCHANGED <<full, notfull, slab, pageSlab, back, live, rv, pending, user>>

-----------------------------------------------------------------------------
(* Mistake: the chain is not moved on, so the next call gets the same object. *)
AllocOne_Again ==
  /\ stack # <<>> /\ Top.page = Nothing /\ rv = NoValue
  /\ LET s == Head(notfull[Top.cache])
     IN  /\ notfull[Top.cache] # <<>>
         /\ slab' = [slab EXCEPT ![s].inuse = @ + 1]
         /\ Return(<<s, slab[s].free>>)
  /\ UNCHANGED <<full, notfull, pageSlab, back, live, pending>>

(* Mistake: a slab without free objects stays on the notfull list.           *)
AllocOne_Stay ==
  /\ stack # <<>> /\ Top.page = Nothing /\ rv = NoValue
  /\ LET s == Head(notfull[Top.cache])
         k == slab[s].free
     IN  /\ notfull[Top.cache] # <<>>
         /\ slab' = [slab EXCEPT ![s].inuse = @ + 1, ![s].free = slab[s].bufctl[k]]
         /\ Return(<<s, k>>)
  /\ UNCHANGED <<full, notfull, pageSlab, back, live, pending>>

(* kmem_cache_alloc with a slab that is not full: kmem_cache_alloc_one.      *)
AllocOne ==
  /\ stack # <<>> /\ Top.page = Nothing /\ rv = NoValue
  /\ LET c == Top.cache
         s == Head(notfull[c])
         k == slab[s].free
         rest == slab[s].bufctl[k]
     IN  /\ notfull[c] # <<>>
         /\ slab' = [slab EXCEPT ![s].inuse = @ + 1, ![s].free = rest]
         /\ IF rest = END
              THEN /\ notfull' = [notfull EXCEPT ![c] = Tail(@)]
                   /\ full' = [full EXCEPT ![c] = <<s>> \o @]
              ELSE UNCHANGED <<full, notfull>>
         /\ Return(<<s, k>>)
  /\ UNCHANGED <<pageSlab, back, live, pending>>

(* Mistake: only the first page of a slab is marked.                         *)
Link_FirstPage(c, p, header) ==
  LET control == [cache |-> c, header |-> header, inuse |-> 0, free |-> 0,
                  bufctl |-> [k \in 0 .. Num[c] - 1 |->
                                IF k = Num[c] - 1 THEN END ELSE k + 1]]
  IN  /\ slab' = [s \in Slabs \cup {p} |-> IF s = p THEN control ELSE slab[s]]
      /\ back' = [back EXCEPT ![p] = <<c, p>>]
      /\ pageSlab' = [pageSlab EXCEPT ![p] = TRUE]
      /\ notfull' = [notfull EXCEPT ![c] = <<p>> \o @]

(* kmem_cache_grow, once it has pages p .. and a place for the control part. *)
Link(c, p, header) ==
  LET mine == p .. p + Pages[c] - 1
      control == [cache |-> c, header |-> header, inuse |-> 0, free |-> 0,
                  bufctl |-> [k \in 0 .. Num[c] - 1 |->
                                IF k = Num[c] - 1 THEN END ELSE k + 1]]
  IN  /\ slab' = [s \in Slabs \cup {p} |-> IF s = p THEN control ELSE slab[s]]
      /\ back' = [q \in Frames |-> IF q \in mine THEN <<c, p>> ELSE back[q]]
      /\ pageSlab' = [q \in Frames |-> q \in mine \/ pageSlab[q]]
      /\ notfull' = [notfull EXCEPT ![c] = <<p>> \o @]

NeedsGrow ==
  /\ stack # <<>> /\ Top.page = Nothing /\ rv = NoValue
  /\ notfull[Top.cache] = <<>>

(* alloc_pages has none: kmem_cache_alloc returns NULL.                      *)
GrowNoPages ==
  /\ NeedsGrow
  /\ Return(Nothing)
  /\ UNCHANGED <<full, notfull, slab, pageSlab, back, live, pending>>

(* The control part goes into the first page: the slab is complete, and      *)
(* kmem_cache_alloc tries again.                                             *)
GrowOnSlab(p) ==
  /\ NeedsGrow /\ Top.cache \notin OffSlab
  /\ Page!Alloc(<<p, Pages[Top.cache]>>)
  /\ Link(Top.cache, p, InPage)
  /\ UNCHANGED <<full, stack, rv, pending, user>>

(* The control part needs an object of another cache: kmem_cache_slabmgmt    *)
(* calls kmem_cache_alloc, with the pages already taken.                     *)
GrowOffSlab(p) ==
  /\ NeedsGrow /\ Top.cache \in OffSlab
  /\ Page!Alloc(<<p, Pages[Top.cache]>>)
  /\ LET waiting == [stack EXCEPT ![Len(stack)].page = p]
     IN  stack' = Append(waiting, [cache |-> HeaderCache[Top.cache], page |-> Nothing])
  /\ UNCHANGED <<full, notfull, slab, pageSlab, back, rv, pending, user>>

GrowGotHeader ==
  /\ stack # <<>> /\ Top.page # Nothing /\ rv \in Object
  /\ Link(Top.cache, Top.page, rv)
  /\ stack' = [stack EXCEPT ![Len(stack)].page = Nothing]
  /\ rv' = NoValue
  /\ UNCHANGED <<full, live, pending, user>>

(* Mistake: the pages are not given back when there is no control part.      *)
GrowNoHeader_Leak ==
  /\ stack # <<>> /\ Top.page # Nothing /\ rv = Nothing
  /\ Return(Nothing)
  /\ UNCHANGED <<full, notfull, slab, pageSlab, back, live, pending>>

(* Mistake: the header is asked for again until there is one.                *)
GrowNoHeader_Retry ==
  /\ stack # <<>> /\ Top.page # Nothing /\ rv = Nothing
  /\ Call(HeaderCache[Top.cache])
  /\ rv' = NoValue
  /\ UNCHANGED <<full, notfull, slab, pageSlab, back, live, pending, user>>

(* oops: the pages go back, and kmem_cache_alloc returns NULL.               *)
GrowNoHeader ==
  /\ stack # <<>> /\ Top.page # Nothing /\ rv = Nothing
  /\ Page!Free(<<Top.page, Pages[Top.cache]>>)
  /\ Return(Nothing)
  /\ UNCHANGED <<full, notfull, slab, pageSlab, back, pending>>

-----------------------------------------------------------------------------
kfree(o) ==
  /\ Idle /\ o \in user
  /\ user' = user \ {o}
  /\ pending' = o
  /\ UNCHANGED <<full, notfull, slab, pageSlab, back, live, stack, rv>>

(* Cache and slab of the object being freed, as its page tells.              *)
PageCache == back[pending[1]][1]
PageOfSlab == back[pending[1]][2]
(* Mistake: the freed object does not link to the rest of the chain.         *)
Freed_Unlinked(s, k) == [slab[s] EXCEPT !.free = k, !.inuse = @ - 1]

(* The object goes to the front of the free chain.                           *)
Freed(s, k) == [slab[s] EXCEPT !.bufctl[k] = slab[s].free, !.free = k, !.inuse = @ - 1]

(* Mistake: a full slab that gets an object back stays on the full list.     *)
FreeOne_Stay ==
  /\ pending # Nothing
  /\ LET after == Freed(PageOfSlab, pending[2])
     IN  /\ after.inuse # 0
         /\ slab' = [slab EXCEPT ![PageOfSlab] = after]
  /\ pending' = Nothing
  /\ UNCHANGED <<full, notfull, pageSlab, back, live, stack, rv, user>>

(* The slab keeps some object; one that was full is not any more.            *)
FreeOne ==
  /\ pending # Nothing
  /\ LET c == PageCache
         s == PageOfSlab
         after == Freed(s, pending[2])
     IN  /\ after.inuse # 0
         /\ slab' = [slab EXCEPT ![s] = after]
         /\ IF after.inuse = Num[c] - 1
              THEN /\ full' = [full EXCEPT ![c] = RemoveFirst(@, s)]
                   /\ notfull' = [notfull EXCEPT ![c] = <<s>> \o RemoveFirst(@, s)]
              ELSE UNCHANGED <<full, notfull>>
  /\ pending' = Nothing
  /\ UNCHANGED <<pageSlab, back, live, stack, rv, user>>

(* The last object of the slab: kmem_slab_destroy.  ClearPageSlab is a       *)
(* complement (btc).  The control part is freed after the pages.             *)
FreeLast ==
  /\ pending # Nothing
  /\ LET c == PageCache
         s == PageOfSlab
         mine == s .. s + Pages[c] - 1
     IN  /\ Freed(s, pending[2]).inuse = 0
         /\ full' = [full EXCEPT ![c] = RemoveFirst(@, s)]
         /\ notfull' = [notfull EXCEPT ![c] = RemoveFirst(@, s)]
         /\ pageSlab' = [q \in Frames |-> IF q \in mine THEN ~pageSlab[q] ELSE pageSlab[q]]
         /\ back' = [q \in Frames |-> IF q \in mine THEN Nothing ELSE back[q]]
         /\ Page!Free(<<s, Pages[c]>>)
         /\ pending' = IF c \in OffSlab THEN slab[s].header ELSE Nothing
         /\ slab' = [t \in Slabs \ {s} |-> slab[t]]
  /\ UNCHANGED <<stack, rv, user>>

-----------------------------------------------------------------------------
Step ==
  \/ AllocOne \/ GrowNoPages \/ GrowGotHeader \/ GrowNoHeader
  \/ \E p \in Frames : GrowOnSlab(p) \/ GrowOffSlab(p)
  \/ FreeOne \/ FreeLast

Next ==
  \/ Step
  \/ \E size \in Sizes : kmalloc(size)
  \/ \E o \in user : kfree(o)

(* A call of kmalloc or kfree runs to its end.                               *)
Spec == Init /\ [][Next]_vars /\ WF_vars(Step)

-----------------------------------------------------------------------------
(* Objects given out: to callers, to slabs as control parts, and the one     *)
(* that is between two functions.                                            *)
Headers == {slab[s].header : s \in {t \in Slabs : slab[t].cache \in OffSlab}}

Allocated == user \cup Headers \cup ({rv, pending} \cap Object)

Indices(s) == 0 .. Num[slab[s].cache] - 1

(* The indices met by following bufctl from free.                            *)
FreeChain(s) ==
  LET hop[n \in 0 .. Num[slab[s].cache]] ==
        IF n = 0 THEN slab[s].free
        ELSE IF hop[n - 1] = END THEN END ELSE slab[s].bufctl[hop[n - 1]]
      len == Cardinality({n \in DOMAIN hop : hop[n] # END})
  IN  [n \in 1 .. len |-> hop[n - 1]]

(* The free chain of a slab holds exactly the objects nobody has, each once, *)
(* and inuse counts the others: no object is given out twice or forgotten.   *)
ChainExact ==
  \A s \in Slabs :
    LET given == {k \in Indices(s) : <<s, k>> \in Allocated}
    IN  /\ ToSet(FreeChain(s)) = Indices(s) \ given
        /\ Len(FreeChain(s)) + Cardinality(given) = Num[slab[s].cache]
        /\ slab[s].inuse = Cardinality(given)

(* No object has two uses: a control part is never a caller's object, and no *)
(* two slabs share one.                                                      *)
HeadersOwned ==
  /\ Headers \cap user = {}
  /\ {rv, pending} \cap (user \cup Headers) = {}
  /\ \A s, t \in Slabs : slab[s].header = slab[t].header /\ s # t => slab[s].header = InPage
  /\ \A o \in Allocated : o[1] \in Slabs /\ o[2] \in Indices(o[1])

(* A slab is on one list of its own cache, once: the full list exactly when  *)
(* its free chain is empty.                                                  *)
ListsExact ==
  \A s \in Slabs, c \in Caches :
    /\ Cardinality({i \in DOMAIN full[c] : full[c][i] = s}) =
         (IF c = slab[s].cache /\ slab[s].free = END THEN 1 ELSE 0)
    /\ Cardinality({i \in DOMAIN notfull[c] : notfull[c][i] = s}) =
         (IF c = slab[s].cache /\ slab[s].free # END THEN 1 ELSE 0)

(* kfree finds cache and slab through the page: the pages of a slab, and no  *)
(* others, carry PG_slab and point to it.                                    *)
BackPointers ==
  \A p \in Frames :
    LET owners == {s \in Slabs : p \in s .. s + Pages[slab[s].cache] - 1}
    IN  /\ pageSlab[p] = (owners # {})
        /\ \A s \in owners : back[p] = <<slab[s].cache, s>>

(* The pages taken are those of the slabs and of the slab being made: a      *)
(* failed grow returns its pages, and a slab with no object in use is not    *)
(* kept, so when every object is freed every page is back.                   *)
PagesReturned ==
  /\ live = {<<s, Pages[slab[s].cache]>> : s \in Slabs}
              \cup {<<f.page, Pages[f.cache]>> : f \in {g \in ToSet(stack) : g.page # Nothing}}
  /\ Idle => \A s \in Slabs : slab[s].inuse > 0

(* slab_allocated walks the lists instead of counting allocations.           *)
slab_allocated ==
  LET sum(list, part(_)) == FoldSeq(LAMBDA s, total : total + part(s), 0, list)
      of(c) == sum(full[c], LAMBDA s : Num[c] * ObjSize[c])
               + sum(notfull[c], LAMBDA s : slab[s].inuse * ObjSize[c])
  IN  FoldSet(LAMBDA c, total : total + of(c), 0, Caches)

(* What it reports is the size of all objects in use, control parts included. *)
AllocatedExact ==
  slab_allocated =
    FoldSet(LAMBDA o, total : total + ObjSize[slab[o[1]].cache], 0, Allocated)

(* Every call returns, the retry after a grow included.                      *)
CallsReturn == ~Idle ~> Idle
=============================================================================

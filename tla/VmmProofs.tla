----------------------------- MODULE VmmProofs -----------------------------
(***************************************************************************)
(* For any pages, flags, areas and frames: the cache of find_vma changes no *)
(* answer, and page faults are answered as the areas say.                   *)
(*                                                                         *)
(* The cache is sound because the list stays sorted and free of overlaps    *)
(* (Sorted) and the cache holds an area of the list (CacheListed): the area *)
(* an address lies in is then the first one that ends after it.             *)
(***************************************************************************)
EXTENDS Vmm, CommonLemmas, TLAPS

Sorted == \A i, j \in 1 .. Len(vmas) : i < j => vmas[i].end <= vmas[j].start

Listed(v) == \E i \in 1 .. Len(vmas) : vmas[i] = v

CacheListed == cache # None => Listed(cache)

(* The area that put a page where it is. *)
Backed ==
  \A n \in PageNos : page[n] # Absent =>
    \E i \in 1 .. Len(vmas) :
      /\ \E a \in Addrs : PageOf(a) = n /\ Within(vmas[i], a)
      /\ page[n].perm = "w" => "VM_WRITE" \in vmas[i].flags

(* Pages are mapped only through an mm with a directory. *)
Mapping ==
  /\ \A n \in PageNos : page[n] # Absent => mm = "check" /\ pgdir
  /\ pgdir => mm = "check"

Answers ==
  /\ pc = "panic" /\ mm = "check" => ~Allows(access.addr, access.kind)
  /\ pc = "retry" => ~Denied(access.addr, access.kind)
  /\ pc = "fault" /\ access.kind = "read" => page[PageOf(access.addr)] = Absent

IInv ==
  /\ TypeOK
  /\ mm # "none" => Sorted /\ CacheListed
  /\ Backed /\ Mapping /\ Answers

-----------------------------------------------------------------------------
(* The lists. *)

(* An area is not empty and begins at an address. *)
LEMMA VmaFields ==
  ASSUME NEW v \in Vmas
  PROVE  /\ v.start \in Nat /\ v.end \in Nat /\ v.start < v.end /\ v # None
         /\ v.start \in Addrs
BY VmmAssumption DEF Vmas, Addrs

(* The walk of find_vma ends at the first area that ends after a. *)
LEMMA ScanFinds ==
  ASSUME TypeOK, NEW a \in Addrs
  PROVE  \/ Ending(a) = {} /\ Scan(a) = None
         \/ \E i \in 1 .. Len(vmas) : /\ Scan(a) = vmas[i] /\ a < vmas[i].end
                                      /\ \A j \in 1 .. Len(vmas) : j < i => vmas[j].end <= a
<1>1. CASE Ending(a) = {}
  BY <1>1 DEF Scan
<1>2. CASE Ending(a) # {}
  <2>1. Ending(a) \in SUBSET Nat
    BY DEF Ending, TypeOK
  <2>2. \E i \in Ending(a) : \A j \in Ending(a) : i <= j
    BY <1>2, <2>1, LeastNat
  <2>3. PICK i \in Ending(a) :
           /\ i = CHOOSE k \in Ending(a) : \A j \in Ending(a) : k <= j
           /\ \A j \in Ending(a) : i <= j
    BY <2>2
  <2>4. Scan(a) = vmas[i]
    BY <1>2, <2>3 DEF Scan
  <2>5. i \in 1 .. Len(vmas) /\ a < vmas[i].end
    BY <2>3 DEF Ending
  <2>6. ASSUME NEW j \in 1 .. Len(vmas), j < i
        PROVE  vmas[j].end <= a
    <3>1. j \notin Ending(a)
      BY <2>3, <2>5, <2>6 DEF TypeOK
    <3>2. vmas[j] \in Vmas
      BY DEF TypeOK
    <3>3. vmas[j].end \in Nat /\ a \in Nat
      BY <3>2, VmaFields DEF Addrs
    <3> QED
      BY <3>1, <3>3 DEF Ending
  <2> QED
    BY <2>4, <2>5, <2>6
<1> QED
  BY <1>1, <1>2

(* The loop of find_vma finds an area of the list or none. *)
LEMMA ScanType ==
  ASSUME TypeOK, NEW a \in Addrs
  PROVE  /\ Scan(a) \in Vmas \cup {None}
         /\ Scan(a) # None => Listed(Scan(a))
BY ScanFinds DEF TypeOK, Listed

(* The area an address lies in is the one the walk ends at. *)
LEMMA ContainingIsFirst ==
  ASSUME TypeOK, Sorted, NEW a \in Addrs, NEW i \in 1 .. Len(vmas), Within(vmas[i], a)
  PROVE  Scan(a) = vmas[i]
<1>1. \A j \in 1 .. Len(vmas) : vmas[j] \in Vmas
  BY DEF TypeOK
<1>2. \A j \in 1 .. Len(vmas) : vmas[j].start \in Nat /\ vmas[j].end \in Nat /\ vmas[j].start < vmas[j].end
  BY <1>1, VmaFields
<1>3. a \in Nat /\ vmas[i].start <= a /\ a < vmas[i].end
  BY DEF Within, Addrs
<1>4. i \in Ending(a)
  BY <1>3 DEF Ending
<1>5. PICK k \in 1 .. Len(vmas) : /\ Scan(a) = vmas[k] /\ a < vmas[k].end
                                  /\ \A j \in 1 .. Len(vmas) : j < k => vmas[j].end <= a
  BY <1>4, ScanFinds
<1>6. ~(i < k)
  BY <1>2, <1>3, <1>5
<1>7. ~(k < i)
  BY <1>2, <1>3, <1>5 DEF Sorted
<1>8. k = i
  BY <1>6, <1>7 DEF TypeOK
<1> QED
  BY <1>5, <1>8

(* What find_vma returns and caches. *)
LEMMA FoundIsScan ==
  ASSUME TypeOK, Sorted, CacheListed, NEW a \in Addrs
  PROVE  Found(a) = Scan(a)
<1>1. CASE cache # None /\ Within(cache, a)
  <2>1. PICK i \in 1 .. Len(vmas) : vmas[i] = cache
    BY <1>1 DEF CacheListed, Listed
  <2>2. Scan(a) = vmas[i]
    BY <1>1, <2>1, ContainingIsFirst
  <2> QED
    BY <1>1, <2>1, <2>2 DEF Found
<1>2. CASE ~(cache # None /\ Within(cache, a))
  BY <1>2 DEF Found
<1> QED
  BY <1>1, <1>2

(* The remembered area is one of the list. *)
LEMMA CachedListed ==
  ASSUME TypeOK, Sorted, CacheListed, NEW a \in Addrs
  PROVE  /\ Cached(a) \in Vmas \cup {None}
         /\ Cached(a) # None => Listed(Cached(a))
<1>1. Found(a) = Scan(a)
  BY FoundIsScan
<1>2. Scan(a) \in Vmas \cup {None} /\ (Scan(a) # None => Listed(Scan(a)))
  BY ScanType
<1> QED
  BY <1>1, <1>2 DEF Cached, CacheListed, TypeOK

-----------------------------------------------------------------------------
(* insert_vma_struct finds a place. *)
LEMMA PositionFinds ==
  ASSUME TypeOK, NEW v \in Vmas
  PROVE  /\ Position(v) \in 1 .. Len(vmas) + 1
         /\ \A i \in 1 .. Position(v) - 1 : vmas[i].start <= v.start
         /\ Position(v) <= Len(vmas) => vmas[Position(v)].start > v.start
<1> DEFINE Later == {k \in 1 .. Len(vmas) + 1 : k <= Len(vmas) => vmas[k].start > v.start}
           Fits(k) == /\ \A i \in 1 .. k - 1 : vmas[i].start <= v.start
                      /\ k <= Len(vmas) => vmas[k].start > v.start
<1>1. Len(vmas) \in Nat
  BY DEF TypeOK
<1>2. Len(vmas) + 1 \in Later
  BY <1>1
<1>3. PICK k \in Later : \A j \in Later : k <= j
  <2>1. Later \in SUBSET Nat /\ Later # {}
    BY <1>1, <1>2
  <2> HIDE DEF Later
  <2> QED
    BY <2>1, LeastNat
<1>4. \A i \in 1 .. Len(vmas) : vmas[i].start \in Nat
  <2>1. \A i \in 1 .. Len(vmas) : vmas[i] \in Vmas
    BY DEF TypeOK
  <2> QED
    BY <2>1, VmaFields
<1>5. k \in 1 .. Len(vmas) + 1 /\ Fits(k)
  <2>1. ASSUME NEW i \in 1 .. k - 1
        PROVE  vmas[i].start <= v.start
    <3>1. i \in 1 .. Len(vmas) /\ i \notin Later
      BY <1>1, <1>3
    <3> QED
      BY <1>4, <3>1, VmaFields
  <2> QED
    BY <1>3, <2>1
<1>6. Position(v) = CHOOSE j \in 1 .. Len(vmas) + 1 : Fits(j)
  BY DEF Position
<1>7. Position(v) \in 1 .. Len(vmas) + 1 /\ Fits(Position(v))
  <2> HIDE DEF Fits
  <2> QED
    BY <1>5, <1>6
<1> QED
  BY <1>7

(* The list after the insertion. *)
Inserted(v) == SubSeq(vmas, 1, Position(v) - 1) \o <<v>> \o SubSeq(vmas, Position(v), Len(vmas))

(* The list after insert_vma_struct, place by place. *)
LEMMA InsertedAt ==
  ASSUME TypeOK, NEW v \in Vmas, NEW k \in 1 .. Len(vmas) + 1, k = Position(v)
  PROVE  /\ Inserted(v) \in Seq(Vmas)
         /\ Len(Inserted(v)) = Len(vmas) + 1
         /\ \A i \in 1 .. Len(vmas) + 1 :
              Inserted(v)[i] = IF i < k THEN vmas[i] ELSE IF i = k THEN v ELSE vmas[i - 1]
<1>1. vmas \in Seq(Vmas) /\ Len(vmas) \in Nat
  BY DEF TypeOK
<1> DEFINE s == SubSeq(vmas, 1, k - 1)
           t == SubSeq(vmas, k, Len(vmas))
<1>2. s \in Seq(Vmas) /\ Len(s) = k - 1 /\ \A i \in 1 .. k - 1 : s[i] = vmas[i]
  BY <1>1
<1>3. t \in Seq(Vmas) /\ Len(t) = Len(vmas) - k + 1
      /\ \A i \in 1 .. Len(vmas) - k + 1 : t[i] = vmas[k + i - 1]
  BY <1>1
<1> DEFINE u == s \o <<v>>
<1>4. Inserted(v) = u \o t
  BY DEF Inserted
<1>5. u \in Seq(Vmas) /\ Len(u) = k
      /\ \A i \in 1 .. k : u[i] = IF i < k THEN vmas[i] ELSE v
  <2> HIDE DEF s
  <2> QED
    BY <1>2
<1> HIDE DEF s, t, u
<1>6. Inserted(v) \in Seq(Vmas) /\ Len(Inserted(v)) = Len(vmas) + 1
  BY <1>1, <1>3, <1>4, <1>5
<1>7. ASSUME NEW i \in 1 .. Len(vmas) + 1
      PROVE  Inserted(v)[i] = IF i < k THEN vmas[i] ELSE IF i = k THEN v ELSE vmas[i - 1]
  <2>1. CASE i <= k
    BY <1>3, <1>4, <1>5, <2>1
  <2>2. CASE i > k
    <3>1. PICK d \in 1 .. Len(vmas) - k + 1 : d = i - k /\ k + d - 1 = i - 1
      <4>1. i - k \in 1 .. Len(vmas) - k + 1 /\ k + (i - k) - 1 = i - 1
        BY <1>1, <2>2
      <4> QED
        BY <4>1
    <3>2. i \in 1 .. Len(u) + Len(t) /\ i > Len(u) /\ i - Len(u) = d
      <4>1. Len(u) = k /\ Len(t) = Len(vmas) - k + 1
        BY <1>3, <1>5
      <4>2. k + (Len(vmas) - k + 1) = Len(vmas) + 1
        BY <1>1
      <4>3. i \in 1 .. Len(u) + Len(t)
        BY <4>1, <4>2
      <4> QED
        BY <2>2, <3>1, <4>1, <4>3
    <3>3. (u \o t)[i] = t[i - Len(u)]
      <4>1. u \in Seq(Vmas) /\ t \in Seq(Vmas)
        BY <1>3, <1>5
      <4> QED
        BY <3>2, <4>1
    <3>4. Inserted(v)[i] = t[d]
      BY <1>4, <3>2, <3>3
    <3>5. t[d] = vmas[i - 1]
      BY <1>3, <3>1
    <3> QED
      BY <2>2, <3>4, <3>5
  <2> QED
    BY <2>1, <2>2
<1> QED
  BY <1>6, <1>7

(* Inserting an area that overlaps none keeps the list sorted. *)
LEMMA InsertedSorted ==
  ASSUME TypeOK, Sorted, NEW v \in Vmas,
         \A i \in 1 .. Len(vmas) : v.end <= vmas[i].start \/ vmas[i].end <= v.start,
         vmas' = Inserted(v)
  PROVE  /\ Sorted' /\ vmas' \in Seq(Vmas)
         /\ \A u : Listed(u) => Listed(u)'
<1>1. PICK k \in 1 .. Len(vmas) + 1 : k = Position(v)
  BY PositionFinds
<1>2. /\ \A i \in 1 .. k - 1 : vmas[i].start <= v.start
      /\ k <= Len(vmas) => vmas[k].start > v.start
  BY <1>1, PositionFinds
<1>3. /\ vmas' \in Seq(Vmas) /\ Len(vmas') = Len(vmas) + 1
      /\ \A i \in 1 .. Len(vmas) + 1 :
           vmas'[i] = IF i < k THEN vmas[i] ELSE IF i = k THEN v ELSE vmas[i - 1]
  BY <1>1, InsertedAt
<1>4. Len(vmas) \in Nat
  BY DEF TypeOK
<1>5. \A i \in 1 .. Len(vmas) :
        vmas[i].start \in Nat /\ vmas[i].end \in Nat /\ vmas[i].start < vmas[i].end
  <2>1. \A i \in 1 .. Len(vmas) : vmas[i] \in Vmas
    BY DEF TypeOK
  <2> QED
    BY <2>1, VmaFields
<1>6. v.start \in Nat /\ v.end \in Nat /\ v.start < v.end
  BY VmaFields
<1>7. \A i \in 1 .. k - 1 : i \in 1 .. Len(vmas) /\ vmas[i].end <= v.start
  <2> SUFFICES ASSUME NEW i \in 1 .. k - 1
               PROVE  i \in 1 .. Len(vmas) /\ vmas[i].end <= v.start
    OBVIOUS
  <2>1. i \in 1 .. Len(vmas)
    BY <1>4
  <2> QED
    BY <1>2, <1>5, <1>6, <2>1
<1>8. \A i \in k .. Len(vmas) : i \in 1 .. Len(vmas) /\ v.end <= vmas[i].start
  <2> SUFFICES ASSUME NEW i \in k .. Len(vmas)
               PROVE  i \in 1 .. Len(vmas) /\ v.end <= vmas[i].start
    OBVIOUS
  <2>1. i \in 1 .. Len(vmas) /\ k \in 1 .. Len(vmas)
    BY <1>4
  <2>2. vmas[k].start > v.start /\ v.end <= vmas[k].start
    BY <1>2, <1>5, <1>6, <2>1
  <2>3. CASE k < i
    <3>1. vmas[k].end <= vmas[i].start
      BY <2>1, <2>3 DEF Sorted
    <3> QED
      BY <1>5, <1>6, <2>1, <2>2, <3>1
  <2>4. CASE ~(k < i)
    <3>1. k = i
      BY <2>1, <2>4
    <3> QED
      BY <2>1, <2>2, <3>1
  <2> QED
    BY <2>3, <2>4
<1>9. Sorted'
  <2> SUFFICES ASSUME NEW i \in 1 .. Len(vmas) + 1, NEW j \in 1 .. Len(vmas) + 1, i < j
               PROVE  vmas'[i].end <= vmas'[j].start
    BY <1>3 DEF Sorted
  <2>1. CASE j < k
    <3>1. vmas'[i] = vmas[i] /\ vmas'[j] = vmas[j] /\ i \in 1 .. Len(vmas) /\ j \in 1 .. Len(vmas)
      BY <1>3, <1>4, <2>1
    <3> QED
      BY <3>1 DEF Sorted
  <2>2. CASE j = k
    <3>1. vmas'[i] = vmas[i] /\ vmas'[j] = v /\ i \in 1 .. k - 1
      BY <1>3, <1>4, <2>2
    <3> QED
      BY <1>7, <3>1
  <2>3. CASE k < j /\ i = k
    <3>1. vmas'[i] = v /\ vmas'[j] = vmas[j - 1] /\ j - 1 \in k .. Len(vmas)
      BY <1>3, <1>4, <2>3
    <3> QED
      BY <1>8, <3>1
  <2>4. CASE k < j /\ i < k
    <3>1. vmas'[i] = vmas[i] /\ vmas'[j] = vmas[j - 1]
      BY <1>3, <1>4, <2>4
    <3>2. i \in 1 .. Len(vmas) /\ j - 1 \in 1 .. Len(vmas) /\ i < j - 1
      BY <1>4, <2>4
    <3> QED
      BY <3>1, <3>2 DEF Sorted
  <2>5. CASE k < j /\ k < i
    <3>1. vmas'[i] = vmas[i - 1] /\ vmas'[j] = vmas[j - 1]
      BY <1>3, <1>4, <2>5
    <3>2. i - 1 \in 1 .. Len(vmas) /\ j - 1 \in 1 .. Len(vmas) /\ i - 1 < j - 1
      BY <1>4, <2>5
    <3> QED
      BY <3>1, <3>2 DEF Sorted
  <2> QED
    BY <1>4, <2>1, <2>2, <2>3, <2>4, <2>5
<1>10. ASSUME NEW u, Listed(u)
       PROVE  Listed(u)'
  <2>1. PICK i \in 1 .. Len(vmas) : vmas[i] = u
    BY <1>10 DEF Listed
  <2>2. CASE i < k
    <3>1. i \in 1 .. Len(vmas') /\ vmas'[i] = u
      BY <1>3, <1>4, <2>1, <2>2
    <3> QED
      BY <3>1 DEF Listed
  <2>3. CASE ~(i < k)
    <3>1. i + 1 \in 1 .. Len(vmas') /\ vmas'[i + 1] = u
      BY <1>3, <1>4, <2>1, <2>3
    <3> QED
      BY <3>1 DEF Listed
  <2> QED
    BY <2>2, <2>3
<1> QED
  BY <1>3, <1>9, <1>10

-----------------------------------------------------------------------------
(* Addresses, pages and entries. *)

(* There is a first page, the one get_pte reads when pgdir is NULL. *)
LEMMA ZeroAddr == 0 \in Addrs
<1>1. PageSize \in Nat \ {0} /\ PageCount \in Nat \ {0}
  BY VmmAssumption
<1>2. PageSize * PageCount \in Nat /\ PageSize * PageCount # 0
  BY <1>1
<1> QED
  BY <1>2 DEF Addrs

(* Every address lies in a page. *)
LEMMA PageType ==
  ASSUME NEW a \in Addrs
  PROVE  PageOf(a) \in PageNos
<1>1. /\ PageSize \in Nat \ {0} /\ PageCount \in Nat \ {0}
      /\ a \in Nat /\ a < PageSize * PageCount
  BY VmmAssumption DEF Addrs
<1>2. PICK q \in Nat, r \in 0 .. PageSize - 1 : a \div PageSize = q /\ a = PageSize * q + r
  BY <1>1
<1>3. PageSize * q < PageSize * PageCount
  BY <1>1, <1>2
<1>4. q < PageCount
  BY <1>1, <1>2, <1>3
<1> QED
  BY <1>1, <1>2, <1>4 DEF PageOf, PageNos

(* The absent entry maps nothing. *)
LEMMA AbsentPte == Absent \notin Ptes
BY VmmAssumption DEF Absent, Ptes

(* What an area list that only grows still backs. *)
LEMMA BackedByMore ==
  ASSUME Backed, page' = page, \A u : Listed(u) => Listed(u)'
  PROVE  Backed'
<1> SUFFICES ASSUME NEW n \in PageNos, page[n] # Absent
             PROVE  \E i \in 1 .. Len(vmas') :
                      /\ \E a \in Addrs : PageOf(a) = n /\ Within(vmas'[i], a)
                      /\ page[n].perm = "w" => "VM_WRITE" \in vmas'[i].flags
  BY DEF Backed
<1>1. PICK i \in 1 .. Len(vmas) :
        /\ \E a \in Addrs : PageOf(a) = n /\ Within(vmas[i], a)
        /\ page[n].perm = "w" => "VM_WRITE" \in vmas[i].flags
  BY DEF Backed
<1>2. \E j \in 1 .. Len(vmas') : vmas'[j] = vmas[i]
  <2>1. PICK u : u = vmas[i]
    OBVIOUS
  <2>2. Listed(u)'
    BY <2>1 DEF Listed
  <2> QED
    BY <2>1, <2>2 DEF Listed
<1> QED
  BY <1>1, <1>2

-----------------------------------------------------------------------------
(* The inductive invariant. *)

(* Without an mm there is nothing to keep. *)
LEMMA InitIInv == Init => IInv
<1> SUFFICES ASSUME Init PROVE IInv
  OBVIOUS
<1>1. 0 \in Addrs
  BY ZeroAddr
<1>2. TypeOK
  <2>1. <<>> \in Seq(Vmas)
    OBVIOUS
  <2>2. [addr |-> 0, kind |-> "read"] \in [addr : Addrs, kind : Kinds]
    BY <1>1 DEF Kinds
  <2>3. [n \in PageNos |-> Absent] \in [PageNos -> Ptes \cup {Absent}]
    OBVIOUS
  <2> QED
    BY <2>1, <2>2, <2>3 DEF Init, TypeOK
<1> QED
  BY <1>2 DEF Init, IInv, Backed, Mapping, Answers

(* The kernel's use of an mm. *)
LEMMA KernelIInv ==
  ASSUME IInv, \/ mm_create
               \/ insert_vma_struct
               \/ find_vma
               \/ mm_destroy
               \/ Attach
               \/ Detach
  PROVE  IInv'
<1>0. /\ TypeOK /\ Backed /\ Mapping /\ Answers /\ (mm # "none" => Sorted /\ CacheListed)
      /\ pc = "run" /\ pc' = "run" /\ access' = access
  BY DEF IInv, mm_create, insert_vma_struct, find_vma, mm_destroy, Attach, Detach, Running
<1>1. Answers'
  BY <1>0 DEF Answers
<1>2. CASE mm_create
  <2>1. /\ mm = "none" /\ mm' = "private" /\ vmas' = <<>> /\ cache' = None /\ pgdir' = FALSE
        /\ UNCHANGED <<page, free>>
    BY <1>2 DEF mm_create
  <2>2. TypeOK'
    <3>1. <<>> \in Seq(Vmas)
      OBVIOUS
    <3>2. vmas' \in Seq(Vmas) /\ mm' \in {"none", "private", "check"}
      BY <2>1, <3>1
    <3> QED
      BY <1>0, <2>1, <3>2 DEF TypeOK
  <2>3. Sorted' /\ CacheListed'
    BY <2>1 DEF Sorted, CacheListed
  <2>4. \A n \in PageNos : page[n] = Absent
    BY <1>0, <2>1 DEF Mapping
  <2>5. Backed' /\ Mapping'
    BY <2>1, <2>4 DEF Backed, Mapping
  <2> QED
    BY <1>1, <2>2, <2>3, <2>5 DEF IInv
<1>3. CASE insert_vma_struct
  <2>1. PICK v \in Vmas :
          /\ \A i \in 1 .. Len(vmas) : v.end <= vmas[i].start \/ vmas[i].end <= v.start
          /\ vmas' = Inserted(v)
    BY <1>3 DEF insert_vma_struct, Inserted
  <2>2. mm # "none" /\ UNCHANGED <<mm, cache, pgdir, page, free>>
    BY <1>3 DEF insert_vma_struct
  <2>3. Sorted' /\ vmas' \in Seq(Vmas) /\ \A u : Listed(u) => Listed(u)'
    BY <1>0, <2>1, <2>2, InsertedSorted
  <2>4. CacheListed'
    <3>1. PICK u : u = cache
      OBVIOUS
    <3> QED
      BY <1>0, <2>2, <2>3, <3>1 DEF CacheListed, Listed
  <2>5. Backed'
    BY <1>0, <2>2, <2>3, BackedByMore
  <2>6. TypeOK' /\ Mapping'
    BY <1>0, <2>2, <2>3 DEF TypeOK, Mapping
  <2> QED
    BY <1>1, <2>3, <2>4, <2>5, <2>6 DEF IInv
<1>4. CASE find_vma
  <2>1. PICK a \in Addrs : cache' = Cached(a)
    BY <1>4 DEF find_vma
  <2>2. mm # "none" /\ UNCHANGED <<mm, vmas, pgdir, page, free>>
    BY <1>4 DEF find_vma
  <2>3. cache' \in Vmas \cup {None} /\ (cache' # None => Listed(cache'))
    BY <1>0, <2>1, <2>2, CachedListed
  <2>4. TypeOK' /\ Sorted' /\ CacheListed'
    BY <1>0, <2>2, <2>3 DEF TypeOK, Sorted, CacheListed, Listed
  <2>5. Backed' /\ Mapping'
    BY <1>0, <2>2 DEF Backed, Mapping
  <2> QED
    BY <1>1, <2>4, <2>5 DEF IInv
<1>5. CASE mm_destroy
  <2>1. mm = "private" /\ mm' = "none" /\ UNCHANGED <<vmas, cache, pgdir, page, free>>
    BY <1>5 DEF mm_destroy
  <2>2. TypeOK' /\ Backed' /\ Mapping'
    BY <1>0, <2>1 DEF TypeOK, Backed, Mapping
  <2> QED
    BY <1>1, <2>1, <2>2 DEF IInv
<1>6. CASE Attach
  <2>1. mm # "none" /\ mm' = "check" /\ pgdir' = TRUE /\ UNCHANGED <<vmas, cache, page, free>>
    BY <1>6 DEF Attach
  <2>2. TypeOK' /\ Backed' /\ Mapping' /\ Sorted' /\ CacheListed'
    BY <1>0, <2>1 DEF TypeOK, Backed, Mapping, Sorted, CacheListed, Listed
  <2> QED
    BY <1>1, <2>2 DEF IInv
<1>7. CASE Detach
  <2>1. /\ mm = "check" /\ page' = [n \in PageNos |-> Absent] /\ pgdir' = FALSE
        /\ UNCHANGED <<mm, vmas, cache, free>>
    BY <1>7 DEF Detach
  <2>2. TypeOK' /\ Backed' /\ Mapping' /\ Sorted' /\ CacheListed'
    BY <1>0, <2>1 DEF TypeOK, Backed, Mapping, Sorted, CacheListed, Listed
  <2> QED
    BY <1>1, <2>2 DEF IInv
<1> QED
  BY <1>2, <1>3, <1>4, <1>5, <1>6, <1>7

(* The processor's part of an access. *)
LEMMA AccessIInv ==
  ASSUME IInv, Access \/ Retry
  PROVE  IInv'
<1>0. /\ TypeOK /\ Backed /\ Mapping /\ Answers /\ (mm # "none" => Sorted /\ CacheListed)
      /\ UNCHANGED <<mm, vmas, cache, pgdir, page, free>>
  BY DEF IInv, Access, Retry
<1>1. (mm' # "none" => Sorted' /\ CacheListed') /\ Backed' /\ Mapping'
  BY <1>0 DEF Sorted, CacheListed, Listed, Backed, Mapping
<1>2. CASE Access
  <2>1. PICK a \in Addrs, kind \in Kinds : Denied(a, kind) /\ access' = [addr |-> a, kind |-> kind]
    BY <1>2 DEF Access
  <2>2. pc' = "fault"
    BY <1>2 DEF Access
  <2>3. TypeOK'
    BY <1>0, <2>1, <2>2 DEF TypeOK
  <2>4. Answers'
    BY <1>0, <2>1, <2>2 DEF Answers, Denied
  <2> QED
    BY <1>1, <2>3, <2>4 DEF IInv
<1>3. CASE Retry
  <2>1. /\ pc' = IF Denied(access.addr, access.kind) THEN "fault" ELSE "run"
        /\ access' = access
    BY <1>3 DEF Retry
  <2>2. TypeOK'
    BY <1>0, <2>1 DEF TypeOK
  <2>3. Answers'
    BY <1>0, <2>1 DEF Answers, Denied
  <2> QED
    BY <1>1, <2>2, <2>3 DEF IInv
<1> QED
  BY <1>2, <1>3

(* The area do_pgfault goes by contains the address, and an area that allows *)
(* the access is found and answers it.                                       *)
LEMMA AreaFound ==
  ASSUME IInv, pc = "fault", mm = "check"
  PROVE  /\ Answerable => /\ Area \in Vmas
                           /\ Within(Area, access.addr) /\ Listed(Area)
         /\ Allows(access.addr, access.kind) => Answerable
<1>0. /\ TypeOK /\ Sorted /\ CacheListed /\ Answers /\ access.addr \in Addrs
      /\ access.kind \in Kinds
  BY DEF IInv, TypeOK
<1>1. PICK a \in Addrs : a = access.addr
  BY <1>0
<1>2. Area = Scan(a)
  BY <1>0, <1>1, FoundIsScan DEF Area
<1>3. Answerable => /\ Area \in Vmas
                    /\ Within(Area, access.addr) /\ Listed(Area)
  <2> SUFFICES ASSUME Answerable
               PROVE  Area \in Vmas /\ Within(Area, a) /\ Listed(Area)
    BY <1>1
  <2>1. Area # None /\ Area.start <= a
    BY <1>1 DEF Answerable
  <2>2. PICK i \in 1 .. Len(vmas) : Scan(a) = vmas[i] /\ a < vmas[i].end
    BY <1>0, <1>2, <2>1, ScanFinds
  <2>3. vmas[i] \in Vmas
    BY <1>0 DEF TypeOK
  <2> QED
    BY <1>2, <2>1, <2>2, <2>3 DEF Within, Listed
<1>4. Allows(access.addr, access.kind) => Answerable
  <2> SUFFICES ASSUME Allows(a, access.kind) PROVE Answerable
    BY <1>1
  <2>1. PICK i \in 1 .. Len(vmas) :
          /\ Within(vmas[i], a)
          /\ vmas[i].flags \cap (IF access.kind = "write" THEN {"VM_WRITE"}
                                                          ELSE {"VM_READ", "VM_EXEC"}) # {}
    BY DEF Allows
  <2>2. Area = vmas[i]
    BY <1>0, <1>2, <2>1, ContainingIsFirst
  <2>3. Area # None /\ Area.start <= a
    <3>1. vmas[i] \in Vmas
      BY <1>0 DEF TypeOK
    <3> QED
      BY <2>1, <2>2, <3>1, VmaFields DEF Within
  <2>4. Permitted(Area)
    <3>1. CASE access.kind = "write"
      BY <2>1, <2>2, <3>1 DEF Permitted
    <3>2. CASE access.kind = "read"
      <4>1. ~Present
        BY <1>0, <3>2 DEF Answers, Present
      <4>2. vmas[i].flags \cap {"VM_READ", "VM_EXEC"} # {}
        BY <2>1, <3>2
      <4> QED
        BY <2>2, <3>2, <4>1, <4>2 DEF Permitted
    <3> QED
      BY <1>0, <3>1, <3>2 DEF Kinds
  <2> QED
    BY <1>1, <2>3, <2>4 DEF Answerable
<1> QED
  BY <1>3, <1>4

(* do_pgfault. *)
LEMMA HandlerIInv ==
  ASSUME IInv, Unanswered \/ Answered \/ Nested
  PROVE  IInv'
<1>0. /\ TypeOK /\ Backed /\ Mapping /\ Answers /\ (mm # "none" => Sorted /\ CacheListed)
      /\ pc = "fault" /\ UNCHANGED <<mm, vmas, pgdir>> /\ Lookup
      /\ access.addr \in Addrs
  BY DEF IInv, TypeOK, Unanswered, Answered, Nested, Handling
<1>1. /\ cache' \in Vmas \cup {None}
      /\ mm' # "none" => Sorted' /\ CacheListed'
  <2>1. CASE mm = "check"
    <3>1. cache' \in Vmas \cup {None} /\ (cache' # None => Listed(cache'))
      BY <1>0, <2>1, CachedListed DEF Lookup
    <3> QED
      BY <1>0, <3>1, <2>1 DEF Sorted, CacheListed, Listed
  <2>2. CASE mm # "check"
    BY <1>0, <2>2 DEF Lookup, TypeOK, Sorted, CacheListed, Listed
  <2> QED
    BY <2>1, <2>2
<1>2. CASE Unanswered
  <2>1. ~Answerable /\ pc' = "panic" /\ UNCHANGED <<page, free, access>>
    BY <1>2 DEF Unanswered
  <2>2. TypeOK' /\ Backed' /\ Mapping'
    BY <1>0, <1>1, <2>1 DEF TypeOK, Backed, Mapping
  <2>3. Answers'
    <3>1. mm = "check" => ~Allows(access.addr, access.kind)
      BY <1>0, <2>1, AreaFound
    <3> QED
      BY <1>0, <2>1, <3>1 DEF Answers, Allows
  <2> QED
    BY <1>1, <2>2, <2>3 DEF IInv
<1>3. CASE Answered
  <2>1. Answerable /\ pgdir /\ mm = "check" /\ pc' = "retry" /\ access' = access
    BY <1>0, <1>3 DEF Answered, Mapping
  <2>2. PICK n \in PageNos : n = PageOf(access.addr)
    BY <1>0, PageType
  <2>3. PICK f \in FrameFor :
          /\ page' = [page EXCEPT ![n] = [frame |-> f, perm |-> PermOf(Area)]]
          /\ free' = free \ {f}
    BY <1>3, <2>2 DEF Answered
  <2>4. f \in Frames \cup {Wild}
    BY <1>0, <2>2, <2>3, AbsentPte DEF FrameFor, Present, TypeOK, Ptes
  <2>5. PICK pte \in Ptes : pte = [frame |-> f, perm |-> PermOf(Area)] /\ pte.perm = PermOf(Area)
    <3>1. [frame |-> f, perm |-> PermOf(Area)] \in Ptes
      BY <2>4 DEF Ptes, PermOf
    <3> QED
      BY <3>1
  <2>6. page' = [page EXCEPT ![n] = pte] /\ page'[n] = pte /\ pte # Absent
    BY <1>0, <2>3, <2>5, AbsentPte DEF TypeOK
  <2>7. TypeOK'
    BY <1>0, <1>1, <2>1, <2>3, <2>6 DEF TypeOK
  <2>8. Mapping'
    BY <1>0, <2>1 DEF Mapping
  <2>9. Area \in Vmas /\ Within(Area, access.addr) /\ Listed(Area)
    BY <1>0, <2>1, AreaFound
  <2>10. Backed'
    <3> SUFFICES ASSUME NEW m \in PageNos, page'[m] # Absent
                 PROVE  \E i \in 1 .. Len(vmas) :
                          /\ \E a \in Addrs : PageOf(a) = m /\ Within(vmas[i], a)
                          /\ page'[m].perm = "w" => "VM_WRITE" \in vmas[i].flags
      BY <1>0 DEF Backed
    <3>1. CASE m = n
      <4>1. PICK i \in 1 .. Len(vmas) : vmas[i] = Area
        BY <2>9 DEF Listed
      <4>2. page'[m].perm = "w" => "VM_WRITE" \in vmas[i].flags
        BY <2>5, <2>6, <3>1, <4>1 DEF PermOf
      <4>3. PageOf(access.addr) = m /\ Within(vmas[i], access.addr)
        BY <2>2, <2>9, <3>1, <4>1
      <4> QED
        BY <1>0, <4>2, <4>3
    <3>2. CASE m # n
      <4>1. page'[m] = page[m]
        BY <1>0, <2>6, <3>2 DEF TypeOK
      <4> QED
        BY <1>0, <4>1 DEF Backed
    <3> QED
      BY <3>1, <3>2
  <2>11. Answers'
    <3>1. access.kind = "write" => pte.perm = "w"
      BY <2>1, <2>5 DEF Answerable, Permitted, PermOf
    <3>2. ~Denied(access.addr, access.kind)'
      BY <2>1, <2>2, <2>6, <3>1 DEF Denied
    <3> QED
      BY <2>1, <3>2 DEF Answers
  <2> QED
    BY <1>1, <2>7, <2>8, <2>10, <2>11 DEF IInv
<1>4. CASE Nested
  <2>1. /\ ~pgdir /\ access' = [addr |-> 0, kind |-> "read"] /\ pc' \in {"overflow", "fault"}
        /\ UNCHANGED <<page, free>>
    BY <1>4 DEF Nested
  <2>2. 0 \in Addrs
    BY ZeroAddr
  <2>3. [addr |-> 0, kind |-> "read"] \in [addr : Addrs, kind : Kinds]
    BY <2>2 DEF Kinds
  <2>4. TypeOK'
    BY <1>0, <1>1, <2>1, <2>3 DEF TypeOK
  <2>5. Backed' /\ Mapping'
    BY <1>0, <2>1 DEF Backed, Mapping
  <2>6. page[PageOf(0)] = Absent
    BY <1>0, <2>1, <2>2, PageType DEF Mapping
  <2>7. Answers'
    BY <2>1, <2>6 DEF Answers
  <2> QED
    BY <1>1, <2>4, <2>5, <2>7 DEF IInv
<1> QED
  BY <1>2, <1>3, <1>4

(* Every step keeps the inductive invariant. *)
LEMMA NextIInv == IInv /\ [Next]_vars => IInv'
<1> SUFFICES ASSUME IInv, [Next]_vars PROVE IInv'
  OBVIOUS
<1>1. CASE UNCHANGED vars
  BY <1>1 DEF vars, IInv, TypeOK, Sorted, CacheListed, Listed, Backed, Mapping, Answers,
              Allows, Denied
<1>2. CASE Next
  BY <1>2, KernelIInv, AccessIInv, HandlerIInv DEF Next
<1> QED
  BY <1>1, <1>2

(* In every reachable state. *)
LEMMA AlwaysIInv == Spec => []IInv
<1> QED
  BY InitIInv, NextIInv, PTL DEF Spec

-----------------------------------------------------------------------------
(* Every variable keeps its kind: the list only holds areas, the tables only *)
(* entries.                                                                  *)
THEOREM TypeCorrect == Spec => []TypeOK
<1>1. IInv => TypeOK
  BY DEF IInv
<1> QED
  BY <1>1, AlwaysIInv, PTL

(* find_vma answers the same whatever its cache holds, through insertions,   *)
(* lookups, faults and the reuse of an mm.                                   *)
THEOREM CacheIsTransparent == Spec => []CacheTransparent
<1>1. IInv => CacheTransparent
  BY FoundIsScan DEF IInv, CacheTransparent
<1> QED
  BY <1>1, AlwaysIInv, PTL

(* do_pgfault panics only on accesses no area allows, an access it has       *)
(* answered does not fault again, and no page gets rights of no area.        *)
THEOREM FaultsAnswered == Spec => []AnsweredByAreas
<1>1. IInv => AnsweredByAreas
  BY DEF IInv, AnsweredByAreas, Answers, Backed
<1> QED
  BY <1>1, AlwaysIInv, PTL

-----------------------------------------------------------------------------
(* Frames: one that backs a page is not free, and backs no other.            *)
FramesOnce ==
  /\ \A n \in PageNos : page[n] # Absent => page[n].frame \notin free
  /\ \A n, m \in PageNos :
       page[n] # Absent /\ page[n].frame = page[m].frame /\ page[n].frame # Wild => n = m

(* What a step does to pages already mapped.                                 *)
Keeps == \A n \in PageNos : page[n] # Absent /\ pgdir' => page'[n].frame = page[n].frame

(* The frame do_pgfault maps is the page's own, or a free one, or Wild: no    *)
(* other page has it.                                                         *)
LEMMA AnsweredOnce ==
  ASSUME IInv, FramesOnce, Answered
  PROVE  FramesOnce' /\ Keeps
<1>0. TypeOK /\ access.addr \in Addrs
  BY DEF IInv, TypeOK
<1>1. PICK n \in PageNos : n = PageOf(access.addr)
  BY <1>0, PageType
<1>2. PICK f \in FrameFor :
        /\ page' = [page EXCEPT ![n] = [frame |-> f, perm |-> PermOf(Area)]]
        /\ free' = free \ {f}
  BY <1>1 DEF Answered
<1>3. /\ page'[n].frame = f
      /\ \A m \in PageNos : m # n => page'[m] = page[m]
  BY <1>0, <1>2 DEF TypeOK
<1>4. /\ page[n] # Absent => f = page[n].frame
      /\ page[n] = Absent => f \in free \/ f = Wild
  BY <1>1, <1>2 DEF FrameFor, Present
<1>5. /\ Wild \notin free /\ None # Wild /\ None \notin free
      /\ \A m \in PageNos : page[m] = Absent => page[m].frame = None
      /\ \A m \in PageNos : page[m] # Absent => page[m].frame \in Frames \cup {Wild}
  BY <1>0, VmmAssumption DEF TypeOK, Ptes, Absent
<1>6. f \in Frames \cup {Wild} /\ f # None /\ f \notin free'
  <2>1. f \in Frames \cup {Wild}
    BY <1>0, <1>4, <1>5 DEF TypeOK
  <2> QED
    BY <1>2, <2>1, VmmAssumption
<1>7. ASSUME NEW m \in PageNos, m # n, page[m] # Absent
      PROVE  page[m].frame # f \/ f = Wild
  BY <1>4, <1>7 DEF FramesOnce
<1>8. ASSUME NEW m \in PageNos, page'[m] # Absent
      PROVE  page'[m].frame \notin free'
  BY <1>2, <1>3, <1>6, <1>8 DEF FramesOnce
<1>9. ASSUME NEW m \in PageNos, NEW k \in PageNos, page'[m] # Absent,
             page'[m].frame = page'[k].frame, page'[m].frame # Wild
      PROVE  m = k
  <2>1. CASE m = n
    BY <1>3, <1>5, <1>6, <1>7, <1>9, <2>1
  <2>2. CASE k = n /\ m # n
    BY <1>3, <1>7, <1>9, <2>2
  <2>3. CASE k # n /\ m # n
    BY <1>3, <1>9, <2>3 DEF FramesOnce
  <2> QED
    BY <2>1, <2>2, <2>3
<1>10. Keeps
  BY <1>3, <1>4 DEF Keeps
<1> QED
  BY <1>8, <1>9, <1>10 DEF FramesOnce

(* No other step maps a page or takes a frame.                               *)
LEMMA FramesStep ==
  ASSUME IInv, FramesOnce, [Next]_vars
  PROVE  FramesOnce' /\ Keeps
<1>1. CASE Answered
  BY <1>1, AnsweredOnce
<1>2. CASE page' = page /\ free' = free
  BY <1>2 DEF FramesOnce, Keeps
<1>3. CASE Detach
  <2>1. page' = [n \in PageNos |-> Absent] /\ ~pgdir'
    BY <1>3 DEF Detach
  <2> QED
    BY <2>1 DEF FramesOnce, Keeps
<1> QED
  BY <1>1, <1>2, <1>3
  DEF Next, vars, mm_create, insert_vma_struct, find_vma, mm_destroy, Attach, Access,
      Retry, Unanswered, Nested

(* A fault on a page that is present keeps its frame, so that data survives a *)
(* change of rights, and alloc_page's frames back one page each: Wild, the    *)
(* frame of a failed allocation, alone may be mapped twice.                   *)
THEOREM FramesAlwaysKept == Spec => FramesKept
<1>1. Init => FramesOnce
  BY DEF Init, FramesOnce
<1>2. IInv /\ FramesOnce /\ [Next]_vars => FramesOnce'
  BY FramesStep
<1>3. IInv /\ FramesOnce /\ [Next]_vars =>
        [/\ \A n \in PageNos : page[n] # Absent /\ pgdir' => page'[n].frame = page[n].frame
         /\ \A n, m \in PageNos :
              page'[n] # Absent /\ page'[n].frame = page'[m].frame /\ page'[n].frame # Wild
                => n = m]_vars
  BY FramesStep DEF FramesOnce, Keeps
<1> QED
  BY <1>1, <1>2, <1>3, AlwaysIInv, PTL DEF Spec, FramesKept
=============================================================================

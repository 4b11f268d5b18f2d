-------------------------------- MODULE Vmm --------------------------------
(***************************************************************************)
(* Virtual memory areas and demand paging (kern/mm/vmm.c): the sorted list  *)
(* of areas of an mm_struct with its one-entry cache, and do_pgfault, which *)
(* the page fault exception enters with the mm of check_mm_struct.          *)
(*                                                                         *)
(* The page tables are the flat map that module Paging shows them to be;    *)
(* addresses count units smaller than a page, since areas need not begin or *)
(* end on a page boundary.                                                  *)
(***************************************************************************)
EXTENDS Naturals, Sequences

CONSTANTS
  PageSize, PageCount,  \* addresses are 0 .. PageSize * PageCount - 1
  Flags,      \* the sets of flags an area may have
  MaxVmas,    \* bound: areas of one mm
  Frames,     \* the frames alloc_page may hand out
  Wild,       \* the frame that page2pa makes of NULL
  None        \* no area, no frame

Addrs == 0 .. PageSize * PageCount - 1
PageNos == 0 .. PageCount - 1
PageOf(a) == a \div PageSize

Vmas == {v \in [start : Addrs, end : 1 .. PageSize * PageCount, flags : Flags] :
           v.start < v.end}
Kinds == {"read", "write"}
Ptes == [frame : Frames \cup {Wild}, perm : {"r", "w"}]
Absent == [frame |-> None, perm |-> "none"]

ASSUME VmmAssumption ==
  /\ PageSize \in Nat \ {0} /\ PageCount \in Nat \ {0} /\ MaxVmas \in Nat
  /\ Flags \subseteq SUBSET {"VM_READ", "VM_WRITE", "VM_EXEC"}
  /\ None \notin Frames \cup {Wild} /\ Wild \notin Frames
  /\ None \notin Vmas

VARIABLES
  mm,       \* "none", "private" to its creator, or "check": check_mm_struct
  vmas,     \* mm->mmap_list
  cache,    \* mm->mmap_cache
  pgdir,    \* whether mm->pgdir is set, to boot_pgdir
  page,     \* what boot_pgdir maps a page to
  free,     \* the frames of the page allocator
  pc,       \* "run", "fault" entered, "retry" after it, "panic", "overflow"
  access    \* the access that faulted

vars == <<mm, vmas, cache, pgdir, page, free, pc, access>>

Init ==
  /\ mm = "none" /\ vmas = <<>> /\ cache = None /\ pgdir = FALSE
  /\ page = [n \in PageNos |-> Absent]
  /\ free = Frames
  /\ pc = "run" /\ access = [addr |-> 0, kind |-> "read"]

-----------------------------------------------------------------------------
(* An area ends before its vm_end (vmm.c:38, 46; the comment at vmm.c:30      *)
(* counts vm_end in).                                                         *)
Within(v, a) == v.start <= a /\ a < v.end

(* Mistake: the end of an area belongs to it, as the comment of find_vma has  *)
(* it.                                                                       *)
Ending_Closed(a) == {i \in 1 .. Len(vmas) : a <= vmas[i].end}

(* The loop of find_vma stops at the first area that ends after a, whether   *)
(* or not it has begun by a.                                                 *)
Ending(a) == {i \in 1 .. Len(vmas) : a < vmas[i].end}

Scan(a) ==
  IF Ending(a) = {} THEN None
  ELSE vmas[CHOOSE i \in Ending(a) : \A j \in Ending(a) : i <= j]

(* find_vma's result and the cache it leaves. *)
Found(a) == IF cache # None /\ Within(cache, a) THEN cache ELSE Scan(a)
Cached(a) == IF Found(a) # None THEN Found(a) ELSE cache

(* Mistake: the loop stops behind the first area with a later start. *)
Position_Late(v) == Len(vmas) + 1

(* insert_vma_struct's place in the list: before the first area that starts  *)
(* after v.                                                                  *)
Position(v) ==
  CHOOSE k \in 1 .. Len(vmas) + 1 :
    /\ \A i \in 1 .. k - 1 : vmas[i].start <= v.start
    /\ k <= Len(vmas) => vmas[k].start > v.start

-----------------------------------------------------------------------------
(* Kernel code building and using an mm. *)
Running == pc = "run" /\ UNCHANGED <<pc, access>>

mm_create ==
  /\ Running /\ mm = "none"
  /\ mm' = "private" /\ vmas' = <<>> /\ cache' = None /\ pgdir' = FALSE
  /\ UNCHANGED <<page, free>>

(* Areas do not overlap: nothing checks it, every caller keeps to it.        *)
insert_vma_struct ==
  /\ Running /\ mm # "none" /\ Len(vmas) < MaxVmas
  /\ \E v \in Vmas :
       /\ \A i \in 1 .. Len(vmas) : v.end <= vmas[i].start \/ vmas[i].end <= v.start
       /\ vmas' = SubSeq(vmas, 1, Position(v) - 1) \o <<v>>
                    \o SubSeq(vmas, Position(v), Len(vmas))
  /\ UNCHANGED <<mm, cache, pgdir, page, free>>

find_vma ==
  /\ Running /\ mm # "none"
  /\ \E a \in Addrs : cache' = Cached(a)
  /\ UNCHANGED <<mm, vmas, pgdir, page, free>>

(* check_vma_struct: the areas and the mm are freed, their contents stay.    *)
mm_destroy ==
  /\ Running /\ mm = "private"
  /\ mm' = "none"
  /\ UNCHANGED <<vmas, cache, pgdir, page, free>>

(* check_pgfault: check_mm_struct = mm and mm->pgdir = boot_pgdir ...        *)
Attach ==
  /\ Running /\ ~pgdir /\ mm # "none"
  /\ mm' = "check" /\ pgdir' = TRUE
  /\ UNCHANGED <<vmas, cache, page, free>>

(* ... and at its end the pages are removed, not freed, and pgdir is NULL.   *)
Detach ==
  /\ Running /\ mm = "check" /\ pgdir
  /\ page' = [n \in PageNos |-> Absent] /\ pgdir' = FALSE
  /\ UNCHANGED <<mm, vmas, cache, free>>

-----------------------------------------------------------------------------
(* The processor: a read of a present page and a write of a writable one     *)
(* succeed (enable_paging sets CR0.WP, so it holds for the kernel as well).  *)
Denied(a, kind) ==
  LET pte == page[PageOf(a)]
  IN pte = Absent \/ (kind = "write" /\ pte.perm # "w")

Access ==
  /\ pc = "run" /\ pc' = "fault"
  /\ \E a \in Addrs, kind \in Kinds :
       Denied(a, kind) /\ access' = [addr |-> a, kind |-> kind]
  /\ UNCHANGED <<mm, vmas, cache, pgdir, page, free>>

(* The instruction that faulted runs again. *)
Retry ==
  /\ pc = "retry"
  /\ pc' = IF Denied(access.addr, access.kind) THEN "fault" ELSE "run"
  /\ UNCHANGED <<mm, vmas, cache, pgdir, page, free, access>>

-----------------------------------------------------------------------------
(* do_pgfault, for the exception of access. *)
Handling == pc = "fault" /\ UNCHANGED <<mm, vmas, pgdir>>

Area == IF mm = "check" THEN Found(access.addr) ELSE None

Present == page[PageOf(access.addr)] # Absent

(* The switch on the error code. *)
Permitted(v) ==
  IF access.kind = "write" THEN "VM_WRITE" \in v.flags
  ELSE ~Present /\ v.flags \cap {"VM_READ", "VM_EXEC"} # {}

Answerable == Area # None /\ Area.start <= access.addr /\ Permitted(Area)

Lookup == cache' = IF mm = "check" THEN Cached(access.addr) ELSE cache

(* trap_dispatch panics when do_pgfault fails. *)
Unanswered ==
  /\ Handling /\ ~Answerable
  /\ pc' = "panic" /\ Lookup
  /\ UNCHANGED <<page, free, access>>

(* Mistake: a page that is present is replaced as well. *)
FrameFor_Fresh == IF free # {} THEN free ELSE {Wild}

(* pte2page of a present entry, else alloc_page, whose NULL is not noticed.  *)
FrameFor ==
  IF Present THEN {page[PageOf(access.addr)].frame}
  ELSE IF free # {} THEN free ELSE {Wild}

PermOf(v) == IF "VM_WRITE" \in v.flags THEN "w" ELSE "r"

Answered ==
  /\ Handling /\ Answerable /\ pgdir
  /\ pc' = "retry" /\ Lookup
  /\ \E f \in FrameFor :
       /\ page' = [page EXCEPT ![PageOf(access.addr)] =
                     [frame |-> f, perm |-> PermOf(Area)]]
       /\ free' = free \ {f}
  /\ UNCHANGED access

(* With pgdir NULL get_pte reads the first page: a page fault within the     *)
(* page fault, which repeats until the stack is used up if it ends the same. *)
Nested ==
  /\ Handling /\ Answerable /\ ~pgdir
  /\ Lookup
  /\ access' = [addr |-> 0, kind |-> "read"]
  /\ pc' = IF access' = access THEN "overflow" ELSE "fault"
  /\ UNCHANGED <<page, free>>

Next ==
  \/ mm_create \/ insert_vma_struct \/ find_vma \/ mm_destroy \/ Attach \/ Detach
  \/ Access \/ Retry
  \/ Unanswered \/ Answered \/ Nested

Spec == Init /\ [][Next]_vars

-----------------------------------------------------------------------------
(* Every variable holds a value of its kind. *)
TypeOK ==
  /\ mm \in {"none", "private", "check"}
  /\ vmas \in Seq(Vmas)
  /\ cache \in Vmas \cup {None}
  /\ pgdir \in BOOLEAN
  /\ page \in [PageNos -> Ptes \cup {Absent}]
  /\ free \subseteq Frames
  /\ pc \in {"run", "fault", "retry", "panic", "overflow"}
  /\ access \in [addr : Addrs, kind : Kinds]

(* The cache of find_vma changes no answer: whatever was looked up and       *)
(* inserted before, the areas found are those an empty cache would give.     *)
CacheTransparent == mm # "none" => \A a \in Addrs : Found(a) = Scan(a)

(* The area, if any, that allows an access.  Its vm_end is behind it, as the  *)
(* tests of find_vma and do_pgfault have it; the comment of find_vma          *)
(* (vmm.c:30) has "addr <= vma_vm_end".                                       *)
Allows(a, kind) ==
  \E i \in 1 .. Len(vmas) :
    /\ Within(vmas[i], a)
    /\ vmas[i].flags \cap (IF kind = "write" THEN {"VM_WRITE"} ELSE {"VM_READ", "VM_EXEC"}) # {}

(* do_pgfault answers by the areas: an access that one allows never ends in  *)
(* a panic, one that has been answered does not fault again, and a page can  *)
(* be written only if it meets a writable area.                              *)
AnsweredByAreas ==
  /\ pc = "panic" /\ mm = "check" => ~Allows(access.addr, access.kind)
  /\ pc = "retry" => ~Denied(access.addr, access.kind)
  /\ \A n \in PageNos : page[n] # Absent =>
       \E i \in 1 .. Len(vmas) :
         /\ \E a \in Addrs : PageOf(a) = n /\ Within(vmas[i], a)
         /\ page[n].perm = "w" => "VM_WRITE" \in vmas[i].flags

(* A fault on a page that is present keeps its frame, and with it the data,  *)
(* and no frame backs two pages.                                             *)
FramesKept ==
  [][/\ \A n \in PageNos : page[n] # Absent /\ pgdir' => page'[n].frame = page[n].frame
     /\ \A n, m \in PageNos :
          page'[n] # Absent /\ page'[n].frame = page'[m].frame /\ page'[n].frame # Wild
            => n = m]_vars
=============================================================================

------------------------------- MODULE Paging -------------------------------
(***************************************************************************)
(* The page tables of sharix (kern/mm/pmm.c) and the TLB of the processor   *)
(* they are read through: the boot sequence of pmm_init and the self tests  *)
(* that edit boot_pgdir, then get_pte, page_insert and page_remove as       *)
(* kernel code may call them.                                               *)
(*                                                                         *)
(* A linear page is <<d, s>>: the entry d of the directory and the slot s   *)
(* of the table it points to.  The TLB may take up any translation that the *)
(* tables hold while paging is on, and may forget any, at any moment: also  *)
(* between a store to a table and the invlpg that follows it, so each of    *)
(* these is a step of its own.  get_pte and the first store of a call are   *)
(* one: the table get_pte makes is cleared before the directory names it.   *)
(***************************************************************************)
CONSTANTS
  Low,      \* the directory entry of linear address 0
  Kern,     \* that of KERNBASE
  Dirs,     \* the directory entries kernel code may use after boot
  Slots,    \* the slots of a table
  First, Second,  \* the slots of the pages at offsets 0 and PGSIZE
  Frames,   \* the frames the page allocator hands out
  Kernel,   \* the physical memory the kernel itself lies in
  None      \* no frame, no table

Perms == {"r", "w"}
Entries == [frame : Frames \cup {Kernel}, perm : Perms]
Absent == [frame |-> None, perm |-> "none"]
AllDirs == Dirs \cup {Low, Kern}
Pages == AllDirs \X Slots

ASSUME PagingAssumption ==
  /\ Low \notin Dirs /\ Kern \notin Dirs /\ Low # Kern
  /\ First \in Slots /\ Second \in Slots /\ First # Second
  /\ None \notin Frames /\ Kernel \notin Frames /\ Kernel # None

VARIABLES
  pc,      \* how far pmm_init and check_vmm are
  pde,     \* boot_pgdir: the table frame of an entry, None if not present
  table,   \* the contents of every frame, read as a page table; Junk where
           \* the frame is none
  tlb,     \* the translation cached for a page, Absent if none
  free,    \* the frames of the page allocator
  held,    \* the frames kernel code got from alloc_page and has not freed
  test,    \* the frame the self test under way got, None if none
  edit     \* the page_insert or page_remove under way: its page, the entry
           \* it has still to store and its next step

vars == <<pc, pde, table, tlb, free, held, test, edit>>

Zeroed == [s \in Slots |-> Absent]
Editing(p, e, step) == [page |-> p, entry |-> e, step |-> step]
Edits == [page : Pages, entry : Entries \cup {Absent},
          step : {"none", "invlpg_removed", "store", "invlpg"}]
NoEdit == Editing(<<Low, First>>, Absent, "none")
Junk == [s \in Slots |-> [frame |-> Kernel, perm |-> "w"]]

Init ==
  /\ pc = "check_pgdir"
  /\ pde = [d \in AllDirs |-> None]
  /\ table = [f \in Frames |-> Junk]
  /\ tlb = [p \in Pages |-> Absent]
  /\ free = Frames
  /\ held = {}
  /\ test = None
  /\ edit = NoEdit

-----------------------------------------------------------------------------
(* The walk of the processor. *)
Lookup(p) == IF pde[p[1]] = None THEN Absent ELSE table[pde[p[1]]][p[2]]

PagingOn == pc \notin {"check_pgdir", "map", "enable"}

(* Mistake: cr3 is compared with the linear address of the directory, which  *)
(* it never is.                                                              *)
Invalidated_Never(p) == tlb

(* tlb_invalidate: invlpg if the directory is the one in cr3, which it is    *)
(* from enable_paging on.                                                    *)
Invalidated(p) == IF PagingOn THEN [tlb EXCEPT ![p] = Absent] ELSE tlb

(* get_pte: the table of entry d, or one free frame, cleared, in its place.  *)
TableFor(d) == IF pde[d] # None THEN {pde[d]} ELSE free

(* Mistake: the new table is not cleared. *)
Contents_Dirty(d, t) == table[t]

(* Mistake: the table is cleared whether it is new or not. *)
Contents_Cleared(d, t) == Zeroed

(* What the table holds before the write: a new one is cleared by memset.    *)
Contents(d, t) == IF pde[d] # None THEN table[t] ELSE Zeroed

(* get_pte's effect, and that of writing entry e to the slot it returns.     *)
Store(p, e, from) ==
  \E t \in TableFor(p[1]) \ from :
    /\ pde' = [pde EXCEPT ![p[1]] = t]
    /\ table' = [table EXCEPT ![t] = [Contents(p[1], t) EXCEPT ![p[2]] = e]]
    /\ free' = free \ ({t} \cup from)

(* page_insert, of a frame that was free or already in use: an entry that    *)
(* names another frame is removed first.                                     *)
page_insert(p, f, perm, from) ==
  /\ UNCHANGED tlb
  /\ LET e == [frame |-> f, perm |-> perm] IN
       \/ /\ Lookup(p).frame \in {None, f}
          /\ Store(p, e, from)
          /\ edit' = Editing(p, Absent, "invlpg")
       \/ /\ Lookup(p).frame \notin {None, f}
          /\ Store(p, Absent, from)
          /\ edit' = Editing(p, e, "invlpg_removed")

(* page_remove: get_pte makes the table if there is none; the frame the      *)
(* entry named stays allocated.                                              *)
page_remove(p) ==
  /\ UNCHANGED tlb
  /\ Store(p, Absent, {})
  /\ edit' = IF Lookup(p) # Absent THEN Editing(p, Absent, "invlpg") ELSE edit

(* The steps of a call after its first store. *)
During(step) == edit.step = step /\ UNCHANGED <<pc, held, test>>

invlpg_removed ==
  /\ During("invlpg_removed")
  /\ tlb' = Invalidated(edit.page)
  /\ edit' = [edit EXCEPT !.step = "store"]
  /\ UNCHANGED <<pde, table, free>>

store ==
  /\ During("store")
  /\ Store(edit.page, edit.entry, {})
  /\ edit' = Editing(edit.page, Absent, "invlpg")
  /\ UNCHANGED tlb

invlpg ==
  /\ During("invlpg")
  /\ tlb' = Invalidated(edit.page)
  /\ edit' = NoEdit
  /\ UNCHANGED <<pde, table, free>>

(* Between calls. *)
Idle == edit = NoEdit

(* free_page(pa2page(boot_pgdir[Low])); boot_pgdir[Low] = 0: nothing of the   *)
(* TLB is dropped.                                                           *)
DropTable(alsoFree) ==
  /\ free' = free \cup {pde[Low]} \cup alsoFree
  /\ pde' = [pde EXCEPT ![Low] = None]
  /\ table' = [table EXCEPT ![pde[Low]] = Junk]
  /\ UNCHANGED <<tlb, edit>>

-----------------------------------------------------------------------------
(* pmm_init.  check_pgdir, before paging: two frames are inserted, removed   *)
(* and never freed; the table they were entered in is freed again.           *)
check_pgdir ==
  /\ pc = "check_pgdir" /\ pc' = "map"
  /\ \E p1, p2 \in free : p1 # p2 /\ free' = free \ {p1, p2}
  /\ UNCHANGED <<pde, table, tlb, held, test, edit>>

(* map_physical_memory, and the alias of its table at linear address 0.      *)
map_physical_memory ==
  /\ pc = "map" /\ pc' = "enable"
  /\ \E t \in free :
       /\ pde' = [pde EXCEPT ![Kern] = t, ![Low] = t]
       /\ table' = [table EXCEPT ![t] =
                      [s \in Slots |-> [frame |-> Kernel, perm |-> "w"]]]
       /\ free' = free \ {t}
  /\ UNCHANGED <<tlb, held, test, edit>>

enable_paging ==
  /\ pc = "enable" /\ pc' = "aliased"
  /\ UNCHANGED <<pde, table, tlb, free, held, test, edit>>

(* boot_pgdir[0] = 0 after gdt_init. *)
DropAlias ==
  /\ pc = "aliased" /\ pc' = "check_boot"
  /\ pde' = [pde EXCEPT ![Low] = None]
  /\ UNCHANGED <<table, tlb, free, held, test, edit>>

(* check_boot_pgdir: one frame is entered at PGSIZE and at 0 and written,    *)
(* then the frame and the table are freed while entered.                     *)
CheckBootAlloc ==
  /\ pc = "check_boot" /\ Idle /\ test = None
  /\ \E f \in free : test' = f /\ page_insert(<<Low, Second>>, f, "w", {f})
  /\ UNCHANGED <<pc, held>>

CheckBootInsert ==
  /\ pc = "check_boot" /\ Idle /\ test # None /\ Lookup(<<Low, First>>) = Absent
  /\ page_insert(<<Low, First>>, test, "w", {})
  /\ UNCHANGED <<pc, held, test>>

CheckBootDone ==
  /\ pc = "check_boot" /\ Idle /\ test # None /\ Lookup(<<Low, First>>) # Absent
  /\ DropTable({test})
  /\ pc' = "check_vmm" /\ test' = None
  /\ UNCHANGED held

(* check_pgfault writes at page 0.  A cached translation takes the write;     *)
(* otherwise it faults, and do_pgfault enters a fresh frame.                  *)
CheckVmmWrite ==
  /\ pc = "check_vmm" /\ Idle /\ pc' = "check_vmm_remove"
  /\ \/ /\ tlb[<<Low, First>>] # Absent
        /\ UNCHANGED <<pde, table, tlb, free, edit>>
     \/ /\ tlb[<<Low, First>>] = Absent
        /\ \E f \in free : page_insert(<<Low, First>>, f, "w", {f})
  /\ UNCHANGED <<held, test>>

CheckVmmRemove ==
  /\ pc = "check_vmm_remove" /\ Idle /\ pc' = "check_vmm_drop"
  /\ page_remove(<<Low, First>>)
  /\ UNCHANGED <<held, test>>

CheckVmmDrop ==
  /\ pc = "check_vmm_drop" /\ Idle /\ pc' = "running"
  /\ DropTable({})
  /\ UNCHANGED <<held, test>>

-----------------------------------------------------------------------------
(* Kernel code after boot, on the entries Dirs.  It inserts frames it has    *)
(* allocated and frees a frame once no page maps it.                         *)
Client == pc = "running" /\ Idle /\ pc' = pc /\ UNCHANGED test

MappedTo(f) == {p \in Pages : Lookup(p).frame = f}

alloc_page ==
  /\ Client
  /\ \E f \in free : free' = free \ {f} /\ held' = held \cup {f}
  /\ UNCHANGED <<pde, table, tlb, edit>>

free_page ==
  /\ Client
  /\ \E f \in held :
       MappedTo(f) = {} /\ free' = free \cup {f} /\ held' = held \ {f}
  /\ UNCHANGED <<pde, table, tlb, edit>>

InsertPage ==
  /\ Client
  /\ \E p \in Dirs \X Slots, f \in held, perm \in Perms : page_insert(p, f, perm, {})
  /\ UNCHANGED held

RemovePage ==
  /\ Client
  /\ \E p \in Dirs \X Slots : page_remove(p)
  /\ UNCHANGED held

(* get_page: the lookup makes a table, too. *)
get_page ==
  /\ Client
  /\ \E p \in Dirs \X Slots : Store(p, Lookup(p), {})
  /\ UNCHANGED <<tlb, held, edit>>

(* get_pte without a free frame takes NULL for a page and goes on.  What the *)
(* address computed from it leads to depends on where the linker ends the    *)
(* kernel: to nothing that is mapped, or into the kernel, which is the end;  *)
(* or to memory in other use, which is cleared and made the table, and the   *)
(* call writes its entry there.  What kernel code does after that call is    *)
(* not followed.                                                             *)
GetPteNoFrame ==
  /\ pc = "running" /\ Idle /\ free = {}
  /\ \E p \in Dirs \X Slots :
       /\ pde[p[1]] = None
       /\ \/ pc' = "fault" /\ UNCHANGED <<pde, table, edit>>
          \/ \E w \in Frames, e \in [frame : held, perm : Perms] \cup {Absent} :
               /\ pc' = "wild"
               /\ pde' = [pde EXCEPT ![p[1]] = w]
               /\ table' = [table EXCEPT ![w] = [Zeroed EXCEPT ![p[2]] = e]]
               /\ edit' = IF e # Absent THEN Editing(p, Absent, "invlpg") ELSE edit
  /\ UNCHANGED <<tlb, free, held, test>>

-----------------------------------------------------------------------------
(* The processor. *)
Fill ==
  /\ PagingOn /\ pc # "fault"
  /\ \E p \in Pages : Lookup(p) # Absent /\ tlb' = [tlb EXCEPT ![p] = Lookup(p)]
  /\ UNCHANGED <<pc, pde, table, free, held, test, edit>>

Evict ==
  /\ pc # "fault"
  /\ \E p \in Pages : tlb[p] # Absent /\ tlb' = [tlb EXCEPT ![p] = Absent]
  /\ UNCHANGED <<pc, pde, table, free, held, test, edit>>

Next ==
  \/ invlpg_removed \/ store \/ invlpg
  \/ check_pgdir \/ map_physical_memory \/ enable_paging \/ DropAlias
  \/ CheckBootAlloc \/ CheckBootInsert \/ CheckBootDone
  \/ CheckVmmWrite \/ CheckVmmRemove \/ CheckVmmDrop
  \/ alloc_page \/ free_page \/ InsertPage \/ RemovePage \/ get_page
  \/ GetPteNoFrame
  \/ Fill \/ Evict

Spec == Init /\ [][Next]_vars

-----------------------------------------------------------------------------
(* Every variable holds a value of its kind. *)
TypeOK ==
  /\ pc \in {"check_pgdir", "map", "enable", "aliased", "check_boot", "check_vmm",
             "check_vmm_remove", "check_vmm_drop", "running", "fault", "wild"}
  /\ pde \in [AllDirs -> Frames \cup {None}]
  /\ table \in [Frames -> [Slots -> Entries \cup {Absent}]]
  /\ tlb \in [Pages -> Entries \cup {Absent}]
  /\ free \subseteq Frames /\ held \subseteq Frames
  /\ test \in Frames \cup {None}
  /\ edit \in Edits

(* Outside the entry the boot code takes back without an invlpg, the TLB      *)
(* says what the tables say, but for the page of the call under way while    *)
(* its invlpg is still to come; and even that translation, read by whoever   *)
(* uses the page at that moment, is of a frame kernel code still holds.       *)
Coherent ==
  pc # "wild" =>
    /\ \A p \in Pages :
         p[1] # Low /\ tlb[p] \notin {Absent, Lookup(p)} =>
           edit.page = p /\ edit.step \in {"invlpg_removed", "invlpg"}
    /\ \A p \in Dirs \X Slots : tlb[p] # Absent => tlb[p].frame \in held

(* No frame serves two purposes: after the alias is dropped no two entries   *)
(* share a table, no table is free or held, and a page kernel code mapped    *)
(* names a frame it holds.  As long as get_pte finds a frame.                *)
FramesExclusive ==
  pc # "wild" =>
    /\ free \cap held = {}
    /\ \A d \in AllDirs : pde[d] # None => pde[d] \notin free \cup held
    /\ pc \notin {"enable", "aliased"} =>
         \A d, e \in AllDirs : pde[d] = pde[e] /\ pde[d] # None => d = e
    /\ \A p \in Dirs \X Slots : Lookup(p) # Absent => Lookup(p).frame \in held

(* vmm.c:216 and pmm.c:249, 265 test what get_pte returns for NULL: memory    *)
(* that has run out is reported to the caller, and no table is made of a     *)
(* frame that is in use.                                                     *)
NoFrameReported ==
  /\ pc # "fault"
  /\ \A d \in AllDirs : pde[d] # None => pde[d] \notin held

(* memlayout.h:62: "The kernel ensures that 'Invalid Memory' is *never*       *)
(* mapped", and linear address 0 is such memory.  Stated for the moment the   *)
(* boot code of pmm_init is over.                                             *)
InvalidUnmapped ==
  pc = "check_vmm" =>
    \A s \in Slots : Lookup(<<Low, s>>) = Absent /\ tlb[<<Low, s>>] = Absent

(* The two levels implement a flat map: an insertion or a removal changes    *)
(* one page of the kernel code's range, a page is absent before it changes   *)
(* its frame, and making a table changes no page.                            *)
Flat == INSTANCE AddressSpace WITH
  Pages <- Dirs \X Slots,
  map <- [p \in Dirs \X Slots |-> Lookup(p)],
  lost <- pc = "wild"
ImplementsAddressSpace == Flat!Spec
=============================================================================

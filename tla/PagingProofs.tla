---------------------------- MODULE PagingProofs ----------------------------
(***************************************************************************)
(* For any number of entries, slots and frames: the TLB agrees with the     *)
(* tables outside linear address 0 and the page whose invlpg is to come, no *)
(* frame serves two purposes, and the two levels implement a flat map.      *)
(*                                                                          *)
(* IInv holds until get_pte takes a frame from nowhere (pc = "wild"); from  *)
(* there on only the types are kept.                                        *)
(***************************************************************************)
EXTENDS Paging, TLAPS

(* Before paging the directory is empty until the kernel is mapped, and the *)
(* TLB is empty until paging is on.                                         *)
Early ==
  /\ pc \in {"check_pgdir", "map"} => pde = [d \in AllDirs |-> None]
  /\ ~PagingOn => tlb = [p \in Pages |-> Absent]

(* Only the alias made for the switch to paging shares a table.             *)
TablesApart ==
  \A d, e \in AllDirs :
    pde[d] = pde[e] /\ pde[d] # None =>
      d = e \/ (pc \in {"enable", "aliased"} /\ {d, e} = {Low, Kern})

TablesTaken == \A d \in AllDirs : pde[d] # None => pde[d] \notin free \cup held

(* The entry for kernel code stays empty during boot; the frame of a self   *)
(* test is neither free nor a table; the entry taken back exists.            *)
BootOK ==
  /\ pc \notin {"running", "fault", "wild"} => \A d \in Dirs : pde[d] = None
  /\ test # None => pc = "check_boot" /\ test \notin free \cup held
  /\ test # None => \A d \in AllDirs : pde[d] # test
  /\ pc = "check_vmm_drop" => pde[Low] # None
  /\ held \cap free = {}

ClientMaps == \A p \in Dirs \X Slots : Lookup(p) # Absent => Lookup(p).frame \in held

(* The page whose translation may be stale, for the invlpg is still to come. *)
Pending(p) == edit.page = p /\ edit.step \in {"invlpg_removed", "invlpg"}

TlbAgrees ==
  \A p \in Pages : p[1] # Low /\ tlb[p] # Absent /\ tlb[p] # Lookup(p) => Pending(p)

TlbHeld == \A p \in Dirs \X Slots : tlb[p] # Absent => tlb[p].frame \in held

(* A call is under way where one is made, on a page of its caller; the entry *)
(* it has still to store finds the place empty.                              *)
EditOK ==
  /\ edit.step # "none" => pc \in {"check_boot", "check_vmm_remove", "check_vmm_drop", "running"}
  /\ edit.step # "none" /\ pc # "running" => edit.page[1] = Low
  /\ edit.step # "none" /\ pc = "running" => edit.page \in Dirs \X Slots
  /\ edit.step \in {"invlpg_removed", "store"} =>
       /\ Lookup(edit.page) = Absent
       /\ edit.entry \in Entries
       /\ pc = "running" => edit.entry.frame \in held

IInv == /\ TypeOK /\ Early /\ TablesApart /\ TablesTaken /\ BootOK /\ ClientMaps
        /\ TlbAgrees /\ TlbHeld /\ EditOK

(* The absent entry is no mapping of a frame. *)
LEMMA AbsentEntry == Absent \notin Entries /\ None \notin Frames \cup {Kernel}
BY PagingAssumption DEF Absent, Entries, Perms

(* The walk reads what the tables hold. *)
LEMMA LookupType ==
  ASSUME TypeOK, NEW p \in Pages
  PROVE  Lookup(p) \in Entries \cup {Absent}
BY DEF TypeOK, Lookup, Pages

(* get_pte and the write of a slot touch one table t, in use or new. *)
Touches(p, e, from, t) ==
  /\ t \notin from
  /\ \/ pde[p[1]] # None /\ t = pde[p[1]]
     \/ pde[p[1]] = None /\ t \in free
  /\ Contents(p[1], t) \in [Slots -> Entries \cup {Absent}]
  /\ pde' = [pde EXCEPT ![p[1]] = t]
  /\ table' = [table EXCEPT ![t] = [Contents(p[1], t) EXCEPT ![p[2]] = e]]
  /\ free' = free \ ({t} \cup from)

(* Store: what get_pte, page_insert and page_remove_pte write, table by table. *)
LEMMA StoreShape ==
  ASSUME TypeOK, NEW p \in Pages, NEW e \in Entries \cup {Absent},
         NEW from \in SUBSET Frames, Store(p, e, from)
  PROVE  \E t \in Frames : Touches(p, e, from, t)
<1>1. PICK t \in TableFor(p[1]) \ from :
        /\ pde' = [pde EXCEPT ![p[1]] = t]
        /\ table' = [table EXCEPT ![t] = [Contents(p[1], t) EXCEPT ![p[2]] = e]]
        /\ free' = free \ ({t} \cup from)
  BY DEF Store
<1>2. p[1] \in AllDirs /\ pde[p[1]] \in Frames \cup {None} /\ free \subseteq Frames
  BY DEF Pages, TypeOK
<1>3. t \in Frames
  BY <1>1, <1>2 DEF TableFor
<1>4. \/ pde[p[1]] # None /\ t = pde[p[1]]
      \/ pde[p[1]] = None /\ t \in free
  BY <1>1 DEF TableFor
<1>5. Zeroed \in [Slots -> Entries \cup {Absent}]
  BY DEF Zeroed
<1>6. Contents(p[1], t) \in [Slots -> Entries \cup {Absent}]
  BY <1>3, <1>5 DEF Contents, TypeOK
<1> QED
  BY <1>1, <1>3, <1>4, <1>6 DEF Touches

(* Store keeps the types of what it changes. *)
LEMMA StoreType ==
  ASSUME TypeOK, NEW p \in Pages, NEW e \in Entries \cup {Absent},
         NEW from \in SUBSET Frames, Store(p, e, from)
  PROVE  /\ pde' \in [AllDirs -> Frames \cup {None}]
         /\ table' \in [Frames -> [Slots -> Entries \cup {Absent}]]
         /\ free' \subseteq free \ from
<1>0. PICK t \in Frames : Touches(p, e, from, t)
  BY StoreShape
<1>1. /\ t \notin from
      /\ \/ pde[p[1]] # None /\ t = pde[p[1]]
         \/ pde[p[1]] = None /\ t \in free
      /\ Contents(p[1], t) \in [Slots -> Entries \cup {Absent}]
      /\ pde' = [pde EXCEPT ![p[1]] = t]
      /\ table' = [table EXCEPT ![t] = [Contents(p[1], t) EXCEPT ![p[2]] = e]]
      /\ free' = free \ ({t} \cup from)
  BY <1>0 DEF Touches
<1>2. p[2] \in Slots
  BY DEF Pages
<1>3. [Contents(p[1], t) EXCEPT ![p[2]] = e] \in [Slots -> Entries \cup {Absent}]
  BY <1>1, <1>2
<1> QED
  BY <1>1, <1>3 DEF TypeOK

(* The flat reading of Store: the page named gets the entry, no other page    *)
(* changes, although a table may be new.                                      *)
LEMMA StoreLookup ==
  ASSUME TypeOK, TablesApart, TablesTaken, pc \notin {"enable", "aliased"},
         NEW p \in Pages, NEW e \in Entries \cup {Absent},
         NEW from \in SUBSET Frames, Store(p, e, from)
  PROVE  \A q \in Pages : Lookup(q)' = IF q = p THEN e ELSE Lookup(q)
<1>0. PICK t \in Frames : Touches(p, e, from, t)
  BY StoreShape
<1>1. /\ t \notin from
      /\ \/ pde[p[1]] # None /\ t = pde[p[1]]
         \/ pde[p[1]] = None /\ t \in free
      /\ Contents(p[1], t) \in [Slots -> Entries \cup {Absent}]
      /\ pde' = [pde EXCEPT ![p[1]] = t]
      /\ table' = [table EXCEPT ![t] = [Contents(p[1], t) EXCEPT ![p[2]] = e]]
      /\ free' = free \ ({t} \cup from)
  BY <1>0 DEF Touches
<1>2. TAKE q \in Pages
<1>3. p[1] \in AllDirs /\ p[2] \in Slots /\ q[1] \in AllDirs /\ q[2] \in Slots
  BY DEF Pages
<1>4. p = <<p[1], p[2]>> /\ q = <<q[1], q[2]>>
  BY DEF Pages
<1>5. pde \in [AllDirs -> Frames \cup {None}] /\ table \in [Frames -> [Slots -> Entries \cup {Absent}]]
  BY DEF TypeOK
<1>6. t # None
  BY <1>1, AbsentEntry
<1>7. CASE q[1] = p[1]
  <2>1. pde'[q[1]] = t
    BY <1>1, <1>3, <1>5, <1>7
  <2>2. Lookup(q)' = table'[t][q[2]]
    BY <2>1, <1>6 DEF Lookup
  <2>3. table'[t] = [Contents(p[1], t) EXCEPT ![p[2]] = e]
    BY <1>1, <1>5
  <2>4. CASE q[2] = p[2]
    BY <2>2, <2>3, <2>4, <1>1, <1>3, <1>4, <1>7
  <2>5. CASE q[2] # p[2]
    <3>1. Lookup(q)' = Contents(p[1], t)[q[2]]
      BY <2>2, <2>3, <2>5, <1>1, <1>3
    <3>2. Contents(p[1], t)[q[2]] = Lookup(q)
      BY <1>1, <1>3, <1>7 DEF Contents, Lookup, Zeroed
    <3> QED
      BY <3>1, <3>2, <2>5, <1>4
  <2> QED
    BY <2>4, <2>5
<1>8. CASE q[1] # p[1]
  <2>1. pde'[q[1]] = pde[q[1]]
    BY <1>1, <1>3, <1>5, <1>8
  <2>2. pde[q[1]] # None => pde[q[1]] # t
    BY <1>1, <1>3, <1>8 DEF TablesApart, TablesTaken
  <2>3. pde[q[1]] # None => table'[pde[q[1]]] = table[pde[q[1]]]
    BY <1>1, <1>3, <1>5, <2>2
  <2>4. Lookup(q)' = Lookup(q)
    BY <2>1, <2>3 DEF Lookup
  <2> QED
    BY <2>4, <1>8
<1> QED
  BY <1>7, <1>8

(* Store keeps tables apart and taken. *)
LEMMA StoreTables ==
  ASSUME TypeOK, TablesApart, TablesTaken, pc \notin {"enable", "aliased"},
         held \cap free = {},
         NEW p \in Pages, NEW e \in Entries \cup {Absent},
         NEW from \in SUBSET Frames, Store(p, e, from)
  PROVE  /\ \A d, f \in AllDirs : pde'[d] = pde'[f] /\ pde'[d] # None => d = f
         /\ \A d \in AllDirs : pde'[d] # None => pde'[d] \notin free' \cup held
         /\ \A d \in AllDirs : d # p[1] => pde'[d] = pde[d]
         /\ pde'[p[1]] # None /\ pde'[p[1]] \notin from
         /\ pde'[p[1]] \in free \cup {pde[p[1]]}
<1>0. PICK t \in Frames : Touches(p, e, from, t)
  BY StoreShape
<1>1. /\ t \notin from
      /\ \/ pde[p[1]] # None /\ t = pde[p[1]]
         \/ pde[p[1]] = None /\ t \in free
      /\ Contents(p[1], t) \in [Slots -> Entries \cup {Absent}]
      /\ pde' = [pde EXCEPT ![p[1]] = t]
      /\ table' = [table EXCEPT ![t] = [Contents(p[1], t) EXCEPT ![p[2]] = e]]
      /\ free' = free \ ({t} \cup from)
  BY <1>0 DEF Touches
<1>2. p[1] \in AllDirs /\ pde \in [AllDirs -> Frames \cup {None}] /\ t # None
  BY AbsentEntry DEF Pages, TypeOK
<1>3. \A d \in AllDirs : pde'[d] = IF d = p[1] THEN t ELSE pde[d]
  BY <1>1, <1>2
<1>4. \A d \in AllDirs : d # p[1] => pde[d] # t
  BY <1>1, <1>2 DEF TablesApart, TablesTaken
<1>5. \A d, f \in AllDirs : pde[d] = pde[f] /\ pde[d] # None => d = f
  BY DEF TablesApart
<1>6. t \notin held
  BY <1>1, <1>2 DEF TablesTaken
<1> QED
  BY <1>1, <1>2, <1>3, <1>4, <1>5, <1>6 DEF TablesTaken

-----------------------------------------------------------------------------
(* What a call keeps, whatever it is part of. *)
Kept == TablesApart /\ TablesTaken /\ TlbAgrees /\ TlbHeld /\ ClientMaps /\ Early

Settled == PagingOn /\ pc # "aliased"

(* Entering e for p keeps the rest if p is then the page whose invlpg is to  *)
(* come, or if e was there already.                                          *)
LEMMA StoreKeeps ==
  ASSUME IInv, Settled, Settled', held' = held, tlb' = tlb,
         NEW p \in Pages, NEW e \in Entries \cup {Absent},
         NEW from \in SUBSET Frames, Store(p, e, from),
         \A q \in Pages : q # p /\ Pending(q) => Pending(q)',
         \/ Pending(p)'
         \/ e = Lookup(p) /\ (Pending(p) => Pending(p)'),
         p[1] \in Dirs => e = Absent \/ e.frame \in held
  PROVE  Kept'
<1>0. /\ TypeOK /\ TablesApart /\ TablesTaken /\ TlbAgrees /\ TlbHeld /\ ClientMaps
      /\ held \cap free = {} /\ pc \notin {"enable", "aliased"}
      /\ pc' \notin {"check_pgdir", "map", "enable", "aliased"} /\ PagingOn'
  BY DEF IInv, BootOK, Settled, PagingOn
<1>1. \A q \in Pages : Lookup(q)' = IF q = p THEN e ELSE Lookup(q)
  BY <1>0, StoreLookup
<1>2. /\ \A d, f \in AllDirs : pde'[d] = pde'[f] /\ pde'[d] # None => d = f
      /\ \A d \in AllDirs : pde'[d] # None => pde'[d] \notin free' \cup held
  BY <1>0, StoreTables
<1>4. TablesApart' /\ TablesTaken'
  BY <1>2 DEF TablesApart, TablesTaken
<1>5. TlbAgrees'
  <2> SUFFICES ASSUME NEW q \in Pages, q[1] # Low, tlb[q] # Absent, tlb[q] # Lookup(q)'
               PROVE  Pending(q)'
    BY DEF TlbAgrees
  <2>1. tlb[q] # Lookup(q) => Pending(q)
    BY <1>0 DEF TlbAgrees
  <2> HIDE DEF Pending
  <2>2. CASE q = p
    BY <1>1, <2>1, <2>2
  <2>3. CASE q # p
    BY <1>1, <2>1, <2>3
  <2> QED
    BY <2>2, <2>3
<1>8. TlbHeld'
  BY <1>0 DEF TlbHeld
<1>6. ClientMaps'
  <2> SUFFICES ASSUME NEW q \in Dirs \X Slots, Lookup(q)' # Absent
               PROVE  Lookup(q).frame' \in held
    BY DEF ClientMaps
  <2>1. q \in Pages /\ q[1] \in Dirs
    BY DEF Pages, AllDirs
  <2>2. CASE q = p
    BY <1>1, <2>1, <2>2
  <2>3. CASE q # p
    BY <1>0, <1>1, <2>1, <2>3 DEF ClientMaps
  <2> QED
    BY <2>2, <2>3
<1>7. Early'
  BY <1>0 DEF Early
<1> QED
  BY <1>4, <1>5, <1>6, <1>7, <1>8 DEF Kept

(* Taking back the table of linear address 0, and the frames x with it. *)
LEMMA DropKeeps ==
  ASSUME IInv, Settled, Settled', held' = held, pde[Low] # None, Idle,
         NEW x \in SUBSET Frames, DropTable(x),
         x \cap held = {}, \A d \in AllDirs : pde[d] \notin x
  PROVE  /\ Kept' /\ EditOK' /\ held \cap free' = {} /\ UNCHANGED <<tlb, edit>>
         /\ pde' \in [AllDirs -> Frames \cup {None}]
         /\ table' \in [Frames -> [Slots -> Entries \cup {Absent}]]
         /\ free' \subseteq Frames
         /\ \A d \in AllDirs : pde'[d] = IF d = Low THEN None ELSE pde[d]
<1>0. /\ TypeOK /\ TablesApart /\ TablesTaken /\ TlbAgrees /\ TlbHeld /\ ClientMaps
      /\ held \cap free = {} /\ pc \notin {"enable", "aliased"}
      /\ pc' \notin {"check_pgdir", "map", "enable", "aliased"} /\ PagingOn'
  BY DEF IInv, BootOK, Settled, PagingOn
<1>1. /\ Low \in AllDirs /\ pde[Low] \in Frames
      /\ free' = free \cup {pde[Low]} \cup x
      /\ pde' = [pde EXCEPT ![Low] = None]
      /\ table' = [table EXCEPT ![pde[Low]] = Junk]
      /\ tlb' = tlb /\ edit' = edit
  BY <1>0 DEF DropTable, TypeOK, AllDirs
<1>2. Junk \in [Slots -> Entries \cup {Absent}]
  BY DEF Junk, Entries, Perms
<1>3. /\ pde' \in [AllDirs -> Frames \cup {None}]
      /\ table' \in [Frames -> [Slots -> Entries \cup {Absent}]]
      /\ free' \subseteq Frames
  BY <1>0, <1>1, <1>2 DEF TypeOK
<1>4. \A d \in AllDirs : pde'[d] = IF d = Low THEN None ELSE pde[d]
  BY <1>0, <1>1 DEF TypeOK
<1>5. \A d \in AllDirs : d # Low => pde[d] # pde[Low]
  BY <1>0, <1>1 DEF TablesApart
<1>6. TablesApart'
  BY <1>0, <1>4 DEF TablesApart
<1>7. pde[Low] \notin held
  BY <1>0, <1>1 DEF TablesTaken
<1>8. TablesTaken'
  BY <1>0, <1>1, <1>4, <1>5 DEF TablesTaken
<1>9. held \cap free' = {}
  BY <1>0, <1>1, <1>7
<1>10. \A q \in Pages : q[1] # Low => Lookup(q)' = Lookup(q)
  <2> SUFFICES ASSUME NEW q \in Pages, q[1] # Low
               PROVE  Lookup(q)' = Lookup(q)
    OBVIOUS
  <2>1. q[1] \in AllDirs /\ pde'[q[1]] = pde[q[1]] /\ pde[q[1]] # pde[Low]
    BY <1>4, <1>5 DEF Pages
  <2>2. pde[q[1]] # None => table'[pde[q[1]]] = table[pde[q[1]]]
    BY <1>0, <1>1, <2>1 DEF TypeOK
  <2> QED
    BY <2>1, <2>2 DEF Lookup
<1>11. TlbAgrees' /\ TlbHeld'
  <2>1. \A q \in Pages : Pending(q)' = Pending(q)
    BY <1>1 DEF Pending
  <2> QED
    BY <1>0, <1>1, <1>10, <2>1 DEF TlbAgrees, TlbHeld
<1>14. EditOK'
  BY <1>1 DEF EditOK, Idle, NoEdit, Editing
<1>12. ClientMaps'
  <2>1. \A q \in Dirs \X Slots : q \in Pages /\ q[1] # Low
    BY PagingAssumption DEF Pages, AllDirs
  <2> QED
    BY <1>0, <1>10, <2>1 DEF ClientMaps
<1>13. Early'
  BY <1>0 DEF Early
<1> QED
  BY <1>1, <1>3, <1>4, <1>6, <1>8, <1>9, <1>11, <1>12, <1>13, <1>14 DEF Kept

-----------------------------------------------------------------------------
(* The invariant is the part that calls keep and the part about the boot. *)
LEMMA KeptIInv == IInv <=> TypeOK /\ Kept /\ BootOK /\ EditOK
BY DEF IInv, Kept

(* The directory that entry.S leaves maps nothing yet. *)
LEMMA InitIInv == Init => IInv
<1> SUFFICES ASSUME Init PROVE IInv
  OBVIOUS
<1>1. TypeOK
  <2>1. NoEdit \in Edits
    BY PagingAssumption DEF Edits, NoEdit, Editing, Pages, AllDirs
  <2> QED
    BY <2>1 DEF Init, TypeOK, Junk, Entries, Perms
<1>2. \A d \in AllDirs : pde[d] = None
  BY DEF Init
<1>3. \A p \in Pages : Lookup(p) = Absent /\ tlb[p] = Absent
  BY <1>2 DEF Lookup, Pages, Init
<1>4. Kept
  <2>1. TablesApart /\ TablesTaken
    BY <1>2 DEF TablesApart, TablesTaken
  <2>2. TlbAgrees /\ TlbHeld
    BY <1>3 DEF TlbAgrees, TlbHeld, Pages, AllDirs
  <2>3. ClientMaps
    BY <1>3 DEF ClientMaps, Pages, AllDirs
  <2>4. Early
    BY DEF Early, Init
  <2> QED
    BY <2>1, <2>2, <2>3, <2>4 DEF Kept
<1>5. BootOK
  BY <1>2 DEF BootOK, Init, AllDirs
<1>6. EditOK
  BY DEF EditOK, Init, NoEdit, Editing
<1> QED
  BY <1>1, <1>4, <1>5, <1>6, KeptIInv

(* pmm_init up to the alias. *)
LEMMA BootIInv ==
  ASSUME IInv, check_pgdir \/ map_physical_memory \/ enable_paging \/ DropAlias
  PROVE  IInv'
<1>0. /\ TypeOK /\ TablesApart /\ TablesTaken /\ TlbAgrees /\ TlbHeld /\ ClientMaps
      /\ Early /\ BootOK /\ EditOK
  BY DEF IInv
<1>5. EditOK' /\ edit' = edit /\ \A p \in Pages : ~Pending(p) /\ Pending(p)' = Pending(p)
  BY <1>0 DEF EditOK, Pending, check_pgdir, map_physical_memory, enable_paging, DropAlias
<1>1. CASE check_pgdir
  <2>1. pc = "check_pgdir" /\ pc' = "map" /\ free' \subseteq free
        /\ UNCHANGED <<pde, table, tlb, held, test>>
    BY <1>1 DEF check_pgdir
  <2>2. TypeOK'
    BY <1>0, <2>1, <1>5 DEF TypeOK
  <2>3. \A p \in Pages : Lookup(p)' = Lookup(p)
    BY <2>1 DEF Lookup
  <2>4. TlbAgrees' /\ TlbHeld' /\ ClientMaps'
    BY <1>0, <2>1, <2>3, <1>5 DEF TlbAgrees, TlbHeld, ClientMaps, Pages, AllDirs
  <2>5. TablesApart' /\ TablesTaken' /\ Early' /\ BootOK'
    BY <1>0, <2>1 DEF TablesApart, TablesTaken, Early, PagingOn, BootOK
  <2> QED
    BY <2>2, <2>4, <2>5, <1>5 DEF IInv
<1>2. CASE map_physical_memory
  <2>1. PICK t \in free :
          /\ pde' = [pde EXCEPT ![Kern] = t, ![Low] = t]
          /\ table' = [table EXCEPT ![t] =
                         [s \in Slots |-> [frame |-> Kernel, perm |-> "w"]]]
          /\ free' = free \ {t}
    BY <1>2 DEF map_physical_memory
  <2>2. /\ pc = "map" /\ pc' = "enable" /\ UNCHANGED <<tlb, held, test>>
        /\ pde = [d \in AllDirs |-> None] /\ tlb = [p \in Pages |-> Absent]
    BY <1>0, <1>2 DEF map_physical_memory, Early, PagingOn
  <2>3. t \in Frames /\ t # None /\ t \notin held
    BY <1>0, AbsentEntry, <1>5 DEF TypeOK, BootOK
  <2>4. \A d \in AllDirs : pde'[d] = IF d \in {Kern, Low} THEN t ELSE None
    BY <2>1, <2>2 DEF AllDirs
  <2>5. TypeOK'
    <3>1. [s \in Slots |-> [frame |-> Kernel, perm |-> "w"]] \in [Slots -> Entries \cup {Absent}]
      BY DEF Entries, Perms
    <3>2. table' \in [Frames -> [Slots -> Entries \cup {Absent}]]
      BY <1>0, <2>1, <3>1, <1>5 DEF TypeOK
    <3>3. pde' \in [AllDirs -> Frames \cup {None}]
      BY <1>0, <2>1, <2>3, <1>5 DEF TypeOK
    <3> QED
      BY <1>0, <2>1, <2>2, <3>2, <3>3, <1>5 DEF TypeOK
  <2>6. \A q \in Dirs \X Slots : Lookup(q)' = Absent
    BY <2>4, PagingAssumption DEF Lookup, AllDirs
  <2>7. TlbAgrees' /\ TlbHeld' /\ ClientMaps'
    BY <2>2, <2>6, <1>5 DEF TlbAgrees, TlbHeld, ClientMaps, Pages, AllDirs
  <2>8. TablesApart'
    BY <2>2, <2>4 DEF TablesApart
  <2>9. TablesTaken'
    BY <2>1, <2>2, <2>3, <2>4 DEF TablesTaken
  <2>10. Early' /\ BootOK'
    <3>1. Early'
      BY <2>2 DEF Early, PagingOn
    <3>2. \A d \in Dirs : pde'[d] = None
      BY <2>4, PagingAssumption DEF AllDirs
    <3> QED
      BY <1>0, <2>1, <2>2, <3>1, <3>2 DEF BootOK
  <2> QED
    BY <2>5, <2>7, <2>8, <2>9, <2>10, <1>5 DEF IInv
<1>3. CASE enable_paging
  <2>1. pc = "enable" /\ pc' = "aliased" /\ UNCHANGED <<pde, table, tlb, free, held, test>>
    BY <1>3 DEF enable_paging
  <2>2. \A p \in Pages : Lookup(p)' = Lookup(p)
    BY <2>1 DEF Lookup
  <2>3. TlbAgrees' /\ TlbHeld' /\ ClientMaps'
    BY <1>0, <2>1, <2>2, <1>5 DEF TlbAgrees, TlbHeld, ClientMaps, Pages, AllDirs
  <2>4. TypeOK' /\ TablesApart' /\ TablesTaken' /\ Early' /\ BootOK'
    BY <1>0, <2>1, <1>5 DEF TypeOK, TablesApart, TablesTaken, Early, PagingOn, BootOK
  <2> QED
    BY <2>3, <2>4, <1>5 DEF IInv
<1>4. CASE DropAlias
  <2>1. /\ pc = "aliased" /\ pc' = "check_boot" /\ UNCHANGED <<table, tlb, free, held, test>>
        /\ pde' = [pde EXCEPT ![Low] = None]
    BY <1>4 DEF DropAlias
  <2>2. \A d \in AllDirs : pde'[d] = IF d = Low THEN None ELSE pde[d]
    BY <1>0, <2>1, <1>5 DEF TypeOK
  <2>3. TypeOK'
    BY <1>0, <2>1, <1>5 DEF TypeOK
  <2>4. \A p \in Pages : p[1] # Low => Lookup(p)' = Lookup(p)
    BY <2>1, <2>2 DEF Lookup, Pages
  <2>5. TlbAgrees' /\ TlbHeld'
    BY <1>0, <2>1, <2>4, <1>5 DEF TlbAgrees, TlbHeld
  <2>6. ClientMaps'
    <3>1. \A q \in Dirs \X Slots : q \in Pages /\ q[1] # Low
      BY PagingAssumption DEF Pages, AllDirs
    <3> QED
      BY <1>0, <2>1, <2>4, <3>1 DEF ClientMaps
  <2>7. TablesApart'
    <3> SUFFICES ASSUME NEW d \in AllDirs, NEW e \in AllDirs, pde'[d] = pde'[e], pde'[d] # None
                 PROVE  d = e
      BY <2>1 DEF TablesApart
    <3>1. d # Low /\ e # Low /\ pde[d] = pde[e] /\ pde[d] # None
      BY <2>2
    <3>2. d = e \/ {d, e} = {Low, Kern}
      BY <1>0, <3>1 DEF TablesApart
    <3> QED
      BY <3>1, <3>2
  <2>8. TablesTaken' /\ Early'
    BY <1>0, <2>1, <2>2 DEF TablesTaken, Early, PagingOn
  <2>9. BootOK'
    <3>1. test' = None
      BY <1>0, <2>1 DEF BootOK
    <3>2. \A d \in Dirs : pde'[d] = None
      BY <1>0, <2>1, <2>2 DEF BootOK, AllDirs
    <3> QED
      BY <1>0, <2>1, <3>1, <3>2 DEF BootOK
  <2> QED
    BY <2>3, <2>5, <2>6, <2>7, <2>8, <2>9, <1>5 DEF IInv
<1> QED
  BY <1>1, <1>2, <1>3, <1>4

(* What the first store of a call leaves: e stored for p, the rest kept, and  *)
(* an invlpg to come, after which f may still have to be entered.            *)
Begun(p, e, from, f) ==
  /\ Store(p, e, from) /\ Kept' /\ tlb' = tlb
  /\ edit' \in Edits /\ edit'.page = p /\ edit'.step \in {"invlpg_removed", "invlpg"}
  /\ edit'.step = "invlpg_removed" =>
       Lookup(p)' = Absent /\ edit'.entry \in Entries /\ edit'.entry.frame = f

(* Nothing is pending between calls. *)
LEMMA IdleQuiet ==
  ASSUME Idle
  PROVE  edit.step = "none" /\ \A q \in Pages : ~Pending(q)
BY DEF Idle, Pending, NoEdit, Editing

(* page_insert starts with a store of its entry, or of 0 over another one. *)
LEMMA InsertBegins ==
  ASSUME IInv, Idle, Settled, Settled', held' = held,
         NEW p \in Pages, NEW f \in Frames, NEW perm \in Perms,
         NEW from \in SUBSET Frames, page_insert(p, f, perm, from),
         p[1] \in Dirs => f \in held
  PROVE  \E e \in Entries \cup {Absent} : Begun(p, e, from, f)
<1>1. PICK new \in Entries : new = [frame |-> f, perm |-> perm] /\ new.frame = f
  <2>1. [frame |-> f, perm |-> perm] \in Entries
    BY DEF Entries
  <2>2. [frame |-> f, perm |-> perm].frame = f
    OBVIOUS
  <2> QED
    BY <2>1, <2>2
<1>2. tlb' = tlb /\ \A q \in Pages : ~Pending(q)
  BY IdleQuiet DEF page_insert
<1>3. CASE Store(p, new, from) /\ edit' = Editing(p, Absent, "invlpg")
  <2>1. Pending(p)' /\ edit' \in Edits
    BY <1>3 DEF Pending, Editing, Edits
  <2>2. Kept'
    BY <1>1, <1>2, <1>3, <2>1, StoreKeeps
  <2>3. Begun(p, new, from, f)
    BY <1>2, <1>3, <2>1, <2>2 DEF Begun, Editing
  <2> QED
    BY <2>3
<1>4. CASE Store(p, Absent, from) /\ edit' = Editing(p, new, "invlpg_removed")
  <2>1. Pending(p)' /\ edit' \in Edits
    BY <1>1, <1>4 DEF Pending, Editing, Edits
  <2>2. Kept'
    BY <1>1, <1>2, <1>4, <2>1, StoreKeeps
  <2>3. Lookup(p)' = Absent
    BY <1>4, StoreLookup DEF IInv, Settled, PagingOn
  <2>4. Begun(p, Absent, from, f)
    BY <1>1, <1>2, <1>4, <2>1, <2>2, <2>3 DEF Begun, Editing
  <2> QED
    BY <2>4
<1> QED
  BY <1>1, <1>3, <1>4 DEF page_insert

(* page_remove starts with a store of 0, or only looks. *)
LEMMA RemoveBegins ==
  ASSUME IInv, Idle, Settled, Settled', held' = held,
         NEW p \in Pages, page_remove(p)
  PROVE  /\ Store(p, Absent, {}) /\ Kept' /\ tlb' = tlb /\ edit' \in Edits
         /\ \/ edit' = edit
            \/ edit' = Editing(p, Absent, "invlpg")
<1>1. /\ Store(p, Absent, {}) /\ tlb' = tlb /\ {} \in SUBSET Frames
      /\ edit' = IF Lookup(p) # Absent THEN Editing(p, Absent, "invlpg") ELSE edit
  BY DEF page_remove
<1>2. \A q \in Pages : ~Pending(q)
  BY IdleQuiet
<1>3. Pending(p)' \/ Absent = Lookup(p)
  BY <1>1 DEF Pending, Editing
<1>4. Kept'
  BY <1>1, <1>2, <1>3, StoreKeeps
<1>5. Editing(p, Absent, "invlpg") \in Edits
  BY DEF Editing, Edits
<1> QED
  BY <1>1, <1>4, <1>5 DEF IInv, TypeOK

(* What a store for a page of the first entry leaves of the boot's other data. *)
LEMMA LowStore ==
  ASSUME IInv, Settled, NEW p \in Pages, p[1] = Low,
         NEW e \in Entries \cup {Absent}, NEW from \in SUBSET Frames, Store(p, e, from)
  PROVE  /\ pde' \in [AllDirs -> Frames \cup {None}]
         /\ table' \in [Frames -> [Slots -> Entries \cup {Absent}]]
         /\ free' \subseteq free \ from
         /\ \A d \in AllDirs : d # Low => pde'[d] = pde[d]
         /\ pde'[Low] # None /\ pde'[Low] \notin from
         /\ pde'[Low] \in free \cup {pde[Low]}
<1>0. /\ TypeOK /\ TablesApart /\ TablesTaken /\ held \cap free = {}
      /\ pc \notin {"enable", "aliased"}
  BY DEF IInv, BootOK, Settled, PagingOn
<1>1. /\ pde' \in [AllDirs -> Frames \cup {None}]
      /\ table' \in [Frames -> [Slots -> Entries \cup {Absent}]]
      /\ free' \subseteq free \ from
  BY <1>0, StoreType
<1>2. /\ \A d \in AllDirs : d # p[1] => pde'[d] = pde[d]
      /\ pde'[p[1]] # None /\ pde'[p[1]] \notin from
      /\ pde'[p[1]] \in free \cup {pde[p[1]]}
  BY <1>0, StoreTables
<1> QED
  BY <1>1, <1>2

(* The self tests after paging is on. *)
LEMMA CheckBootIInv ==
  ASSUME IInv, CheckBootAlloc \/ CheckBootInsert \/ CheckBootDone
  PROVE  IInv'
<1>0. TypeOK /\ TablesTaken /\ BootOK /\ pc = "check_boot" /\ Settled /\ Idle
      /\ TablesApart /\ held \cap free = {}
  BY DEF IInv, BootOK, CheckBootAlloc, CheckBootInsert, CheckBootDone, Settled, PagingOn
<1>1. /\ <<Low, First>> \in Pages /\ <<Low, Second>> \in Pages /\ Low \in AllDirs
      /\ <<Low, First>>[1] = Low /\ <<Low, Second>>[1] = Low
      /\ Dirs \subseteq AllDirs /\ Low \notin Dirs /\ "w" \in Perms
  BY PagingAssumption DEF Pages, AllDirs, Perms
<1>2. CASE CheckBootAlloc
  <2>1. PICK f \in free : test' = f /\ page_insert(<<Low, Second>>, f, "w", {f})
    BY <1>2 DEF CheckBootAlloc
  <2>2. pc' = "check_boot" /\ held' = held /\ Settled'
    BY <1>0, <1>2 DEF CheckBootAlloc, Settled, PagingOn
  <2>3. f \in Frames /\ {f} \in SUBSET Frames
    BY <1>0 DEF TypeOK
  <2>4. PICK e \in Entries \cup {Absent} : Begun(<<Low, Second>>, e, {f}, f)
    BY <1>0, <1>1, <2>1, <2>2, <2>3, InsertBegins
  <2>5. /\ Store(<<Low, Second>>, e, {f}) /\ Kept' /\ tlb' = tlb /\ edit' \in Edits
        /\ EditOK'
    BY <1>1, <2>2, <2>4 DEF Begun, EditOK
  <2>6. /\ pde' \in [AllDirs -> Frames \cup {None}]
        /\ table' \in [Frames -> [Slots -> Entries \cup {Absent}]]
        /\ free' \subseteq free \ {f}
        /\ \A d \in AllDirs : d # Low => pde'[d] = pde[d]
        /\ pde'[Low] # f
    BY <1>0, <1>1, <2>3, <2>5, LowStore
  <2>7. TypeOK'
    BY <1>0, <2>1, <2>2, <2>3, <2>5, <2>6 DEF TypeOK
  <2>8. \A d \in AllDirs : pde'[d] # f
    <3>1. \A d \in AllDirs : pde[d] # f
      BY <1>0, <2>3, AbsentEntry DEF TablesTaken
    <3> QED
      BY <2>6, <3>1
  <2>9. BootOK'
    BY <1>0, <1>1, <2>1, <2>2, <2>6, <2>8 DEF BootOK
  <2> QED
    BY <2>5, <2>7, <2>9 DEF IInv, Kept
<1>3. CASE CheckBootInsert
  <2>1. test # None /\ page_insert(<<Low, First>>, test, "w", {}) /\ UNCHANGED <<pc, held, test>>
    BY <1>3 DEF CheckBootInsert
  <2>2. test \in Frames /\ Settled' /\ test \notin free \cup held /\ {} \in SUBSET Frames
    BY <1>0, <2>1 DEF TypeOK, BootOK, Settled, PagingOn
  <2>3. PICK f \in Frames : f = test
    BY <2>2
  <2>4. PICK e \in Entries \cup {Absent} : Begun(<<Low, First>>, e, {}, f)
    <3>1. page_insert(<<Low, First>>, f, "w", {})
      BY <2>1, <2>3
    <3> QED
      BY <1>0, <1>1, <2>1, <2>2, <3>1, InsertBegins
  <2>5. /\ Store(<<Low, First>>, e, {}) /\ Kept' /\ tlb' = tlb /\ edit' \in Edits
        /\ EditOK'
    BY <1>0, <1>1, <2>1, <2>4 DEF Begun, EditOK
  <2>6. /\ pde' \in [AllDirs -> Frames \cup {None}]
        /\ table' \in [Frames -> [Slots -> Entries \cup {Absent}]]
        /\ free' \subseteq free
        /\ \A d \in AllDirs : d # Low => pde'[d] = pde[d]
        /\ pde'[Low] \in free \cup {pde[Low]}
    BY <1>0, <1>1, <2>2, <2>5, LowStore
  <2>8. TypeOK'
    BY <1>0, <2>1, <2>5, <2>6 DEF TypeOK
  <2>9. \A d \in AllDirs : pde'[d] # test
    BY <1>0, <1>1, <2>1, <2>2, <2>6 DEF BootOK
  <2>10. BootOK'
    BY <1>0, <1>1, <2>1, <2>2, <2>6, <2>9 DEF BootOK
  <2> QED
    BY <2>5, <2>8, <2>10 DEF IInv, Kept
<1>4. CASE CheckBootDone
  <2>1. /\ test # None /\ DropTable({test}) /\ pc' = "check_vmm" /\ test' = None /\ held' = held
        /\ Lookup(<<Low, First>>) # Absent
    BY <1>4 DEF CheckBootDone
  <2>2. pde[Low] # None
    BY <2>1 DEF Lookup
  <2>3. PICK f \in Frames : f = test /\ f \notin held /\ \A d \in AllDirs : pde[d] # f
    BY <1>0, <2>1 DEF TypeOK, BootOK
  <2>4. Settled' /\ {f} \in SUBSET Frames /\ DropTable({f})
        /\ {f} \cap held = {} /\ \A d \in AllDirs : pde[d] \notin {f}
    BY <2>1, <2>3 DEF Settled, PagingOn
  <2>5. /\ Kept' /\ EditOK' /\ held \cap free' = {} /\ UNCHANGED <<tlb, edit>>
        /\ pde' \in [AllDirs -> Frames \cup {None}]
        /\ table' \in [Frames -> [Slots -> Entries \cup {Absent}]]
        /\ free' \subseteq Frames
        /\ \A d \in AllDirs : pde'[d] = IF d = Low THEN None ELSE pde[d]
    BY <1>0, <2>1, <2>2, <2>4, DropKeeps
  <2>6. TypeOK'
    BY <1>0, <2>1, <2>5 DEF TypeOK
  <2>7. BootOK'
    BY <1>0, <1>1, <2>1, <2>5 DEF BootOK
  <2> QED
    BY <2>5, <2>6, <2>7 DEF IInv, Kept
<1> QED
  BY <1>2, <1>3, <1>4

(* The three steps of check_pgfault on page 0. *)
LEMMA CheckVmmIInv ==
  ASSUME IInv, CheckVmmWrite \/ CheckVmmRemove \/ CheckVmmDrop
  PROVE  IInv'
<1>0. /\ TypeOK /\ TablesTaken /\ BootOK /\ Settled /\ Settled' /\ TablesApart /\ Idle
      /\ held \cap free = {} /\ test = None /\ test' = None /\ held' = held
      /\ pc \in {"check_vmm", "check_vmm_remove", "check_vmm_drop"}
  BY DEF IInv, BootOK, CheckVmmWrite, CheckVmmRemove, CheckVmmDrop, Settled, PagingOn
<1>1. /\ <<Low, First>> \in Pages /\ Low \in AllDirs /\ <<Low, First>>[1] = Low
      /\ Dirs \subseteq AllDirs /\ Low \notin Dirs /\ "w" \in Perms
  BY PagingAssumption DEF Pages, AllDirs, Perms
<1>2. CASE CheckVmmWrite
  <2>1. pc = "check_vmm" /\ pc' = "check_vmm_remove"
    BY <1>2 DEF CheckVmmWrite
  <2>2. CASE UNCHANGED <<pde, table, tlb, free, edit>>
    <3>1. \A p \in Pages : Lookup(p)' = Lookup(p) /\ Pending(p)' = Pending(p)
      BY <2>2 DEF Lookup, Pending
    <3>2. TlbAgrees' /\ TlbHeld' /\ ClientMaps'
      BY <1>0, <2>2, <3>1 DEF IInv, TlbAgrees, TlbHeld, ClientMaps, Pages, AllDirs
    <3>3. TypeOK' /\ TablesApart' /\ TablesTaken' /\ Early' /\ BootOK'
      BY <1>0, <2>1, <2>2 DEF IInv, TypeOK, TablesApart, TablesTaken, Early, PagingOn, BootOK
    <3>4. EditOK'
      BY <1>0, <2>2, IdleQuiet DEF EditOK
    <3> QED
      BY <3>2, <3>3, <3>4 DEF IInv
  <2>3. CASE \E f \in free : page_insert(<<Low, First>>, f, "w", {f})
    <3>1. PICK f \in free : page_insert(<<Low, First>>, f, "w", {f})
      BY <2>3
    <3>2. f \in Frames /\ {f} \in SUBSET Frames
      BY <1>0 DEF TypeOK
    <3>3. PICK e \in Entries \cup {Absent} : Begun(<<Low, First>>, e, {f}, f)
      BY <1>0, <1>1, <3>1, <3>2, InsertBegins
    <3>4. /\ Store(<<Low, First>>, e, {f}) /\ Kept' /\ tlb' = tlb /\ edit' \in Edits
          /\ EditOK'
      BY <1>1, <2>1, <3>3 DEF Begun, EditOK
    <3>5. /\ pde' \in [AllDirs -> Frames \cup {None}]
          /\ table' \in [Frames -> [Slots -> Entries \cup {Absent}]]
          /\ free' \subseteq free \ {f}
          /\ \A d \in AllDirs : d # Low => pde'[d] = pde[d]
      BY <1>0, <1>1, <3>2, <3>4, LowStore
    <3>6. TypeOK'
      BY <1>0, <2>1, <3>4, <3>5 DEF TypeOK
    <3>7. BootOK'
      BY <1>0, <1>1, <2>1, <3>5 DEF BootOK
    <3> QED
      BY <3>4, <3>6, <3>7 DEF IInv, Kept
  <2> QED
    BY <1>2, <2>2, <2>3 DEF CheckVmmWrite
<1>3. CASE CheckVmmRemove
  <2>1. pc = "check_vmm_remove" /\ pc' = "check_vmm_drop" /\ page_remove(<<Low, First>>)
    BY <1>3 DEF CheckVmmRemove
  <2>2. /\ Store(<<Low, First>>, Absent, {}) /\ Kept' /\ tlb' = tlb /\ edit' \in Edits
        /\ \/ edit' = edit
           \/ edit' = Editing(<<Low, First>>, Absent, "invlpg")
    BY <1>0, <1>1, <2>1, RemoveBegins
  <2>3. /\ pde' \in [AllDirs -> Frames \cup {None}]
        /\ table' \in [Frames -> [Slots -> Entries \cup {Absent}]]
        /\ free' \subseteq free
        /\ \A d \in AllDirs : d # Low => pde'[d] = pde[d]
        /\ pde'[Low] # None
    BY <1>0, <1>1, <2>2, LowStore
  <2>4. TypeOK'
    BY <1>0, <2>1, <2>2, <2>3 DEF TypeOK
  <2>5. BootOK'
    BY <1>0, <1>1, <2>1, <2>3 DEF BootOK
  <2>6. EditOK'
    BY <1>0, <1>1, <2>1, <2>2, IdleQuiet DEF EditOK, Editing
  <2> QED
    BY <2>2, <2>4, <2>5, <2>6 DEF IInv, Kept
<1>4. CASE CheckVmmDrop
  <2>1. pc = "check_vmm_drop" /\ pc' = "running" /\ DropTable({})
    BY <1>4 DEF CheckVmmDrop
  <2>2. /\ Kept' /\ EditOK' /\ held \cap free' = {} /\ UNCHANGED <<tlb, edit>>
        /\ pde' \in [AllDirs -> Frames \cup {None}]
        /\ table' \in [Frames -> [Slots -> Entries \cup {Absent}]]
        /\ free' \subseteq Frames
    BY <1>0, <2>1, DropKeeps DEF BootOK
  <2>3. TypeOK' /\ BootOK'
    BY <1>0, <2>1, <2>2 DEF TypeOK, BootOK
  <2> QED
    BY <2>2, <2>3 DEF IInv, Kept
<1> QED
  BY <1>2, <1>3, <1>4

(* The later steps of a call: they end what its first store began.           *)
LEMMA CallIInv ==
  ASSUME IInv, invlpg_removed \/ store \/ invlpg
  PROVE  IInv'
<1>0. /\ TypeOK /\ TablesTaken /\ BootOK /\ TablesApart /\ TlbAgrees /\ TlbHeld /\ ClientMaps
      /\ Early /\ EditOK
      /\ held \cap free = {} /\ UNCHANGED <<pc, held, test>>
  BY DEF IInv, BootOK, invlpg_removed, store, invlpg, During
<1>1. /\ pc \in {"check_boot", "check_vmm_remove", "check_vmm_drop", "running"}
      /\ edit.step # "none" /\ Settled /\ Settled'
  BY <1>0 DEF EditOK, invlpg_removed, store, invlpg, During, Settled, PagingOn
<1>2. PICK p \in Pages : p = edit.page
  BY <1>0 DEF TypeOK, Edits
<1>3. /\ pc # "running" => p[1] = Low
      /\ pc = "running" => p \in Dirs \X Slots
  BY <1>0, <1>1, <1>2 DEF EditOK
<1>4. Low \notin Dirs /\ Dirs \subseteq AllDirs
  BY PagingAssumption DEF AllDirs
<1>5. CASE store
  <2>1. PICK e \in Entries \cup {Absent} : e = edit.entry
    BY <1>0 DEF TypeOK, Edits
  <2>2. /\ edit.step = "store" /\ Store(p, e, {}) /\ tlb' = tlb
        /\ edit' = Editing(p, Absent, "invlpg")
    BY <1>2, <1>5, <2>1 DEF store, During
  <2>3. p[1] \in Dirs => e = Absent \/ e.frame \in held
    BY <1>0, <1>2, <1>3, <1>4, <2>1, <2>2 DEF EditOK
  <2>4. Pending(p)' /\ \A q \in Pages : q # p => ~Pending(q)
    BY <1>2, <2>2 DEF Pending, Editing
  <2>5. Kept' /\ {} \in SUBSET Frames
    BY <1>0, <1>1, <2>2, <2>3, <2>4, StoreKeeps
  <2>6. /\ pde' \in [AllDirs -> Frames \cup {None}]
        /\ table' \in [Frames -> [Slots -> Entries \cup {Absent}]]
        /\ free' \subseteq free
    BY <1>0, <2>2, StoreType
  <2>7. TypeOK'
    <3>1. edit' \in Edits
      BY <2>2 DEF Editing, Edits
    <3> QED
      BY <1>0, <2>2, <2>6, <3>1 DEF TypeOK
  <2>8. BootOK'
    <3>1. CASE pc = "running"
      BY <1>0, <2>6, <3>1 DEF BootOK
    <3>2. CASE pc # "running"
      <4>1. /\ \A d \in AllDirs : d # Low => pde'[d] = pde[d]
            /\ pde'[Low] # None /\ pde'[Low] \in free \cup {pde[Low]}
        BY <1>1, <1>3, <2>2, <2>5, <3>2, LowStore
      <4>2. test # None => \A d \in AllDirs : pde'[d] # test
        BY <1>0, <4>1 DEF BootOK, AllDirs
      <4> QED
        BY <1>0, <1>1, <1>4, <2>6, <3>2, <4>1, <4>2 DEF BootOK
    <3> QED
      BY <3>1, <3>2
  <2>9. EditOK'
    BY <1>0, <1>1, <1>3, <2>2 DEF EditOK, Editing
  <2> QED
    BY <2>5, <2>7, <2>8, <2>9 DEF IInv, Kept
<1>6. CASE invlpg_removed \/ invlpg
  <2>1. /\ tlb' = [tlb EXCEPT ![p] = Absent] /\ UNCHANGED <<pde, table, free>>
        /\ \/ edit.step = "invlpg_removed" /\ edit' = [edit EXCEPT !.step = "store"]
           \/ edit' = NoEdit
    BY <1>1, <1>2, <1>6 DEF invlpg_removed, invlpg, During, Invalidated, Settled
  <2>2. \A q \in Pages : Lookup(q)' = Lookup(q)
    BY <2>1 DEF Lookup
  <2>3. \A q \in Pages : q # p => ~Pending(q)
    BY <1>2 DEF Pending
  <2>4. TlbAgrees' /\ TlbHeld'
    BY <1>0, <2>1, <2>2, <2>3 DEF TlbAgrees, TlbHeld, TypeOK, Pages, AllDirs
  <2>5. ClientMaps'
    BY <1>0, <2>2 DEF ClientMaps, Pages, AllDirs
  <2>6. TypeOK'
    <3>1. NoEdit \in Edits
      BY PagingAssumption DEF Edits, NoEdit, Editing, Pages, AllDirs
    <3>2. [edit EXCEPT !.step = "store"] \in Edits
      BY <1>0 DEF TypeOK, Edits
    <3>3. edit' \in Edits
      BY <2>1, <3>1, <3>2
    <3> QED
      BY <1>0, <2>1, <3>3 DEF TypeOK
  <2>7. EditOK'
    <3>1. CASE edit' = NoEdit
      BY <3>1 DEF EditOK, NoEdit, Editing
    <3>2. CASE edit.step = "invlpg_removed" /\ edit' = [edit EXCEPT !.step = "store"]
      <4>1. edit'.page = p /\ edit'.entry = edit.entry /\ edit'.step = "store"
        BY <1>0, <1>2, <3>2 DEF TypeOK, Edits
      <4>2. Lookup(edit.page)' = Absent
        <5>1. Lookup(p)' = Absent
          BY <1>0, <1>2, <2>2, <3>2 DEF EditOK
        <5> QED
          BY <4>1, <5>1 DEF Lookup
      <4> QED
        BY <1>0, <1>1, <1>2, <1>3, <3>2, <4>1, <4>2 DEF EditOK
    <3> QED
      BY <2>1, <3>1, <3>2
  <2>8. TablesApart' /\ TablesTaken' /\ Early' /\ BootOK'
    BY <1>0, <1>1, <2>1 DEF TablesApart, TablesTaken, Early, PagingOn, BootOK, Settled
  <2> QED
    BY <2>4, <2>5, <2>6, <2>7, <2>8 DEF IInv
<1> QED
  BY <1>5, <1>6

-----------------------------------------------------------------------------
(* Kernel code after boot: where Store is part of a step, the table made     *)
(* touches neither a frame held nor what BootOK still says.                  *)
LEMMA ClientIInv ==
  ASSUME IInv, pc = "running", pc' = "running", test' = test, held' = held, tlb' = tlb,
         NEW p \in Dirs \X Slots, NEW e \in Entries \cup {Absent},
         Store(p, e, {}), Kept', edit' \in Edits, EditOK'
  PROVE  IInv'
<1>0. /\ TypeOK /\ BootOK /\ held \cap free = {} /\ test = None
  BY DEF IInv, BootOK
<1>1. p \in Pages /\ {} \in SUBSET Frames
  BY DEF Pages, AllDirs
<1>3. /\ pde' \in [AllDirs -> Frames \cup {None}]
      /\ table' \in [Frames -> [Slots -> Entries \cup {Absent}]]
      /\ free' \subseteq free \ {}
  BY <1>0, <1>1, StoreType
<1>4. TypeOK'
  BY <1>0, <1>3 DEF TypeOK
<1>5. BootOK'
  BY <1>0, <1>3 DEF BootOK
<1> QED
  BY <1>4, <1>5 DEF IInv, Kept

(* page_insert, page_remove and get_page by kernel code. *)
LEMMA EditIInv ==
  ASSUME IInv, InsertPage \/ RemovePage \/ get_page
  PROVE  IInv'
<1>0. pc = "running" /\ pc' = "running" /\ test' = test /\ held' = held /\ Idle
  BY DEF InsertPage, RemovePage, get_page, Client
<1>1. Settled /\ Settled' /\ TypeOK /\ ClientMaps
  BY <1>0 DEF IInv, Settled, PagingOn
<1>2. CASE InsertPage
  <2>1. PICK p \in Dirs \X Slots, f \in held, perm \in Perms : page_insert(p, f, perm, {})
    BY <1>2 DEF InsertPage
  <2>2. f \in Frames /\ p \in Pages /\ {} \in SUBSET Frames
    BY <1>1 DEF TypeOK, Pages, AllDirs
  <2>3. PICK e \in Entries \cup {Absent} : Begun(p, e, {}, f)
    BY <1>0, <1>1, <2>1, <2>2, InsertBegins
  <2>4. Store(p, e, {}) /\ Kept' /\ tlb' = tlb /\ edit' \in Edits /\ EditOK'
    BY <1>0, <2>3 DEF Begun, EditOK
  <2> QED
    BY <1>0, <2>4, ClientIInv
<1>3. CASE RemovePage
  <2>1. PICK p \in Dirs \X Slots : page_remove(p)
    BY <1>3 DEF RemovePage
  <2>2. p \in Pages
    BY DEF Pages, AllDirs
  <2>3. /\ Store(p, Absent, {}) /\ Kept' /\ tlb' = tlb /\ edit' \in Edits
        /\ \/ edit' = edit
           \/ edit' = Editing(p, Absent, "invlpg")
    BY <1>0, <1>1, <2>1, <2>2, RemoveBegins
  <2>4. EditOK'
    BY <1>0, <2>3, IdleQuiet DEF EditOK, Editing
  <2> QED
    BY <1>0, <2>3, <2>4, ClientIInv
<1>4. CASE get_page
  <2>1. PICK p \in Dirs \X Slots : Store(p, Lookup(p), {})
    BY <1>4 DEF get_page
  <2>2. Lookup(p) \in Entries \cup {Absent} /\ p \in Pages /\ {} \in SUBSET Frames
    BY <1>1, LookupType DEF Pages, AllDirs
  <2>3. PICK e \in Entries \cup {Absent} : e = Lookup(p)
    BY <2>2
  <2>4. Store(p, e, {}) /\ (e = Absent \/ e.frame \in held)
    BY <1>1, <2>1, <2>3 DEF ClientMaps
  <2>5. tlb' = tlb /\ edit' = edit
    BY <1>4 DEF get_page
  <2>6. EditOK' /\ edit' \in Edits
    BY <1>0, <1>1, <2>5, IdleQuiet DEF EditOK, TypeOK
  <2>7. \A q \in Pages : ~Pending(q)
    BY <1>0, IdleQuiet
  <2>8. Kept'
    BY <1>0, <1>1, <2>2, <2>3, <2>4, <2>5, <2>7, StoreKeeps
  <2> QED
    BY <1>0, <2>4, <2>5, <2>6, <2>8, ClientIInv
<1> QED
  BY <1>2, <1>3, <1>4

(* Steps that change no table. *)
LEMMA QuietIInv ==
  ASSUME IInv, UNCHANGED <<pde, table, test, edit>>,
         \/ alloc_page
         \/ free_page
         \/ GetPteNoFrame /\ pc' = "fault"
         \/ Fill
         \/ Evict
         \/ UNCHANGED vars
  PROVE  IInv'
<1>0. /\ TypeOK /\ TablesApart /\ TablesTaken /\ TlbAgrees /\ TlbHeld /\ ClientMaps /\ Early
      /\ BootOK /\ EditOK /\ held \cap free = {}
  BY DEF IInv, BootOK
<1>1. \A p \in Pages : Lookup(p)' = Lookup(p) /\ Pending(p)' = Pending(p)
  BY DEF Lookup, Pending
<1>2. Dirs \X Slots \subseteq Pages /\ \A p \in Dirs \X Slots : p[1] # Low
  BY PagingAssumption DEF Pages, AllDirs
<1>8. Idle => EditOK' /\ \A p \in Pages : ~Pending(p)
  BY IdleQuiet DEF EditOK
<1>3. CASE alloc_page
  <2>1. PICK f \in free : free' = free \ {f} /\ held' = held \cup {f}
    BY <1>3 DEF alloc_page
  <2>2. pc = "running" /\ pc' = "running" /\ tlb' = tlb /\ Idle
    BY <1>3 DEF alloc_page, Client
  <2>3. TypeOK' /\ TablesApart' /\ TablesTaken' /\ Early' /\ BootOK'
    BY <1>0, <2>1, <2>2 DEF TypeOK, TablesApart, TablesTaken, Early, PagingOn, BootOK
  <2>4. TlbAgrees' /\ TlbHeld' /\ ClientMaps'
    BY <1>0, <1>1, <1>2, <2>1, <2>2 DEF TlbAgrees, TlbHeld, ClientMaps
  <2> QED
    BY <1>8, <2>2, <2>3, <2>4 DEF IInv
<1>4. CASE free_page
  <2>1. PICK f \in held : MappedTo(f) = {} /\ free' = free \cup {f} /\ held' = held \ {f}
    BY <1>4 DEF free_page
  <2>2. pc = "running" /\ pc' = "running" /\ tlb' = tlb /\ Idle
    BY <1>4 DEF free_page, Client
  <2>3. TypeOK' /\ TablesApart' /\ TablesTaken' /\ Early' /\ BootOK'
    BY <1>0, <2>1, <2>2 DEF TypeOK, TablesApart, TablesTaken, Early, PagingOn, BootOK
  <2>4. \A p \in Pages : Lookup(p).frame # f
    BY <2>1 DEF MappedTo
  <2>5. TlbAgrees' /\ ClientMaps'
    BY <1>0, <1>1, <1>2, <2>1, <2>2, <2>4 DEF TlbAgrees, ClientMaps
  <2>6. TlbHeld'
    <3> SUFFICES ASSUME NEW p \in Dirs \X Slots, tlb[p] # Absent
                 PROVE  tlb[p].frame \in held \ {f}
      BY <2>1, <2>2 DEF TlbHeld
    <3>1. tlb[p] = Lookup(p)
      BY <1>0, <1>2, <1>8, <2>2 DEF TlbAgrees
    <3> QED
      BY <1>0, <1>2, <2>4, <3>1 DEF TlbHeld
  <2> QED
    BY <1>8, <2>2, <2>3, <2>5, <2>6 DEF IInv
<1>5. CASE GetPteNoFrame /\ pc' = "fault"
  <2>1. pc = "running" /\ pc' = "fault" /\ UNCHANGED <<tlb, free, held>> /\ Idle
    BY <1>5 DEF GetPteNoFrame
  <2>2. TypeOK' /\ TablesApart' /\ TablesTaken' /\ Early' /\ BootOK'
    BY <1>0, <2>1 DEF TypeOK, TablesApart, TablesTaken, Early, PagingOn, BootOK
  <2>3. TlbAgrees' /\ TlbHeld' /\ ClientMaps'
    BY <1>0, <1>1, <1>2, <2>1 DEF TlbAgrees, TlbHeld, ClientMaps
  <2> QED
    BY <1>8, <2>1, <2>2, <2>3 DEF IInv
<1>6. CASE Fill \/ Evict
  <2>1. UNCHANGED <<pc, free, held>>
    BY <1>6 DEF Fill, Evict
  <2>2. PICK p \in Pages :
          \/ PagingOn /\ tlb' = [tlb EXCEPT ![p] = Lookup(p)]
          \/ tlb[p] # Absent /\ tlb' = [tlb EXCEPT ![p] = Absent]
    <3>1. CASE Fill
      <4>1. PICK p \in Pages : tlb' = [tlb EXCEPT ![p] = Lookup(p)]
        BY <3>1 DEF Fill
      <4> QED
        BY <3>1, <4>1 DEF Fill
    <3>2. CASE Evict
      <4>1. PICK p \in Pages : tlb[p] # Absent /\ tlb' = [tlb EXCEPT ![p] = Absent]
        BY <3>2 DEF Evict
      <4> QED
        BY <4>1
    <3> QED
      BY <1>6, <3>1, <3>2
  <2>3. PICK e \in Entries \cup {Absent} :
           tlb' = [tlb EXCEPT ![p] = e] /\ e \in {Lookup(p), Absent}
    BY <1>0, <2>2, LookupType
  <2>4. TypeOK'
    BY <1>0, <2>1, <2>3 DEF TypeOK
  <2>5. Early'
    <3>1. ~PagingOn => tlb' = [q \in Pages |-> Absent]
      BY <1>0, <2>2 DEF Early
    <3> QED
      BY <1>0, <2>1, <3>1 DEF Early, PagingOn
  <2>6. TlbAgrees'
    BY <1>0, <1>1, <2>3 DEF TlbAgrees, TypeOK
  <2>9. TlbHeld'
    <3> SUFFICES ASSUME NEW q \in Dirs \X Slots, tlb'[q] # Absent
                 PROVE  tlb'[q].frame \in held
      BY <2>1 DEF TlbHeld
    <3>1. q \in Pages
      BY <1>2
    <3>2. CASE q = p
      <4>1. tlb'[q] = e /\ e = Lookup(q)
        BY <1>0, <2>3, <3>1, <3>2 DEF TypeOK
      <4> QED
        BY <1>0, <4>1 DEF ClientMaps
    <3>3. CASE q # p
      BY <1>0, <2>3, <3>1, <3>3 DEF TlbHeld, TypeOK
    <3> QED
      BY <3>2, <3>3
  <2>7. ClientMaps'
    BY <1>0, <1>1, <1>2, <2>1 DEF ClientMaps
  <2>8. TablesApart' /\ TablesTaken' /\ BootOK' /\ EditOK'
    BY <1>0, <2>1 DEF TablesApart, TablesTaken, BootOK, EditOK, Lookup
  <2> QED
    BY <2>4, <2>5, <2>6, <2>7, <2>8, <2>9 DEF IInv
<1>7. CASE UNCHANGED vars
  <2>1. UNCHANGED <<pc, tlb, free, held>>
    BY <1>7 DEF vars
  <2>2. TypeOK' /\ TablesApart' /\ TablesTaken' /\ Early' /\ BootOK' /\ EditOK'
    BY <1>0, <2>1 DEF TypeOK, TablesApart, TablesTaken, Early, PagingOn, BootOK, EditOK, Lookup
  <2>3. TlbAgrees' /\ TlbHeld' /\ ClientMaps'
    BY <1>0, <1>1, <1>2, <2>1 DEF TlbAgrees, TlbHeld, ClientMaps
  <2> QED
    BY <2>2, <2>3 DEF IInv
<1> QED
  BY <1>3, <1>4, <1>5, <1>6, <1>7

(* The invariant of all states: IInv, or a table from nowhere. *)
WildInv == TypeOK /\ (pc # "wild" => IInv)

(* The step on which memory runs out within get_pte. *)
LEMMA NoFrameStep ==
  ASSUME IInv, GetPteNoFrame
  PROVE  WildInv' /\ pc' \in {"fault", "wild"} /\ (pc' = "fault" => UNCHANGED <<pde, table>>)
<1>0. TypeOK /\ UNCHANGED <<tlb, free, held, test>> /\ held \subseteq Frames
  BY DEF IInv, TypeOK, GetPteNoFrame
<1>1. CASE pc' = "fault" /\ UNCHANGED <<pde, table, edit>>
  <2>1. IInv'
    BY <1>0, <1>1, QuietIInv
  <2> QED
    BY <1>1, <2>1 DEF WildInv, IInv
<1>2. ASSUME NEW p \in Dirs \X Slots, NEW w \in Frames,
             NEW e \in [frame : held, perm : Perms] \cup {Absent},
             pc' = "wild", pde' = [pde EXCEPT ![p[1]] = w],
             table' = [table EXCEPT ![w] = [Zeroed EXCEPT ![p[2]] = e]],
             edit' = IF e # Absent THEN Editing(p, Absent, "invlpg") ELSE edit
      PROVE  WildInv' /\ pc' \in {"fault", "wild"} /\ (pc' = "fault" => UNCHANGED <<pde, table>>)
  <2>1. p \in Pages /\ p[2] \in Slots /\ e \in Entries \cup {Absent}
    BY <1>0 DEF Pages, AllDirs, Entries
  <2>2. [Zeroed EXCEPT ![p[2]] = e] \in [Slots -> Entries \cup {Absent}]
    BY <2>1 DEF Zeroed
  <2>3. edit' \in Edits
    BY <1>0, <1>2, <2>1 DEF Edits, Editing, TypeOK
  <2>4. TypeOK'
    BY <1>0, <1>2, <2>2, <2>3 DEF TypeOK
  <2> QED
    BY <1>2, <2>4 DEF WildInv
<1> QED
  BY <1>1, <1>2 DEF GetPteNoFrame

(* After that step only the call under way and the processor go on. *)
LEMMA WildStep ==
  ASSUME TypeOK, pc = "wild", [Next]_vars
  PROVE  TypeOK' /\ pc' = "wild"
<1>1. CASE invlpg_removed \/ store \/ invlpg
  <2>1. UNCHANGED <<pc, held, test>> /\ edit.page \in Pages /\ edit.entry \in Entries \cup {Absent}
    BY <1>1 DEF invlpg_removed, store, invlpg, During, TypeOK, Edits
  <2>2. NoEdit \in Edits
    BY PagingAssumption DEF Edits, NoEdit, Editing, Pages, AllDirs
  <2>3. CASE store
    <3>1. /\ Store(edit.page, edit.entry, {}) /\ tlb' = tlb
          /\ edit' = Editing(edit.page, Absent, "invlpg") /\ {} \in SUBSET Frames
      BY <2>3 DEF store
    <3>2. PICK p \in Pages, e \in Entries \cup {Absent} : p = edit.page /\ e = edit.entry
      BY <2>1
    <3>3. /\ pde' \in [AllDirs -> Frames \cup {None}]
          /\ table' \in [Frames -> [Slots -> Entries \cup {Absent}]]
          /\ free' \subseteq free \ {}
      BY <3>1, <3>2, StoreType
    <3>4. edit' \in Edits
      BY <2>1, <3>1 DEF Edits, Editing
    <3> QED
      BY <2>1, <3>1, <3>3, <3>4 DEF TypeOK
  <2>4. CASE invlpg_removed \/ invlpg
    <3>1. /\ UNCHANGED <<pde, table, free>> /\ tlb' = [tlb EXCEPT ![edit.page] = Absent]
          /\ edit' = [edit EXCEPT !.step = "store"] \/ edit' = NoEdit
      BY <2>4 DEF invlpg_removed, invlpg, Invalidated, PagingOn
    <3>2. [edit EXCEPT !.step = "store"] \in Edits
      BY DEF TypeOK, Edits
    <3>3. edit' \in Edits
      BY <2>2, <3>1, <3>2
    <3> QED
      BY <2>1, <3>1, <3>3 DEF TypeOK
  <2> QED
    BY <1>1, <2>3, <2>4
<1>2. CASE Fill
  <2>1. PICK p \in Pages : tlb' = [tlb EXCEPT ![p] = Lookup(p)]
    BY <1>2 DEF Fill
  <2>2. PICK e \in Entries \cup {Absent} : e = Lookup(p)
    BY LookupType
  <2> QED
    BY <1>2, <2>1, <2>2 DEF Fill, TypeOK
<1>3. CASE Evict
  BY <1>3 DEF Evict, TypeOK
<1>4. CASE UNCHANGED vars
  BY <1>4 DEF vars, TypeOK
<1> QED
  BY <1>1, <1>2, <1>3, <1>4
  DEF Next, check_pgdir, map_physical_memory, enable_paging, DropAlias, CheckBootAlloc,
      CheckBootInsert, CheckBootDone, CheckVmmWrite, CheckVmmRemove, CheckVmmDrop,
      alloc_page, free_page, InsertPage, RemovePage, get_page, Client, GetPteNoFrame

(* Every step but that one keeps the inductive invariant. *)
LEMMA NextIInv ==
  ASSUME IInv, [Next]_vars, ~GetPteNoFrame
  PROVE  IInv'
<1>1. CASE check_pgdir \/ map_physical_memory \/ enable_paging \/ DropAlias
  BY <1>1, BootIInv
<1>2. CASE CheckBootAlloc \/ CheckBootInsert \/ CheckBootDone
  BY <1>2, CheckBootIInv
<1>3. CASE CheckVmmWrite \/ CheckVmmRemove \/ CheckVmmDrop
  BY <1>3, CheckVmmIInv
<1>4. CASE InsertPage \/ RemovePage \/ get_page
  BY <1>4, EditIInv
<1>5. CASE alloc_page \/ free_page
  <2>1. UNCHANGED <<pde, table, test, edit>>
    BY <1>5 DEF alloc_page, free_page, Client
  <2> QED
    BY <1>5, <2>1, QuietIInv
<1>6. CASE Fill \/ Evict \/ UNCHANGED vars
  <2>1. UNCHANGED <<pde, table, test, edit>>
    BY <1>6 DEF Fill, Evict, vars
  <2> QED
    BY <1>6, <2>1, QuietIInv
<1>7. CASE invlpg_removed \/ store \/ invlpg
  BY <1>7, CallIInv
<1> QED
  BY <1>1, <1>2, <1>3, <1>4, <1>5, <1>6, <1>7 DEF Next

(* IInv says pc is not "wild" before the step that makes it so. *)
LEMMA NextWildInv == WildInv /\ [Next]_vars => WildInv'
<1> SUFFICES ASSUME WildInv, [Next]_vars PROVE WildInv'
  OBVIOUS
<1>1. CASE pc = "wild"
  BY <1>1, WildStep DEF WildInv
<1>2. CASE pc # "wild" /\ GetPteNoFrame
  BY <1>2, NoFrameStep DEF WildInv
<1>3. CASE pc # "wild" /\ ~GetPteNoFrame
  <2>1. IInv'
    BY <1>3, NextIInv DEF WildInv
  <2> QED
    BY <2>1 DEF WildInv, IInv
<1> QED
  BY <1>1, <1>2, <1>3

(* In every reachable state. *)
LEMMA AlwaysWildInv == Spec => []WildInv
<1>1. Init => WildInv
  BY InitIInv DEF WildInv, IInv
<1> QED
  BY <1>1, NextWildInv, PTL DEF Spec

-----------------------------------------------------------------------------
(* Every variable keeps its kind through boot, the self tests and whatever   *)
(* the calls of kernel code enter and remove, a table from nowhere included. *)
THEOREM TypeCorrect == Spec => []TypeOK
<1>1. WildInv => TypeOK
  BY DEF WildInv
<1> QED
  BY <1>1, AlwaysWildInv, PTL

(* page_insert and page_remove invalidate wherever they must, though the TLB *)
(* fills between their stores and their invlpg: outside the first directory  *)
(* entry only the page of the call under way may have a stale translation,   *)
(* and that one is of a frame still held.                                    *)
THEOREM TlbCoherent == Spec => []Coherent
<1>1. WildInv => Coherent
  BY DEF WildInv, IInv, Coherent, TlbAgrees, TlbHeld, Pending
<1> QED
  BY <1>1, AlwaysWildInv, PTL

(* get_pte and the frees of the boot code never make one frame a table twice, *)
(* or a table and a page, or both in use and free, while get_pte finds a      *)
(* frame.                                                                     *)
THEOREM Exclusive == Spec => []FramesExclusive
<1>1. IInv => FramesExclusive
  <2> SUFFICES ASSUME IInv PROVE FramesExclusive
    OBVIOUS
  <2>1. free \cap held = {} /\ TablesTaken /\ TablesApart /\ ClientMaps
    BY DEF IInv, BootOK
  <2>2. pc \notin {"enable", "aliased"} =>
           \A d, e \in AllDirs : pde[d] = pde[e] /\ pde[d] # None => d = e
    BY <2>1 DEF TablesApart
  <2> QED
    BY <2>1, <2>2 DEF FramesExclusive, TablesTaken, ClientMaps
<1>2. WildInv => FramesExclusive
  BY <1>1 DEF WildInv, FramesExclusive
<1> QED
  BY <1>2, AlwaysWildInv, PTL

-----------------------------------------------------------------------------
(* The refinement. *)
flatMap == [p \in Dirs \X Slots |-> Lookup(p)]
isLost == pc = "wild"

(* While kernel code has no table nothing is mapped for it. *)
LEMMA BootMap ==
  ASSUME \A d \in Dirs : pde[d] = None
  PROVE  flatMap = [p \in Dirs \X Slots |-> Absent]
<1>1. \A p \in Dirs \X Slots : Lookup(p) = Absent
  BY DEF Lookup
<1> QED
  BY <1>1 DEF flatMap

(* The step of the flat map a Store is. *)
LEMMA StoreMap ==
  ASSUME IInv, pc = "running", NEW p \in Dirs \X Slots,
         NEW e \in Entries \cup {Absent}, Store(p, e, {})
  PROVE  flatMap' = [flatMap EXCEPT ![p] = e]
<1>0. TypeOK /\ TablesApart /\ TablesTaken /\ p \in Pages /\ {} \in SUBSET Frames
  BY DEF IInv, Pages, AllDirs
<1>1. \A q \in Pages : Lookup(q)' = IF q = p THEN e ELSE Lookup(q)
  BY <1>0, StoreLookup
<1>2. \A q \in Dirs \X Slots : Lookup(q)' = IF q = p THEN e ELSE Lookup(q)
  BY <1>1 DEF Pages, AllDirs
<1> QED
  BY <1>2 DEF flatMap

(* Entering an entry where none, or one of the same frame, was. *)
LEMMA InsertMap ==
  ASSUME IInv, pc = "running", pc' = "running", NEW p \in Dirs \X Slots,
         NEW e \in Entries, Store(p, e, {}),
         Lookup(p) = Absent \/ Lookup(p).frame = e.frame
  PROVE  Flat!Next
<1>1. flatMap' = [flatMap EXCEPT ![p] = e]
  BY StoreMap
<1>2. flatMap[p] = Lookup(p)
  BY DEF flatMap
<1>3. Flat!Insert(p)
  BY <1>1, <1>2 DEF Flat!Insert, flatMap
<1> QED
  BY <1>3 DEF Flat!Next

(* Removing one. *)
LEMMA RemoveMap ==
  ASSUME IInv, pc = "running", pc' = "running", NEW p \in Dirs \X Slots, Store(p, Absent, {})
  PROVE  Flat!Next
<1>1. flatMap' = [flatMap EXCEPT ![p] = Absent]
  BY StoreMap
<1>2. Flat!Remove(p)
  BY <1>1 DEF Flat!Remove, flatMap
<1> QED
  BY <1>2 DEF Flat!Next

(* Every step of the two levels is a step of the flat map or keeps it. *)
LEMMA StepMap ==
  ASSUME IInv, IInv', pc' # "wild", [Next]_vars
  PROVE  [Flat!Next]_<<flatMap, isLost>>
<1>0. pc # "wild" => isLost' = isLost
  BY DEF isLost
<1>1. CASE pc \notin {"running", "fault", "wild"} /\ pc' \notin {"running", "fault", "wild"}
  <2>1. (\A d \in Dirs : pde[d] = None) /\ (\A d \in Dirs : pde'[d] = None)
    BY <1>1 DEF IInv, BootOK
  <2> QED
    BY <1>0, <1>1, <2>1 DEF flatMap, Lookup
<1>2. CASE UNCHANGED <<pde, table>> /\ pc # "wild"
  BY <1>0, <1>2 DEF flatMap, Lookup
<1>3. CASE CheckVmmDrop
  <2>1. pc = "check_vmm_drop" /\ pde' = [pde EXCEPT ![Low] = None]
    BY <1>3 DEF CheckVmmDrop, DropTable
  <2>2. \A d \in Dirs : pde[d] = None /\ pde'[d] = None
    BY <2>1, PagingAssumption DEF IInv, BootOK, TypeOK, AllDirs
  <2> QED
    BY <1>0, <2>1, <2>2 DEF flatMap, Lookup
<1>4. CASE InsertPage
  <2>1. PICK p \in Dirs \X Slots, f \in held, perm \in Perms : page_insert(p, f, perm, {})
    BY <1>4 DEF InsertPage
  <2>2. PICK new \in Entries : new = [frame |-> f, perm |-> perm] /\ new.frame = f
    <3>1. [frame |-> f, perm |-> perm] \in Entries
      BY <2>1 DEF Entries, IInv, TypeOK
    <3>2. [frame |-> f, perm |-> perm].frame = f
      OBVIOUS
    <3> QED
      BY <3>1, <3>2
  <2>3. pc = "running" /\ pc' = "running"
    BY <1>4 DEF InsertPage, Client
  <2>4. Lookup(p) \in Entries \cup {Absent}
    BY LookupType DEF IInv, Pages, AllDirs
  <2>5. CASE Lookup(p).frame \in {None, f} /\ Store(p, new, {})
    <3>1. Lookup(p) = Absent \/ Lookup(p).frame = new.frame
      BY <2>2, <2>4, <2>5, AbsentEntry DEF Entries
    <3>2. Flat!Next
      BY <2>3, <2>5, <3>1, InsertMap
    <3> QED
      BY <3>2
  <2>6. CASE Store(p, Absent, {})
    BY <2>3, <2>6, RemoveMap
  <2> QED
    BY <2>1, <2>2, <2>5, <2>6 DEF page_insert
<1>5. CASE RemovePage
  <2>1. PICK p \in Dirs \X Slots : Store(p, Absent, {})
    BY <1>5 DEF RemovePage, page_remove
  <2>2. pc = "running" /\ pc' = "running"
    BY <1>5 DEF RemovePage, Client
  <2> QED
    BY <2>1, <2>2, RemoveMap
<1>6. CASE get_page
  <2>1. PICK p \in Dirs \X Slots : Store(p, Lookup(p), {})
    BY <1>6 DEF get_page
  <2>2. Lookup(p) \in Entries \cup {Absent}
    BY LookupType DEF IInv, Pages, AllDirs
  <2>3. PICK e \in Entries \cup {Absent} : e = Lookup(p)
    BY <2>2
  <2>6. pc = "running"
    BY <1>6 DEF get_page, Client
  <2>4. flatMap' = [flatMap EXCEPT ![p] = e]
    BY <2>1, <2>3, <2>6, StoreMap
  <2>5. flatMap' = flatMap
    BY <2>3, <2>4 DEF flatMap
  <2> QED
    BY <1>0, <2>5, <2>6
<1>7. CASE check_pgdir \/ map_physical_memory \/ enable_paging \/ DropAlias
  BY <1>1, <1>7 DEF check_pgdir, map_physical_memory, enable_paging, DropAlias
<1>8. CASE CheckBootAlloc \/ CheckBootInsert \/ CheckBootDone
  BY <1>1, <1>8 DEF CheckBootAlloc, CheckBootInsert, CheckBootDone
<1>9. CASE CheckVmmWrite \/ CheckVmmRemove
  BY <1>1, <1>9 DEF CheckVmmWrite, CheckVmmRemove
<1>10. CASE alloc_page \/ free_page \/ Fill \/ Evict \/ UNCHANGED vars \/ invlpg_removed \/ invlpg
  <2>1. UNCHANGED <<pde, table>>
    BY <1>10 DEF alloc_page, free_page, Fill, Evict, vars, invlpg_removed, invlpg
  <2>2. pc = "wild" => FALSE
    BY <1>10 DEF alloc_page, free_page, Client, Fill, Evict, vars, invlpg_removed, invlpg, During
  <2> QED
    BY <1>2, <2>1, <2>2
<1>11. CASE GetPteNoFrame
  BY <1>2, <1>11, NoFrameStep DEF GetPteNoFrame
<1>12. CASE store
  <2>1. edit.step = "store" /\ Store(edit.page, edit.entry, {}) /\ pc' = pc
    BY <1>12 DEF store, During
  <2>2. EditOK
    BY DEF IInv
  <2>3. CASE pc = "running"
    <3>1. PICK p \in Dirs \X Slots, e \in Entries : p = edit.page /\ e = edit.entry
      BY <2>1, <2>2, <2>3 DEF EditOK
    <3>2. Store(p, e, {}) /\ Lookup(p) = Absent
      BY <2>1, <2>2, <3>1 DEF EditOK
    <3> QED
      BY <2>1, <2>3, <3>2, InsertMap
  <2>4. CASE pc # "running"
    BY <1>1, <2>1, <2>2, <2>4 DEF EditOK
  <2> QED
    BY <2>3, <2>4
<1> QED
  BY <1>3, <1>4, <1>5, <1>6, <1>7, <1>8, <1>9, <1>10, <1>11, <1>12 DEF Next

(* The two-level directory is a flat map to kernel code: a page_insert or    *)
(* page_remove changes the page it names, which is absent before it gets     *)
(* another frame, and the table get_pte makes for it, or for a mere lookup,   *)
(* maps nothing else.                                                        *)
THEOREM Implements == Spec => ImplementsAddressSpace
<1>1. Init => Flat!Init
  <2> SUFFICES ASSUME Init PROVE Flat!Init
    OBVIOUS
  <2>1. \A d \in Dirs : pde[d] = None
    BY DEF Init, AllDirs
  <2>2. flatMap = [p \in Dirs \X Slots |-> Absent] /\ pc # "wild"
    BY <2>1, BootMap DEF Init
  <2> QED
    BY <2>2 DEF Flat!Init, flatMap
<1>2. WildInv /\ WildInv' /\ [Next]_vars => [Flat!Next]_<<flatMap, isLost>>
  <2> SUFFICES ASSUME WildInv, WildInv', [Next]_vars
               PROVE  [Flat!Next]_<<flatMap, isLost>>
    OBVIOUS
  <2>1. CASE pc' = "wild"
    BY <2>1 DEF Flat!Next, Flat!Lose
  <2>2. CASE pc' # "wild"
    <3>1. pc # "wild"
      BY <2>2, WildStep DEF WildInv
    <3> QED
      BY <2>2, <3>1, StepMap DEF WildInv
  <2> QED
    BY <2>1, <2>2
<1> QED
  BY <1>1, <1>2, AlwaysWildInv, PTL
  DEF Spec, ImplementsAddressSpace, Flat!Spec, flatMap, isLost
=============================================================================

----------------------------- MODULE PageListing -----------------------------
(***************************************************************************)
(* print_pgdir of kern/mm/pmm.c, with which the boot ends: the directory   *)
(* and, through the window at VPT, the tables, as ranges of neighbouring   *)
(* entries with equal permissions.  An entry is the set of its flags; vpt  *)
(* has entries only where the directory has a table.                       *)
(***************************************************************************)
EXTENDS Integers, Sequences, SequencesExt, FiniteSets

CONSTANT NPTEENTRY   \* 1024: entries of a directory and of a table

Perm(entry) == entry \cap {"P", "W", "U"}   \* PTE_USER
NoRange == [perm |-> {}]

(* The first entry from start on with other permissions.                     *)
RangeEnd(table, right, perm, start) ==
  LET On[k \in Nat] == IF k < right /\ Perm(table[k]) = perm THEN On[k + 1] ELSE k
  IN  On[start]

get_pgtable_items(table, right, start) ==
  LET On[k \in Nat] == IF k < right /\ "P" \notin table[k] THEN On[k + 1] ELSE k
      first == On[start]
      perm == Perm(table[first])
  IN  IF first >= right THEN NoRange
      ELSE [perm |-> perm, left |-> first, right |-> RangeEnd(table, right, perm, first + 1)]

(* The loop around get_pgtable_items.                                        *)
Ranges(table, left, right) ==
  LET From[start \in Nat] ==
        LET range == get_pgtable_items(table, right, start)
        IN  IF range = NoRange THEN <<>> ELSE <<range>> \o From[range.right]
  IN  From[left]

(* Under each range of the directory, the ranges of its tables.              *)
print_pgdir(vpd, vpt) ==
  LET dirs == Ranges(vpd, 0, NPTEENTRY)
  IN  [k \in DOMAIN dirs |->
         [dir |-> dirs[k],
          tables |-> Ranges(vpt, dirs[k].left * NPTEENTRY, dirs[k].right * NPTEENTRY)]]
-----------------------------------------------------------------------------
(* A list of ranges shows every present entry once and with its permissions,  *)
(* no absent one, and no two neighbours that could be one.                    *)
ShowsExactly(ranges, table) ==
  LET Of(k) == ranges[k].left .. ranges[k].right - 1
  IN  /\ \A e \in DOMAIN table :
           IF "P" \in table[e]
             THEN \E k \in DOMAIN ranges :
                    /\ e \in Of(k) /\ ranges[k].perm = Perm(table[e])
                    /\ \A j \in DOMAIN ranges \ {k} : e \notin Of(j)
             ELSE \A k \in DOMAIN ranges : e \notin Of(k)
      /\ \A k \in DOMAIN ranges : Of(k) # {} /\ Of(k) \subseteq DOMAIN table
ListedExactly(vpd, vpt, listing) ==
  LET dirs == [k \in DOMAIN listing |-> listing[k].dir]
      Joined(ranges) == \A k \in DOMAIN ranges \ {1} :
                          ranges[k - 1].right = ranges[k].left => ranges[k - 1].perm # ranges[k].perm
  IN  /\ ShowsExactly(dirs, vpd) /\ Joined(dirs)
      /\ ShowsExactly(FlattenSeq([k \in DOMAIN listing |-> listing[k].tables]), vpt)
      /\ \A k \in DOMAIN listing : Joined(listing[k].tables)
=============================================================================

-------------------------------- MODULE Stabs --------------------------------
(***************************************************************************)
(* Looking up an address in the debugging table, kern/debug/kdebug.c, as   *)
(* the backtrace of a panic does.  A stab is a record of its type, its     *)
(* address n_value and its description n_desc; the addresses of a          *)
(* function's lines are relative to the function.  Arrays start at 0.      *)
(***************************************************************************)
EXTENDS Integers, FiniteSetsExt, FiniteSets

Search == [l : Int, r : Int, left : Int, right : Int, addr : Int, any_matches : BOOLEAN]

(* The last stab of the type in l .. m, or l - 1: the walk down from m.       *)
Below(stabs, type, l, m) ==
  LET Down[k \in Int] ==
        IF k < l \/ stabs[k].n_type = type THEN k ELSE Down[k - 1]
  IN  Down[m]

(* Mistake: the right end includes the stab that lies behind the address.    *)
Narrowed_Inclusive(s, m, true_m, value) ==
  CASE value < s.addr -> [s EXCEPT !.any_matches = TRUE, !.left = m, !.l = true_m + 1]
    [] value > s.addr -> [s EXCEPT !.any_matches = TRUE, !.right = m, !.r = m - 1]
    [] OTHER -> [s EXCEPT !.any_matches = TRUE, !.left = m, !.l = m, !.addr = s.addr + 1]

(* One comparison.  A match is searched on from, for the next address, to    *)
(* find where its region ends.                                               *)
Narrowed(s, m, true_m, value) ==
  CASE value < s.addr -> [s EXCEPT !.any_matches = TRUE, !.left = m, !.l = true_m + 1]
    [] value > s.addr -> [s EXCEPT !.any_matches = TRUE, !.right = m - 1, !.r = m - 1]
    [] OTHER -> [s EXCEPT !.any_matches = TRUE, !.left = m, !.l = m, !.addr = s.addr + 1]

stab_binsearch(stabs, region_left, region_right, type, address) ==
  LET Loop[s \in Search] ==
        LET true_m == (s.l + s.r) \div 2
            m == Below(stabs, type, s.l, true_m)
        IN  IF s.l > s.r THEN s
            ELSE Loop[IF m < s.l THEN [s EXCEPT !.l = true_m + 1]
                      ELSE Narrowed(s, m, true_m, stabs[m].n_value)]
      end == Loop[[l |-> region_left, r |-> region_right, left |-> region_left,
                   right |-> region_right, addr |-> address, any_matches |-> FALSE]]
      last == Below(stabs, type, end.left + 1, end.right)
  IN  IF ~end.any_matches THEN [left |-> end.left, right |-> end.left - 1]
      ELSE [left |-> IF end.right > end.left THEN last ELSE end.right, right |-> end.right]

-----------------------------------------------------------------------------
NotFound == [found |-> FALSE]

(* From a line entry up to the nearest stab that names a file, or above the  *)
(* file's own.                                                               *)
NamingFile(stabs, lfile, lline) ==
  LET Up[k \in Int] ==
        IF \/ k < lfile \/ stabs[k].n_type = "SOL"
           \/ stabs[k].n_type = "SO" /\ stabs[k].n_value # 0
          THEN k ELSE Up[k - 1]
  IN  Up[lline]

(* The parameter stabs that follow the function's.                           *)
Arguments(stabs, fun) ==
  LET Count[k \in Int] ==
        IF k < fun.right /\ stabs[k].n_type = "PSYM" THEN 1 + Count[k + 1] ELSE 0
  IN  IF fun.left < fun.right THEN Count[fun.left + 1] ELSE 0

(* debuginfo_eip: the file, then the function in it, then the line in that,  *)
(* or in the file if no function is found.                                   *)
debuginfo_eip(stabs, nstabs, addr) ==
  LET file == stab_binsearch(stabs, 0, nstabs - 1, "SO", addr)
      fun == stab_binsearch(stabs, file.left, file.right, "FUN", addr)
      inFun == fun.left <= fun.right
      fn_addr == IF inFun THEN stabs[fun.left].n_value ELSE addr
      line == IF inFun THEN stab_binsearch(stabs, fun.left, fun.right, "SLINE", addr - fn_addr)
              ELSE stab_binsearch(stabs, file.left, file.right, "SLINE", addr)
  IN  IF file.left = 0 \/ line.left > line.right THEN NotFound
      ELSE [found |-> TRUE, eip_fn_addr |-> fn_addr,
            eip_line |-> stabs[line.right].n_desc,
            eip_file |-> NamingFile(stabs, file.left, line.left),
            eip_fn_narg |-> Arguments(stabs, fun)]
-----------------------------------------------------------------------------
(* stab_binsearch finds the last stab of its type that is not above the       *)
(* address, and the end of its region.  A match makes it go on with the next  *)
(* address, so a stab just there would be taken for it: none is.              *)
RegionFound(stabs, l, r, type, addr) ==
  LET of == {k \in l .. r : stabs[k].n_type = type}
      at == {k \in of : stabs[k].n_value <= addr}
      above == of \ at
      found == stab_binsearch(stabs, l, r, type, addr)
  IN  /\ of = {} => found.right < found.left
      /\ at # {} /\ (\A k \in above : stabs[k].n_value > addr + 1) =>
           /\ found.left = Max(at)
           /\ found.right = IF above = {} THEN r ELSE Min(above) - 1

(* An address within a function of a file is reported with that function,     *)
(* its number of parameters and the file.                                     *)
FunctionFound(stabs, n, addr, file, fun) ==
  LET info == debuginfo_eip(stabs, n, addr)
      params == {k \in fun + 1 .. n - 1 : \A j \in fun + 1 .. k : stabs[j].n_type = "PSYM"}
  IN  /\ info.found /\ info.eip_fn_addr = stabs[fun].n_value
      /\ info.eip_file = file /\ info.eip_fn_narg = Cardinality(params)
=============================================================================

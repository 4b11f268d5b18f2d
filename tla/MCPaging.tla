------------------------------ MODULE MCPaging ------------------------------
(* One entry for kernel code beside those of address 0 and of KERNBASE,       *)
(* tables of two slots, and frames enough for the boot code and two pages.    *)
EXTENDS Paging, TLC
CONSTANTS low, kern, d1, s1, s2, f1, f2, f3, f4, f5, f6
MCFrames == {f1, f2, f3, f4, f5, f6}
AllFrames == Permutations(MCFrames)
=============================================================================

------------------------------ MODULE MCRBTree ------------------------------
(***************************************************************************)
(* Ten nodes are the fewest that make every way down pass three black nodes *)
(* and so let a deletion's fix-up climb twice; two of them have equal keys.  *)
(***************************************************************************)
EXTENDS RBTree

CONSTANTS n1, n2, n3, n4, n5, n6, n7, n8, n9, n10

MCNodes == {n1, n2, n3, n4, n5, n6, n7, n8, n9, n10}
MCKey == [n \in MCNodes |->
  CASE n = n1 -> 1 [] n = n2 -> 2 [] n = n3 -> 3 [] n = n4 -> 4 [] n = n5 -> 5
    [] n = n6 -> 5 [] n = n7 -> 6 [] n = n8 -> 7 [] n = n9 -> 8 [] n = n10 -> 9]
=============================================================================

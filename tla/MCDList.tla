------------------------------ MODULE MCDList -------------------------------
(* Two list heads and three entries: enough for an insertion between two     *)
(* entries, a deletion at either end, and an entry that moves between lists. *)
EXTENDS DList

CONSTANTS h1, h2, a, b, c

MCHeads == {h1, h2}
MCElems == {a, b, c}
=============================================================================

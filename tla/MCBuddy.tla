------------------------------ MODULE MCBuddy -------------------------------
(* Blocks of 1, 2, 4 and 8 pages.  The first region has a block of the        *)
(* largest order and a single page, the second is not a power of two either;  *)
(* requests that fill a block, leave a tail, and are too large.               *)
EXTENDS Buddy

MCMaxOrder == 3
MCOrderSize == [k \in 0 .. MCMaxOrder + 1 |-> 2 ^ k]
MCRegions == << <<1, 9>>, <<11, 1>> >>
MCRequests == {0, 1, 3, 5, 9}
MCMaxLive == 3

=============================================================================

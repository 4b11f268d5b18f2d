----------------------------- MODULE MCThreads -----------------------------
(* Threads with the list proc_init builds, and with one more thread linked,  *)
(* a third one that a thread function may hand to thread_join, and the       *)
(* generator in its first state or in any of a few others.                   *)
EXTENDS Threads
CONSTANTS main, pthr1, pthr2, pthr3

MCLists == {<<pthr1, main>>, <<pthr2, pthr1, main>>}
MCSeeds == {1} \cup {1030 * k % 8192 : k \in 0 .. 7}
=============================================================================

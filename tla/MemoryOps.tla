------------------------------ MODULE MemoryOps ------------------------------
(***************************************************************************)
(* The memory and string functions of libs/string.c as they are built:     *)
(* those that libs/x86.h has in assembly are taken from there.  Memory is  *)
(* a function from addresses to bytes; a string ends at the first 0.       *)
(***************************************************************************)
EXTENDS Integers, Sequences, SequencesExt

CONSTANT Word   \* 4: the bytes movsl moves at once

(* One move: len bytes are read, then written.                               *)
Move(mem, m) ==
  [a \in DOMAIN mem |-> IF a \in m.dst .. m.dst + m.len - 1
                          THEN mem[m.src + (a - m.dst)] ELSE mem[a]]

(* n bytes in ascending order: words, then the bytes that are left.          *)
Upwards(dst, src, n) ==
  LET words == n \div Word
  IN  [k \in 1 .. words + (n % Word) |->
         LET at == IF k <= words THEN (k - 1) * Word ELSE words * Word + (k - words - 1)
         IN  [dst |-> dst + at, src |-> src + at, len |-> IF k <= words THEN Word ELSE 1]]

(* n bytes in descending order.                                              *)
Downwards(dst, src, n) ==
  [k \in 1 .. n |-> [dst |-> dst + n - k, src |-> src + n - k, len |-> 1]]

memcpy(mem, dst, src, n) == FoldLeft(Move, mem, Upwards(dst, src, n))

(* Mistake: the order is chosen the wrong way round.                         *)
memmove_Swapped(mem, dst, src, n) ==
  IF dst > src THEN memcpy(mem, dst, src, n) ELSE FoldLeft(Move, mem, Downwards(dst, src, n))

memmove(mem, dst, src, n) ==
  IF dst < src THEN memcpy(mem, dst, src, n) ELSE FoldLeft(Move, mem, Downwards(dst, src, n))

(* The first address from s on at which a scan stops.                        *)
Scan(s, Stops(_)) ==
  LET From[a \in Int] == IF Stops(a) THEN a ELSE From[a + 1] IN From[s]

strlen(mem, s) == Scan(s, LAMBDA a : mem[a] = 0) - s
strnlen(mem, s, len) == Scan(s, LAMBDA a : a - s >= len \/ mem[a] = 0) - s

(* strfind stops at c or at the end; strchr gives -1, NULL, at the end.      *)
strfind(mem, s, c) == Scan(s, LAMBDA a : mem[a] \in {0, c})
strchr(mem, s, c) ==
  LET at == strfind(mem, s, c) IN IF mem[at] = 0 THEN -1 ELSE at

(* Byte by byte; a string that does not overlap its copy.                    *)
strcpy(mem, dst, src) ==
  FoldLeft(Move, mem, [k \in 1 .. strlen(mem, src) + 1 |->
                         [dst |-> dst + k - 1, src |-> src + k - 1, len |-> 1]])

(* strncpy fills up with the 0 it stays at.                                  *)
strncpy(mem, dst, src, len) ==
  LET Turn(t, k) ==
        LET next == [t.mem EXCEPT ![dst + k] = t.mem[t.src]]
        IN  [mem |-> next, src |-> IF next[dst + k] # 0 THEN t.src + 1 ELSE t.src]
  IN  FoldLeft(Turn, [mem |-> mem, src |-> src], [k \in 1 .. len |-> k - 1]).mem

Sign(n) == IF n < 0 THEN -1 ELSE IF n > 0 THEN 1 ELSE 0

(* The first difference, or the end of both, decides.                        *)
strcmp(mem, s1, s2) ==
  LET k == Scan(0, LAMBDA i : mem[s1 + i] # mem[s2 + i] \/ mem[s1 + i] = 0)
  IN  Sign(mem[s1 + k] - mem[s2 + k])
strncmp(mem, s1, s2, n) ==
  LET k == Scan(0, LAMBDA i : i >= n \/ mem[s1 + i] # mem[s2 + i] \/ mem[s1 + i] = 0)
  IN  IF k >= n THEN 0 ELSE Sign(mem[s1 + k] - mem[s2 + k])
memcmp(mem, s1, s2, n) ==
  LET k == Scan(0, LAMBDA i : i >= n \/ mem[s1 + i] # mem[s2 + i])
  IN  IF k >= n THEN 0 ELSE Sign(mem[s1 + k] - mem[s2 + k])
-----------------------------------------------------------------------------
(* Whatever the overlap, what was at the source is at the destination, and    *)
(* nothing else has changed.                                                  *)
MovedExactly(mem, after, dst, src, n) ==
  \A a \in DOMAIN mem :
    after[a] = IF a \in dst .. dst + n - 1 THEN mem[src + (a - dst)] ELSE mem[a]

(* A copied string compares equal to its source, is as long, and is found     *)
(* again character by character; a copy cut at len is its start.              *)
CopiedExactly(mem, dst, src, len) ==
  LET copy == strcpy(mem, dst, src)
      part == strncpy(mem, dst, src, len)
  IN  /\ MovedExactly(mem, copy, dst, src, strlen(mem, src) + 1)
      /\ strcmp(copy, dst, src) = 0 /\ strlen(copy, dst) = strlen(mem, src)
      /\ memcmp(copy, dst, src, strlen(mem, src) + 1) = 0
      /\ \A c \in {mem[a] : a \in DOMAIN mem} \ {0} :
           strchr(copy, dst, c) = IF strchr(mem, src, c) = -1 THEN -1
                                  ELSE strfind(mem, src, c) + dst - src
      /\ strncmp(part, dst, src, len) = 0
      /\ strlen(mem, src) < len => strlen(part, dst) = strlen(mem, src)
      /\ strnlen(part, dst, len) = strnlen(mem, src, len)
=============================================================================

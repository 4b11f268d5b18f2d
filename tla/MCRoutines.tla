----------------------------- MODULE MCRoutines ------------------------------
(* Inputs around every edge: regions that begin and end anywhere against the  *)
(* pages, segments that begin and end within sectors, numbers of all signs,   *)
(* texts longer than the line, every overlap of two areas.                    *)
EXTENDS Routines

MCMaps ==
  LET Region == [addr : {0, 3, 9, 12, 22}, size : {0, 1, 5, 8, 12, 30}, type : {1, 2}]
      Apart(q, r) == q.addr + q.size <= r.addr
  IN  {[map |-> m, end |-> e] :
         m \in {<<q>> : q \in Region} \cup {s \in Region \X Region : Apart(s[1], s[2])},
         e \in {1, 5, 8}}

(* Linked at 64 and masked to 0, behind header and resources.                 *)
MCImages ==
  LET Ph(va, size, sector) ==
        [p_va |-> 64 + va, p_memsz |-> size, p_offset |-> (va % 4) + 4 * sector]
  IN  {[top |-> 44, elf |-> FALSE, headers |-> <<>>]} \cup
      {[top |-> 44, elf |-> TRUE, headers |-> h] :
         h \in {<<Ph(va, n, k)>> : va \in 12 .. 15, n \in 0 .. 9, k \in 0 .. 2}
              \cup {<<Ph(v1, n1, k1), Ph(v2, n2, k2)>> :
                     v1 \in 12 .. 15, n1 \in 0 .. 6, k1 \in 1 .. 2,
                     v2 \in 16 .. 24, n2 \in {1, 5}, k2 \in 1 .. 4}}

MCSizes == {2 ^ o : o \in 5 .. 17} \cup {16 * k : k \in 1 .. 40}

MCFormats ==
  [conv : {"d", "u", "o", "x", "p"}, width : {-1, 1, 2, 4}, padc : {" ", "0"},
   precision : {-1}, lflag : {0, 1, 2}, altflag : {FALSE}]
MCArgs == {-16, -9, -1, 0, 7, 8, 10, 15, 16, 31, 32, 127}
MCBufferSizes == {0, 1, 3, 9}
MCStringFormats ==
  [conv : {"s"}, width : {-1, 2, 4}, padc : {" ", "0", "-"}, precision : {-1, 0, 2},
   lflag : {0}, altflag : BOOLEAN]
MCStrings == {<<>>, <<"a">>, <<"ctl", "b">>, <<"a", "b", "ctl">>}

MCDirectories ==
  LET Flags == {{}, {"P", "W"}, {"P", "W", "A"}, {"P", "U"}}
      Mapped(vpd) == {e \in 0 .. 3 : "P" \in vpd[e \div 2]}
  IN  UNION {{[vpd |-> vpd, vpt |-> vpt] : vpt \in [Mapped(vpd) -> Flags]} : vpd \in [0 .. 1 -> Flags]}

(* One or two files of one or two functions, each with up to two parameters,  *)
(* one or two lines and the stab of a block behind them.                      *)
Stab(type, value, desc) == [n_type |-> type, n_value |-> value, n_desc |-> desc]
Function(addr, params, lines) ==
  <<Stab("FUN", addr, 0)>> \o [p \in 1 .. params |-> Stab("PSYM", 8, 0)]
    \o [l \in 1 .. lines |-> Stab("SLINE", 3 * (l - 1), l)] \o <<Stab("RBRAC", 5, 0)>>
MCTables ==
  LET header == <<Stab("UNDF", 0, 0)>>
      First(p, l) == <<Stab("SO", 10, 0)>> \o Function(10, p, l)
      Second(p, l) == Function(18, p, l)
      Other(p, l) == <<Stab("SO", 24, 0), Stab("SO", 24, 0)>> \o Function(24, p, l)
      Table(parts, starts) ==
        LET s == header \o FlattenSeq(parts)
            at(k) == Len(FlattenSeq(SubSeq(parts, 1, k - 1)))
        IN  [n |-> Len(s), stabs |-> [i \in 0 .. Len(s) - 1 |-> s[i + 1]], addrs |-> 9 .. 30,
             funs |-> {[file |-> IF starts[k] = 24 THEN at(k) + 2 ELSE 1,
                        at |-> at(k) + (CASE starts[k] = 10 -> 2 [] starts[k] = 18 -> 1 [] OTHER -> 3),
                        extent |-> starts[k] .. (IF k < Len(starts) THEN starts[k + 1] - 1 ELSE 30)]
                       : k \in 1 .. Len(starts)}]
  IN  {Table(<<First(p, l)>>, <<10>>) : p \in 0 .. 2, l \in 1 .. 2}
        \cup {Table(<<First(p, l), Second(q, 2)>>, <<10, 18>>) : p \in 0 .. 2, l \in 1 .. 2, q \in 0 .. 1}
        \cup {Table(<<First(p, 2), Other(q, 1)>>, <<10, 24>>) : p \in 0 .. 1, q \in 0 .. 2}
        \cup {Table(<<First(1, 2), Second(p, l), Other(q, 2)>>, <<10, 18, 24>>) :
                 p \in 0 .. 1, l \in 1 .. 2, q \in 0 .. 1}

MCTexts == UNION {[1 .. n -> {97, 32, 8, 10, -28}] : n \in 0 .. 5}
MCOldBuffers == {[p \in 0 .. 3 |-> 0], [p \in 0 .. 3 |-> IF p < 3 THEN 98 ELSE 0]}

MCMoves ==
  LET mem == [a \in 0 .. 11 |-> a]
  IN  {m \in [mem : {mem}, dst : 0 .. 11, src : 0 .. 11, n : 0 .. 12] :
         m.dst + m.n <= 12 /\ m.src + m.n <= 12}
MCCopies ==
  {[mem |-> [a \in 0 .. 9 |-> IF a < 3 THEN s[a] ELSE IF a \in {3, 9} THEN 0 ELSE 3],
    src |-> 0, dst |-> 5, len |-> n] : s \in [0 .. 2 -> 0 .. 2], n \in 0 .. 4}
=============================================================================

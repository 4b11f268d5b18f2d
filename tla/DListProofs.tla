---------------------------- MODULE DListProofs -----------------------------
(***************************************************************************)
(* The lists of libs/list.h, for any number of heads and entries.          *)
(* LinksAgree is inductive once the fields are known to be functions: each *)
(* operation changes the fields of at most three nodes.  That the code     *)
(* implements sequences needs more: there are sequences L, one a head, of  *)
(* which the linked nodes are the rings (Holds); a call inserts into one   *)
(* of them or takes something out, and the walk of the refinement mapping  *)
(* reads them back.                                                        *)
(***************************************************************************)
EXTENDS DList, CommonLemmas

Fields ==
  /\ next \in [Nodes -> Nodes \cup {NULL}]
  /\ prev \in [Nodes -> Nodes \cup {NULL}]
  /\ linked \subseteq Nodes

IInv == Fields /\ LinksAgree

(* No entry is linked before list_init runs on a head.                       *)
LEMMA InitLinks == Init => IInv
  BY DEF Init, IInv, Fields, LinksAgree

(* list_init closes a node onto itself; nobody linked pointed at it.         *)
LEMMA ListInitLinks ==
  ASSUME NEW h \in Heads, IInv, list_init(h)
  PROVE  IInv'
<1>1. h \in Nodes
  BY DEF Nodes
<1>2. Fields'
  BY <1>1 DEF IInv, Fields, list_init
<1>3. ASSUME NEW x \in linked'
      PROVE  /\ next'[x] \in linked' /\ prev'[x] \in linked'
             /\ prev'[next'[x]] = x /\ next'[prev'[x]] = x
  <2>1. CASE x = h
    BY <1>1, <2>1 DEF IInv, Fields, list_init
  <2>2. CASE x # h
    <3>1. x \in linked /\ next[x] \in linked /\ prev[x] \in linked
      BY <1>3, <2>2 DEF IInv, LinksAgree, list_init
    <3>2. next[x] # h /\ prev[x] # h
      BY <3>1 DEF list_init
    <3> QED
      BY <1>1, <2>2, <3>1, <3>2 DEF IInv, Fields, LinksAgree, list_init
  <2> QED
    BY <2>1, <2>2
<1> QED
  BY <1>2, <1>3 DEF IInv, LinksAgree

(* Insertion after c: the new entry, c and c's old successor change.         *)
LEMMA AddAfterLinks ==
  ASSUME NEW c \in Nodes, NEW x \in Elems, IInv, list_add_after(c, x)
  PROVE  IInv'
<1>1. /\ x \in Nodes /\ c \in linked /\ x \notin linked /\ c # x
      /\ next[c] \in linked /\ prev[next[c]] = c /\ next[c] # x
  BY DEF IInv, Fields, LinksAgree, list_add_after, Nodes
<1>2. /\ linked \subseteq Nodes
      /\ prev' = [prev EXCEPT ![next[c]] = x, ![x] = c]
      /\ next' = [next EXCEPT ![x] = next[c], ![c] = x]
      /\ linked' = linked \cup {x}
  BY DEF IInv, Fields, list_add_after
<1>3. Fields'
  BY <1>1, <1>2 DEF IInv, Fields
<1>4. ASSUME NEW y \in linked'
      PROVE  /\ next'[y] \in linked' /\ prev'[y] \in linked'
             /\ prev'[next'[y]] = y /\ next'[prev'[y]] = y
  <2>1. CASE y = x
    BY <1>1, <1>2, <2>1 DEF IInv, Fields
  <2>2. CASE y # x
    <3>1. y \in linked
      BY <1>2, <1>4, <2>2
    <3>2. /\ next[y] \in linked /\ prev[y] \in linked
          /\ prev[next[y]] = y /\ next[prev[y]] = y
      BY <3>1 DEF IInv, LinksAgree
    <3>3. next'[y] \in linked' /\ prev'[next'[y]] = y
      <4>1. CASE y = c
        BY <1>1, <1>2, <4>1 DEF IInv, Fields
      <4>2. CASE y # c
        <5>1. next[y] # next[c] /\ next[y] # x
          BY <1>1, <3>2, <4>2
        <5> QED
          BY <1>1, <1>2, <2>2, <3>1, <3>2, <4>2, <5>1 DEF IInv, Fields
      <4> QED
        BY <4>1, <4>2
    <3>4. prev'[y] \in linked' /\ next'[prev'[y]] = y
      <4>1. CASE y = next[c]
        BY <1>1, <1>2, <4>1 DEF IInv, Fields
      <4>2. CASE y # next[c]
        <5>1. prev[y] # c /\ prev[y] # x
          BY <1>1, <3>2, <4>2
        <5> QED
          BY <1>1, <1>2, <2>2, <3>1, <3>2, <4>2, <5>1 DEF IInv, Fields
      <4> QED
        BY <4>1, <4>2
    <3> QED
      BY <3>3, <3>4
  <2> QED
    BY <2>1, <2>2
<1> QED
  BY <1>3, <1>4 DEF IInv, LinksAgree

(* Insertion before c: the mirror image.                                     *)
LEMMA AddBeforeLinks ==
  ASSUME NEW c \in Nodes, NEW x \in Elems, IInv, list_add_before(c, x)
  PROVE  IInv'
<1>1. /\ x \in Nodes /\ c \in linked /\ x \notin linked /\ c # x
      /\ prev[c] \in linked /\ next[prev[c]] = c /\ prev[c] # x
  BY DEF IInv, Fields, LinksAgree, list_add_before, Nodes
<1>2. /\ linked \subseteq Nodes
      /\ next' = [next EXCEPT ![prev[c]] = x, ![x] = c]
      /\ prev' = [prev EXCEPT ![x] = prev[c], ![c] = x]
      /\ linked' = linked \cup {x}
  BY DEF IInv, Fields, list_add_before
<1>3. Fields'
  BY <1>1, <1>2 DEF IInv, Fields
<1>4. ASSUME NEW y \in linked'
      PROVE  /\ next'[y] \in linked' /\ prev'[y] \in linked'
             /\ prev'[next'[y]] = y /\ next'[prev'[y]] = y
  <2>1. CASE y = x
    BY <1>1, <1>2, <2>1 DEF IInv, Fields
  <2>2. CASE y # x
    <3>1. y \in linked
      BY <1>2, <1>4, <2>2
    <3>2. /\ next[y] \in linked /\ prev[y] \in linked
          /\ prev[next[y]] = y /\ next[prev[y]] = y
      BY <3>1 DEF IInv, LinksAgree
    <3>3. prev'[y] \in linked' /\ next'[prev'[y]] = y
      <4>1. CASE y = c
        BY <1>1, <1>2, <4>1 DEF IInv, Fields
      <4>2. CASE y # c
        <5>1. prev[y] # prev[c] /\ prev[y] # x
          BY <1>1, <3>2, <4>2
        <5> QED
          BY <1>1, <1>2, <2>2, <3>1, <3>2, <4>2, <5>1 DEF IInv, Fields
      <4> QED
        BY <4>1, <4>2
    <3>4. next'[y] \in linked' /\ prev'[next'[y]] = y
      <4>1. CASE y = prev[c]
        BY <1>1, <1>2, <4>1 DEF IInv, Fields
      <4>2. CASE y # prev[c]
        <5>1. next[y] # c /\ next[y] # x
          BY <1>1, <3>2, <4>2
        <5> QED
          BY <1>1, <1>2, <2>2, <3>1, <3>2, <4>2, <5>1 DEF IInv, Fields
      <4> QED
        BY <4>1, <4>2
    <3> QED
      BY <3>3, <3>4
  <2> QED
    BY <2>1, <2>2
<1> QED
  BY <1>3, <1>4 DEF IInv, LinksAgree

(* Unlinking x: its two neighbours, possibly the same node, meet.  No other  *)
(* linked node pointed at x, so what remains linked still agrees.            *)
LEMMA UnlinkAgrees ==
  ASSUME NEW x \in Elems, IInv, x \in linked,
         NEW y \in linked \ {x}
  PROVE  /\ NextWithout(x)[y] \in linked \ {x}
         /\ PrevWithout(x)[y] \in linked \ {x}
         /\ PrevWithout(x)[NextWithout(x)[y]] = y
         /\ NextWithout(x)[PrevWithout(x)[y]] = y
<1>1. /\ linked \subseteq Nodes
      /\ next \in [Nodes -> Nodes \cup {NULL}]
      /\ prev \in [Nodes -> Nodes \cup {NULL}]
  BY DEF IInv, Fields
<1>2. /\ next[x] \in linked /\ prev[x] \in linked
      /\ prev[next[x]] = x /\ next[prev[x]] = x
      /\ next[y] \in linked /\ prev[y] \in linked
      /\ prev[next[y]] = y /\ next[prev[y]] = y
  BY DEF IInv, LinksAgree
<1>3. CASE y = prev[x]
  <2>1. NextWithout(x)[y] = next[x] /\ next[x] # x
    BY <1>1, <1>2, <1>3 DEF NextWithout
  <2>2. PrevWithout(x)[next[x]] = prev[x]
    BY <1>1, <1>2 DEF PrevWithout
  <2>3. CASE y = next[x]
    BY <1>1, <1>2, <1>3, <2>1, <2>2, <2>3
  <2>4. CASE y # next[x]
    <3>1. PrevWithout(x)[y] = prev[y] /\ prev[y] # x /\ prev[y] # prev[x]
      BY <1>1, <1>2, <1>3, <2>4 DEF PrevWithout
    <3>2. NextWithout(x)[prev[y]] = y
      BY <1>1, <1>2, <3>1 DEF NextWithout
    <3> QED
      BY <1>2, <1>3, <2>1, <2>2, <3>1, <3>2
  <2> QED
    BY <2>3, <2>4
<1>4. CASE y # prev[x]
  <2>1. NextWithout(x)[y] = next[y] /\ next[y] # x /\ next[y] # next[x]
    BY <1>1, <1>2, <1>4 DEF NextWithout
  <2>2. PrevWithout(x)[next[y]] = y
    BY <1>1, <1>2, <2>1 DEF PrevWithout
  <2>3. CASE y = next[x]
    <3>1. PrevWithout(x)[y] = prev[x] /\ prev[x] # x
      BY <1>1, <1>2, <2>3 DEF PrevWithout
    <3>2. NextWithout(x)[prev[x]] = y
      BY <1>1, <1>2, <2>3 DEF NextWithout
    <3> QED
      BY <1>2, <2>1, <2>2, <3>1, <3>2
  <2>4. CASE y # next[x]
    <3>1. PrevWithout(x)[y] = prev[y] /\ prev[y] # x /\ prev[y] # prev[x]
      BY <1>1, <1>2, <2>4 DEF PrevWithout
    <3>2. NextWithout(x)[prev[y]] = y
      BY <1>1, <1>2, <3>1 DEF NextWithout
    <3> QED
      BY <1>2, <2>1, <2>2, <3>1, <3>2
  <2> QED
    BY <2>3, <2>4
<1> QED
  BY <1>3, <1>4

(* The pointer fields stay functions into the nodes.                         *)
LEMMA WithoutType ==
  ASSUME NEW x \in Elems, IInv, x \in linked
  PROVE  /\ NextWithout(x) \in [Nodes -> Nodes \cup {NULL}]
         /\ PrevWithout(x) \in [Nodes -> Nodes \cup {NULL}]
  BY DEF IInv, Fields, LinksAgree, NextWithout, PrevWithout

(* list_del: its neighbours are joined, the other links stay inverse. *)
LEMMA DelLinks ==
  ASSUME NEW x \in Elems, IInv, list_del(x)
  PROVE  IInv'
<1>1. Fields'
  BY WithoutType DEF IInv, Fields, list_del
<1>2. LinksAgree'
  BY UnlinkAgrees DEF LinksAgree, list_del
<1> QED
  BY <1>1, <1>2 DEF IInv

(* list_del_init: as list_del, and the entry is linked to itself alone. *)
LEMMA DelInitLinks ==
  ASSUME NEW x \in Elems, IInv, list_del_init(x)
  PROVE  IInv'
<1>1. /\ x \in Nodes /\ x \in linked /\ linked' = linked \ {x}
      /\ linked \subseteq Nodes
      /\ next' = [NextWithout(x) EXCEPT ![x] = x]
      /\ prev' = [PrevWithout(x) EXCEPT ![x] = x]
  BY DEF IInv, Fields, list_del_init, Nodes
<1>2. Fields'
  BY <1>1, WithoutType DEF Fields
<1>3. ASSUME NEW y \in linked'
      PROVE  /\ next'[y] \in linked' /\ prev'[y] \in linked'
             /\ prev'[next'[y]] = y /\ next'[prev'[y]] = y
  <2>1. /\ NextWithout(x)[y] \in linked \ {x}
        /\ PrevWithout(x)[y] \in linked \ {x}
        /\ PrevWithout(x)[NextWithout(x)[y]] = y
        /\ NextWithout(x)[PrevWithout(x)[y]] = y
    BY <1>1, <1>3, UnlinkAgrees
  <2>2. \A z \in linked \ {x} : /\ next'[z] = NextWithout(x)[z]
                                /\ prev'[z] = PrevWithout(x)[z]
    BY <1>1, WithoutType
  <2> QED
    BY <1>1, <1>3, <2>1, <2>2
<1> QED
  BY <1>2, <1>3 DEF IInv, LinksAgree

(* No operation breaks the invariant.                                        *)
LEMMA StepLinks == IInv /\ [Next]_vars => IInv'
<1> SUFFICES ASSUME IInv, [Next]_vars PROVE IInv'
  OBVIOUS
<1>1. ASSUME NEW h \in Heads, list_init(h) PROVE IInv'
  BY <1>1, ListInitLinks
<1>2. ASSUME NEW c \in Nodes, NEW x \in Elems, list_add_after(c, x) PROVE IInv'
  BY <1>2, AddAfterLinks
<1>3. ASSUME NEW c \in Nodes, NEW x \in Elems, list_add_before(c, x) PROVE IInv'
  BY <1>3, AddBeforeLinks
<1>4. ASSUME NEW x \in Elems, list_del(x) PROVE IInv'
  BY <1>4, DelLinks
<1>5. ASSUME NEW x \in Elems, list_del_init(x) PROVE IInv'
  BY <1>5, DelInitLinks
<1>6. CASE UNCHANGED vars
  BY <1>6 DEF vars, IInv, Fields, LinksAgree
<1> QED
  BY <1>1, <1>2, <1>3, <1>4, <1>5, <1>6 DEF Next

(* Any sequence of calls of list.h keeps next and prev inverse on what is    *)
(* linked: no call ever leaves a list that runs off into a dangling entry.   *)
THEOREM LinksAgreeAlways == Spec => []LinksAgree
<1>1. Init => IInv
  BY InitLinks
<1>2. IInv /\ [Next]_vars => IInv'
  BY StepLinks
<1>3. IInv => LinksAgree
  BY DEF IInv
<1> QED
  BY <1>1, <1>2, <1>3, PTL DEF Spec

(* The fields always hold nodes, and those of a linked entry are never NULL. *)
THEOREM TypeCorrect == Spec => []TypeOK
<1>1. Init => IInv
  BY InitLinks
<1>2. IInv /\ [Next]_vars => IInv'
  BY StepLinks
<1>3. IInv => TypeOK
  BY NodesAssumption DEF IInv, Fields, LinksAgree, TypeOK, Nodes
<1> QED
  BY <1>1, <1>2, <1>3, PTL DEF Spec

-----------------------------------------------------------------------------
(* The ring of head h and the entries s: h stands before the first entry and  *)
(* after the last.                                                            *)
At(h, s, i) == IF i \in 1 .. Len(s) THEN s[i] ELSE h

Ring(h, s) ==
  \A i \in 0 .. Len(s) :
    /\ next[At(h, s, i)] = At(h, s, i + 1)
    /\ prev[At(h, s, i + 1)] = At(h, s, i)

(* Sequences of entries, no entry in two places.                              *)
Apart(L) ==
  /\ L \in [Heads -> Seq(Elems)]
  /\ \A h \in Heads : Distinct(L[h])
  /\ \A g, h \in Heads : g # h => Range(L[g]) \cap Range(L[h]) = {}

(* The linked nodes are the rings of L. *)
Holds(L) ==
  /\ Apart(L)
  /\ \A h \in Heads : IF h \in linked THEN Ring(h, L[h]) ELSE L[h] = <<>>
  /\ \A x \in Elems : x \in linked <=> \E h \in Heads : x \in Range(L[h])

RInv == IInv /\ \E L : Holds(L)

(* The stations of a ring are nodes, all different but for the head's return. *)
LEMMA Stations ==
  ASSUME NEW h \in Heads, NEW s \in Seq(Elems), Distinct(s)
  PROVE  /\ Len(s) \in Nat /\ At(h, s, 0) = h /\ At(h, s, Len(s) + 1) = h
         /\ \A i \in 1 .. Len(s) : At(h, s, i) = s[i] /\ s[i] \in Elems /\ s[i] # h
                                   /\ s[i] \in Range(s)
         /\ \A i \in 0 .. Len(s) + 1 : At(h, s, i) \in Nodes /\ At(h, s, i) \in {h} \cup Range(s)
         /\ \A i, j \in 0 .. Len(s) : At(h, s, i) = At(h, s, j) => i = j
         /\ \A i, j \in 1 .. Len(s) + 1 : At(h, s, i) = At(h, s, j) => i = j
<1>1. Len(s) \in Nat /\ DOMAIN s = 1 .. Len(s)
  OBVIOUS
<1>2. At(h, s, 0) = h /\ At(h, s, Len(s) + 1) = h
  BY <1>1 DEF At
<1>3. ASSUME NEW i \in 1 .. Len(s)
      PROVE  At(h, s, i) = s[i] /\ s[i] \in Elems /\ s[i] # h /\ s[i] \in Range(s)
  <2>1. s[i] \in Elems
    BY ElementOfSeq
  <2> QED
    BY <1>1, <2>1, NodesAssumption DEF At, Range
<1>4. \A i \in 0 .. Len(s) + 1 : i \notin 1 .. Len(s) => At(h, s, i) = h
  BY DEF At
<1>5. \A i \in 0 .. Len(s) + 1 : At(h, s, i) \in Nodes /\ At(h, s, i) \in {h} \cup Range(s)
  BY <1>3, <1>4 DEF Nodes
<1>6. ASSUME NEW i \in 0 .. Len(s), NEW j \in 0 .. Len(s), At(h, s, i) = At(h, s, j)
      PROVE  i = j
  <2>1. \A n \in 0 .. Len(s) : n = 0 \/ n \in 1 .. Len(s)
    BY <1>1
  <2> QED
    BY <1>2, <1>3, <1>6, <2>1 DEF Distinct
<1>7. ASSUME NEW i \in 1 .. Len(s) + 1, NEW j \in 1 .. Len(s) + 1, At(h, s, i) = At(h, s, j)
      PROVE  i = j
  <2>1. \A n \in 1 .. Len(s) + 1 : n = Len(s) + 1 \/ n \in 1 .. Len(s)
    BY <1>1
  <2> QED
    BY <1>2, <1>3, <1>7, <2>1 DEF Distinct
<1> QED
  BY <1>1, <1>2, <1>3, <1>5, <1>6, <1>7

(* x comes between a and b, and nothing else changes. *)
Between(a, x, b) ==
  \A y \in Nodes :
    /\ next'[y] = IF y = a THEN x ELSE IF y = x THEN b ELSE next[y]
    /\ prev'[y] = IF y = b THEN x ELSE IF y = x THEN a ELSE prev[y]

(* a and b meet, x has left, and nothing else that stays changes.             *)
Joined(a, x, b) ==
  \A y \in Nodes \ {x} :
    /\ next'[y] = IF y = a THEN b ELSE next[y]
    /\ prev'[y] = IF y = b THEN a ELSE prev[y]

(* A ring that neither a, b nor x is on stays as it is.                       *)
LEMMA RingKept ==
  ASSUME NEW h \in Heads, NEW s \in Seq(Elems), Distinct(s), Ring(h, s), NEW S,
         {h} \cup Range(s) \subseteq S,
         \A y \in S \cap Nodes : next'[y] = next[y] /\ prev'[y] = prev[y]
  PROVE  Ring(h, s)'
<1> SUFFICES ASSUME NEW i \in 0 .. Len(s)
             PROVE  /\ next'[At(h, s, i)] = At(h, s, i + 1)
                    /\ prev'[At(h, s, i + 1)] = At(h, s, i)
  BY DEF Ring, At
<1>1. i \in 0 .. Len(s) + 1 /\ i + 1 \in 0 .. Len(s) + 1
  BY Stations
<1>2. At(h, s, i) \in S \cap Nodes /\ At(h, s, i + 1) \in S \cap Nodes
  BY <1>1, Stations
<1> QED
  BY <1>2 DEF Ring

(* The ring with x at place k. *)
LEMMA RingInsert ==
  ASSUME NEW h \in Heads, NEW s \in Seq(Elems), Distinct(s), Ring(h, s),
         NEW x \in Elems, x \notin Range(s), NEW k \in 1 .. Len(s) + 1,
         Between(At(h, s, k - 1), x, At(h, s, k))
  PROVE  Ring(h, InsertAt(s, k, x))'
<1>1. PICK r : r = InsertAt(s, k, x)
  OBVIOUS
<1>2. /\ r \in Seq(Elems) /\ Len(r) = Len(s) + 1
      /\ \A i \in 1 .. Len(s) + 1 :
           r[i] = IF i < k THEN s[i] ELSE IF i = k THEN x ELSE s[i - 1]
  BY <1>1, PutAt
<1>3. Len(s) \in Nat /\ k \in Nat /\ x # h /\ x \in Nodes
  BY NodesAssumption DEF Nodes
<1>4. ASSUME NEW i \in 0 .. Len(s) + 2
      PROVE  At(h, r, i) = IF i < k THEN At(h, s, i) ELSE IF i = k THEN x ELSE At(h, s, i - 1)
  <2>1. CASE i = 0
    BY <1>2, <1>3, <2>1 DEF At
  <2>2. CASE i = Len(s) + 2
    BY <1>2, <1>3, <2>2 DEF At
  <2>3. CASE i \in 1 .. Len(s) + 1
    <3>1. At(h, r, i) = r[i]
      BY <1>2, <2>3 DEF At
    <3>2. CASE i < k
      <4>1. i \in 1 .. Len(s)
        BY <1>3, <2>3, <3>2
      <4> QED
        BY <1>2, <2>3, <3>1, <3>2, <4>1 DEF At
    <3>3. CASE i = k
      BY <1>2, <1>3, <2>3, <3>1, <3>3
    <3>4. CASE i > k
      <4>1. i - 1 \in 1 .. Len(s) /\ ~(i < k) /\ i # k
        BY <1>3, <2>3, <3>4
      <4> QED
        BY <1>2, <2>3, <3>1, <4>1 DEF At
    <3> QED
      BY <1>3, <3>2, <3>3, <3>4
  <2> QED
    BY <1>3, <2>1, <2>2, <2>3
<1>5. \A i \in 0 .. Len(s) + 1 : At(h, s, i) \in Nodes /\ At(h, s, i) # x
  BY <1>3, Stations
<1>6. ASSUME NEW i \in 0 .. Len(s) + 1
      PROVE  /\ next'[At(h, r, i)] = At(h, r, i + 1)
             /\ prev'[At(h, r, i + 1)] = At(h, r, i)
  <2>1. k - 1 \in 0 .. Len(s) /\ k \in 1 .. Len(s) + 1 /\ k \in 0 .. Len(s) + 1
        /\ k - 1 \in 0 .. Len(s) + 1
    BY <1>3
  <2>2. CASE i < k - 1
    <3>1. /\ i \in 0 .. Len(s) /\ i # k - 1 /\ i + 1 \in 1 .. Len(s) + 1 /\ i + 1 # k
          /\ i \in 0 .. Len(s) + 1 /\ i + 1 \in 0 .. Len(s) + 1
          /\ i \in 0 .. Len(s) + 2 /\ i + 1 \in 0 .. Len(s) + 2 /\ i < k /\ i + 1 < k
      BY <1>3, <2>2
    <3>2. At(h, r, i) = At(h, s, i) /\ At(h, r, i + 1) = At(h, s, i + 1)
      BY <1>4, <3>1
    <3>3. At(h, s, i) # At(h, s, k - 1) /\ At(h, s, i + 1) # At(h, s, k)
      BY <2>1, <3>1, Stations
    <3>4. /\ next'[At(h, s, i)] = next[At(h, s, i)]
          /\ prev'[At(h, s, i + 1)] = prev[At(h, s, i + 1)]
      BY <1>5, <3>1, <3>3 DEF Between
    <3> QED
      BY <3>1, <3>2, <3>4 DEF Ring
  <2>3. CASE i = k - 1
    <3>1. /\ i \in 0 .. Len(s) + 2 /\ i + 1 = k /\ i < k /\ k \in 0 .. Len(s) + 2
          /\ ~(k < k)
      BY <1>3, <2>3
    <3>2. At(h, r, i) = At(h, s, k - 1) /\ At(h, r, i + 1) = x
      BY <1>4, <2>3, <3>1
    <3>3. next'[At(h, s, k - 1)] = x
      BY <1>5, <2>1 DEF Between
    <3>4. prev'[x] = At(h, s, k - 1)
      BY <1>3, <1>5, <2>1 DEF Between
    <3> QED
      BY <3>2, <3>3, <3>4
  <2>4. CASE i = k
    <3>1. /\ i \in 0 .. Len(s) + 2 /\ i + 1 \in 0 .. Len(s) + 2 /\ ~(i < k) /\ ~(i + 1 < k)
          /\ i + 1 # k /\ (i + 1) - 1 = k
      BY <1>3, <2>4
    <3>2. At(h, r, i) = x /\ At(h, r, i + 1) = At(h, s, k)
      BY <1>4, <2>4, <3>1
    <3>3. next'[x] = At(h, s, k)
      BY <1>3, <1>5, <2>1 DEF Between
    <3>4. prev'[At(h, s, k)] = x
      BY <1>5, <2>1 DEF Between
    <3> QED
      BY <3>2, <3>3, <3>4
  <2>5. CASE i > k
    <3>1. /\ i - 1 \in 0 .. Len(s) /\ i - 1 # k - 1 /\ i \in 1 .. Len(s) + 1 /\ i # k
          /\ i - 1 \in 0 .. Len(s) + 1 /\ i \in 0 .. Len(s) + 1
          /\ i \in 0 .. Len(s) + 2 /\ i + 1 \in 0 .. Len(s) + 2
          /\ ~(i < k) /\ ~(i + 1 < k) /\ i + 1 # k /\ (i + 1) - 1 = i /\ (i - 1) + 1 = i
      BY <1>3, <2>5
    <3>2. At(h, r, i) = At(h, s, i - 1) /\ At(h, r, i + 1) = At(h, s, i)
      BY <1>4, <3>1
    <3>3. At(h, s, i - 1) # At(h, s, k - 1) /\ At(h, s, i) # At(h, s, k)
      BY <2>1, <3>1, Stations
    <3>4. /\ next'[At(h, s, i - 1)] = next[At(h, s, i - 1)]
          /\ prev'[At(h, s, i)] = prev[At(h, s, i)]
      BY <1>5, <3>1, <3>3 DEF Between
    <3>5. next[At(h, s, i - 1)] = At(h, s, (i - 1) + 1) /\ prev[At(h, s, (i - 1) + 1)] = At(h, s, i - 1)
      BY <3>1 DEF Ring
    <3> QED
      BY <3>1, <3>2, <3>4, <3>5
  <2> QED
    BY <1>3, <2>2, <2>3, <2>4, <2>5
<1>7. Ring(h, r)'
  BY <1>2, <1>6 DEF Ring, At
<1> QED
  BY <1>1, <1>7

(* The ring without its entry at place k. *)
LEMMA RingDelete ==
  ASSUME NEW h \in Heads, NEW s \in Seq(Elems), Distinct(s), Ring(h, s),
         NEW k \in 1 .. Len(s), Joined(At(h, s, k - 1), s[k], At(h, s, k + 1))
  PROVE  Ring(h, RemoveAt(s, k))'
<1>1. PICK r : r = RemoveAt(s, k)
  OBVIOUS
<1>2. /\ r \in Seq(Elems) /\ Len(r) = Len(s) - 1
      /\ \A i \in 1 .. Len(s) - 1 : r[i] = IF i < k THEN s[i] ELSE s[i + 1]
  BY <1>1, TakenOut
<1>3. Len(s) \in Nat /\ k \in Nat /\ k > 0 /\ k <= Len(s) /\ At(h, s, k) = s[k]
  BY Stations
<1>4. ASSUME NEW i \in 0 .. Len(s)
      PROVE  At(h, r, i) = IF i < k THEN At(h, s, i) ELSE At(h, s, i + 1)
  <2>1. CASE i = 0
    BY <1>2, <1>3, <2>1 DEF At
  <2>2. CASE i = Len(s)
    BY <1>2, <1>3, <2>2 DEF At
  <2>3. CASE i \in 1 .. Len(s) - 1
    <3>1. At(h, r, i) = r[i]
      BY <1>2, <2>3 DEF At
    <3>2. i \in 1 .. Len(s) /\ i + 1 \in 1 .. Len(s)
      BY <1>3, <2>3
    <3> QED
      BY <1>2, <2>3, <3>1, <3>2 DEF At
  <2> QED
    BY <1>3, <2>1, <2>2, <2>3
<1>5. \A i \in 0 .. Len(s) + 1 : At(h, s, i) \in Nodes
  BY Stations
<1>6. \A i \in 0 .. Len(s) + 1 : i # k => At(h, s, i) # s[k]
  <2> SUFFICES ASSUME NEW i \in 0 .. Len(s) + 1, i # k PROVE At(h, s, i) # At(h, s, k)
    BY <1>3
  <2>1. i \in 0 .. Len(s) \/ i \in 1 .. Len(s) + 1
    BY <1>3
  <2>2. k \in 0 .. Len(s) /\ k \in 1 .. Len(s) + 1
    BY <1>3
  <2> QED
    BY <2>1, <2>2, Stations
<1>7. ASSUME NEW i \in 0 .. Len(s) - 1
      PROVE  /\ next'[At(h, r, i)] = At(h, r, i + 1)
             /\ prev'[At(h, r, i + 1)] = At(h, r, i)
  <2>1. /\ k - 1 \in 0 .. Len(s) /\ k + 1 \in 1 .. Len(s) + 1
        /\ k - 1 \in 0 .. Len(s) + 1 /\ k + 1 \in 0 .. Len(s) + 1
        /\ k - 1 # k /\ k + 1 # k
    BY <1>3
  <2>2. CASE i < k - 1
    <3>1. /\ i \in 0 .. Len(s) /\ i # k - 1 /\ i + 1 \in 1 .. Len(s) + 1 /\ i + 1 # k + 1
          /\ i \in 0 .. Len(s) + 1 /\ i + 1 \in 0 .. Len(s) + 1 /\ i + 1 \in 0 .. Len(s)
          /\ i < k /\ i + 1 < k /\ i # k /\ i + 1 # k
      BY <1>3, <2>2
    <3>2. At(h, r, i) = At(h, s, i) /\ At(h, r, i + 1) = At(h, s, i + 1)
      BY <1>4, <3>1
    <3>3. At(h, s, i) # At(h, s, k - 1) /\ At(h, s, i + 1) # At(h, s, k + 1)
      BY <2>1, <3>1, Stations
    <3>4. At(h, s, i) \in Nodes \ {s[k]} /\ At(h, s, i + 1) \in Nodes \ {s[k]}
      BY <1>5, <1>6, <3>1
    <3>5. /\ next'[At(h, s, i)] = next[At(h, s, i)]
          /\ prev'[At(h, s, i + 1)] = prev[At(h, s, i + 1)]
      BY <3>3, <3>4 DEF Joined
    <3> QED
      BY <3>1, <3>2, <3>5 DEF Ring
  <2>3. CASE i = k - 1
    <3>1. i \in 0 .. Len(s) /\ i + 1 = k /\ i < k /\ k \in 0 .. Len(s) /\ ~(k < k)
      BY <1>3, <2>3
    <3>2. At(h, r, i) = At(h, s, k - 1) /\ At(h, r, i + 1) = At(h, s, k + 1)
      BY <1>4, <2>3, <3>1
    <3>3. At(h, s, k - 1) \in Nodes \ {s[k]} /\ At(h, s, k + 1) \in Nodes \ {s[k]}
      BY <1>5, <1>6, <2>1
    <3>4. next'[At(h, s, k - 1)] = At(h, s, k + 1) /\ prev'[At(h, s, k + 1)] = At(h, s, k - 1)
      BY <3>3 DEF Joined
    <3> QED
      BY <3>2, <3>4
  <2>4. CASE i >= k
    <3>1. /\ i + 1 \in 0 .. Len(s) /\ i + 1 # k - 1 /\ (i + 1) + 1 \in 1 .. Len(s) + 1
          /\ (i + 1) + 1 # k + 1 /\ i \in 0 .. Len(s)
          /\ i + 1 \in 0 .. Len(s) + 1 /\ (i + 1) + 1 \in 0 .. Len(s) + 1
          /\ ~(i < k) /\ ~(i + 1 < k) /\ i + 1 # k /\ (i + 1) + 1 # k
      BY <1>3, <2>4
    <3>2. At(h, r, i) = At(h, s, i + 1) /\ At(h, r, i + 1) = At(h, s, (i + 1) + 1)
      BY <1>4, <3>1
    <3>3. At(h, s, i + 1) # At(h, s, k - 1) /\ At(h, s, (i + 1) + 1) # At(h, s, k + 1)
      BY <2>1, <3>1, Stations
    <3>4. At(h, s, i + 1) \in Nodes \ {s[k]} /\ At(h, s, (i + 1) + 1) \in Nodes \ {s[k]}
      BY <1>5, <1>6, <3>1
    <3>5. /\ next'[At(h, s, i + 1)] = next[At(h, s, i + 1)]
          /\ prev'[At(h, s, (i + 1) + 1)] = prev[At(h, s, (i + 1) + 1)]
      BY <3>3, <3>4 DEF Joined
    <3> QED
      BY <3>1, <3>2, <3>5 DEF Ring
  <2> QED
    BY <1>3, <2>2, <2>3, <2>4
<1>8. Ring(h, r)'
  BY <1>2, <1>7 DEF Ring, At
<1> QED
  BY <1>1, <1>8

(* Where a linked node stands. *)
LEMMA Stands ==
  ASSUME NEW L, Holds(L), IInv, NEW c \in linked
  PROVE  \E h \in Heads :
           /\ h \in linked /\ Ring(h, L[h]) /\ L[h] \in Seq(Elems) /\ Distinct(L[h])
           /\ \E i \in 1 .. Len(L[h]) + 1 : At(h, L[h], i) = c
           /\ \E i \in 0 .. Len(L[h]) : At(h, L[h], i) = c
           /\ c \in Elems => \E i \in 1 .. Len(L[h]) : L[h][i] = c
<1>1. \A h \in Heads : L[h] \in Seq(Elems) /\ Distinct(L[h]) /\ Len(L[h]) \in Nat
  BY DEF Holds, Apart
<1>2. CASE c \in Heads
  <2>1. /\ Ring(c, L[c]) /\ c \notin Elems
        /\ At(c, L[c], Len(L[c]) + 1) = c /\ At(c, L[c], 0) = c
    BY <1>1, <1>2, Stations, NodesAssumption DEF Holds
  <2>2. Len(L[c]) + 1 \in 1 .. Len(L[c]) + 1 /\ 0 \in 0 .. Len(L[c])
    BY <1>1, <1>2
  <2> QED
    BY <1>1, <1>2, <2>1, <2>2
<1>3. CASE c \in Elems
  <2>1. PICK h \in Heads : c \in Range(L[h])
    BY <1>3 DEF Holds
  <2>2. PICK i \in 1 .. Len(L[h]) : L[h][i] = c
    BY <1>1, <2>1 DEF Range
  <2>3. h \in linked
    <3> SUFFICES ASSUME h \notin linked PROVE FALSE
      OBVIOUS
    <3>1. L[h] = <<>>
      BY DEF Holds
    <3> QED
      BY <2>2, <3>1
  <2>4. i \in 1 .. Len(L[h]) + 1 /\ i \in 0 .. Len(L[h]) /\ At(h, L[h], i) = c
    BY <1>1, <2>2 DEF At
  <2>5. Ring(h, L[h])
    BY <2>3 DEF Holds
  <2> QED
    BY <1>1, <2>2, <2>3, <2>4, <2>5
<1> QED
  BY <1>2, <1>3 DEF IInv, Fields, Nodes

(* The other lists are not touched. *)
LEMMA OthersKept ==
  ASSUME NEW L, Holds(L), NEW h \in Heads, NEW g \in Heads, g # h,
         NEW x \in Elems, x \in Range(L[h]) \/ x \notin linked,
         \A y \in Nodes : y \notin {h, x} \cup Range(L[h]) =>
                             next'[y] = next[y] /\ prev'[y] = prev[y],
         g \in linked' <=> g \in linked
  PROVE  IF g \in linked' THEN Ring(g, L[g])' ELSE L[g] = <<>>
<1>1. L[g] \in Seq(Elems) /\ Distinct(L[g]) /\ L[h] \in Seq(Elems)
  BY DEF Holds, Apart
<1>2. CASE g \in linked
  <2> DEFINE S == {g} \cup Range(L[g])
  <2>1. Ring(g, L[g])
    BY <1>2 DEF Holds
  <2>2. h \notin S /\ x \notin S /\ S \cap Range(L[h]) = {}
    <3>1. Range(L[g]) \subseteq Elems /\ Range(L[h]) \subseteq Elems
      BY <1>1 DEF Range
    <3>2. Range(L[g]) \cap Range(L[h]) = {} /\ x \notin Range(L[g])
      BY DEF Holds, Apart
    <3> QED
      BY <3>1, <3>2, NodesAssumption
  <2>3. \A y \in S \cap Nodes : next'[y] = next[y] /\ prev'[y] = prev[y]
    BY <2>2
  <2>4. {g} \cup Range(L[g]) \subseteq S
    OBVIOUS
  <2> HIDE DEF S
  <2>5. Ring(g, L[g])'
    <3>1. PICK s \in Seq(Elems) : s = L[g]
      BY <1>1
    <3>2. Ring(g, s)'
      BY <1>1, <2>1, <2>3, <2>4, <3>1, RingKept
    <3>3. Ring(g, s)' <=> Ring(g, L[g])'
      BY <3>1 DEF Ring, At
    <3> QED
      BY <3>2, <3>3
  <2> QED
    BY <1>2, <2>5
<1>3. CASE g \notin linked
  BY <1>3 DEF Holds
<1> QED
  BY <1>2, <1>3

(* The lists after an insertion. *)
LEMMA HoldsInserted ==
  ASSUME IInv, NEW L, Holds(L), NEW h \in Heads, h \in linked,
         NEW x \in Elems, x \notin linked, NEW k \in 1 .. Len(L[h]) + 1,
         Between(At(h, L[h], k - 1), x, At(h, L[h], k)), linked' = linked \cup {x},
         NEW M, M = [L EXCEPT ![h] = InsertAt(L[h], k, x)]
  PROVE  Holds(M)'
<1>1. /\ L \in [Heads -> Seq(Elems)] /\ Distinct(L[h]) /\ L[h] \in Seq(Elems)
      /\ Ring(h, L[h]) /\ x \notin Range(L[h])
  BY DEF Holds, Apart
<1>2. PICK r : r = InsertAt(L[h], k, x)
  OBVIOUS
<1>3. r \in Seq(Elems) /\ Distinct(r) /\ Range(r) = Range(L[h]) \cup {x}
  BY <1>1, <1>2, PutAt
<1>4. M \in [Heads -> Seq(Elems)] /\ M[h] = r /\ \A g \in Heads : g # h => M[g] = L[g]
  BY <1>1, <1>2, <1>3
<1>5. Apart(M)
  <2>1. \A g \in Heads : Distinct(M[g])
    BY <1>3, <1>4 DEF Holds, Apart
  <2>2. \A g, f \in Heads : g # f => Range(M[g]) \cap Range(M[f]) = {}
    <3>1. \A g \in Heads : x \notin Range(L[g])
      BY DEF Holds
    <3> QED
      BY <1>3, <1>4, <3>1 DEF Holds, Apart
  <2> QED
    BY <1>4, <2>1, <2>2 DEF Apart
<1>6. Ring(h, r)'
  BY <1>1, <1>2, RingInsert
<1>7. \A y \in Nodes : y \notin {h, x} \cup Range(L[h]) =>
                          next'[y] = next[y] /\ prev'[y] = prev[y]
  <2>1. k - 1 \in 0 .. Len(L[h]) + 1 /\ k \in 0 .. Len(L[h]) + 1
    BY <1>1
  <2>2. /\ At(h, L[h], k - 1) \in {h} \cup Range(L[h])
        /\ At(h, L[h], k) \in {h} \cup Range(L[h])
    BY <1>1, <2>1, Stations
  <2> QED
    BY <2>2 DEF Between
<1>8. ASSUME NEW g \in Heads
      PROVE  IF g \in linked' THEN Ring(g, M[g])' ELSE M[g] = <<>>
  <2>1. g \in linked' <=> g \in linked
    BY NodesAssumption
  <2>2. CASE g = h
    <3>1. PICK s : s = M[g]
      OBVIOUS
    <3>2. Ring(g, s)'
      BY <1>4, <1>6, <2>2, <3>1
    <3>3. Ring(g, s)' <=> Ring(g, M[g])'
      BY <3>1 DEF Ring, At
    <3> QED
      BY <2>1, <2>2, <3>2, <3>3
  <2>3. CASE g # h
    <3>1. IF g \in linked' THEN Ring(g, L[g])' ELSE L[g] = <<>>
      BY <1>7, <2>1, <2>3, OthersKept
    <3>2. Ring(g, L[g])' <=> Ring(g, M[g])'
      BY <1>4, <2>3 DEF Ring, At
    <3> QED
      BY <1>4, <2>3, <3>1, <3>2
  <2> QED
    BY <2>2, <2>3
<1>9. \A y \in Elems : y \in linked' <=> \E g \in Heads : y \in Range(M[g])
  <2>1. ASSUME NEW y \in Elems
        PROVE  (\E g \in Heads : y \in Range(M[g])) <=> y = x \/ \E g \in Heads : y \in Range(L[g])
    BY <1>3, <1>4
  <2> QED
    BY <2>1 DEF Holds
<1> QED
  BY <1>5, <1>8, <1>9 DEF Holds, Apart

(* The lists after a deletion. *)
LEMMA HoldsDeleted ==
  ASSUME IInv, NEW L, Holds(L), NEW h \in Heads, h \in linked, NEW k \in 1 .. Len(L[h]),
         Joined(At(h, L[h], k - 1), L[h][k], At(h, L[h], k + 1)),
         linked' = linked \ {L[h][k]},
         NEW M, M = [L EXCEPT ![h] = RemoveAt(L[h], k)]
  PROVE  Holds(M)'
<1>1. /\ L \in [Heads -> Seq(Elems)] /\ Distinct(L[h]) /\ L[h] \in Seq(Elems)
      /\ Ring(h, L[h])
  BY DEF Holds, Apart
<1>2. PICK r : r = RemoveAt(L[h], k)
  OBVIOUS
<1>3. PICK x : x = L[h][k]
  OBVIOUS
<1>4. r \in Seq(Elems) /\ Distinct(r) /\ Range(r) = Range(L[h]) \ {x}
  BY <1>1, <1>2, <1>3, TakenOut
<1>5. x \in Range(L[h]) /\ x \in Elems
  BY <1>1, <1>3, Stations
<1>6. M \in [Heads -> Seq(Elems)] /\ M[h] = r /\ \A g \in Heads : g # h => M[g] = L[g]
  BY <1>1, <1>2, <1>4
<1>7. \A g \in Heads : Range(M[g]) = Range(L[g]) \ {x}
  <2>1. \A g \in Heads : g # h => x \notin Range(L[g])
    BY <1>5 DEF Holds, Apart
  <2> QED
    BY <1>4, <1>6, <2>1
<1>8. Apart(M)
  <2>1. \A g \in Heads : Distinct(M[g])
    BY <1>4, <1>6 DEF Holds, Apart
  <2>2. \A g, f \in Heads : g # f => Range(M[g]) \cap Range(M[f]) = {}
    BY <1>7 DEF Holds, Apart
  <2> QED
    BY <1>6, <2>1, <2>2 DEF Apart
<1>9. Ring(h, r)'
  BY <1>1, <1>2, RingDelete
<1>10. \A y \in Nodes : y \notin {h, x} \cup Range(L[h]) =>
                          next'[y] = next[y] /\ prev'[y] = prev[y]
  <2>1. k - 1 \in 0 .. Len(L[h]) + 1 /\ k + 1 \in 0 .. Len(L[h]) + 1
    BY <1>1
  <2>2. /\ At(h, L[h], k - 1) \in {h} \cup Range(L[h])
        /\ At(h, L[h], k + 1) \in {h} \cup Range(L[h])
    BY <1>1, <2>1, Stations
  <2> QED
    BY <1>3, <2>2 DEF Joined
<1>11. ASSUME NEW g \in Heads
      PROVE  IF g \in linked' THEN Ring(g, M[g])' ELSE M[g] = <<>>
  <2>1. g \in linked' <=> g \in linked
    BY <1>3, <1>5, NodesAssumption
  <2>2. CASE g = h
    <3>1. PICK s : s = M[g]
      OBVIOUS
    <3>2. Ring(g, s)'
      BY <1>6, <1>9, <2>2, <3>1
    <3>3. Ring(g, s)' <=> Ring(g, M[g])'
      BY <3>1 DEF Ring, At
    <3> QED
      BY <2>1, <2>2, <3>2, <3>3
  <2>3. CASE g # h
    <3>1. IF g \in linked' THEN Ring(g, L[g])' ELSE L[g] = <<>>
      BY <1>5, <1>10, <2>1, <2>3, OthersKept
    <3>2. Ring(g, L[g])' <=> Ring(g, M[g])'
      BY <1>6, <2>3 DEF Ring, At
    <3> QED
      BY <1>6, <2>3, <3>1, <3>2
  <2> QED
    BY <2>2, <2>3
<1>12. \A y \in Elems : y \in linked' <=> \E g \in Heads : y \in Range(M[g])
  BY <1>3, <1>7 DEF Holds
<1> QED
  BY <1>8, <1>11, <1>12 DEF Holds, Apart

-----------------------------------------------------------------------------
(* What the recursive function of Walk over next is. *)
Path(h, f) ==
  f = [k \in 0 .. Hops |-> IF k = 0 THEN h
                           ELSE IF f[k - 1] = NULL THEN NULL ELSE next[f[k - 1]]]

(* It exists: at most Hops hops are made.                                     *)
LEMMA PathExists ==
  ASSUME IInv, NEW h \in Heads
  PROVE  Hops \in Nat /\ \E f : Path(h, f)
<1>1. Hops \in Nat
  <2>1. IsFiniteSet(Heads \cup Elems)
    BY NodesAssumption, FS_Union
  <2> QED
    BY <2>1, FS_CardinalityType DEF Hops, Nodes
<1>2. PICK N : N = Hops + 1
  OBVIOUS
<1>3. PICK V : V = Nodes \cup {NULL}
  OBVIOUS
<1>4. PICK hop : hop = [v \in V |-> IF v = NULL THEN NULL ELSE next[v]]
  OBVIOUS
<1>5. hop \in [V -> V]
  BY <1>3, <1>4 DEF IInv, Fields
<1>6. PICK step : step = [i \in Nat |-> hop]
  OBVIOUS
<1>7. step \in [Nat -> [V -> V]] /\ h \in V /\ N \in Nat
  BY <1>1, <1>2, <1>3, <1>5, <1>6 DEF Nodes
<1>8. PICK f \in [1 .. N -> V] : Iterates(f, N, h, step)
  BY <1>7, IterationExists
<1>9. PICK g : g = [k \in 0 .. Hops |-> f[k + 1]]
  OBVIOUS
<1>10. ASSUME NEW k \in 0 .. Hops
       PROVE  g[k] = IF k = 0 THEN h ELSE IF g[k - 1] = NULL THEN NULL ELSE next[g[k - 1]]
  <2>1. k + 1 \in 1 .. N /\ (k + 1 = 1 <=> k = 0) /\ (k + 1) - 1 = k /\ k + 1 \in Nat
    BY <1>1, <1>2
  <2>2. g[k] = IF k = 0 THEN h ELSE step[k + 1][f[(k + 1) - 1]]
    BY <1>8, <1>9, <2>1 DEF Iterates
  <2>3. CASE k # 0
    <3>1. k - 1 \in 0 .. Hops /\ (k - 1) + 1 = k /\ k \in 1 .. N
      BY <1>1, <1>2, <2>3
    <3>2. g[k - 1] = f[k] /\ f[k] \in V
      BY <1>9, <3>1
    <3>3. g[k] = hop[g[k - 1]]
      BY <1>6, <2>1, <2>2, <2>3, <3>2
    <3> QED
      BY <1>4, <2>3, <3>2, <3>3
  <2> QED
    BY <2>2, <2>3
<1>11. Path(h, g)
  <2>1. PICK r : r = [k \in 0 .. Hops |-> IF k = 0 THEN h
                        ELSE IF g[k - 1] = NULL THEN NULL ELSE next[g[k - 1]]]
    OBVIOUS
  <2>2. g = r
    <3>1. \A k \in 0 .. Hops : g[k] = r[k]
      BY <1>10, <2>1
    <3>2. g = [k \in 0 .. Hops |-> g[k]] /\ r = [k \in 0 .. Hops |-> r[k]]
      BY <1>9, <2>1
    <3> QED
      BY <3>1, <3>2
  <2> QED
    BY <2>1, <2>2 DEF Path
<1> QED
  BY <1>1, <1>11

(* A ring has no more stations than there are nodes, *)
LEMMA RingFits ==
  ASSUME NEW h \in Heads, NEW s \in Seq(Elems), Distinct(s)
  PROVE  Len(s) + 1 <= Hops
<1>1. IsFiniteSet(Heads \cup Elems)
  BY NodesAssumption, FS_Union
<1>2. PICK f : f = [i \in 0 .. Len(s) |-> At(h, s, i)]
  OBVIOUS
<1>3. Len(s) \in Nat /\ \A i \in 0 .. Len(s) : i \in 0 .. Len(s) + 1
  OBVIOUS
<1>4. f \in [0 .. Len(s) -> Nodes] /\ \A i, j \in 0 .. Len(s) : f[i] = f[j] => i = j
  BY <1>2, <1>3, Stations
<1>5. f \in Injection(0 .. Len(s), Nodes)
  BY <1>4 DEF Injection, IsInjective
<1>6. Cardinality(0 .. Len(s)) <= Cardinality(Nodes)
  BY <1>1, <1>5, FS_Injection DEF Nodes
<1>7. Cardinality(0 .. Len(s)) = Len(s) + 1
  <2>1. PICK a, b \in Int : a = 0 /\ b = Len(s)
    BY <1>3
  <2>2. Cardinality(a .. b) = IF a > b THEN 0 ELSE b - a + 1
    BY FS_Interval
  <2> QED
    BY <1>3, <2>1, <2>2
<1> QED
  BY <1>6, <1>7 DEF Hops

(* and a walk meets them in their order.                                      *)
LEMMA PathIsRing ==
  ASSUME NEW h \in Heads, NEW s \in Seq(Elems), Distinct(s), Ring(h, s),
         Hops \in Nat, NEW f, Path(h, f)
  PROVE  \A k \in 0 .. Len(s) + 1 : f[k] = At(h, s, k)
<1>1. PICK M : M = Len(s) + 1
  OBVIOUS
<1>2. M \in Nat /\ M <= Hops /\ Len(s) \in Nat
  BY <1>1, RingFits
<1>3. \A k \in 0 .. Hops : f[k] = IF k = 0 THEN h
                                  ELSE IF f[k - 1] = NULL THEN NULL ELSE next[f[k - 1]]
  <2>1. PICK r : r = [k \in 0 .. Hops |-> IF k = 0 THEN h
                        ELSE IF f[k - 1] = NULL THEN NULL ELSE next[f[k - 1]]]
    OBVIOUS
  <2>2. f = r
    BY <2>1 DEF Path
  <2>3. \A k \in 0 .. Hops : r[k] = IF k = 0 THEN h
                                  ELSE IF f[k - 1] = NULL THEN NULL ELSE next[f[k - 1]]
    BY <2>1
  <2> QED
    BY <2>2, <2>3
<1> DEFINE Good == {k \in 0 .. M : f[k] = At(h, s, k)}
<1>4. 0 \in Good
  BY <1>2, <1>3, Stations
<1>5. ASSUME NEW k \in 0 .. M, k \in Good, k < M
      PROVE  k + 1 \in Good
  <2>1. k + 1 \in 0 .. M /\ k + 1 \in 0 .. Hops /\ k + 1 # 0 /\ (k + 1) - 1 = k
        /\ k \in 0 .. Len(s) /\ k \in 0 .. Len(s) + 1
    BY <1>1, <1>2, <1>5
  <2>2. f[k] = At(h, s, k) /\ f[k] # NULL
    BY <1>5, <2>1, Stations, NodesAssumption DEF Nodes
  <2>3. f[k + 1] = next[f[k]]
    BY <1>3, <2>1, <2>2
  <2> QED
    BY <2>1, <2>2, <2>3 DEF Ring
<1>6. Good = 0 .. M
  <2>1. Good \in SUBSET (0 .. M) /\ 0 \in Nat
    OBVIOUS
  <2> HIDE DEF Good
  <2> QED
    BY <1>2, <1>4, <1>5, <2>1, Steps
<1> QED
  BY <1>1, <1>6

(* The walk over a ring reads its entries, in order.                          *)
LEMMA WalkIsRing ==
  ASSUME IInv, NEW h \in Heads, NEW s \in Seq(Elems), Distinct(s), Ring(h, s)
  PROVE  Walk(next, h) = s
<1>1. PICK f : f = CHOOSE g : Path(h, g)
  OBVIOUS
<1>2. Path(h, f) /\ Hops \in Nat
  BY <1>1, PathExists
<1>3. \A k \in 0 .. Len(s) + 1 : f[k] = At(h, s, k)
  BY <1>2, PathIsRing
<1>4. Len(s) \in Nat /\ Len(s) + 1 <= Hops
  BY RingFits
<1>5. PICK home : home = {k \in 1 .. Hops : f[k] = h}
  OBVIOUS
<1>6. Walk(next, h) =
        [k \in 1 .. (IF home = {} THEN Hops ELSE Min(home) - 1) |-> f[k]]
  <2> DEFINE homes(p) == {k \in 1 .. Hops : p[k] = h}
             cut(p)   == [k \in 1 .. (IF homes(p) = {} THEN Hops ELSE Min(homes(p)) - 1) |-> p[k]]
  <2>1. Walk(next, h) = cut(CHOOSE g : Path(h, g))
    BY DEF Walk, Path
  <2>2. homes(f) = home
    BY <1>5
  <2>3. cut(f) = [k \in 1 .. (IF home = {} THEN Hops ELSE Min(home) - 1) |-> f[k]]
    <3> HIDE DEF homes
    <3> QED
      BY <2>2
  <2> HIDE DEF cut
  <2> QED
    BY <1>1, <2>1, <2>3
<1>7. Len(s) + 1 \in home
  <2>1. Len(s) + 1 \in 0 .. Len(s) + 1 /\ Len(s) + 1 \in 1 .. Hops
    BY <1>2, <1>4
  <2> QED
    BY <1>3, <1>5, <2>1, Stations
<1>8. \A k \in home : Len(s) + 1 <= k
  <2> SUFFICES ASSUME NEW k \in home, k < Len(s) + 1 PROVE FALSE
    BY <1>4, <1>5
  <2>1. k \in 1 .. Len(s) /\ k \in 0 .. Len(s) + 1
    BY <1>4, <1>5
  <2> QED
    BY <1>3, <1>5, <2>1, Stations
<1>9. Min(home) = Len(s) + 1
  <2>1. \A k \in home : k \in Nat
    BY <1>5
  <2> QED
    BY <1>4, <1>7, <1>8, <2>1 DEF Min
<1>10. PICK r : r = [k \in 1 .. Len(s) |-> f[k]]
  OBVIOUS
<1>11. Walk(next, h) = r
  <2>1. home # {} /\ Min(home) - 1 = Len(s)
    BY <1>4, <1>7, <1>9
  <2> QED
    BY <1>6, <1>10, <2>1
<1>12. \A k \in 1 .. Len(s) : k \in 0 .. Len(s) + 1
  BY <1>4
<1>13. \A k \in 1 .. Len(s) : f[k] = s[k]
  BY <1>3, <1>12, Stations
<1>14. r = s
  <2>1. s = [k \in 1 .. Len(s) |-> s[k]]
    OBVIOUS
  <2> QED
    BY <1>10, <1>13, <2>1
<1> QED
  BY <1>11, <1>14

(* So the refinement mapping reads back the lists whose rings there are.      *)
ReadBack == \A L : Holds(L) => [h \in Heads |-> Forward(h)] = L

LEMMA ListsReadBack == IInv => ReadBack
<1> SUFFICES ASSUME IInv, NEW L, Holds(L) PROVE [h \in Heads |-> Forward(h)] = L
  BY DEF ReadBack
<1>1. L \in [Heads -> Seq(Elems)]
  BY DEF Holds, Apart
<1>2. ASSUME NEW h \in Heads PROVE Forward(h) = L[h]
  <2>1. L[h] \in Seq(Elems) /\ Distinct(L[h])
    BY DEF Holds, Apart
  <2>2. CASE h \in linked
    <3>1. Ring(h, L[h])
      BY <2>2 DEF Holds
    <3> QED
      BY <2>1, <2>2, <3>1, WalkIsRing DEF Forward
  <2>3. CASE h \notin linked
    BY <2>3 DEF Holds, Forward
  <2> QED
    BY <2>2, <2>3
<1> QED
  <2>1. L = [h \in Heads |-> L[h]]
    BY <1>1
  <2> QED
    BY <1>2, <2>1

(* No head is initialised yet: every list is empty.                           *)
LEMMA InitHolds == Init => Holds([h \in Heads |-> <<>>])
<1> SUFFICES ASSUME Init PROVE Holds([h \in Heads |-> <<>>])
  OBVIOUS
<1>1. PICK L : L = [h \in Heads |-> <<>>]
  OBVIOUS
<1>2. L \in [Heads -> Seq(Elems)] /\ \A h \in Heads : L[h] = <<>>
  BY <1>1
<1>3. Range(<<>>) = {} /\ Distinct(<<>>)
  BY DEF Range, Distinct
<1>4. Apart(L)
  BY <1>2, <1>3 DEF Apart
<1> QED
  BY <1>1, <1>2, <1>3, <1>4 DEF Holds, Init

(* list_init closes an empty ring, and touches no other. *)
LEMMA InitKeeps ==
  ASSUME IInv, NEW L, Holds(L), NEW h \in Heads, list_init(h)
  PROVE  Holds(L)'
<1>1. /\ h \in Nodes /\ h \notin linked /\ linked' = linked \cup {h}
      /\ next'[h] = h /\ prev'[h] = h
      /\ \A y \in Nodes : y # h => next'[y] = next[y] /\ prev'[y] = prev[y]
  BY DEF IInv, Fields, Nodes, list_init
<1>2. L[h] = <<>>
  BY <1>1 DEF Holds
<1>3. Ring(h, <<>>)'
  <2>1. /\ At(h, <<>>, 0) = h /\ At(h, <<>>, 1) = h /\ 0 + 1 = 1
        /\ \A i \in 0 .. Len(<<>>) : i = 0
    BY DEF At
  <2>2. (\A i \in 0 .. Len(<<>>) : next[At(h, <<>>, i)] = At(h, <<>>, i + 1)
                                     /\ prev[At(h, <<>>, i + 1)] = At(h, <<>>, i))'
    BY <1>1, <2>1
  <2> QED
    BY <2>2 DEF Ring, At
<1>4. ASSUME NEW g \in Heads
      PROVE  IF g \in linked' THEN Ring(g, L[g])' ELSE L[g] = <<>>
  <2>1. CASE g = h
    <3>1. Ring(g, <<>>)' <=> Ring(g, L[g])'
      BY <1>2, <2>1 DEF Ring, At
    <3> QED
      BY <1>1, <1>3, <2>1, <3>1
  <2>2. CASE g # h /\ g \in linked
    <3>1. PICK s \in Seq(Elems) : s = L[g]
      BY DEF Holds, Apart
    <3>2. Distinct(s) /\ Ring(g, s) /\ Range(s) \subseteq Elems
      BY <2>2, <3>1 DEF Holds, Apart, Range
    <3>3. PICK S : S = {g} \cup Range(s)
      OBVIOUS
    <3>4. \A y \in S \cap Nodes : next'[y] = next[y] /\ prev'[y] = prev[y]
      BY <1>1, <2>2, <3>2, <3>3, NodesAssumption
    <3>5. Ring(g, s)'
      BY <3>2, <3>3, <3>4, RingKept
    <3>6. Ring(g, s)' <=> Ring(g, L[g])'
      BY <3>1 DEF Ring, At
    <3> QED
      BY <1>1, <2>2, <3>5, <3>6
  <2>3. CASE g # h /\ g \notin linked
    BY <1>1, <2>3 DEF Holds
  <2> QED
    BY <2>1, <2>2, <2>3
<1>5. \A x \in Elems : x \in linked' <=> \E g \in Heads : x \in Range(L[g])
  BY <1>1, NodesAssumption DEF Holds
<1> QED
  BY <1>4, <1>5 DEF Holds, Apart

(* list_add_after(c, x): x comes between c and its successor. *)
LEMMA AddAfterHolds ==
  ASSUME IInv, NEW L, Holds(L), NEW c \in Nodes, NEW x \in Elems, list_add_after(c, x)
  PROVE  /\ x \notin linked
         /\ \E h \in Heads : \E k \in 1 .. Len(L[h]) + 1 :
              Holds([L EXCEPT ![h] = InsertAt(L[h], k, x)])'
<1>1. /\ c \in linked /\ x \notin linked /\ x \in Nodes /\ linked' = linked \cup {x}
      /\ next[c] \in linked /\ x # c /\ x # next[c]
  BY DEF IInv, Fields, LinksAgree, list_add_after, Nodes
<1>2. PICK h \in Heads : /\ h \in linked /\ Ring(h, L[h]) /\ L[h] \in Seq(Elems)
                         /\ Distinct(L[h])
                         /\ \E i \in 0 .. Len(L[h]) : At(h, L[h], i) = c
  BY <1>1, Stands
<1>3. PICK i \in 0 .. Len(L[h]) : At(h, L[h], i) = c
  BY <1>2
<1>4. PICK k : k = i + 1
  OBVIOUS
<1>5. k \in 1 .. Len(L[h]) + 1 /\ k - 1 = i
  BY <1>2, <1>4
<1>6. At(h, L[h], k) = next[c] /\ At(h, L[h], k - 1) = c
  BY <1>2, <1>3, <1>4, <1>5 DEF Ring
<1>7. Between(c, x, next[c])
  <2>1. /\ prev' = [prev EXCEPT ![next[c]] = x, ![x] = c]
        /\ next' = [next EXCEPT ![x] = next[c], ![c] = x]
    BY DEF list_add_after
  <2>2. SUFFICES ASSUME NEW y \in Nodes
                 PROVE  /\ next'[y] = IF y = c THEN x ELSE IF y = x THEN next[c] ELSE next[y]
                        /\ prev'[y] = IF y = next[c] THEN x ELSE IF y = x THEN c ELSE prev[y]
    BY DEF Between
  <2> QED
    BY <1>1, <2>1 DEF IInv, Fields
<1>8. Between(At(h, L[h], k - 1), x, At(h, L[h], k))
  BY <1>6, <1>7
<1>9. PICK M : M = [L EXCEPT ![h] = InsertAt(L[h], k, x)]
  OBVIOUS
<1>10. Holds(M)'
  BY <1>1, <1>2, <1>5, <1>8, <1>9, HoldsInserted
<1>11. Holds(M)' <=> Holds([L EXCEPT ![h] = InsertAt(L[h], k, x)])'
  BY <1>9 DEF Holds, Apart, Ring, At
<1> QED
  BY <1>1, <1>5, <1>10, <1>11

(* list_add_before(c, x): x comes between c's predecessor and c. *)
LEMMA AddBeforeHolds ==
  ASSUME IInv, NEW L, Holds(L), NEW c \in Nodes, NEW x \in Elems, list_add_before(c, x)
  PROVE  /\ x \notin linked
         /\ \E h \in Heads : \E k \in 1 .. Len(L[h]) + 1 :
              Holds([L EXCEPT ![h] = InsertAt(L[h], k, x)])'
<1>1. /\ c \in linked /\ x \notin linked /\ x \in Nodes /\ linked' = linked \cup {x}
      /\ prev[c] \in linked /\ x # c /\ x # prev[c]
  BY DEF IInv, Fields, LinksAgree, list_add_before, Nodes
<1>2. PICK h \in Heads : /\ h \in linked /\ Ring(h, L[h]) /\ L[h] \in Seq(Elems)
                         /\ Distinct(L[h])
                         /\ \E i \in 1 .. Len(L[h]) + 1 : At(h, L[h], i) = c
  BY <1>1, Stands
<1>3. PICK k \in 1 .. Len(L[h]) + 1 : At(h, L[h], k) = c
  BY <1>2
<1>4. k - 1 \in 0 .. Len(L[h]) /\ (k - 1) + 1 = k
  BY <1>2
<1>5. At(h, L[h], k - 1) = prev[c]
  BY <1>2, <1>3, <1>4 DEF Ring
<1>6. Between(prev[c], x, c)
  <2>1. /\ next' = [next EXCEPT ![prev[c]] = x, ![x] = c]
        /\ prev' = [prev EXCEPT ![x] = prev[c], ![c] = x]
    BY DEF list_add_before
  <2>2. SUFFICES ASSUME NEW y \in Nodes
                 PROVE  /\ next'[y] = IF y = prev[c] THEN x ELSE IF y = x THEN c ELSE next[y]
                        /\ prev'[y] = IF y = c THEN x ELSE IF y = x THEN prev[c] ELSE prev[y]
    BY DEF Between
  <2> QED
    BY <1>1, <2>1 DEF IInv, Fields
<1>7. Between(At(h, L[h], k - 1), x, At(h, L[h], k))
  BY <1>3, <1>5, <1>6
<1>8. PICK M : M = [L EXCEPT ![h] = InsertAt(L[h], k, x)]
  OBVIOUS
<1>9. Holds(M)'
  BY <1>1, <1>2, <1>7, <1>8, HoldsInserted
<1>10. Holds(M)' <=> Holds([L EXCEPT ![h] = InsertAt(L[h], k, x)])'
  BY <1>8 DEF Holds, Apart, Ring, At
<1> QED
  BY <1>1, <1>9, <1>10

(* list_del(x), list_del_init(x): the neighbours of x meet. *)
LEMMA DeleteHolds ==
  ASSUME IInv, NEW L, Holds(L), NEW x \in Elems, list_del(x) \/ list_del_init(x)
  PROVE  \E h \in Heads : \E k \in 1 .. Len(L[h]) :
           Holds([L EXCEPT ![h] = RemoveAt(L[h], k)])'
<1>1. x \in linked /\ linked' = linked \ {x} /\ x \in Nodes
  BY DEF IInv, Fields, list_del, list_del_init, Nodes
<1>2. PICK h \in Heads : /\ h \in linked /\ Ring(h, L[h]) /\ L[h] \in Seq(Elems)
                         /\ Distinct(L[h])
                         /\ \E i \in 1 .. Len(L[h]) : L[h][i] = x
  BY <1>1, Stands
<1>3. PICK k \in 1 .. Len(L[h]) : L[h][k] = x
  BY <1>2
<1>4. k - 1 \in 0 .. Len(L[h]) /\ (k - 1) + 1 = k /\ k \in 0 .. Len(L[h])
  BY <1>2
<1>5. At(h, L[h], k) = x
  BY <1>3 DEF At
<1>6. At(h, L[h], k - 1) = prev[x] /\ At(h, L[h], k + 1) = next[x]
  BY <1>2, <1>4, <1>5 DEF Ring
<1>7. Joined(prev[x], x, next[x])
  <2> SUFFICES ASSUME NEW y \in Nodes \ {x}
               PROVE  /\ next'[y] = IF y = prev[x] THEN next[x] ELSE next[y]
                      /\ prev'[y] = IF y = next[x] THEN prev[x] ELSE prev[y]
    BY DEF Joined
  <2>1. /\ NextWithout(x) \in [Nodes -> Nodes \cup {NULL}]
        /\ PrevWithout(x) \in [Nodes -> Nodes \cup {NULL}]
        /\ NextWithout(x)[y] = IF y = prev[x] THEN next[x] ELSE next[y]
        /\ PrevWithout(x)[y] = IF y = next[x] THEN prev[x] ELSE prev[y]
    BY <1>1, WithoutType DEF NextWithout, PrevWithout, IInv, Fields
  <2> QED
    BY <2>1 DEF list_del, list_del_init
<1>8. Joined(At(h, L[h], k - 1), L[h][k], At(h, L[h], k + 1)) /\ linked' = linked \ {L[h][k]}
  BY <1>1, <1>3, <1>6, <1>7
<1>9. PICK M : M = [L EXCEPT ![h] = RemoveAt(L[h], k)]
  OBVIOUS
<1>10. Holds(M)'
  BY <1>2, <1>8, <1>9, HoldsDeleted
<1>11. Holds(M)' <=> Holds([L EXCEPT ![h] = RemoveAt(L[h], k)])'
  BY <1>9 DEF Holds, Apart, Ring, At
<1> QED
  BY <1>10, <1>11

(* The lists L become M: nothing happens, or one element enters or leaves.    *)
Becomes(L, M) ==
  \/ M = L
  \/ \E h \in Heads, x \in Elems \ linked : \E k \in 1 .. Len(L[h]) + 1 :
       M = [L EXCEPT ![h] = InsertAt(L[h], k, x)]
  \/ \E h \in Heads : \E k \in 1 .. Len(L[h]) :
       M = [L EXCEPT ![h] = RemoveAt(L[h], k)]

(* Every call changes the rings so. *)
LEMMA StepBecomes ==
  ASSUME IInv, [Next]_vars, NEW L, Holds(L)
  PROVE  \E M : Holds(M)' /\ Becomes(L, M)
<1>1. ASSUME NEW h \in Heads, list_init(h) PROVE Holds(L)'
  BY <1>1, InitKeeps
<1>2. CASE \E h \in Heads : list_init(h)
  BY <1>1, <1>2 DEF Becomes
<1>3. CASE \E c \in Nodes, x \in Elems : list_add_after(c, x) \/ list_add_before(c, x)
  <2>1. PICK c \in Nodes, x \in Elems : list_add_after(c, x) \/ list_add_before(c, x)
    BY <1>3
  <2>2. /\ x \notin linked
        /\ \E h \in Heads : \E k \in 1 .. Len(L[h]) + 1 :
             Holds([L EXCEPT ![h] = InsertAt(L[h], k, x)])'
    BY <2>1, AddAfterHolds, AddBeforeHolds
  <2>3. PICK h \in Heads : \E k \in 1 .. Len(L[h]) + 1 :
          Holds([L EXCEPT ![h] = InsertAt(L[h], k, x)])'
    BY <2>2
  <2>4. PICK k \in 1 .. Len(L[h]) + 1 : Holds([L EXCEPT ![h] = InsertAt(L[h], k, x)])'
    BY <2>3
  <2> QED
    BY <2>2, <2>4 DEF Becomes
<1>4. CASE \E x \in Elems : list_del(x) \/ list_del_init(x)
  <2>1. PICK x \in Elems : list_del(x) \/ list_del_init(x)
    BY <1>4
  <2>2. PICK h \in Heads : \E k \in 1 .. Len(L[h]) :
          Holds([L EXCEPT ![h] = RemoveAt(L[h], k)])'
    BY <2>1, DeleteHolds
  <2>3. PICK k \in 1 .. Len(L[h]) : Holds([L EXCEPT ![h] = RemoveAt(L[h], k)])'
    BY <2>2
  <2> QED
    BY <2>3 DEF Becomes
<1>5. CASE UNCHANGED vars
  <2>1. Holds(L)'
    BY <1>5 DEF vars, Holds, Apart, Ring, At
  <2> QED
    BY <2>1 DEF Becomes
<1> QED
  BY <1>2, <1>3, <1>4, <1>5 DEF Next

(* The walks before and after a call differ as the sequences may. *)
LEMMA ListsStep ==
  RInv /\ [Next]_vars /\ ReadBack /\ ReadBack' =>
    [Abstract!Next]_Lists
<1> SUFFICES ASSUME RInv, [Next]_vars, ReadBack, ReadBack'
             PROVE  [Abstract!Next]_Lists
  OBVIOUS
<1>1. PICK L : Holds(L)
  BY DEF RInv
<1>2. PICK M : Holds(M)' /\ Becomes(L, M)
  BY <1>1, StepBecomes DEF RInv
<1>3. Lists = L
  BY <1>1 DEF ReadBack, Lists
<1>4. Lists' = M
  BY <1>2 DEF ReadBack, Lists
<1>5. L \in [Heads -> Seq(Elems)]
  BY <1>1 DEF Holds, Apart
<1>6. \A h \in Heads : Lists[h] = L[h]
  BY <1>3
<1>7. \A x \in Elems : x \notin linked => x \notin Abstract!Linked
  <2> SUFFICES ASSUME NEW x \in Elems, x \in Abstract!Linked
               PROVE  x \in linked
    OBVIOUS
  <2>1. PICK h \in Heads : x \in ToSet(L[h])
    BY <1>3, <1>6 DEF Abstract!Linked, Abstract!ToSet, ToSet
  <2>2. x \in Range(L[h])
    BY <1>5, <2>1 DEF ToSet, Range
  <2> QED
    BY <1>1, <2>2 DEF Holds
<1>8. CASE M = L
  BY <1>3, <1>4, <1>8
<1>9. ASSUME NEW h \in Heads, NEW x \in Elems \ linked, NEW k \in 1 .. Len(L[h]) + 1,
             M = [L EXCEPT ![h] = InsertAt(L[h], k, x)]
      PROVE  Abstract!Next
  <2>1. x \in Elems /\ x \notin Abstract!Linked
    BY <1>7
  <2>2. Abstract!Insert(h, k, x)
    BY <1>3, <1>4, <1>9, <2>1 DEF Abstract!Insert, Abstract!InsertAt, InsertAt
  <2> QED
    BY <1>3, <2>1, <2>2 DEF Abstract!Next
<1>10. ASSUME NEW h \in Heads, NEW k \in 1 .. Len(L[h]),
              M = [L EXCEPT ![h] = RemoveAt(L[h], k)]
       PROVE  Abstract!Next
  <2>1. k \in DOMAIN L[h]
    BY <1>5
  <2>2. Abstract!Delete(h, k)
    BY <1>3, <1>4, <1>10, <2>1 DEF Abstract!Delete, Abstract!RemoveAt, RemoveAt
  <2> QED
    BY <1>3, <2>1, <2>2 DEF Abstract!Next
<1> QED
  BY <1>2, <1>8, <1>9, <1>10 DEF Becomes

(* The pointer code of list.h implements sequences: list_init leaves all of   *)
(* them as they are, list_add_after and list_add_before put one entry at one  *)
(* place of one list, list_del and list_del_init take one out, whatever the   *)
(* calls before, and no other list notices.                                   *)
THEOREM ImplementsLists == Spec => ImplementsSequences
<1>1. Init => IInv /\ Abstract!Init
  <2> SUFFICES ASSUME Init PROVE Abstract!Init
    BY InitLinks
  <2>1. Lists = [h \in Heads |-> <<>>]
    BY InitLinks, InitHolds, ListsReadBack DEF ReadBack, Lists
  <2> QED
    BY <2>1 DEF Abstract!Init
<1>2. Init => RInv
  BY InitLinks, InitHolds DEF RInv
<1>3. RInv /\ [Next]_vars => RInv'
  <2> SUFFICES ASSUME RInv, [Next]_vars PROVE RInv'
    OBVIOUS
  <2>1. PICK L : Holds(L)
    BY DEF RInv
  <2>2. \E M : Holds(M)'
    BY <2>1, StepBecomes DEF RInv
  <2>3. IInv'
    BY StepLinks DEF RInv
  <2> QED
    BY <2>2, <2>3 DEF RInv
<1>4. RInv => ReadBack
  BY ListsReadBack DEF RInv
<1>5. RInv /\ [Next]_vars /\ ReadBack /\ ReadBack' =>
        [Abstract!Next]_Lists
  BY ListsStep
<1> QED
  BY <1>1, <1>2, <1>3, <1>4, <1>5, PTL DEF Spec, ImplementsSequences, Abstract!Spec
=============================================================================

---------------------------- MODULE RBTreeProofs ----------------------------
(***************************************************************************)
(* The proofs about the red-black tree: whatever the keys and the number of *)
(* nodes, the calls of rb_tree.c leave a red-black tree (RedBlackKept) and  *)
(* are the operations of an ordered bag (OrderedBagImplemented).            *)
(*                                                                         *)
(* The order is a numbering of the nodes by place.  A tree in that order is *)
(* a statement about each node and its children alone (Shape), and so is    *)
(* its balance, given the black heights (Even): a rotation touches few      *)
(* nodes and leaves every place.  First the pointers, then the colours,     *)
(* then each step of the two loops, then the order.                         *)
(***************************************************************************)
EXTENDS RBTree, CommonLemmas

(* A tree: the fields of every node. *)
Tree == [child : [Sides -> [Fields -> Fields]], parent : [Fields -> Fields],
         red : [Fields -> BOOLEAN]]

(* The pointer fields after a rotation at a, b being the child that comes up. *)
TurnedChild(t, a, b, s, d, m) ==
  IF m = b THEN IF d = s THEN a ELSE t.child[d][b]
  ELSE IF m = a THEN IF d = s THEN t.child[s][a] ELSE t.child[s][b]
  ELSE IF m = t.parent[a] /\ d = (IF t.child[s][m] = a THEN s ELSE Other(s)) THEN b
  ELSE t.child[d][m]

(* And the parent fields.                                                     *)
TurnedParent(t, a, b, s, m) ==
  IF m = a THEN b
  ELSE IF m = b THEN t.parent[a]
  ELSE IF m # nil /\ m = t.child[s][b] THEN a
  ELSE t.parent[m]

(* There are two sides, and each is the other of the other.                   *)
LEMMA SideFacts ==
  \A s \in Sides : /\ Other(s) \in Sides /\ Other(s) # s /\ Other(Other(s)) = s
                   /\ \A d \in Sides : d = s \/ d = Other(s)
BY DEF Sides, Other

(* FUNC_ROTATE writes the pointer fields TurnedChild and TurnedParent say,    *)
(* and no colour.                                                             *)
LEMMA RotateFields ==
  ASSUME NEW t \in Tree, NEW s \in Sides, NEW a \in Fields, NEW b \in Fields,
         b = t.child[Other(s)][a],
         a # b, t.parent[a] # a, t.parent[a] # b
  PROVE  /\ Rotate(t, a, s) \in Tree
         /\ Rotate(t, a, s).red = t.red
         /\ \A d \in Sides : \A m \in Fields :
              Rotate(t, a, s).child[d][m] = TurnedChild(t, a, b, s, d, m)
         /\ \A m \in Fields : Rotate(t, a, s).parent[m] = TurnedParent(t, a, b, s, m)
<1> DEFINE o == Other(s)
           p == t.parent[a]
           inner == t.child[s][b]
           side == IF t.child[s][p] = a THEN s ELSE o
           c1 == [t.child EXCEPT ![o][a] = inner]
           c2 == [c1 EXCEPT ![side][p] = b]
           c3 == [c2 EXCEPT ![s][b] = a]
           parents == IF inner # nil THEN [t.parent EXCEPT ![inner] = a] ELSE t.parent
           up == [[parents EXCEPT ![b] = p] EXCEPT ![a] = b]
<1>0. /\ o \in Sides /\ o # s /\ \A d \in Sides : d = s \/ d = o
  BY SideFacts
<1>1. /\ t.child \in [Sides -> [Fields -> Fields]] /\ t.parent \in [Fields -> Fields]
      /\ t.red \in [Fields -> BOOLEAN] /\ p \in Fields /\ inner \in Fields /\ nil \in Fields
  BY DEF Tree, Fields
<1>2. Rotate(t, a, s) = [t EXCEPT !.child = c3, !.parent = up]
  BY DEF Rotate
<1>3. Rotate(t, a, s).child = c3 /\ Rotate(t, a, s).parent = up /\ Rotate(t, a, s).red = t.red
      /\ Rotate(t, a, s) = [child |-> c3, parent |-> up, red |-> t.red]
  <2> HIDE DEF c3, up
  <2> QED
    BY <1>2 DEF Tree
<1>4. /\ c1 \in [Sides -> [Fields -> Fields]]
      /\ \A d \in Sides : \A m \in Fields : c1[d][m] = IF d = o /\ m = a THEN inner ELSE t.child[d][m]
  BY <1>0, <1>1
<1>5. side \in Sides /\ side = (IF t.child[s][p] = a THEN s ELSE o)
  BY <1>0
<1>6. /\ c2 \in [Sides -> [Fields -> Fields]]
      /\ \A d \in Sides : \A m \in Fields : c2[d][m] = IF d = side /\ m = p THEN b ELSE c1[d][m]
  <2> HIDE DEF c1, side, p, o
  <2> QED
    BY <1>1, <1>4, <1>5
<1>7. /\ c3 \in [Sides -> [Fields -> Fields]]
      /\ \A d \in Sides : \A m \in Fields : c3[d][m] = IF d = s /\ m = b THEN a ELSE c2[d][m]
  <2> HIDE DEF c2
  <2> QED
    BY <1>6
<1>8. up \in [Fields -> Fields]
      /\ \A m \in Fields : up[m] = TurnedParent(t, a, b, s, m)
  BY <1>1 DEF TurnedParent
<1>9. \A d \in Sides : \A m \in Fields : c3[d][m] = TurnedChild(t, a, b, s, d, m)
  <2> TAKE d \in Sides
  <2> TAKE m \in Fields
  <2>1. /\ c1[d][m] = IF d = o /\ m = a THEN inner ELSE t.child[d][m]
        /\ c2[d][m] = IF d = side /\ m = p THEN b ELSE c1[d][m]
        /\ c3[d][m] = IF d = s /\ m = b THEN a ELSE c2[d][m]
    <3> HIDE DEF c1, c2, c3, side, o, p, inner
    <3> QED
      BY <1>4, <1>6, <1>7
  <2> HIDE DEF c1, c2, c3
  <2>2. CASE m = p
    BY <1>0, <1>5, <2>1, <2>2 DEF TurnedChild
  <2>3. CASE m # p
    BY <1>0, <2>1, <2>3 DEF TurnedChild
  <2> QED
    BY <2>2, <2>3
<1>10. Rotate(t, a, s) \in Tree
  <2> HIDE DEF c3, up
  <2> QED
    BY <1>1, <1>3, <1>7, <1>8 DEF Tree
<1> QED
  <2> HIDE DEF c3, up
  <2> QED
    BY <1>3, <1>8, <1>9, <1>10

-----------------------------------------------------------------------------
(* The order of a tree: at numbers the nodes of M from left to right and puts *)
(* root behind them; edge gives, for each side, the outermost place below a   *)
(* node.  In these terms what hangs where is a fact of a node and its two      *)
(* children, also after a rotation, though the rotation moves subtrees.        *)
Step(s) == IF s = "left" THEN -1 ELSE 1

(* The nodes of a tree with the sentinel above them.                          *)
Whole(M) == M \cup {root}

(* The places are numbered without a gap or a repetition, and a node lies     *)
(* between its edges.                                                         *)
Layout(M, at, edge) ==
  /\ at \in [Whole(M) -> 1 .. Cardinality(M) + 1]
  /\ edge \in [Sides -> [Whole(M) -> 1 .. Cardinality(M) + 1]]
  /\ \A m, n \in Whole(M) : at[m] = at[n] => m = n
  /\ \A m \in Whole(M) : edge["left"][m] <= at[m] /\ at[m] <= edge["right"][m]
  /\ at[root] = Cardinality(M) + 1 /\ edge["left"][root] = 1

(* What hangs below m on side s covers the places from m to m's edge. *)
Hangs(t, M, at, edge, m, s) ==
  LET c == t.child[s][m]
  IN /\ c = nil => edge[s][m] = at[m]
     /\ c # nil => /\ c \in M /\ t.parent[c] = m
                   /\ edge[s][c] = edge[s][m] /\ edge[Other(s)][c] = at[m] + Step(s)

(* A node hangs below its parent on one side.                                 *)
Held(t, M, m) == t.parent[m] \in Whole(M) /\ \E s \in Sides : t.child[s][t.parent[m]] = m

(* The fields of t are a tree of the nodes of M in the order at, edge being   *)
(* its outermost places: what the pointers of rb_tree.c must always form.     *)
Shape(t, M, at, edge) ==
  /\ t \in Tree /\ M \subseteq Nodes /\ Layout(M, at, edge)
  /\ \A m \in Whole(M) : \A s \in Sides : Hangs(t, M, at, edge, m, s)
  /\ \A m \in M : Held(t, M, m)
  /\ t.child["right"][root] = nil

(* A child of a node lies on its side of the node, and no node is a child     *)
(* twice.                                                                     *)
LEMMA ChildFacts ==
  ASSUME NEW t, NEW M, NEW at, NEW edge, Shape(t, M, at, edge),
         NEW m \in Whole(M), NEW s \in Sides, NEW c, c = t.child[s][m], c # nil
  PROVE  /\ c \in M /\ t.parent[c] = m /\ c # m
         /\ t.child[Other(s)][m] # c
         /\ s = "left" => at[c] < at[m]
         /\ s = "right" => at[m] < at[c]
<1>1. /\ at \in [Whole(M) -> 1 .. Cardinality(M) + 1]
      /\ edge \in [Sides -> [Whole(M) -> 1 .. Cardinality(M) + 1]]
      /\ \A n \in Whole(M) : edge["left"][n] <= at[n] /\ at[n] <= edge["right"][n]
      /\ \A d \in Sides : Hangs(t, M, at, edge, m, d)
  BY DEF Shape, Layout
<1>2. /\ c \in M /\ c \in Whole(M) /\ t.parent[c] = m
      /\ edge[s][c] = edge[s][m] /\ edge[Other(s)][c] = at[m] + Step(s)
  BY <1>1 DEF Hangs, Whole
<1>3. \A n \in Whole(M) : at[n] \in Int /\ edge["left"][n] \in Int /\ edge["right"][n] \in Int
  <2>1. 1 .. Cardinality(M) + 1 \subseteq Int
    OBVIOUS
  <2> QED
    BY <1>1, <2>1 DEF Sides
<1>4. /\ s = "left" => at[c] < at[m]
      /\ s = "right" => at[m] < at[c]
  BY <1>1, <1>2, <1>3 DEF Other, Step, Sides
<1>5. c # m
  BY <1>2, <1>3, <1>4 DEF Sides
<1>6. t.child[Other(s)][m] # c
  <2> SUFFICES ASSUME t.child[Other(s)][m] = c
               PROVE  FALSE
    OBVIOUS
  <2>1. edge[Other(s)][c] = edge[Other(s)][m] /\ edge[s][c] = at[m] + Step(Other(s))
    BY <1>1, SideFacts DEF Hangs
  <2> QED
    BY <1>1, <1>2, <1>3, <2>1 DEF Other, Step, Sides
<1> QED
  BY <1>2, <1>4, <1>5, <1>6

(* The parts of Shape, and where its values lie. *)
LEMMA ShapeFacts ==
  ASSUME NEW t, NEW M, NEW at, NEW edge, Shape(t, M, at, edge)
  PROVE  /\ t \in Tree /\ M \subseteq Nodes /\ IsFiniteSet(M) /\ Cardinality(M) \in Nat
         /\ at \in [Whole(M) -> 1 .. Cardinality(M) + 1]
         /\ edge \in [Sides -> [Whole(M) -> 1 .. Cardinality(M) + 1]]
         /\ \A n \in Whole(M) : /\ at[n] \in Int /\ edge["left"][n] \in Int /\ edge["right"][n] \in Int
                                /\ edge["left"][n] <= at[n] /\ at[n] <= edge["right"][n]
         /\ \A n \in Whole(M) : \A d \in Sides : Hangs(t, M, at, edge, n, d) /\ edge[d][n] \in Int
         /\ \A n \in M : Held(t, M, n)
         /\ root \notin M /\ nil \notin M /\ nil # root
         /\ M \subseteq Whole(M) /\ root \in Whole(M) /\ Whole(M) \subseteq Fields
<1>1. /\ t \in Tree /\ M \subseteq Nodes
      /\ at \in [Whole(M) -> 1 .. Cardinality(M) + 1]
      /\ edge \in [Sides -> [Whole(M) -> 1 .. Cardinality(M) + 1]]
      /\ \A n \in Whole(M) : edge["left"][n] <= at[n] /\ at[n] <= edge["right"][n]
      /\ \A n \in Whole(M) : \A d \in Sides : Hangs(t, M, at, edge, n, d)
      /\ \A n \in M : Held(t, M, n)
  BY DEF Shape, Layout
<1>2. IsFiniteSet(M) /\ Cardinality(M) \in Nat
  BY <1>1, RBTreeAssumption, FS_Subset, FS_CardinalityType
<1>3. \A n \in Whole(M) : \A d \in Sides : at[n] \in Int /\ edge[d][n] \in Int
  <2>1. 1 .. Cardinality(M) + 1 \subseteq Int
    OBVIOUS
  <2> QED
    BY <1>1, <2>1
<1>4. "left" \in Sides /\ "right" \in Sides
  BY DEF Sides
<1>5. /\ root \notin M /\ nil \notin M /\ nil # root
      /\ M \subseteq Whole(M) /\ root \in Whole(M) /\ Whole(M) \subseteq Fields
  BY <1>1, RBTreeAssumption DEF Whole, Fields
<1> QED
  BY <1>1, <1>2, <1>3, <1>4, <1>5

(* So does a child of the child, which is therefore not the node. *)
LEMMA GrandchildFacts ==
  ASSUME NEW t, NEW M, NEW at, NEW edge, Shape(t, M, at, edge),
         NEW m \in Whole(M), NEW s \in Sides, NEW c, c = t.child[s][m], c # nil,
         NEW d \in Sides, NEW g, g = t.child[d][c], g # nil
  PROVE  g # m /\ g # c /\ g \in M /\ t.parent[g] = c
<1>1. c \in M /\ c \in Whole(M) /\ m \in Whole(M)
  BY ChildFacts DEF Whole
<1>2. g \in M /\ g \in Whole(M) /\ t.parent[g] = c /\ g # c
  BY <1>1, ChildFacts DEF Whole
<1>3. /\ edge[s][c] = edge[s][m] /\ edge[Other(s)][c] = at[m] + Step(s)
      /\ edge[d][g] = edge[d][c] /\ edge[Other(d)][g] = at[c] + Step(d)
  BY <1>1, ShapeFacts DEF Hangs
<1>4. /\ at[m] \in Int /\ at[c] \in Int /\ at[g] \in Int
      /\ edge["left"][c] <= at[c] /\ at[c] <= edge["right"][c]
      /\ edge["left"][g] <= at[g] /\ at[g] <= edge["right"][g]
      /\ edge["left"][g] \in Int /\ edge["right"][g] \in Int
      /\ edge["left"][c] \in Int /\ edge["right"][c] \in Int
  BY <1>1, <1>2, ShapeFacts
<1>5. g # m
  <2>1. CASE s = "left"
    BY <1>3, <1>4, <2>1 DEF Sides, Other, Step
  <2>2. CASE s = "right"
    BY <1>3, <1>4, <2>2 DEF Sides, Other, Step
  <2> QED
    BY <2>1, <2>2 DEF Sides
<1> QED
  BY <1>2, <1>5

(* A rotation moves no node in the order: below a, which goes down, ends at   *)
(* b, which comes up, and b reaches as far as a did.                          *)
TurnedEdge(M, at, edge, a, b, s) ==
  [d \in Sides |-> [m \in Whole(M) |->
     IF m = b /\ d = s THEN edge[s][a]
     ELSE IF m = a /\ d = Other(s) THEN at[b] + Step(s)
     ELSE edge[d][m]]]

(* FUNC_ROTATE leaves a tree of the same nodes at the same places: only the   *)
(* edges of the two nodes it turns change.                                    *)
LEMMA RotateShape ==
  ASSUME NEW t, NEW M, NEW at, NEW edge, Shape(t, M, at, edge),
         NEW s \in Sides, NEW a \in M, NEW b, b = t.child[Other(s)][a], b # nil
  PROVE  /\ b \in M /\ t.parent[b] = a /\ a # b
         /\ t.parent[a] \in Whole(M) /\ t.parent[a] # a /\ t.parent[a] # b
         /\ Rotate(t, a, s) \in Tree /\ Rotate(t, a, s).red = t.red
         /\ \A d \in Sides : \A m \in Fields :
              Rotate(t, a, s).child[d][m] = TurnedChild(t, a, b, s, d, m)
         /\ \A m \in Fields : Rotate(t, a, s).parent[m] = TurnedParent(t, a, b, s, m)
         /\ Shape(Rotate(t, a, s), M, at, TurnedEdge(M, at, edge, a, b, s))
<1> DEFINE o == Other(s)
           p == t.parent[a]
           inner == t.child[s][b]
           t2 == Rotate(t, a, s)
           edge2 == TurnedEdge(M, at, edge, a, b, s)
<1>0. /\ o \in Sides /\ o # s /\ Other(o) = s /\ \A d \in Sides : d = s \/ d = o
  BY SideFacts
<1>a. b = t.child[o][a]
  OBVIOUS
<1>1. /\ t \in Tree /\ M \subseteq Nodes /\ Cardinality(M) \in Nat
      /\ at \in [Whole(M) -> 1 .. Cardinality(M) + 1]
      /\ edge \in [Sides -> [Whole(M) -> 1 .. Cardinality(M) + 1]]
      /\ \A m, n \in Whole(M) : at[m] = at[n] => m = n
      /\ \A n \in Whole(M) : edge["left"][n] <= at[n] /\ at[n] <= edge["right"][n]
      /\ \A n \in Whole(M) : \A d \in Sides : Hangs(t, M, at, edge, n, d)
      /\ \A n \in M : Held(t, M, n)
      /\ t.child["right"][root] = nil
      /\ at[root] = Cardinality(M) + 1 /\ edge["left"][root] = 1
  BY ShapeFacts DEF Shape, Layout
<1>2. \A n \in Whole(M) : at[n] \in Int /\ edge["left"][n] \in Int /\ edge["right"][n] \in Int
  BY ShapeFacts
<1>3. /\ a \in Whole(M) /\ b \in M /\ b \in Whole(M) /\ t.parent[b] = a /\ a # b
      /\ root \notin M /\ nil \notin M /\ nil # root /\ Whole(M) \subseteq Fields
      /\ t.child[s][a] # b
  <2>1. a \in Whole(M) /\ root \notin M /\ nil \notin M /\ nil # root /\ Whole(M) \subseteq Fields
    BY <1>1, RBTreeAssumption DEF Whole, Fields
  <2>2. b \in M /\ t.parent[b] = a /\ b # a /\ t.child[Other(o)][a] # b
    <3> HIDE DEF o
    <3> QED
      BY <1>0, <1>a, <2>1, ChildFacts
  <2> QED
    BY <1>0, <2>1, <2>2 DEF Whole
<1>b. /\ s = "left" => at[b] > at[a]
      /\ s = "right" => at[b] < at[a]
  <2>1. /\ o = "left" => at[b] < at[a]
        /\ o = "right" => at[a] < at[b]
    <3> HIDE DEF o
    <3> QED
      BY <1>0, <1>a, <1>3, ChildFacts
  <2> QED
    BY <1>2, <1>3, <2>1 DEF Sides, Other
<1>c. Step(o) = -Step(s) /\ Step(s) \in Int /\ (s = "left" => Step(s) = -1) /\ (s = "right" => Step(s) = 1)
  BY DEF Step, Other, Sides
<1>4. p \in Whole(M) /\ \E d \in Sides : t.child[d][p] = a
  BY <1>1 DEF Held
<1>5. PICK e \in Sides : t.child[e][p] = a
  BY <1>4
<1>6. a # nil /\ a # root /\ p # a /\ t.child[Other(e)][p] # a
  BY <1>3, <1>4, <1>5, ChildFacts
<1>7. p # b
  BY <1>0, <1>a, <1>3, <1>4, <1>5, <1>6, GrandchildFacts
<1>8. e = (IF t.child[s][p] = a THEN s ELSE o)
  BY <1>0, <1>5, <1>6
<1>9. inner # nil => inner \in M /\ t.parent[inner] = b /\ inner # b /\ inner # a
  <2> SUFFICES ASSUME inner # nil
               PROVE  inner \in M /\ t.parent[inner] = b /\ inner # b /\ inner # a
    OBVIOUS
  <2>1. inner \in M /\ t.parent[inner] = b /\ inner # b
    BY <1>3, ChildFacts
  <2> QED
    BY <1>7, <2>1
<1>10. /\ t2 \in Tree /\ t2.red = t.red
       /\ \A d \in Sides : \A m \in Fields : t2.child[d][m] = TurnedChild(t, a, b, s, d, m)
       /\ \A m \in Fields : t2.parent[m] = TurnedParent(t, a, b, s, m)
  BY <1>1, <1>3, <1>6, <1>7, RotateFields
<1> HIDE DEF t2
<1>11. \A m \in Fields : t2.parent[m] =
         IF m = a THEN b ELSE IF m = b THEN p ELSE IF m # nil /\ m = inner THEN a ELSE t.parent[m]
  BY <1>10 DEF TurnedParent
<1>12. \A d \in Sides : \A m \in Fields :
         /\ m = b => t2.child[d][m] = IF d = s THEN a ELSE t.child[o][b]
         /\ m = a => t2.child[d][m] = IF d = s THEN t.child[s][a] ELSE inner
         /\ m # a /\ m # b => t2.child[d][m] = IF m = p /\ d = e THEN b ELSE t.child[d][m]
  <2> TAKE d \in Sides
  <2> TAKE m \in Fields
  <2> HIDE DEF o, p, inner
  <2>1. t2.child[d][m] = TurnedChild(t, a, b, s, d, m)
    BY <1>10
  <2> USE DEF o, p, inner
  <2> QED
    BY <1>0, <1>3, <1>8, <2>1 DEF TurnedChild
<1>13. /\ edge2 \in [Sides -> [Whole(M) -> 1 .. Cardinality(M) + 1]]
       /\ \A d \in Sides : \A m \in Whole(M) : edge2[d][m] =
             IF m = b /\ d = s THEN edge[s][a]
             ELSE IF m = a /\ d = o THEN at[b] + Step(s)
             ELSE edge[d][m]
  <2>1. at[b] + Step(s) \in 1 .. Cardinality(M) + 1
    <3>1. at[a] \in 1 .. Cardinality(M) + 1 /\ at[b] \in 1 .. Cardinality(M) + 1
      BY <1>1, <1>3
    <3>2. s = "left" \/ s = "right"
      BY DEF Sides
    <3> QED
      BY <1>1, <1>b, <3>1, <3>2 DEF Step
  <2> QED
    BY <1>0, <1>1, <1>3, <2>1 DEF TurnedEdge
<1> HIDE DEF edge2
<1>14. \A m \in Whole(M) : edge2["left"][m] <= at[m] /\ at[m] <= edge2["right"][m]
  <2> TAKE m \in Whole(M)
  <2>1. at[a] <= edge["right"][a] /\ edge["left"][a] <= at[a]
        /\ edge["left"][m] <= at[m] /\ at[m] <= edge["right"][m]
    BY <1>1, <1>3
  <2>2. CASE s = "left"
    <3>1. o = "right"
      BY <2>2 DEF Other
    <3>2. /\ edge2["left"][m] = IF m = b THEN edge["left"][a] ELSE edge["left"][m]
          /\ edge2["right"][m] = IF m = a THEN at[b] - 1 ELSE edge["right"][m]
      BY <1>2, <1>3, <1>13, <1>c, <2>2, <3>1 DEF Sides
    <3> QED
      BY <1>b, <1>2, <1>3, <2>1, <2>2, <3>2
  <2>3. CASE s = "right"
    <3>1. o = "left"
      BY <2>3 DEF Other
    <3>2. /\ edge2["right"][m] = IF m = b THEN edge["right"][a] ELSE edge["right"][m]
          /\ edge2["left"][m] = IF m = a THEN at[b] + 1 ELSE edge["left"][m]
      BY <1>2, <1>3, <1>13, <1>c, <2>3, <3>1 DEF Sides
    <3> QED
      BY <1>b, <1>2, <1>3, <2>1, <2>3, <3>2
  <2> QED
    BY <2>2, <2>3 DEF Sides
<1>15. \A m \in Whole(M) : \A d \in Sides : Hangs(t2, M, at, edge2, m, d)
  <2> TAKE m \in Whole(M)
  <2> TAKE d \in Sides
  <2> DEFINE c == t.child[d][m]
             f == Other(d)
  <2>0. f \in Sides /\ f # d
    BY SideFacts
  <2>1. /\ c = nil => edge[d][m] = at[m]
        /\ c # nil => /\ c \in M /\ c \in Whole(M) /\ t.parent[c] = m
                      /\ edge[d][c] = edge[d][m] /\ edge[f][c] = at[m] + Step(d)
    <3>1. Hangs(t, M, at, edge, m, d)
      BY <1>1
    <3> QED
      BY <3>1 DEF Hangs, Whole
  <2>2. c # nil => c # m /\ t.child[f][m] # c
    BY ChildFacts
  <2> SUFFICES LET c2 == t2.child[d][m]
               IN /\ c2 = nil => edge2[d][m] = at[m]
                  /\ c2 # nil => /\ c2 \in M /\ t2.parent[c2] = m
                                 /\ edge2[d][c2] = edge2[d][m] /\ edge2[f][c2] = at[m] + Step(d)
    BY DEF Hangs
  <2>3. CASE m = b /\ d = s
    <3>1. t2.child[d][m] = a /\ t2.parent[a] = b /\ a # nil /\ f = o
      BY <1>0, <1>3, <1>6, <1>11, <1>12, <2>0, <2>3
    <3>2. /\ edge2[s][b] = edge[s][a] /\ edge2[s][a] = edge[s][a] /\ edge2[o][a] = at[b] + Step(s)
      BY <1>0, <1>3, <1>13
    <3> QED
      BY <2>3, <3>1, <3>2
  <2>4. CASE m = b /\ d = o
    <3>1. t2.child[d][m] = c /\ f = s
      BY <1>0, <1>3, <1>12, <2>0, <2>4
    <3>2. c # nil => c # a /\ c # b /\ c # inner
      BY <1>7, <2>0, <2>1, <2>2, <2>4, <3>1
    <3>3. c # nil => t2.parent[c] = b /\ edge2[d][c] = edge[d][c] /\ edge2[f][c] = edge[f][c]
      BY <1>3, <1>11, <1>13, <2>0, <2>1, <2>4, <3>2
    <3>4. edge2[d][m] = edge[d][m]
      BY <1>0, <1>3, <1>13, <2>4
    <3> QED
      BY <2>1, <2>4, <3>1, <3>3, <3>4
  <2>5. CASE m = a /\ d = s
    <3>1. t2.child[d][m] = c /\ f = o
      BY <1>0, <1>3, <1>12, <2>0, <2>5
    <3>2. c # nil => c # a /\ c # b /\ c # inner
      BY <1>3, <1>9, <2>1, <2>2, <2>5
    <3>3. c # nil => t2.parent[c] = a /\ edge2[d][c] = edge[d][c] /\ edge2[f][c] = edge[f][c]
      BY <1>3, <1>11, <1>13, <2>0, <2>1, <2>5, <3>2
    <3>4. edge2[d][m] = edge[d][m]
      BY <1>0, <1>3, <1>13, <2>5
    <3> QED
      BY <2>1, <2>5, <3>1, <3>3, <3>4
  <2>6. CASE m = a /\ d = o
    <3>1. t2.child[d][m] = inner /\ f = s
      BY <1>0, <1>3, <1>12, <2>0, <2>6
    <3>2. edge2[d][m] = at[b] + Step(s)
      BY <1>0, <1>3, <1>13, <2>6
    <3>3. edge[s][b] = at[a] + Step(o)
      BY <1>a, <1>3, <2>1, <2>6, <3>1
    <3>4. Hangs(t, M, at, edge, b, s)
      BY <1>1, <1>3
    <3>5. CASE inner = nil
      <4>1. at[b] = at[a] + Step(o)
        BY <3>3, <3>4, <3>5 DEF Hangs
      <4>2. at[b] + Step(s) = at[a]
        BY <1>2, <1>3, <1>c, <4>1
      <4> QED
        BY <2>6, <3>1, <3>2, <3>5, <4>2
    <3>6. CASE inner # nil
      <4>1. inner \in M /\ edge[s][inner] = edge[s][b] /\ edge[o][inner] = at[b] + Step(s)
        BY <3>4, <3>6, SMTT(30) DEF Hangs
      <4>2. edge2[s][inner] = edge[s][inner] /\ edge2[o][inner] = edge[o][inner]
        BY <1>0, <1>9, <1>13, <3>6, <4>1 DEF Whole
      <4>3. t2.parent[inner] = a
        BY <1>1, <1>3, <1>9, <1>11, <3>6 DEF Fields
      <4> QED
        BY <2>6, <3>1, <3>2, <3>3, <3>6, <4>1, <4>2, <4>3
    <3> QED
      BY <3>5, <3>6
  <2>7. CASE m = p /\ d = e
    <3>1. t2.child[d][m] = b /\ t2.parent[b] = p /\ b # nil
      BY <1>3, <1>4, <1>6, <1>7, <1>11, <1>12, <2>7
    <3>2. edge[d][a] = edge[d][p] /\ edge[f][a] = at[p] + Step(d)
      BY <1>5, <1>6, <2>1, <2>7
    <3>3. edge[o][b] = edge[o][a]
      <4>1. Hangs(t, M, at, edge, a, o)
        BY <1>0, <1>1, <1>3
      <4> QED
        BY <1>a, <4>1 DEF Hangs
    <3>4. edge2[d][b] = edge[d][a] /\ edge2[f][b] = edge[f][a] /\ edge2[d][p] = edge[d][p]
      BY <1>0, <1>3, <1>4, <1>6, <1>7, <1>13, <2>0, <3>3
    <3> QED
      BY <1>3, <2>7, <3>1, <3>2, <3>4
  <2>8. CASE m # a /\ m # b /\ ~(m = p /\ d = e)
    <3>1. t2.child[d][m] = c
      BY <1>3, <1>12, <2>8
    <3>2. c # nil => c # a /\ c # b /\ c # inner
      <4>1. c # nil => c # a
        <5> SUFFICES ASSUME c # nil, c = a
                     PROVE  FALSE
          OBVIOUS
        <5>1. m = p /\ d # e
          BY <2>1, <2>8
        <5>2. Other(e) = d
          BY <5>1, SideFacts
        <5> QED
          BY <1>6, <5>1, <5>2
      <4> QED
        BY <1>3, <1>9, <2>1, <2>8, <4>1
    <3>3. c # nil => t2.parent[c] = m /\ edge2[d][c] = edge[d][c] /\ edge2[f][c] = edge[f][c]
      BY <1>3, <1>11, <1>13, <2>0, <2>1, <3>2
    <3>4. edge2[d][m] = edge[d][m]
      BY <1>13, <2>8
    <3> QED
      BY <2>1, <3>1, <3>3, <3>4
  <2> QED
    BY <1>0, <2>3, <2>4, <2>5, <2>6, <2>7, <2>8
<1>16. \A m \in M : Held(t2, M, m)
  <2> SUFFICES ASSUME NEW m \in M
               PROVE  Held(t2, M, m)
    OBVIOUS
  <2>1. PICK d \in Sides : t.child[d][t.parent[m]] = m
    BY <1>1 DEF Held
  <2>2. t.parent[m] \in Whole(M) /\ m \in Whole(M) /\ m # nil
    BY <1>1, <1>3 DEF Held, Whole
  <2>3. CASE m = a
    BY <1>0, <1>3, <1>11, <1>12, <2>3 DEF Held
  <2>4. CASE m = b
    <3>1. t2.parent[b] = p /\ t2.child[e][p] = b
      BY <1>3, <1>4, <1>6, <1>7, <1>11, <1>12
    <3> QED
      BY <1>4, <2>4, <3>1 DEF Held
  <2>5. CASE m = inner
    <3>1. t2.parent[inner] = a
      BY <1>3, <1>9, <1>11, <2>2, <2>5
    <3>2. t2.child[o][a] = inner
      BY <1>0, <1>3, <1>12
    <3> QED
      BY <1>0, <1>3, <2>5, <3>1, <3>2 DEF Held
  <2>6. CASE m # a /\ m # b /\ m # inner
    <3>1. t2.parent[m] = t.parent[m]
      BY <1>3, <1>11, <2>2, <2>6
    <3>2. t2.child[d][t.parent[m]] = m
      BY <1>a, <1>0, <1>3, <1>5, <1>12, <2>1, <2>2, <2>6
    <3> QED
      BY <2>2, <3>1, <3>2 DEF Held
  <2> QED
    BY <2>3, <2>4, <2>5, <2>6
<1>17. t2.child["right"][root] = nil
  <2>1. "right" \in Sides /\ root \in Fields /\ root # a /\ root # b
    BY <1>3 DEF Sides, Fields
  <2> QED
    BY <1>1, <1>5, <1>6, <1>12, <2>1
<1> QED
  <2>1. Layout(M, at, edge2)
    <3>1. edge2["left"][root] = 1
      BY <1>1, <1>3, <1>13 DEF Whole, Sides
    <3> QED
      BY <1>1, <1>13, <1>14, <3>1 DEF Layout
  <2>2. Shape(t2, M, at, edge2)
    BY <1>1, <1>10, <1>15, <1>16, <1>17, <2>1 DEF Shape
  <2> QED
    BY <1>3, <1>4, <1>6, <1>7, <1>10, <2>2 DEF t2, edge2

(* Colours, and the fields of nodes that are not in the tree, do not matter. *)
LEMMA ShapeSame ==
  ASSUME NEW t, NEW M, NEW at, NEW edge, Shape(t, M, at, edge), NEW u \in Tree,
         \A m \in Whole(M) : \A s \in Sides : u.child[s][m] = t.child[s][m],
         \A m \in M : u.parent[m] = t.parent[m]
  PROVE  Shape(u, M, at, edge)
<1>1. \A m \in Whole(M) : \A s \in Sides : Hangs(u, M, at, edge, m, s)
  <2> TAKE m \in Whole(M)
  <2> TAKE s \in Sides
  <2>1. Hangs(t, M, at, edge, m, s)
    BY DEF Shape
  <2> QED
    BY <2>1 DEF Hangs
<1>2. \A m \in M : Held(u, M, m)
  BY DEF Shape, Held
<1>3. u.child["right"][root] = nil
  BY DEF Shape, Whole, Sides
<1> QED
  BY <1>1, <1>2, <1>3 DEF Shape

(* A change of colour leaves the pointers.                                    *)
LEMMA ColourFields ==
  ASSUME NEW t \in Tree, NEW n \in Fields, NEW c \in BOOLEAN
  PROVE  /\ Colour(t, n, c) \in Tree
         /\ Colour(t, n, c).child = t.child /\ Colour(t, n, c).parent = t.parent
         /\ \A m \in Fields : Colour(t, n, c).red[m] = IF m = n THEN c ELSE t.red[m]
BY DEF Colour, Tree

-----------------------------------------------------------------------------
(* A leaf below p takes the place before or behind p. *)
Place(at, p, s) == IF s = "left" THEN at[p] ELSE at[p] + 1

(* The places once n has the one next to p on side s.                         *)
GrownAt(M, at, n, p, s) ==
  [m \in Whole(M \cup {n}) |->
     IF m = n THEN Place(at, p, s)
     ELSE IF at[m] >= Place(at, p, s) THEN at[m] + 1 ELSE at[m]]

(* The edges of the tree with that leaf.                                      *)
GrownEdge(M, at, edge, n, p, s) ==
  [d \in Sides |-> [m \in Whole(M \cup {n}) |->
     IF m = n THEN Place(at, p, s)
     ELSE IF edge[d][m] > at[p] \/ (d = "right" /\ edge[d][m] = at[p]) THEN edge[d][m] + 1
     ELSE edge[d][m]]]

(* rb_insert_binary hangs a leaf where the walk ended: a tree, with the leaf  *)
(* at its place.                                                              *)
LEMMA LeafShape ==
  ASSUME NEW t, NEW M, NEW at, NEW edge, Shape(t, M, at, edge),
         NEW n \in Nodes, n \notin M, NEW p \in Whole(M), NEW s \in Sides,
         p = root => s = "left", t.child[s][p] = nil, NEW u \in Tree,
         \A d \in Sides : \A m \in Fields : u.child[d][m] =
            IF m = n THEN nil ELSE IF m = p /\ d = s THEN n ELSE t.child[d][m],
         \A m \in Fields : u.parent[m] = IF m = n THEN p ELSE t.parent[m]
  PROVE  Shape(u, M \cup {n}, GrownAt(M, at, n, p, s), GrownEdge(M, at, edge, n, p, s))
<1> DEFINE N == M \cup {n}
           k == Place(at, p, s)
           at2 == GrownAt(M, at, n, p, s)
           edge2 == GrownEdge(M, at, edge, n, p, s)
<1>1. /\ M \subseteq Nodes /\ Cardinality(M) \in Nat
      /\ at \in [Whole(M) -> 1 .. Cardinality(M) + 1]
      /\ edge \in [Sides -> [Whole(M) -> 1 .. Cardinality(M) + 1]]
      /\ \A i, m \in Whole(M) : at[i] = at[m] => i = m
      /\ \A m \in Whole(M) : \A d \in Sides : Hangs(t, M, at, edge, m, d) /\ edge[d][m] \in Int
      /\ \A m \in Whole(M) : /\ at[m] \in Int
                             /\ edge["left"][m] <= at[m] /\ at[m] <= edge["right"][m]
      /\ \A m \in M : Held(t, M, m)
      /\ root \notin M /\ nil \notin M /\ nil # root /\ t.child["right"][root] = nil
      /\ at[root] = Cardinality(M) + 1 /\ edge["left"][root] = 1
  BY ShapeFacts DEF Shape, Layout
<1>2. /\ n # nil /\ n # root /\ n \in Fields /\ n \notin Whole(M) /\ n # p
      /\ Whole(N) = Whole(M) \cup {n} /\ root \in Whole(M) /\ Whole(N) \subseteq Fields
      /\ N \subseteq Nodes /\ M \subseteq Whole(M)
  BY <1>1, RBTreeAssumption DEF Whole, Fields
<1>3. Cardinality(N) = Cardinality(M) + 1
  BY <1>1, ShapeFacts, FS_AddElement
<1>4. /\ s = "left" => k = at[p]
      /\ s = "right" => k = at[p] + 1
      /\ k \in 1 .. Cardinality(M) + 1 /\ k \in Int
      /\ at[p] \in Int
  <2>1. at[p] \in 1 .. Cardinality(M) + 1
    BY <1>1
  <2>2. s = "right" => at[p] # Cardinality(M) + 1
    BY <1>1, <1>2
  <2> QED
    BY <1>1, <2>1, <2>2 DEF Place, Sides
<1>5. /\ at2[n] = k
      /\ \A m \in Whole(M) : at2[m] = IF at[m] >= k THEN at[m] + 1 ELSE at[m]
      /\ at2 \in [Whole(N) -> 1 .. Cardinality(N) + 1]
  <2>1. at2 = [m \in Whole(N) |-> IF m = n THEN k ELSE IF at[m] >= k THEN at[m] + 1 ELSE at[m]]
    BY DEF GrownAt
  <2>2. \A m \in Whole(M) : (IF at[m] >= k THEN at[m] + 1 ELSE at[m]) \in 1 .. Cardinality(N) + 1
    <3> TAKE m \in Whole(M)
    <3>1. at[m] \in 1 .. Cardinality(M) + 1
      BY <1>1
    <3> QED
      BY <1>1, <1>3, <3>1
  <2>3. k \in 1 .. Cardinality(N) + 1
    BY <1>1, <1>3, <1>4
  <2> HIDE DEF at2, k, N
  <2> QED
    BY <1>2, <2>1, <2>2, <2>3
<1>6. /\ \A d \in Sides : edge2[d][n] = k
      /\ \A d \in Sides : \A m \in Whole(M) : edge2[d][m] =
            IF edge[d][m] > at[p] \/ (d = "right" /\ edge[d][m] = at[p]) THEN edge[d][m] + 1
            ELSE edge[d][m]
      /\ edge2 \in [Sides -> [Whole(N) -> 1 .. Cardinality(N) + 1]]
  <2> DEFINE e(d, m) == IF edge[d][m] > at[p] \/ (d = "right" /\ edge[d][m] = at[p]) THEN edge[d][m] + 1
                        ELSE edge[d][m]
  <2>1. edge2 = [d \in Sides |-> [m \in Whole(N) |-> IF m = n THEN k ELSE e(d, m)]]
    BY DEF GrownEdge
  <2>2. \A d \in Sides : \A m \in Whole(M) : e(d, m) \in 1 .. Cardinality(N) + 1
    <3> TAKE d \in Sides
    <3> TAKE m \in Whole(M)
    <3>1. edge[d][m] \in 1 .. Cardinality(M) + 1
      BY <1>1
    <3> QED
      BY <1>1, <1>3, <3>1
  <2>3. k \in 1 .. Cardinality(N) + 1
    BY <1>1, <1>3, <1>4
  <2>4. /\ \A d \in Sides : edge2[d][n] = k
        /\ \A d \in Sides : \A m \in Whole(M) : edge2[d][m] = e(d, m)
        /\ edge2 \in [Sides -> [Whole(N) -> 1 .. Cardinality(N) + 1]]
    <3> HIDE DEF edge2, k, N, e
    <3> QED
      BY <1>2, <2>1, <2>2, <2>3
  <2> QED
    BY <2>4
<1> HIDE DEF at2, edge2, k
<1>7. \A i, m \in Whole(N) : at2[i] = at2[m] => i = m
  <2> TAKE i \in Whole(N)
  <2> TAKE m \in Whole(N)
  <2>a. \A j \in Whole(M) : at[j] \in Int /\ at2[j] = IF at[j] >= k THEN at[j] + 1 ELSE at[j]
    BY <1>1, <1>5
  <2>b. \A j \in Whole(M) : at2[j] # k
    BY <1>4, <2>a
  <2>1. CASE i \in Whole(M) /\ m \in Whole(M)
    <3>1. at[i] \in Int /\ at[m] \in Int /\ (at[i] = at[m] => i = m)
      BY <1>1, <2>1
    <3> QED
      BY <1>4, <2>a, <2>1, <3>1
  <2>2. CASE i = n \/ m = n
    BY <1>2, <1>5, <2>b, <2>2
  <2> QED
    BY <1>2, <2>1, <2>2
<1>8. \A m \in Whole(N) : edge2["left"][m] <= at2[m] /\ at2[m] <= edge2["right"][m]
  <2> TAKE m \in Whole(N)
  <2>1. CASE m = n
    BY <1>4, <1>5, <1>6, <2>1 DEF Sides
  <2>2. CASE m \in Whole(M)
    <3>1. /\ edge2["left"][m] = IF edge["left"][m] > at[p] THEN edge["left"][m] + 1 ELSE edge["left"][m]
          /\ edge2["right"][m] = IF edge["right"][m] >= at[p] THEN edge["right"][m] + 1 ELSE edge["right"][m]
          /\ edge["left"][m] \in Int /\ edge["right"][m] \in Int
      BY <1>1, <1>4, <1>6, <2>2 DEF Sides
    <3>2. k = at[p] \/ k = at[p] + 1
      BY <1>4 DEF Sides
    <3>3. /\ at2[m] = IF at[m] >= k THEN at[m] + 1 ELSE at[m]
          /\ at[m] \in Int /\ edge["left"][m] <= at[m] /\ at[m] <= edge["right"][m]
      BY <1>1, <1>5, <2>2
    <3> QED
      BY <1>4, <3>1, <3>2, <3>3
  <2> QED
    BY <1>2, <2>1, <2>2
<1>9. at2[root] = Cardinality(N) + 1 /\ edge2["left"][root] = 1
  <2>1. at2[root] = Cardinality(M) + 2
    <3>1. at2[root] = IF at[root] >= k THEN at[root] + 1 ELSE at[root]
      BY <1>2, <1>5
    <3> QED
      BY <1>1, <1>4, <3>1
  <2>2. 1 <= at[p]
    <3>1. at[p] \in 1 .. Cardinality(M) + 1
      BY <1>1
    <3> QED
      BY <1>1, <3>1
  <2>3. edge2["left"][root] = 1
    BY <1>1, <1>2, <1>4, <1>6, <2>2 DEF Sides
  <2> QED
    BY <1>1, <1>3, <2>1, <2>3
<1>10. \A m \in Whole(N) : \A d \in Sides : Hangs(u, N, at2, edge2, m, d)
  <2> TAKE m \in Whole(N)
  <2> TAKE d \in Sides
  <2> DEFINE f == Other(d)
             c == t.child[d][m]
  <2>0. f \in Sides /\ f # d
    BY SideFacts
  <2> SUFFICES LET c2 == u.child[d][m]
               IN /\ c2 = nil => edge2[d][m] = at2[m]
                  /\ c2 # nil => /\ c2 \in N /\ u.parent[c2] = m
                                 /\ edge2[d][c2] = edge2[d][m] /\ edge2[f][c2] = at2[m] + Step(d)
    BY DEF Hangs
  <2>1. CASE m = n
    BY <1>2, <1>5, <1>6, <2>1
  <2>2. CASE m = p /\ d = s
    <3>1. u.child[d][m] = n /\ u.parent[n] = p
      BY <1>2, <2>2
    <3>2. edge[s][p] = at[p]
      BY <1>1 DEF Hangs
    <3>3. /\ at2[p] = IF at[p] >= k THEN at[p] + 1 ELSE at[p]
          /\ edge2[s][p] = IF s = "right" THEN at[p] + 1 ELSE at[p]
      <4>1. at2[p] = IF at[p] >= k THEN at[p] + 1 ELSE at[p]
        BY <1>5
      <4>2. edge2[s][p] = IF at[p] > at[p] \/ (s = "right" /\ at[p] = at[p]) THEN at[p] + 1 ELSE at[p]
        BY <1>6, <3>2
      <4>3. ~(at[p] > at[p])
        BY <1>4
      <4> QED
        BY <4>1, <4>2, <4>3
    <3>4. edge2[s][p] = k /\ k = at2[p] + Step(s)
      BY <1>4, <3>3 DEF Sides, Step
    <3>5. edge2[s][n] = k /\ edge2[f][n] = k
      BY <1>6, <2>0
    <3> QED
      BY <1>2, <2>2, <3>1, <3>4, <3>5
  <2>3. CASE m \in Whole(M) /\ ~(m = p /\ d = s)
    <3>1. u.child[d][m] = c
      BY <1>2, <2>3
    <3>2. /\ c = nil => edge[d][m] = at[m]
          /\ c # nil => /\ c \in M /\ c \in Whole(M) /\ t.parent[c] = m
                        /\ edge[d][c] = edge[d][m] /\ edge[f][c] = at[m] + Step(d)
      <4>1. Hangs(t, M, at, edge, m, d)
        BY <1>1, <2>3
      <4> QED
        BY <1>2, <4>1 DEF Hangs
    <3>3. m # p => at[m] # at[p]
      BY <1>1, <2>3
    <3>4. at[m] \in Int /\ edge[d][m] \in Int
      BY <1>1, <2>3
    <3>5. CASE c = nil
      <4>1. edge2[d][m] = at2[m]
        <5>1. edge2[d][m] = IF at[m] > at[p] \/ (d = "right" /\ at[m] = at[p]) THEN at[m] + 1 ELSE at[m]
          BY <1>6, <2>3, <3>2, <3>5
        <5>2. at2[m] = IF at[m] >= k THEN at[m] + 1 ELSE at[m]
          BY <1>5, <2>3
        <5>3. m = p => d # s
          BY <2>3
        <5> QED
          BY <1>4, <3>3, <3>4, <5>1, <5>2, <5>3 DEF Sides
      <4> QED
        BY <3>1, <3>5, <4>1
    <3>6. CASE c # nil
      <4>1. u.parent[c] = m /\ c \in N
        BY <1>2, <3>2, <3>6
      <4>2. edge2[d][c] = edge2[d][m]
        BY <1>6, <2>3, <3>2, <3>6
      <4>3. edge2[f][c] = at2[m] + Step(d)
        <5>1. m = p => d # s
          BY <2>3
        <5>2. edge[f][c] \in Int
          BY <1>1, <2>0, <3>2, <3>6
        <5>3. CASE d = "left"
          <6>1. edge2[f][c] = IF at[m] - 1 >= at[p] THEN at[m] ELSE at[m] - 1
            BY <1>4, <1>6, <2>0, <3>2, <3>4, <3>6, <5>2, <5>3 DEF Other, Step
          <6>2. at2[m] = IF at[m] >= k THEN at[m] + 1 ELSE at[m]
            BY <1>5, <2>3
          <6> QED
            BY <1>4, <2>3, <3>3, <3>4, <5>1, <5>3, <6>1, <6>2 DEF Step, Sides
        <5>4. CASE d = "right"
          <6>1. edge2[f][c] = IF at[m] + 1 > at[p] THEN at[m] + 2 ELSE at[m] + 1
            BY <1>4, <1>6, <2>0, <3>2, <3>4, <3>6, <5>2, <5>4 DEF Other, Step
          <6>2. at2[m] = IF at[m] >= k THEN at[m] + 1 ELSE at[m]
            BY <1>5, <2>3
          <6> QED
            BY <1>4, <2>3, <3>3, <3>4, <5>1, <5>4, <6>1, <6>2 DEF Step, Sides
        <5> QED
          BY <5>3, <5>4 DEF Sides
      <4> QED
        BY <3>1, <3>6, <4>1, <4>2, <4>3
    <3> QED
      BY <3>5, <3>6
  <2> QED
    BY <1>2, <2>1, <2>2, <2>3
<1>11. \A m \in N : Held(u, N, m)
  <2> SUFFICES ASSUME NEW m \in N
               PROVE  Held(u, N, m)
    OBVIOUS
  <2>1. CASE m = n
    <3>1. u.parent[n] = p /\ u.child[s][p] = n
      BY <1>2
    <3> QED
      BY <1>2, <2>1, <3>1 DEF Held
  <2>2. CASE m \in M
    <3>1. PICK d \in Sides : t.child[d][t.parent[m]] = m
      BY <1>1, <2>2 DEF Held
    <3>2. t.parent[m] \in Whole(M)
      BY <1>1, <2>2 DEF Held
    <3>3. u.parent[m] = t.parent[m]
      BY <1>2, <2>2
    <3>4. u.child[d][t.parent[m]] = m
      <4>1. m # nil /\ t.parent[m] # n /\ t.parent[m] \in Fields
        BY <1>1, <1>2, <2>2, <3>2
      <4>2. ~(t.parent[m] = p /\ d = s)
        BY <3>1, <4>1
      <4> QED
        BY <3>1, <4>1, <4>2
    <3> QED
      BY <1>2, <3>2, <3>3, <3>4 DEF Held
  <2> QED
    BY <2>1, <2>2
<1>12. u.child["right"][root] = nil
  BY <1>1, <1>2 DEF Sides
<1>13. Layout(N, at2, edge2)
  BY <1>5, <1>6, <1>7, <1>8, <1>9 DEF Layout
<1>14. Shape(u, N, at2, edge2)
  BY <1>2, <1>10, <1>11, <1>12, <1>13 DEF Shape
<1> QED
  BY <1>14 DEF at2, edge2

-----------------------------------------------------------------------------
(* A node with at most one child goes, and the nodes behind it move up.       *)
ShrunkAt(M, at, out) ==
  [m \in Whole(M \ {out}) |-> IF at[m] > at[out] THEN at[m] - 1 ELSE at[m]]

(* The edges of the tree without it.                                          *)
ShrunkEdge(M, at, edge, out) ==
  [d \in Sides |-> [m \in Whole(M \ {out}) |->
     IF edge[d][m] > at[out] \/ (d = "right" /\ edge[d][m] = at[out]) THEN edge[d][m] - 1
     ELSE edge[d][m]]]

(* u is t with up in out's place below p. *)
Splices(t, u, out, up, p, s) ==
  /\ u \in Tree /\ u.red = t.red
  /\ \A d \in Sides : \A m \in Fields : u.child[d][m] = IF m = p /\ d = s THEN up ELSE t.child[d][m]
  /\ \A m \in Fields : u.parent[m] = IF m = up THEN p ELSE t.parent[m]

(* rb_delete links the child of a node that has one at most to the node's     *)
(* parent: a tree without that node.                                          *)
LEMMA SpliceShape ==
  ASSUME NEW t, NEW M, NEW at, NEW edge, Shape(t, M, at, edge),
         NEW out \in M, NEW e \in Sides, t.child[e][out] = nil,
         NEW up, up = t.child[Other(e)][out],
         NEW p, p = t.parent[out], NEW s \in Sides, t.child[s][p] = out,
         NEW u, Splices(t, u, out, up, p, s)
  PROVE  Shape(u, M \ {out}, ShrunkAt(M, at, out), ShrunkEdge(M, at, edge, out))
<1>t. /\ u \in Tree
      /\ \A d \in Sides : \A m \in Fields : u.child[d][m] =
            IF m = p /\ d = s THEN up ELSE t.child[d][m]
      /\ \A m \in Fields : u.parent[m] = IF m = up THEN p ELSE t.parent[m]
  BY DEF Splices
<1> USE <1>t
<1> DEFINE N == M \ {out}
           k == at[out]
           at2 == ShrunkAt(M, at, out)
           edge2 == ShrunkEdge(M, at, edge, out)
<1>1. /\ M \subseteq Nodes /\ Cardinality(M) \in Nat
      /\ at \in [Whole(M) -> 1 .. Cardinality(M) + 1]
      /\ edge \in [Sides -> [Whole(M) -> 1 .. Cardinality(M) + 1]]
      /\ \A i, m \in Whole(M) : at[i] = at[m] => i = m
      /\ \A m \in Whole(M) : \A d \in Sides : Hangs(t, M, at, edge, m, d) /\ edge[d][m] \in Int
      /\ \A m \in Whole(M) : /\ at[m] \in Int
                             /\ edge["left"][m] <= at[m] /\ at[m] <= edge["right"][m]
      /\ \A m \in M : Held(t, M, m)
      /\ root \notin M /\ nil \notin M /\ nil # root /\ t.child["right"][root] = nil
      /\ at[root] = Cardinality(M) + 1 /\ edge["left"][root] = 1
  BY ShapeFacts DEF Shape, Layout
<1>2. /\ out # nil /\ out # root /\ out \in Whole(M) /\ Whole(N) = Whole(M) \ {out}
      /\ root \in Whole(N) /\ Whole(M) \subseteq Fields /\ Whole(N) \subseteq Fields
      /\ N \subseteq Nodes /\ M \subseteq Whole(M) /\ N \subseteq Whole(N) /\ N \subseteq M
  BY <1>1, RBTreeAssumption DEF Whole, Fields
<1>3. Cardinality(N) = Cardinality(M) - 1
  BY <1>1, ShapeFacts, FS_RemoveElement
<1>4. k \in Int /\ 1 <= k /\ k <= Cardinality(M)
  <2>1. k \in 1 .. Cardinality(M) + 1 /\ k # Cardinality(M) + 1
    BY <1>1, <1>2
  <2> HIDE DEF k
  <2> QED
    BY <1>1, <2>1
<1>a. \A m \in Whole(N) : /\ m \in Whole(M) /\ at[m] \in 1 .. Cardinality(M) + 1
                          /\ at[m] \in Int /\ at[m] # k
  BY <1>1, <1>2
<1>5. /\ \A m \in Whole(N) : at2[m] = IF at[m] > k THEN at[m] - 1 ELSE at[m]
      /\ at2 \in [Whole(N) -> 1 .. Cardinality(N) + 1]
  <2>1. at2 = [m \in Whole(N) |-> IF at[m] > k THEN at[m] - 1 ELSE at[m]]
    BY DEF ShrunkAt
  <2>2. \A m \in Whole(N) : (IF at[m] > k THEN at[m] - 1 ELSE at[m]) \in 1 .. Cardinality(N) + 1
    <3> TAKE m \in Whole(N)
    <3>1. at[m] \in 1 .. Cardinality(M) + 1 /\ at[m] # k
      BY <1>a
    <3> HIDE DEF k, N
    <3> QED
      BY <1>1, <1>3, <1>4, <3>1
  <2> HIDE DEF at2, k, N
  <2> QED
    BY <2>1, <2>2
<1>6. /\ \A d \in Sides : \A m \in Whole(N) : edge2[d][m] =
            IF edge[d][m] > k \/ (d = "right" /\ edge[d][m] = k) THEN edge[d][m] - 1
            ELSE edge[d][m]
      /\ edge2 \in [Sides -> [Whole(N) -> 1 .. Cardinality(N) + 1]]
  <2> DEFINE f(d, m) == IF edge[d][m] > k \/ (d = "right" /\ edge[d][m] = k) THEN edge[d][m] - 1
                        ELSE edge[d][m]
  <2>1. edge2 = [d \in Sides |-> [m \in Whole(N) |-> f(d, m)]]
    BY DEF ShrunkEdge
  <2>2. \A d \in Sides : \A m \in Whole(N) : f(d, m) \in 1 .. Cardinality(N) + 1
    <3> TAKE d \in Sides
    <3> TAKE m \in Whole(N)
    <3>1. edge[d][m] \in 1 .. Cardinality(M) + 1
      <4>1. m \in Whole(M)
        BY <1>a
      <4> HIDE DEF N, k
      <4> QED
        BY <1>1, <4>1
    <3>2. at[m] \in 1 .. Cardinality(M) + 1 /\ at[m] # k /\ (d = "right" => edge[d][m] >= at[m])
      BY <1>1, <1>a
    <3> QED
      BY <1>1, <1>3, <1>4, <3>1, <3>2
  <2>3. /\ \A d \in Sides : \A m \in Whole(N) : edge2[d][m] = f(d, m)
        /\ edge2 \in [Sides -> [Whole(N) -> 1 .. Cardinality(N) + 1]]
    <3> HIDE DEF edge2, k, N, f
    <3> QED
      BY <2>1, <2>2
  <2> QED
    BY <2>3
<1> HIDE DEF at2, edge2, k
<1>7. \A i, m \in Whole(N) : at2[i] = at2[m] => i = m
  <2> TAKE i \in Whole(N)
  <2> TAKE m \in Whole(N)
  <2>1. /\ at[i] \in Int /\ at[m] \in Int /\ (at[i] = at[m] => i = m) /\ at[i] # k /\ at[m] # k
        /\ at2[i] = (IF at[i] > k THEN at[i] - 1 ELSE at[i])
        /\ at2[m] = (IF at[m] > k THEN at[m] - 1 ELSE at[m])
    BY <1>1, <1>5, <1>a
  <2> QED
    BY <1>4, <2>1
<1>8. \A m \in Whole(N) : edge2["left"][m] <= at2[m] /\ at2[m] <= edge2["right"][m]
  <2> TAKE m \in Whole(N)
  <2>1. /\ edge2["left"][m] = IF edge["left"][m] > k THEN edge["left"][m] - 1 ELSE edge["left"][m]
        /\ edge2["right"][m] = IF edge["right"][m] >= k THEN edge["right"][m] - 1 ELSE edge["right"][m]
        /\ edge["left"][m] \in Int /\ edge["right"][m] \in Int
    <3>1. "left" \in Sides /\ "right" \in Sides
      BY DEF Sides
    <3>2. \A d \in Sides : edge[d][m] \in Int
      BY <1>1, <1>a
    <3>3. \A d \in Sides : edge2[d][m] =
             IF edge[d][m] > k \/ (d = "right" /\ edge[d][m] = k) THEN edge[d][m] - 1
             ELSE edge[d][m]
      BY <1>6
    <3> QED
      BY <1>4, <3>1, <3>2, <3>3
  <2>2. /\ at2[m] = IF at[m] > k THEN at[m] - 1 ELSE at[m]
        /\ at[m] \in Int /\ edge["left"][m] <= at[m] /\ at[m] <= edge["right"][m] /\ at[m] # k
    BY <1>1, <1>5, <1>a
  <2> QED
    BY <1>4, <2>1, <2>2
<1>9. at2[root] = Cardinality(N) + 1 /\ edge2["left"][root] = 1
  <2>1. at2[root] = IF at[root] > k THEN at[root] - 1 ELSE at[root]
    BY <1>2, <1>5
  <2>2. edge2["left"][root] = IF edge["left"][root] > k THEN edge["left"][root] - 1 ELSE edge["left"][root]
    BY <1>2, <1>6 DEF Sides
  <2> QED
    BY <1>1, <1>3, <1>4, <2>1, <2>2
<1>b. p \in Whole(N) /\ (up # nil => up \in N /\ up # p)
  <2>1. p \in Whole(M) /\ p # out
    <3>1. p \in Whole(M)
      BY <1>1 DEF Held
    <3> QED
      BY <1>2, <3>1, ChildFacts
  <2>2. up # nil => up \in M /\ up # out /\ up # p
    BY <1>2, <2>1, SideFacts, GrandchildFacts
  <2> QED
    BY <1>2, <2>1, <2>2
<1>10. \A m \in Whole(N) : \A d \in Sides : Hangs(u, N, at2, edge2, m, d)
  <2> TAKE m \in Whole(N)
  <2> TAKE d \in Sides
  <2> DEFINE f == Other(d)
             c == t.child[d][m]
  <2>0. f \in Sides /\ f # d
    BY SideFacts
  <2> SUFFICES LET c2 == u.child[d][m]
               IN /\ c2 = nil => edge2[d][m] = at2[m]
                  /\ c2 # nil => /\ c2 \in N /\ u.parent[c2] = m
                                 /\ edge2[d][c2] = edge2[d][m] /\ edge2[f][c2] = at2[m] + Step(d)
    BY DEF Hangs
  <2>a. at[m] \in Int /\ at[m] # k /\ edge[d][m] \in Int /\ m \in Whole(M) /\ m \in Fields
    BY <1>1, <1>2, <1>a
  <2>b. at2[m] = IF at[m] > k THEN at[m] - 1 ELSE at[m]
    BY <1>5
  <2>1. CASE m = p /\ d = s
    <3>1. u.child[d][m] = up
      BY <2>1, <2>a
    <3>2. edge[d][out] = edge[d][m] /\ edge[f][out] = at[m] + Step(d)
      BY <1>1, <1>2, <2>1, <2>a DEF Hangs
    <3>3. edge[e][out] = k
      BY <1>1, <1>2 DEF Hangs, k
    <3>4. /\ up = nil => edge[Other(e)][out] = k
          /\ up # nil => /\ up \in Whole(N) /\ edge[Other(e)][up] = edge[Other(e)][out]
                         /\ edge[e][up] = k + Step(Other(e))
      <4>1. Hangs(t, M, at, edge, out, Other(e))
        BY <1>1, <1>2, SideFacts
      <4> QED
        BY <1>2, <1>b, <4>1, SideFacts DEF Hangs, k
    <3>5. edge2[d][m] = IF edge[d][m] > k \/ (d = "right" /\ edge[d][m] = k) THEN edge[d][m] - 1 ELSE edge[d][m]
      BY <1>6
    <3>6. CASE up = nil
      <4>1. edge[d][out] = k /\ edge[f][out] = k
        BY <2>0, <3>3, <3>4, <3>6, SideFacts
      <4>2. edge2[d][m] = at2[m]
        BY <1>4, <2>a, <2>b, <3>2, <3>5, <4>1 DEF Sides, Step
      <4> QED
        BY <3>1, <3>6, <4>2
    <3>7. CASE up # nil
      <4>1. up \in N /\ u.parent[up] = m /\ up \in Whole(N)
        BY <1>1, <1>2, <1>b, <2>1, <3>7
      <4>2. /\ edge2[d][up] = (IF edge[d][up] > k \/ (d = "right" /\ edge[d][up] = k) THEN edge[d][up] - 1 ELSE edge[d][up])
            /\ edge2[f][up] = (IF edge[f][up] > k \/ (f = "right" /\ edge[f][up] = k) THEN edge[f][up] - 1 ELSE edge[f][up])
        BY <1>6, <2>0, <4>1, ZenonT(30)
      <4>3. CASE e = f
        <5>1. Other(e) = d
          BY <4>3, SideFacts
        <5>2. edge[d][up] = edge[d][m] /\ edge[f][up] = k + Step(d) /\ k = at[m] + Step(d)
          BY <3>2, <3>3, <3>4, <3>7, <4>3, <5>1
        <5>3. edge2[d][up] = edge2[d][m]
          BY <3>5, <4>2, <5>2
        <5>4. edge2[f][up] = at2[m] + Step(d)
          <6>1. CASE d = "left"
            BY <1>4, <2>a, <2>b, <4>2, <5>2, <6>1 DEF Other, Step
          <6>2. CASE d = "right"
            BY <1>4, <2>a, <2>b, <4>2, <5>2, <6>2 DEF Other, Step
          <6> QED
            BY <6>1, <6>2 DEF Sides
        <5> QED
          BY <3>1, <3>7, <4>1, <5>3, <5>4
      <4>4. CASE e = d
        <5>1. edge[d][m] = k /\ edge[d][up] = k + Step(f)
              /\ edge[f][up] = at[m] + Step(d)
          BY <3>2, <3>3, <3>4, <3>7, <4>4
        <5>2. /\ d = "right" => at[up] < k
              /\ d = "left" => at[up] > k
          <6>1. /\ f = "left" => at[up] < at[out]
                /\ f = "right" => at[out] < at[up]
            BY <1>2, <2>0, <3>7, <4>4, ChildFacts
          <6> QED
            BY <1>1, <1>2, <1>b, <3>7, <6>1 DEF Other, Sides, k
        <5>3. /\ edge["left"][up] <= at[up] /\ at[up] <= edge["right"][up] /\ at[up] \in Int
          BY <1>1, <1>2, <1>a, <4>1
        <5>4. edge2[d][up] = edge2[d][m]
          BY <1>4, <3>5, <4>2, <5>1 DEF Sides, Other, Step
        <5>5. edge2[f][up] = at2[m] + Step(d)
          <6>1. CASE d = "left"
            BY <1>4, <2>a, <2>b, <4>2, <5>1, <5>2, <5>3, <6>1 DEF Other, Step
          <6>2. CASE d = "right"
            BY <1>4, <2>a, <2>b, <4>2, <5>1, <5>2, <5>3, <6>2 DEF Other, Step
          <6> QED
            BY <6>1, <6>2 DEF Sides
        <5> QED
          BY <3>1, <3>7, <4>1, <5>4, <5>5
      <4> QED
        BY <4>3, <4>4, SideFacts
    <3> QED
      BY <3>6, <3>7
  <2>2. CASE ~(m = p /\ d = s)
    <3>1. u.child[d][m] = c
      BY <2>2, <2>a
    <3>2. /\ c = nil => edge[d][m] = at[m]
          /\ c # nil => /\ c \in M /\ t.parent[c] = m
                        /\ edge[d][c] = edge[d][m] /\ edge[f][c] = at[m] + Step(d)
      <4>1. Hangs(t, M, at, edge, m, d)
        BY <1>1, <2>a
      <4> QED
        BY <4>1 DEF Hangs
    <3>3. edge2[d][m] = IF edge[d][m] > k \/ (d = "right" /\ edge[d][m] = k) THEN edge[d][m] - 1 ELSE edge[d][m]
      BY <1>6
    <3>4. CASE c = nil
      BY <1>4, <2>a, <2>b, <3>1, <3>2, <3>3, <3>4
    <3>5. CASE c # nil
      <4>1. c # out
        <5> SUFFICES ASSUME c = out
                     PROVE  FALSE
          OBVIOUS
        <5>1. m = p /\ d # s
          BY <2>2, <3>2, <3>5
        <5>2. s = f
          BY <5>1, SideFacts
        <5>3. t.child[f][m] # c
          BY <2>a, <3>5, ChildFacts
        <5> QED
          BY <5>1, <5>2, <5>3
      <4>2. c # up
        <5> SUFFICES ASSUME c = up
                     PROVE  FALSE
          OBVIOUS
        <5>1. t.parent[up] = out
          BY <1>2, <3>5, SideFacts, ChildFacts
        <5> QED
          BY <1>2, <3>2, <3>5, <5>1
      <4>3. c \in N /\ c \in Whole(N) /\ u.parent[c] = m
        BY <1>1, <1>2, <3>2, <3>5, <4>1, <4>2
      <4>4. /\ edge2[d][c] = (IF edge[d][c] > k \/ (d = "right" /\ edge[d][c] = k) THEN edge[d][c] - 1 ELSE edge[d][c])
            /\ edge2[f][c] = (IF edge[f][c] > k \/ (f = "right" /\ edge[f][c] = k) THEN edge[f][c] - 1 ELSE edge[f][c])
        BY <1>6, <2>0, <4>3
      <4>5. edge2[d][c] = edge2[d][m]
        BY <3>2, <3>3, <3>5, <4>4
      <4>6. edge2[f][c] = at2[m] + Step(d)
        <5>1. edge[f][c] = at[m] + Step(d)
          BY <3>2, <3>5
        <5>2. CASE d = "left"
          BY <1>4, <2>a, <2>b, <4>4, <5>1, <5>2 DEF Other, Step
        <5>3. CASE d = "right"
          BY <1>4, <2>a, <2>b, <4>4, <5>1, <5>3 DEF Other, Step
        <5> QED
          BY <5>2, <5>3 DEF Sides
      <4> QED
        BY <3>1, <3>5, <4>3, <4>5, <4>6
    <3> QED
      BY <3>4, <3>5
  <2> QED
    BY <2>1, <2>2
<1>11. \A m \in N : Held(u, N, m)
  <2> SUFFICES ASSUME NEW m \in N
               PROVE  Held(u, N, m)
    OBVIOUS
  <2>1. CASE m = up
    <3>1. u.parent[m] = p /\ u.child[s][p] = m
      BY <1>2, <1>b, <2>1
    <3> QED
      BY <1>b, <3>1 DEF Held
  <2>2. CASE m # up
    <3> DEFINE q == t.parent[m]
    <3>1. m \in M /\ m # out /\ m # nil /\ m \in Fields
      BY <1>1, <1>2
    <3>2. q \in Whole(M) /\ \E d \in Sides : t.child[d][q] = m
      BY <1>1, <3>1 DEF Held
    <3>3. PICK d \in Sides : t.child[d][q] = m
      BY <3>2
    <3>4. q # out
      <4> SUFFICES ASSUME q = out
                   PROVE  FALSE
        OBVIOUS
      <4>1. d = e \/ d = Other(e)
        BY SideFacts
      <4> QED
        BY <2>2, <3>1, <3>3, <4>1
    <3>5. q \in Whole(N) /\ q \in Fields
      BY <1>2, <3>2, <3>4
    <3>6. u.parent[m] = q
      BY <2>2, <3>1
    <3>7. u.child[d][q] = m
      BY <3>1, <3>3, <3>5
    <3> QED
      BY <3>5, <3>6, <3>7 DEF Held
  <2> QED
    BY <2>1, <2>2
<1>12. u.child["right"][root] = nil
  <2>1. ~(root = p /\ "right" = s)
    BY <1>1, <1>2
  <2> QED
    BY <1>1, <1>2, <2>1 DEF Sides
<1>13. Layout(N, at2, edge2)
  BY <1>5, <1>6, <1>7, <1>8, <1>9 DEF Layout
<1>14. Shape(u, N, at2, edge2)
  BY <1>2, <1>10, <1>11, <1>12, <1>13 DEF Shape
<1> QED
  BY <1>14 DEF at2, edge2

-----------------------------------------------------------------------------
(* A node that stands in for another has its places. *)
InPlaceOf(M, f, z, n) == [m \in Whole((M \ {z}) \cup {n}) |-> IF m = n THEN f[z] ELSE f[m]]

(* u is t with n in z's place, with its children and colour. *)
Takes(t, u, z, n, p, s) ==
  /\ u \in Tree
  /\ \A d \in Sides : \A m \in Fields : u.child[d][m] =
       IF m = n THEN t.child[d][z] ELSE IF m = p /\ d = s THEN n ELSE t.child[d][m]
  /\ \A m \in Fields : u.parent[m] =
       IF m = n THEN p
       ELSE IF m = t.child["left"][z] \/ m = t.child["right"][z] THEN n
       ELSE t.parent[m]
  /\ \A m \in Fields : u.red[m] = IF m = n THEN t.red[z] ELSE t.red[m]

(* *y = *z: a node outside the tree that takes over the fields of z, and is   *)
(* written into its parent and its children, stands where z stood.            *)
LEMMA TakeShape ==
  ASSUME NEW t, NEW M, NEW at, NEW edge, Shape(t, M, at, edge),
         NEW n \in Nodes, n \notin M, NEW z \in M,
         NEW p, p = t.parent[z], NEW s \in Sides, t.child[s][p] = z,
         NEW u, Takes(t, u, z, n, p, s)
  PROVE  Shape(u, (M \ {z}) \cup {n}, InPlaceOf(M, at, z, n),
               [d \in Sides |-> InPlaceOf(M, edge[d], z, n)])
<1>t. /\ u \in Tree
      /\ \A d \in Sides : \A m \in Fields : u.child[d][m] =
            IF m = n THEN t.child[d][z] ELSE IF m = p /\ d = s THEN n ELSE t.child[d][m]
      /\ \A m \in Fields : u.parent[m] =
            IF m = n THEN p
            ELSE IF m = t.child["left"][z] \/ m = t.child["right"][z] THEN n
            ELSE t.parent[m]
  BY DEF Takes
<1> USE <1>t
<1> DEFINE N == (M \ {z}) \cup {n}
           at2 == InPlaceOf(M, at, z, n)
           edge2 == [d \in Sides |-> InPlaceOf(M, edge[d], z, n)]
<1>1. /\ M \subseteq Nodes /\ Cardinality(M) \in Nat /\ IsFiniteSet(M)
      /\ at \in [Whole(M) -> 1 .. Cardinality(M) + 1]
      /\ edge \in [Sides -> [Whole(M) -> 1 .. Cardinality(M) + 1]]
      /\ \A i, m \in Whole(M) : at[i] = at[m] => i = m
      /\ \A m \in Whole(M) : \A d \in Sides : Hangs(t, M, at, edge, m, d)
      /\ \A m \in Whole(M) : edge["left"][m] <= at[m] /\ at[m] <= edge["right"][m]
      /\ \A m \in M : Held(t, M, m)
      /\ root \notin M /\ nil \notin M /\ nil # root /\ t.child["right"][root] = nil
      /\ at[root] = Cardinality(M) + 1 /\ edge["left"][root] = 1
  BY ShapeFacts DEF Shape, Layout
<1>2. /\ n # nil /\ n # root /\ z # nil /\ z # root /\ z \in Whole(M) /\ z # n
      /\ Whole(N) = (Whole(M) \ {z}) \cup {n} /\ n \notin Whole(M)
      /\ Whole(M) \subseteq Fields /\ Whole(N) \subseteq Fields
      /\ N \subseteq Nodes /\ M \subseteq Whole(M) /\ N \subseteq Whole(N)
      /\ \A m : m \in N <=> m = n \/ (m \in M /\ m # z)
      /\ \A m : m \in Whole(N) <=> m = n \/ (m \in Whole(M) /\ m # z)
  BY <1>1, RBTreeAssumption DEF Whole, Fields
<1>3. Cardinality(N) = Cardinality(M)
  <2>1. IsFiniteSet(M \ {z}) /\ Cardinality(M \ {z}) = Cardinality(M) - 1
    BY <1>1, FS_RemoveElement
  <2>2. Cardinality(N) = Cardinality(M \ {z}) + 1
    BY <2>1, FS_AddElement
  <2> QED
    BY <1>1, <2>1, <2>2
<1>4. /\ at2 \in [Whole(N) -> 1 .. Cardinality(N) + 1]
      /\ \A m \in Whole(N) : at2[m] = IF m = n THEN at[z] ELSE at[m]
  <2>1. at2 = [m \in Whole(N) |-> IF m = n THEN at[z] ELSE at[m]]
    BY DEF InPlaceOf
  <2> HIDE DEF at2, N
  <2> QED
    BY <1>1, <1>2, <1>3, <2>1
<1>5. /\ edge2 \in [Sides -> [Whole(N) -> 1 .. Cardinality(N) + 1]]
      /\ \A d \in Sides : \A m \in Whole(N) : edge2[d][m] = IF m = n THEN edge[d][z] ELSE edge[d][m]
  <2>1. edge2 = [d \in Sides |-> [m \in Whole(N) |-> IF m = n THEN edge[d][z] ELSE edge[d][m]]]
    BY DEF InPlaceOf
  <2> HIDE DEF edge2, N
  <2> QED
    BY <1>1, <1>2, <1>3, <2>1
<1> HIDE DEF at2, edge2, N
<1>6. Layout(N, at2, edge2)
  <2>1. \A i, m \in Whole(N) : at2[i] = at2[m] => i = m
    <3> TAKE i \in Whole(N)
    <3> TAKE m \in Whole(N)
    <3>1. /\ i = n \/ (i \in Whole(M) /\ i # z)
          /\ m = n \/ (m \in Whole(M) /\ m # z)
      BY <1>2
    <3>2. /\ at2[i] = IF i = n THEN at[z] ELSE at[i]
          /\ at2[m] = IF m = n THEN at[z] ELSE at[m]
      BY <1>4
    <3> QED
      BY <1>1, <1>2, <3>1, <3>2
  <2>2. \A m \in Whole(N) : edge2["left"][m] <= at2[m] /\ at2[m] <= edge2["right"][m]
    BY <1>1, <1>2, <1>4, <1>5 DEF Sides
  <2>3. at2[root] = Cardinality(N) + 1 /\ edge2["left"][root] = 1
    BY <1>1, <1>2, <1>3, <1>4, <1>5 DEF Sides, Whole
  <2> QED
    BY <1>4, <1>5, <2>1, <2>2, <2>3 DEF Layout
<1>7. p \in Whole(N) /\ p # n /\ p # z /\ p \in Whole(M)
  <2>1. p \in Whole(M)
    BY <1>1 DEF Held
  <2> QED
    BY <1>2, <2>1, ChildFacts
<1>8. \A d \in Sides : LET c == t.child[d][z]
                       IN c # nil => c \in N /\ u.parent[c] = n /\ t.parent[c] = z /\ c # z /\ c # n
  <2> TAKE d \in Sides
  <2> DEFINE c == t.child[d][z]
  <2> SUFFICES ASSUME c # nil
               PROVE  c \in N /\ u.parent[c] = n /\ t.parent[c] = z /\ c # z /\ c # n
    OBVIOUS
  <2>1. c \in M /\ t.parent[c] = z /\ c # z
    BY <1>2, ChildFacts
  <2>2. c # n /\ c \in Fields /\ (d = "left" \/ d = "right")
    BY <1>2, <2>1 DEF Sides
  <2>3. u.parent[c] = n
    BY <2>1, <2>2
  <2> QED
    BY <1>2, <2>1, <2>2, <2>3
<1>9. \A m \in M : m # z /\ t.parent[m] # z => u.parent[m] = t.parent[m]
  <2> SUFFICES ASSUME NEW m \in M, m # z, t.parent[m] # z
               PROVE  u.parent[m] = t.parent[m]
    OBVIOUS
  <2>1. m # n /\ m \in Fields /\ m # nil
    BY <1>1, <1>2
  <2>2. m # t.child["left"][z] /\ m # t.child["right"][z]
    BY <1>8, <2>1 DEF Sides
  <2> QED
    BY <2>1, <2>2
<1>10. \A m \in Whole(N) : \A d \in Sides : Hangs(u, N, at2, edge2, m, d)
  <2> TAKE m \in Whole(N)
  <2> TAKE d \in Sides
  <2> DEFINE f == Other(d)
             c == t.child[d][m]
  <2>0. f \in Sides /\ f # d
    BY SideFacts
  <2> SUFFICES LET c2 == u.child[d][m]
               IN /\ c2 = nil => edge2[d][m] = at2[m]
                  /\ c2 # nil => /\ c2 \in N /\ u.parent[c2] = m
                                 /\ edge2[d][c2] = edge2[d][m] /\ edge2[f][c2] = at2[m] + Step(d)
    BY DEF Hangs
  <2>1. CASE m = n
    <3> DEFINE b == t.child[d][z]
    <3>1. u.child[d][m] = b
      BY <1>2, <2>1
    <3>2. /\ b = nil => edge[d][z] = at[z]
          /\ b # nil => edge[d][b] = edge[d][z] /\ edge[f][b] = at[z] + Step(d)
      <4>1. Hangs(t, M, at, edge, z, d)
        BY <1>1, <1>2
      <4> QED
        BY <4>1 DEF Hangs
    <3>3. /\ at2[m] = at[z] /\ edge2[d][m] = edge[d][z]
      BY <1>4, <1>5, <2>1
    <3>4. b # nil => /\ b \in N /\ u.parent[b] = n
                     /\ edge2[d][b] = edge[d][b] /\ edge2[f][b] = edge[f][b]
      BY <1>2, <1>5, <1>8, <2>0
    <3> QED
      BY <2>1, <3>1, <3>2, <3>3, <3>4
  <2>2. CASE m = p /\ d = s
    <3>1. u.child[d][m] = n /\ u.parent[n] = p
      BY <1>2, <1>7, <2>2
    <3>2. edge[d][z] = edge[d][m] /\ edge[f][z] = at[m] + Step(d)
      BY <1>1, <1>2, <1>7, <2>2 DEF Hangs
    <3>3. /\ at2[m] = at[m] /\ edge2[d][m] = edge[d][m]
          /\ edge2[d][n] = edge[d][z] /\ edge2[f][n] = edge[f][z]
      BY <1>2, <1>4, <1>5, <1>7, <2>0, <2>2
    <3> QED
      BY <1>2, <2>2, <3>1, <3>2, <3>3
  <2>3. CASE m # n /\ ~(m = p /\ d = s)
    <3>0. m \in Whole(M) /\ m # z
      BY <1>2, <2>3
    <3>1. u.child[d][m] = c
      BY <1>2, <2>3
    <3>2. /\ c = nil => edge[d][m] = at[m]
          /\ c # nil => /\ c \in M /\ t.parent[c] = m
                        /\ edge[d][c] = edge[d][m] /\ edge[f][c] = at[m] + Step(d)
      <4>1. Hangs(t, M, at, edge, m, d)
        BY <1>1, <3>0
      <4> QED
        BY <4>1 DEF Hangs
    <3>3. at2[m] = at[m] /\ edge2[d][m] = edge[d][m]
      BY <1>4, <1>5, <2>3
    <3>4. c # nil => c # z
      <4> SUFFICES ASSUME c # nil, c = z
                   PROVE  FALSE
        OBVIOUS
      <4>1. m = p /\ s = f
        BY <2>3, <3>2, SideFacts
      <4>2. t.child[f][m] # c
        BY <3>0, ChildFacts
      <4> QED
        BY <4>1, <4>2
    <3>5. c # nil => /\ u.parent[c] = m /\ c \in N
                     /\ edge2[d][c] = edge[d][c] /\ edge2[f][c] = edge[f][c]
      BY <1>2, <1>5, <1>9, <2>0, <3>0, <3>2, <3>4
    <3> QED
      BY <3>1, <3>2, <3>3, <3>5
  <2> QED
    BY <2>1, <2>2, <2>3
<1>11. \A m \in N : Held(u, N, m)
  <2> SUFFICES ASSUME NEW m \in N
               PROVE  Held(u, N, m)
    OBVIOUS
  <2>1. CASE m = n
    <3>1. u.parent[n] = p /\ u.child[s][p] = n
      BY <1>2, <1>7
    <3> QED
      BY <1>7, <2>1, <3>1 DEF Held
  <2>2. CASE m # n
    <3> DEFINE q == t.parent[m]
    <3>1. m \in M /\ m # z
      BY <1>2, <2>2
    <3>2. q \in Whole(M) /\ \E d \in Sides : t.child[d][q] = m
      BY <1>1, <3>1 DEF Held
    <3>3. PICK d \in Sides : t.child[d][q] = m
      BY <3>2
    <3>4. CASE q = z
      <4>1. u.parent[m] = n /\ u.child[d][n] = m
        BY <1>1, <1>2, <1>8, <3>1, <3>3, <3>4
      <4> QED
        BY <1>2, <4>1 DEF Held
    <3>5. CASE q # z
      <4>1. u.parent[m] = q /\ q \in Whole(N) /\ q # n /\ q \in Fields
        BY <1>2, <1>9, <3>1, <3>2, <3>5
      <4>2. ~(q = p /\ d = s)
        BY <3>1, <3>3
      <4>3. u.child[d][q] = m
        BY <3>3, <4>1, <4>2
      <4> QED
        BY <4>1, <4>3 DEF Held
    <3> QED
      BY <3>4, <3>5
  <2> QED
    BY <2>1, <2>2
<1>12. u.child["right"][root] = nil
  <2>1. ~(root = p /\ "right" = s)
    BY <1>1, <1>2
  <2> QED
    BY <1>1, <1>2, <2>1 DEF Sides, Fields
<1>13. Shape(u, N, at2, edge2)
  BY <1>2, <1>6, <1>10, <1>11, <1>12 DEF Shape
<1> QED
  BY <1>13 DEF at2, edge2, N

-----------------------------------------------------------------------------
(* The fields that the parts of a deletion write. *)
LEMMA ReplaceFields ==
  ASSUME NEW t \in Tree, NEW m \in Fields, NEW n \in Fields, NEW p, p = t.parent[m],
         NEW s \in Sides, t.child[s][p] = m, t.child[Other(s)][p] # m
  PROVE  /\ Replace(t, m, n) \in Tree
         /\ Replace(t, m, n).parent = t.parent /\ Replace(t, m, n).red = t.red
         /\ \A d \in Sides : \A k \in Fields : Replace(t, m, n).child[d][k] =
              IF k = p /\ d = s THEN n ELSE t.child[d][k]
<1>1. s = (IF t.child["left"][p] = m THEN "left" ELSE "right")
  BY DEF Sides, Other
<1>2. /\ t.child \in [Sides -> [Fields -> Fields]] /\ t.parent \in [Fields -> Fields]
      /\ t.red \in [Fields -> BOOLEAN] /\ p \in Fields
  BY DEF Tree
<1> DEFINE c1 == [t.child EXCEPT ![s][p] = n]
<1>3. Replace(t, m, n) = [t EXCEPT !.child = c1]
  BY <1>1 DEF Replace
<1>4. /\ c1 \in [Sides -> [Fields -> Fields]]
      /\ \A d \in Sides : \A k \in Fields : c1[d][k] = IF k = p /\ d = s THEN n ELSE t.child[d][k]
  BY <1>2
<1> HIDE DEF c1
<1>5. Replace(t, m, n) = [child |-> c1, parent |-> t.parent, red |-> t.red]
  BY <1>3 DEF Tree
<1> QED
  BY <1>2, <1>4, <1>5 DEF Tree

(* What Take writes: the fields Takes says.                                   *)
LEMMA TakeFields ==
  ASSUME NEW t \in Tree, NEW z \in Fields, NEW n \in Fields, NEW p, p = t.parent[z],
         NEW s \in Sides, t.child[s][p] = z, t.child[Other(s)][p] # z,
         p # z, p # n, z # n, \A d \in Sides : t.child[d][z] # n
  PROVE  /\ Take(t, z, n) \in Tree
         /\ \A d \in Sides : \A m \in Fields : Take(t, z, n).child[d][m] =
              IF m = n THEN t.child[d][z] ELSE IF m = p /\ d = s THEN n ELSE t.child[d][m]
         /\ \A m \in Fields : Take(t, z, n).parent[m] =
              IF m = n THEN p
              ELSE IF m = t.child["left"][z] \/ m = t.child["right"][z] THEN n
              ELSE t.parent[m]
         /\ \A m \in Fields : Take(t, z, n).red[m] = IF m = n THEN t.red[z] ELSE t.red[m]
<1> DEFINE moved == Replace(t, z, n)
           l == moved.child["left"][z]
           r == moved.child["right"][z]
           c1 == [d \in Sides |-> [moved.child[d] EXCEPT ![n] = moved.child[d][z]]]
           p1 == [moved.parent EXCEPT ![l] = n, ![r] = n, ![n] = moved.parent[z]]
           r1 == [moved.red EXCEPT ![n] = moved.red[z]]
<1>1. /\ moved \in Tree
      /\ moved.parent = t.parent /\ moved.red = t.red
      /\ \A d \in Sides : \A k \in Fields : moved.child[d][k] =
              IF k = p /\ d = s THEN n ELSE t.child[d][k]
  BY ReplaceFields
<1>2. Take(t, z, n) = [child |-> c1, parent |-> p1, red |-> r1]
  BY DEF Take
<1> HIDE DEF moved
<1>3. /\ moved.child \in [Sides -> [Fields -> Fields]] /\ t.parent \in [Fields -> Fields]
      /\ t.red \in [Fields -> BOOLEAN] /\ p \in Fields
  BY <1>1 DEF Tree
<1>4. /\ l = t.child["left"][z] /\ r = t.child["right"][z] /\ l \in Fields /\ r \in Fields
      /\ l # n /\ r # n
  BY <1>1, <1>3 DEF Sides
<1>5. /\ c1 \in [Sides -> [Fields -> Fields]]
      /\ \A d \in Sides : \A m \in Fields : c1[d][m] =
              IF m = n THEN t.child[d][z] ELSE IF m = p /\ d = s THEN n ELSE t.child[d][m]
  BY <1>1, <1>3
<1>6. /\ p1 \in [Fields -> Fields]
      /\ \A m \in Fields : p1[m] = IF m = n THEN p ELSE IF m = l \/ m = r THEN n ELSE t.parent[m]
  <2>1. p1 = [[[t.parent EXCEPT ![l] = n] EXCEPT ![r] = n] EXCEPT ![n] = p]
    BY <1>1
  <2> HIDE DEF p1, l, r
  <2> QED
    BY <1>3, <1>4, <2>1
<1>7. /\ r1 \in [Fields -> BOOLEAN]
      /\ \A m \in Fields : r1[m] = IF m = n THEN t.red[z] ELSE t.red[m]
  BY <1>1, <1>3
<1> HIDE DEF c1, p1, r1, l, r
<1> QED
  BY <1>2, <1>4, <1>5, <1>6, <1>7 DEF Tree

(* What Drop writes: the fields of the node that is out.                      *)
LEMMA DropFields ==
  ASSUME NEW t \in Tree, NEW z \in Fields
  PROVE  /\ Drop(t, z) \in Tree
         /\ \A d \in Sides : \A m \in Fields : Drop(t, z).child[d][m] =
              IF m = z THEN nil ELSE t.child[d][m]
         /\ \A m \in Fields : Drop(t, z).parent[m] = IF m = z THEN nil ELSE t.parent[m]
         /\ \A m \in Fields : Drop(t, z).red[m] = IF m = z THEN FALSE ELSE t.red[m]
<1>1. /\ t.child \in [Sides -> [Fields -> Fields]] /\ t.parent \in [Fields -> Fields]
      /\ t.red \in [Fields -> BOOLEAN] /\ nil \in Fields
  BY DEF Tree, Fields
<1> QED
  BY <1>1 DEF Tree, Drop

-----------------------------------------------------------------------------
(* What a loop holds after i rounds, first being what it starts with.          *)
Rounds(f, last, first, step) ==
  f = [i \in 0 .. last |-> IF i = 0 THEN first ELSE step[f[i - 1]]]

(* A loop holds something after each of its rounds.                           *)
LEMMA RoundsExist ==
  ASSUME NEW V, NEW step \in [V -> V], NEW first \in V, NEW last \in Nat
  PROVE  \E f \in [0 .. last -> V] : Rounds(f, last, first, step)
<1>1. PICK N \in Nat : N = last + 1
  OBVIOUS
<1>2. PICK steps : steps = [i \in Nat |-> step]
  OBVIOUS
<1>3. PICK f \in [1 .. N -> V] : Iterates(f, N, first, steps)
  <2>1. steps \in [Nat -> [V -> V]]
    BY <1>2
  <2> QED
    BY <2>1, IterationExists
<1>4. PICK w : w = [i \in 0 .. last |-> f[i + 1]]
  OBVIOUS
<1>5. ASSUME NEW i \in 0 .. last
      PROVE  w[i] \in V /\ w[i] = IF i = 0 THEN first ELSE step[w[i - 1]]
  <2>1. i + 1 \in 1 .. N /\ (i + 1 = 1 <=> i = 0) /\ (i + 1) - 1 = i /\ i + 1 \in Nat
    BY <1>1
  <2>2. w[i] \in V /\ w[i] = IF i = 0 THEN first ELSE steps[i + 1][f[(i + 1) - 1]]
    BY <1>3, <1>4, <2>1 DEF Iterates
  <2>3. CASE i # 0
    <3>1. i - 1 \in 0 .. last /\ (i - 1) + 1 = i
      BY <2>3
    <3>2. w[i - 1] = f[i]
      BY <1>4, <3>1
    <3> QED
      BY <1>2, <2>1, <2>2, <2>3, <3>2
  <2> QED
    BY <2>2, <2>3
<1>6. Rounds(w, last, first, step)
  <2>1. PICK r : r = [i \in 0 .. last |-> IF i = 0 THEN first ELSE step[w[i - 1]]]
    OBVIOUS
  <2>2. w = r
    <3>1. \A i \in 0 .. last : w[i] = r[i]
      BY <1>5, <2>1
    <3>2. w = [i \in 0 .. last |-> w[i]] /\ r = [i \in 0 .. last |-> r[i]]
      BY <1>4, <2>1
    <3> QED
      BY <3>1, <3>2
  <2> QED
    BY <2>1, <2>2 DEF Rounds
<1>7. w \in [0 .. last -> V]
  BY <1>4, <1>5
<1> QED
  BY <1>6, <1>7

(* A loop that gets nearer to its end with every node it visits stays on      *)
(* nodes with property P and ends at one that is its own next.                *)
LEMMA WalkEnds ==
  ASSUME NEW next \in [Fields -> Fields], NEW P \in SUBSET Fields, NEW n \in P,
         NEW rank \in [P -> Nat], rank[n] <= Cardinality(Nodes),
         \A m \in P : next[m] = m \/ (next[m] \in P /\ rank[next[m]] < rank[m])
  PROVE  Walk(next, n) \in P /\ next[Walk(next, n)] = Walk(next, n)
<1>1. Cardinality(Nodes) \in Nat
  BY RBTreeAssumption, FS_CardinalityType
<1>2. PICK C \in Nat : C = Cardinality(Nodes) + 1
  BY <1>1
<1>3. PICK w : Rounds(w, C, n, next) /\ Walk(next, n) = w[C]
  <2>1. \E w : Rounds(w, C, n, next)
    BY RoundsExist
  <2> QED
    BY <1>2, <2>1 DEF Rounds, Walk
<1>4. \A i \in 0 .. C : w[i] = IF i = 0 THEN n ELSE next[w[i - 1]]
  <2>1. PICK r : r = [i \in 0 .. C |-> IF i = 0 THEN n ELSE next[w[i - 1]]]
    OBVIOUS
  <2>2. w = r
    BY <1>3, <2>1 DEF Rounds
  <2> QED
    BY <2>1, <2>2
<1> DEFINE Good == {i \in 0 .. C : w[i] \in P /\ (next[w[i]] = w[i] \/ rank[w[i]] + i < C)}
<1>5. 0 \in Good
  BY <1>1, <1>2, <1>4
<1>6. ASSUME NEW i \in 0 .. C, i \in Good, i < C
      PROVE  i + 1 \in Good
  <2>1. i + 1 \in 0 .. C /\ i + 1 # 0 /\ (i + 1) - 1 = i
    BY <1>6
  <2>2. w[i + 1] = next[w[i]]
    BY <1>4, <2>1
  <2>3. w[i] \in P /\ (next[w[i]] = w[i] \/ rank[w[i]] + i < C)
    BY <1>6
  <2>4. CASE next[w[i]] = w[i]
    BY <2>1, <2>2, <2>3, <2>4
  <2>5. CASE next[w[i]] # w[i]
    <3>1. next[w[i]] \in P /\ rank[next[w[i]]] < rank[w[i]]
      BY <2>3, <2>5
    <3>2. rank[w[i + 1]] \in Nat /\ rank[w[i]] \in Nat /\ rank[w[i + 1]] < rank[w[i]]
      BY <2>2, <2>3, <3>1
    <3>3. rank[w[i + 1]] + (i + 1) < C
      BY <2>3, <2>5, <3>2
    <3> QED
      BY <2>1, <2>2, <3>1, <3>3
  <2> QED
    BY <2>4, <2>5
<1>7. Good = 0 .. C
  <2>1. Good \in SUBSET (0 .. C)
    OBVIOUS
  <2> HIDE DEF Good
  <2> QED
    BY <1>5, <1>6, <2>1, Steps
<1>8. w[C] \in P /\ (next[w[C]] = w[C] \/ rank[w[C]] + C < C)
  <2>1. C \in Good
    BY <1>7
  <2> QED
    BY <2>1
<1>9. rank[w[C]] \in Nat
  BY <1>8
<1> QED
  BY <1>3, <1>8, <1>9

(* What is below a node lies within the node's reach, and a child reaches     *)
(* less far than its parent.                                                  *)
LEMMA ReachFacts ==
  ASSUME NEW t, NEW M, NEW at, NEW edge, Shape(t, M, at, edge)
  PROVE  /\ Cardinality(Nodes) \in Nat
         /\ \A m \in Whole(M) : /\ edge["right"][m] - edge["left"][m] \in Nat
                                /\ edge["right"][m] - edge["left"][m] <= Cardinality(Nodes)
         /\ \A m \in Whole(M) : \A s \in Sides :
              LET c == t.child[s][m]
              IN c # nil => edge["right"][c] - edge["left"][c] < edge["right"][m] - edge["left"][m]
<1>1. /\ Cardinality(M) \in Nat /\ IsFiniteSet(M) /\ M \subseteq Nodes
      /\ edge \in [Sides -> [Whole(M) -> 1 .. Cardinality(M) + 1]]
      /\ \A m \in Whole(M) : /\ at[m] \in Int /\ edge["left"][m] <= at[m] /\ at[m] <= edge["right"][m]
                             /\ edge["left"][m] \in Int /\ edge["right"][m] \in Int
      /\ M \subseteq Whole(M)
  BY ShapeFacts
<1>2. /\ Cardinality(Nodes) \in Nat /\ Cardinality(M) <= Cardinality(Nodes)
  BY <1>1, RBTreeAssumption, FS_Subset, FS_CardinalityType
<1>3. ASSUME NEW m \in Whole(M)
      PROVE  /\ edge["right"][m] - edge["left"][m] \in Nat
             /\ edge["right"][m] - edge["left"][m] <= Cardinality(Nodes)
  <2>1. edge["left"][m] \in 1 .. Cardinality(M) + 1 /\ edge["right"][m] \in 1 .. Cardinality(M) + 1
    BY <1>1 DEF Sides
  <2>2. edge["left"][m] <= edge["right"][m]
    BY <1>1
  <2> QED
    BY <1>1, <1>2, <2>1, <2>2
<1>4. ASSUME NEW m \in Whole(M), NEW s \in Sides, t.child[s][m] # nil
      PROVE  edge["right"][t.child[s][m]] - edge["left"][t.child[s][m]]
               < edge["right"][m] - edge["left"][m]
  <2>1. PICK c : c = t.child[s][m]
    OBVIOUS
  <2>2. c \in M /\ c \in Whole(M)
    BY <1>1, <1>4, <2>1, ChildFacts
  <2>3. edge[s][c] = edge[s][m] /\ edge[Other(s)][c] = at[m] + Step(s)
    BY <1>4, <2>1, ShapeFacts DEF Hangs
  <2>4. /\ edge["left"][m] <= at[m] /\ at[m] <= edge["right"][m] /\ at[m] \in Int
        /\ edge["left"][m] \in Int /\ edge["right"][m] \in Int
        /\ edge["left"][c] \in Int /\ edge["right"][c] \in Int
    BY <1>1, <2>2
  <2>5. CASE s = "left"
    BY <2>1, <2>3, <2>4, <2>5 DEF Other, Step
  <2>6. CASE s = "right"
    BY <2>1, <2>3, <2>4, <2>6 DEF Other, Step
  <2> QED
    BY <2>5, <2>6 DEF Sides
<1> QED
  BY <1>2, <1>3, <1>4

(* The walk down a side ends at the outermost node of that side. *)
LEMMA OutermostFacts ==
  ASSUME NEW t, NEW M, NEW at, NEW edge, Shape(t, M, at, edge),
         NEW n \in M, NEW s \in Sides, NEW e, e = Outermost(t, n, s)
  PROVE  e \in M /\ t.child[s][e] = nil /\ at[e] = edge[s][n] /\ edge[s][e] = edge[s][n]
<1>1. /\ M \subseteq Whole(M) /\ M \subseteq Fields /\ nil \in Fields
      /\ t.child[s] \in [Fields -> Fields]
      /\ \A m \in Whole(M) : \A d \in Sides : Hangs(t, M, at, edge, m, d)
  <2>1. nil \in Fields
    BY DEF Fields
  <2> QED
    BY <2>1, ShapeFacts DEF Tree
<1>2. PICK next : next = [m \in Fields |-> IF t.child[s][m] = nil THEN m ELSE t.child[s][m]]
  OBVIOUS
<1>3. next \in [Fields -> Fields]
  BY <1>1, <1>2
<1>4. PICK P : P = {m \in M : edge[s][m] = edge[s][n]}
  OBVIOUS
<1>5. PICK rank : rank = [m \in P |-> edge["right"][m] - edge["left"][m]]
  OBVIOUS
<1>6. rank \in [P -> Nat] /\ n \in P /\ rank[n] <= Cardinality(Nodes) /\ P \in SUBSET Fields
  BY <1>1, <1>4, <1>5, ReachFacts
<1>7. ASSUME NEW m \in P, next[m] # m
      PROVE  next[m] \in P /\ rank[next[m]] < rank[m]
  <2>1. m \in M /\ m \in Whole(M) /\ m \in Fields /\ edge[s][m] = edge[s][n]
    BY <1>1, <1>4
  <2>2. next[m] = t.child[s][m] /\ t.child[s][m] # nil
    BY <1>2, <1>7, <2>1
  <2>3. next[m] \in M /\ edge[s][next[m]] = edge[s][m]
    BY <1>1, <2>1, <2>2 DEF Hangs
  <2>4. next[m] \in P
    BY <1>4, <2>1, <2>3
  <2>5. edge["right"][next[m]] - edge["left"][next[m]] < edge["right"][m] - edge["left"][m]
    BY <2>1, <2>2, ReachFacts
  <2> QED
    BY <1>5, <2>4, <2>5
<1>8. Walk(next, n) \in P /\ next[Walk(next, n)] = Walk(next, n)
  BY <1>3, <1>6, <1>7, WalkEnds
<1>9. e = Walk(next, n)
  BY <1>2 DEF Outermost
<1>10. e \in M /\ edge[s][e] = edge[s][n] /\ e \in Whole(M) /\ e \in Fields
  BY <1>1, <1>4, <1>8, <1>9
<1>11. t.child[s][e] = nil
  <2> SUFFICES ASSUME t.child[s][e] # nil
               PROVE  FALSE
    OBVIOUS
  <2>1. next[e] = t.child[s][e]
    BY <1>2, <1>10
  <2>2. t.child[s][e] # e
    BY <1>10, ChildFacts
  <2> QED
    BY <1>8, <1>9, <2>1, <2>2
<1>12. edge[s][e] = at[e]
  BY <1>1, <1>10, <1>11 DEF Hangs
<1> QED
  BY <1>10, <1>11, <1>12

(* So does the walk that looks for the place of a key. *)
LeafPlace(t, n) ==
  Walk([m \in Fields |-> LET c == t.child[Below(m, n)][m] IN IF c = nil THEN m ELSE c], root)

(* The walk of rb_insert_binary ends at a node of the tree with no child on   *)
(* the side the key belongs to.                                               *)
LEMMA LeafPlaceFacts ==
  ASSUME NEW t, NEW M, NEW at, NEW edge, Shape(t, M, at, edge),
         NEW n \in Nodes, NEW p, p = LeafPlace(t, n)
  PROVE  p \in Whole(M) /\ Below(p, n) \in Sides /\ t.child[Below(p, n)][p] = nil
<1>1. /\ M \subseteq Whole(M) /\ Whole(M) \subseteq Fields /\ nil \in Fields /\ root \in Whole(M)
      /\ t.child \in [Sides -> [Fields -> Fields]]
      /\ \A m \in Whole(M) : \A d \in Sides : Hangs(t, M, at, edge, m, d)
  <2>1. nil \in Fields
    BY DEF Fields
  <2> QED
    BY <2>1, ShapeFacts DEF Tree
<1>2. \A m : Below(m, n) \in Sides
  BY DEF Below, Sides
<1>3. PICK next : next = [m \in Fields |-> IF t.child[Below(m, n)][m] = nil THEN m
                                           ELSE t.child[Below(m, n)][m]]
  OBVIOUS
<1>4. next \in [Fields -> Fields]
  BY <1>1, <1>2, <1>3
<1>5. PICK P : P = Whole(M)
  OBVIOUS
<1>6. PICK rank : rank = [m \in P |-> edge["right"][m] - edge["left"][m]]
  OBVIOUS
<1>7. rank \in [P -> Nat] /\ root \in P /\ rank[root] <= Cardinality(Nodes) /\ P \in SUBSET Fields
  BY <1>1, <1>5, <1>6, ReachFacts
<1>8. ASSUME NEW m \in P, next[m] # m
      PROVE  next[m] \in P /\ rank[next[m]] < rank[m]
  <2>1. m \in Whole(M) /\ m \in Fields
    BY <1>1, <1>5
  <2>2. next[m] = t.child[Below(m, n)][m] /\ t.child[Below(m, n)][m] # nil
    BY <1>3, <1>8, <2>1
  <2>3. next[m] \in P
    BY <1>1, <1>2, <1>5, <2>1, <2>2 DEF Hangs
  <2>4. edge["right"][next[m]] - edge["left"][next[m]] < edge["right"][m] - edge["left"][m]
    BY <1>2, <2>1, <2>2, ReachFacts
  <2> QED
    BY <1>6, <2>3, <2>4
<1>9. Walk(next, root) \in P /\ next[Walk(next, root)] = Walk(next, root)
  BY <1>4, <1>7, <1>8, WalkEnds
<1>10. p = Walk(next, root)
  BY <1>3 DEF LeafPlace
<1>11. p \in Whole(M) /\ p \in Fields
  BY <1>1, <1>5, <1>9, <1>10
<1>12. t.child[Below(p, n)][p] = nil
  <2> SUFFICES ASSUME t.child[Below(p, n)][p] # nil
               PROVE  FALSE
    OBVIOUS
  <2>1. next[p] = t.child[Below(p, n)][p]
    BY <1>3, <1>11
  <2>2. t.child[Below(p, n)][p] # p
    BY <1>2, <1>11, ChildFacts
  <2> QED
    BY <1>9, <1>10, <2>1, <2>2
<1> QED
  BY <1>2, <1>11, <1>12

-----------------------------------------------------------------------------
(* h counts the black nodes on the way down, the same on both sides of every  *)
(* node; below a hole, a node and a side, one is missing.                     *)
Black(t, m) == IF t.red[m] THEN 0 ELSE 1

(* A hole at side s of m: one black node too few on the ways down there.      *)
Missing(hole, m, s) == IF hole = <<m, s>> THEN 1 ELSE 0

(* h counts the black nodes from a node of the tree down, the same on both    *)
(* sides but for the hole.                                                    *)
Even(t, M, h, hole) ==
  /\ h \in [M \cup {nil} -> Nat] /\ h[nil] = 0
  /\ \A m \in M : \A s \in Sides :
       h[m] = h[t.child[s][m]] + Black(t, m) + Missing(hole, m, s)

(* No node has a hole.                                                        *)
NoHole == <<None, "left">>

(* A tree that is even without a hole has a black height: no two ways down    *)
(* differ.                                                                    *)
LEMMA HeightFacts ==
  ASSUME NEW M, NEW at, NEW edge, NEW h, Shape(tree, M, at, edge), Even(tree, M, h, NoHole)
  PROVE  BlackHeight # -1
<1>1. PICK C : C = Cardinality(Nodes) /\ C \in Nat
  BY ReachFacts
<1>2. PICK V : V = [Fields -> Int]
  OBVIOUS
<1>3. PICK first : first = [m \in Fields |-> -1]
  OBVIOUS
<1> DEFINE Level(f, m) ==
             IF m = nil THEN 0
             ELSE LET l == f[tree.child["left"][m]]
                      r == f[tree.child["right"][m]]
                  IN IF l # r \/ l = -1 THEN -1 ELSE IF tree.red[m] THEN l ELSE l + 1
<1>4. PICK step : step = [f \in V |-> [m \in Fields |-> Level(f, m)]]
  OBVIOUS
<1>5. /\ M \subseteq Fields /\ nil \in Fields /\ nil \notin M /\ root \in Fields /\ M \subseteq Whole(M)
      /\ tree.child["left"] \in [Fields -> Fields] /\ tree.child["right"] \in [Fields -> Fields]
      /\ "left" \in Sides /\ "right" \in Sides /\ root \in Whole(M)
  <2>1. nil \in Fields /\ root \in Fields /\ "left" \in Sides /\ "right" \in Sides
    BY DEF Fields, Sides
  <2> QED
    BY <2>1, ShapeFacts DEF Tree
<1>6. step \in [V -> V] /\ first \in V
  <2>1. \A f \in V : \A m \in Fields : Level(f, m) \in Int
    BY <1>2, <1>5
  <2> HIDE DEF Level
  <2> QED
    BY <1>2, <1>3, <1>4, <2>1
<1>7. PICK f \in [0 .. C + 1 -> V] : Rounds(f, C + 1, first, step)
  <2>1. C + 1 \in Nat
    BY <1>1
  <2> QED
    BY <1>6, <2>1, RoundsExist
<1>8. \A d \in 0 .. C + 1 : f[d] = IF d = 0 THEN first ELSE step[f[d - 1]]
  <2>1. PICK r : r = [d \in 0 .. C + 1 |-> IF d = 0 THEN first ELSE step[f[d - 1]]]
    OBVIOUS
  <2>2. f = r
    BY <1>7, <2>1 DEF Rounds
  <2> QED
    BY <2>1, <2>2
<1> DEFINE Height(g) == [d \in 0 .. C + 1 |->
                          [m \in Fields |-> IF d = 0 THEN -1 ELSE Level(g[d - 1], m)]]
<1>9. ASSUME NEW g, g = Height(g)
      PROVE  g[C + 1][tree.child["left"][root]] # -1
  <2> DEFINE reach(m) == edge["right"][m] - edge["left"][m]
  <2>1. \A d \in 0 .. C + 1 : \A m \in Fields :
          g[d][m] = IF d = 0 THEN -1 ELSE Level(g[d - 1], m)
    <3>1. PICK r : r = Height(g)
      OBVIOUS
    <3>2. g = r
      BY <1>9, <3>1, Zenon
    <3>3. \A d \in 0 .. C + 1 : \A m \in Fields :
            r[d][m] = IF d = 0 THEN -1 ELSE Level(g[d - 1], m)
      <4> HIDE DEF Level
      <4> QED
        BY <3>1
    <3> QED
      BY <3>2, <3>3
  <2>2. /\ \A m \in Whole(M) : reach(m) \in Nat /\ reach(m) <= C
        /\ \A m \in Whole(M) : \A s \in Sides :
             tree.child[s][m] # nil => reach(tree.child[s][m]) < reach(m)
    BY <1>1, ReachFacts
  <2>3. /\ h \in [M \cup {nil} -> Nat] /\ h[nil] = 0
        /\ \A m \in M : \A s \in Sides : h[m] = h[tree.child[s][m]] + Black(tree, m)
    <3>1. \A m \in M : \A s \in Sides : Missing(NoHole, m, s) = 0
      <4>1. None \notin M
        BY ShapeFacts, RBTreeAssumption DEF Fields
      <4> QED
        BY <4>1 DEF Missing, NoHole
    <3>2. \A m \in M : Black(tree, m) \in Nat
      BY DEF Black
    <3>3. \A m \in M : \A s \in Sides : tree.child[s][m] \in M \cup {nil}
      BY <1>5, ShapeFacts DEF Hangs
    <3> QED
      BY <3>1, <3>2, <3>3 DEF Even
  <2> HIDE DEF reach
  <2> DEFINE Good == {d \in 0 .. C + 1 : /\ d > 0 => g[d][nil] = 0
                                         /\ \A m \in M : reach(m) + 1 < d => g[d][m] = h[m]}
  <2>4. 0 \in Good
    <3>1. \A m \in M : ~(reach(m) + 1 < 0)
      BY <1>5, <2>2
    <3> QED
      BY <1>1, <3>1
  <2>5. ASSUME NEW d \in 0 .. C + 1, d \in Good, d < C + 1
        PROVE  d + 1 \in Good
    <3>1. d + 1 \in 0 .. C + 1 /\ d + 1 # 0 /\ (d + 1) - 1 = d /\ d \in Nat
      BY <1>1, <2>5
    <3>2. g[d + 1][nil] = 0
      BY <1>5, <2>1, <3>1
    <3>3. ASSUME NEW m \in M, reach(m) + 1 < d + 1
          PROVE  g[d + 1][m] = h[m]
      <4>1. m \in Whole(M) /\ m # nil /\ m \in Fields /\ reach(m) \in Nat
        BY <1>5, <2>2
      <4>2. ASSUME NEW s \in Sides
            PROVE  g[d][tree.child[s][m]] = h[tree.child[s][m]] /\ h[tree.child[s][m]] \in Nat
        <5>1. CASE tree.child[s][m] = nil
          <6>1. d > 0
            BY <3>1, <3>3, <4>1
          <6> QED
            BY <2>3, <2>5, <5>1, <6>1
        <5>2. CASE tree.child[s][m] # nil
          <6>1. tree.child[s][m] \in M
            BY <4>1, <5>2, ChildFacts
          <6>2. reach(tree.child[s][m]) < reach(m) /\ reach(tree.child[s][m]) \in Nat
            BY <1>5, <2>2, <4>1, <5>2, <6>1
          <6>3. reach(tree.child[s][m]) + 1 < d
            BY <3>1, <3>3, <4>1, <6>2
          <6> QED
            BY <2>3, <2>5, <6>1, <6>3
        <5> QED
          BY <5>1, <5>2
      <4>3. g[d + 1][m] = Level(g[d], m)
        <5> HIDE DEF Level
        <5> QED
          BY <2>1, <3>1, <4>1
      <4>4. /\ g[d][tree.child["left"][m]] = h[tree.child["left"][m]]
            /\ g[d][tree.child["right"][m]] = h[tree.child["right"][m]]
            /\ h[tree.child["left"][m]] \in Nat /\ h[tree.child["right"][m]] \in Nat
        BY <1>5, <4>2
      <4>5. /\ h[m] = h[tree.child["left"][m]] + Black(tree, m)
            /\ h[m] = h[tree.child["right"][m]] + Black(tree, m)
        BY <1>5, <2>3
      <4> QED
        BY <4>1, <4>3, <4>4, <4>5 DEF Black
    <3> QED
      BY <3>1, <3>2, <3>3
  <2>6. Good = 0 .. C + 1
    <3>1. Good \in SUBSET (0 .. C + 1) /\ C + 1 \in Nat /\ 0 \in Nat
      BY <1>1
    <3> HIDE DEF Good
    <3> QED
      BY <2>4, <2>5, <3>1, Steps
  <2>7. /\ g[C + 1][nil] = 0
        /\ \A m \in M : reach(m) + 1 < C + 1 => g[C + 1][m] = h[m]
    <3>1. C + 1 \in Good /\ C + 1 > 0
      BY <1>1, <2>6
    <3> QED
      BY <3>1
  <2>8. CASE tree.child["left"][root] = nil
    BY <2>7, <2>8
  <2>9. CASE tree.child["left"][root] # nil
    <3>1. tree.child["left"][root] \in M
      BY <1>5, <2>9, ChildFacts
    <3>2. /\ reach(tree.child["left"][root]) \in Nat /\ reach(root) \in Nat /\ reach(root) <= C
          /\ reach(tree.child["left"][root]) < reach(root)
      BY <1>5, <2>2, <2>9, <3>1
    <3>3. g[C + 1][tree.child["left"][root]] = h[tree.child["left"][root]]
      BY <1>1, <2>7, <3>1, <3>2
    <3> QED
      BY <2>3, <3>1, <3>3
  <2> QED
    BY <2>8, <2>9
<1>10. f = Height(f)
  <2>1. PICK r : r = Height(f)
    OBVIOUS
  <2>2. ASSUME NEW d \in 0 .. C + 1
        PROVE  f[d] = r[d]
    <3> HIDE DEF Level
    <3>1. r[d] = [m \in Fields |-> IF d = 0 THEN -1 ELSE Level(f[d - 1], m)]
      BY <2>1
    <3>2. CASE d = 0
      BY <1>3, <1>8, <3>1, <3>2
    <3>3. CASE d # 0
      <4>1. d - 1 \in 0 .. C + 1
        BY <1>1, <3>3
      <4>2. f[d - 1] \in V
        BY <1>7, <4>1
      <4>3. f[d] = [m \in Fields |-> Level(f[d - 1], m)]
        BY <1>4, <1>8, <3>3, <4>2
      <4> QED
        BY <3>1, <3>3, <4>3
    <3> QED
      BY <3>2, <3>3
  <2>3. f = [d \in 0 .. C + 1 |-> f[d]] /\ r = [d \in 0 .. C + 1 |-> r[d]]
    BY <1>7, <2>1
  <2> QED
    BY <2>1, <2>2, <2>3
<1>11. \E g : g = Height(g)
  BY <1>10
<1>12. BlackHeight = (CHOOSE g : g = Height(g))[C + 1][tree.child["left"][root]]
  BY <1>1 DEF BlackHeight
<1> QED
  <2> HIDE DEF Height
  <2>1. (CHOOSE g : g = Height(g)) = Height(CHOOSE g : g = Height(g))
    BY <1>11
  <2> QED
    BY <1>9, <1>12, <2>1

(* No red node below a red one, except low below it or high above it, and a   *)
(* black node at the top.                                                     *)
Calm(t, M, low, high) ==
  /\ ~t.red[nil] /\ ~t.red[root]
  /\ \A m \in M : \A s \in Sides :
       t.red[m] /\ t.red[t.child[s][m]] => t.child[s][m] = low \/ m = high
  /\ t.red[t.child["left"][root]] => t.child["left"][root] = low \/ t.child["left"][root] = high

(* What may hang below a node, and where its h lies. *)
LEMMA EvenFacts ==
  ASSUME NEW t, NEW M, NEW at, NEW edge, NEW h, NEW hole,
         Shape(t, M, at, edge), Even(t, M, h, hole)
  PROVE  /\ \A m \in M : h[m] \in Nat /\ Black(t, m) \in Nat
         /\ \A m \in Whole(M) : \A s \in Sides :
              /\ t.child[s][m] \in M \cup {nil} /\ h[t.child[s][m]] \in Nat
              /\ t.child[s][m] \in Fields
         /\ \A m \in M : \A s \in Sides :
              /\ Missing(hole, m, s) \in Nat
              /\ h[m] = h[t.child[s][m]] + Black(t, m) + Missing(hole, m, s)
         /\ nil \notin M /\ nil # None /\ None \notin M /\ h[nil] = 0
<1>1. nil \notin M /\ nil # None /\ None \notin M /\ M \subseteq Whole(M) /\ M \subseteq Fields /\ nil \in Fields
  <2>1. nil \in Fields
    BY DEF Fields
  <2> QED
    BY <2>1, ShapeFacts, RBTreeAssumption
<1>2. \A m \in Whole(M) : \A s \in Sides : t.child[s][m] \in M \cup {nil}
  BY ShapeFacts DEF Hangs
<1>3. \A m \in M \cup {nil} : h[m] \in Nat
  BY DEF Even
<1>4. \A m \in M : Black(t, m) \in Nat /\ \A s \in Sides : Missing(hole, m, s) \in Nat
  BY DEF Black, Missing
<1>5. h[nil] = 0 /\ \A m \in M : \A s \in Sides :
        h[m] = h[t.child[s][m]] + Black(t, m) + Missing(hole, m, s)
  BY DEF Even
<1> QED
  BY <1>1, <1>2, <1>3, <1>4, <1>5

(* u is t with b, a's child on the other side, turned above a. *)
Turns(t, u, a, b, s) ==
  /\ b = t.child[Other(s)][a] /\ b # nil /\ u \in Tree
  /\ \A d \in Sides : \A m \in Fields : u.child[d][m] = TurnedChild(t, a, b, s, d, m)
  /\ \A m \in Fields : u.parent[m] = TurnedParent(t, a, b, s, m)

(* b has a's colour, and a is red. *)
Swaps(t, u, a, b) ==
  \A m \in Fields : u.red[m] = IF m = a THEN TRUE ELSE IF m = b THEN t.red[a] ELSE t.red[m]

(* A rotation that brings up a red node, which leaves its colour to the node  *)
(* that goes down and takes that node's, keeps the heights even.              *)
Swapped(h, a, b) == [h EXCEPT ![a] = h[b], ![b] = h[a]]

(* FUNC_ROTATE between two nodes that swap colours, the lower one red.        *)
LEMMA TurnEven ==
  ASSUME NEW t, NEW M, NEW at, NEW edge, NEW h, NEW hole,
         Shape(t, M, at, edge), Even(t, M, h, hole),
         NEW s \in Sides, NEW a \in M, NEW b, t.red[b],
         hole # <<a, Other(s)>>, \A d \in Sides : hole # <<b, d>>,
         NEW u,
         Turns(t, u, a, b, s),
         Swaps(t, u, a, b)
  PROVE  Even(u, M, Swapped(h, a, b), hole)
<1>t. /\ b = t.child[Other(s)][a] /\ b # nil /\ u \in Tree
      /\ \A d \in Sides : \A m \in Fields : u.child[d][m] = TurnedChild(t, a, b, s, d, m)
  BY DEF Turns
<1>s. \A m \in M : u.red[m] = IF m = a THEN TRUE ELSE IF m = b THEN t.red[a] ELSE t.red[m]
  BY ShapeFacts DEF Swaps
<1> USE <1>t, <1>s
<1> DEFINE o == Other(s)
           h2 == Swapped(h, a, b)
           inner == t.child[s][b]
<1>0. /\ o \in Sides /\ o # s /\ Other(o) = s /\ \A d \in Sides : d = s \/ d = o
  BY SideFacts
<1>1. /\ b \in M /\ t.parent[b] = a /\ a # b /\ t.parent[a] # a /\ t.parent[a] # b
      /\ t.parent[a] \in Whole(M)
  BY RotateShape
<1>2. /\ \A m \in M : h[m] \in Nat /\ Black(t, m) \in Nat
      /\ \A m \in Whole(M) : \A d \in Sides : t.child[d][m] \in M \cup {nil} /\ h[t.child[d][m]] \in Nat
      /\ \A m \in M : \A d \in Sides :
           h[m] = h[t.child[d][m]] + Black(t, m) + Missing(hole, m, d)
      /\ \A m \in M : \A d \in Sides : Missing(hole, m, d) \in Nat
      /\ nil \notin M /\ h[nil] = 0 /\ M \subseteq Whole(M) /\ M \subseteq Fields
  BY EvenFacts, ShapeFacts
<1>3. /\ h2 \in [M \cup {nil} -> Nat] /\ h2[nil] = 0 /\ h2[a] = h[b] /\ h2[b] = h[a]
      /\ \A m \in M \cup {nil} : m # a /\ m # b => h2[m] = h[m]
  <2>1. h \in [M \cup {nil} -> Nat]
    BY DEF Even
  <2> QED
    BY <1>1, <1>2, <2>1 DEF Swapped
<1>4. /\ Black(t, b) = 0 /\ Black(u, a) = 0 /\ Black(u, b) = Black(t, a)
      /\ \A m \in M : m # a /\ m # b => Black(u, m) = Black(t, m)
  BY <1>1 DEF Black
<1>5. /\ Missing(hole, a, o) = 0 /\ \A d \in Sides : Missing(hole, b, d) = 0
  BY DEF Missing
<1> HIDE DEF h2
<1>6. h[a] = h[b] + Black(t, a)
  <2>1. h[a] = h[t.child[o][a]] + Black(t, a) + Missing(hole, a, o)
    BY <1>0, <1>2
  <2> QED
    BY <1>1, <1>2, <1>5, <2>1
<1>7. \A d \in Sides : h[t.child[d][b]] = h[b] /\ t.child[d][b] # a /\ t.child[d][b] # b
  <2> TAKE d \in Sides
  <2>1. h[b] = h[t.child[d][b]] + Black(t, b) + Missing(hole, b, d)
    BY <1>1, <1>2
  <2>2. t.child[d][b] # a /\ t.child[d][b] # b
    <3>1. b \in Whole(M) /\ a \in Whole(M) /\ a # nil /\ b # nil
      BY <1>1, <1>2
    <3>2. t.child[d][b] = a => t.parent[a] = b
      BY <3>1, ChildFacts
    <3>3. t.child[d][b] # b
      BY <3>1, ChildFacts
    <3> QED
      BY <1>1, <3>2, <3>3
  <2> QED
    BY <1>1, <1>2, <1>4, <1>5, <2>1, <2>2
<1>8. ASSUME NEW m \in M, NEW d \in Sides
      PROVE  h2[m] = h2[u.child[d][m]] + Black(u, m) + Missing(hole, m, d)
  <2>0. u.child[d][m] = TurnedChild(t, a, b, s, d, m) /\ m \in Whole(M)
    BY <1>2
  <2>1. CASE m = b /\ d = s
    <3>1. u.child[d][m] = a
      BY <2>0, <2>1 DEF TurnedChild
    <3> QED
      BY <1>1, <1>2, <1>3, <1>4, <1>5, <1>6, <2>1, <3>1
  <2>2. CASE m = b /\ d = o
    <3>1. u.child[d][m] = t.child[o][b]
      BY <1>0, <2>0, <2>2 DEF TurnedChild
    <3>2. h2[t.child[o][b]] = h[b]
      BY <1>0, <1>1, <1>2, <1>3, <1>7
    <3> QED
      BY <1>0, <1>1, <1>2, <1>3, <1>4, <1>5, <1>6, <2>2, <3>1, <3>2
  <2>3. CASE m = a /\ d = s
    <3> DEFINE c == t.child[s][a]
    <3>1. u.child[d][m] = c
      BY <1>1, <2>0, <2>3 DEF TurnedChild
    <3>2. c # a /\ c # b /\ c \in M \cup {nil}
      <4>1. a \in Whole(M) /\ a # nil /\ b # nil
        BY <1>1, <1>2
      <4>2. c # a
        BY <4>1, ChildFacts
      <4>3. c # b
        <5>1. c # nil => t.child[o][a] # c
          BY <4>1, ChildFacts
        <5> QED
          BY <4>1, <5>1
      <4> QED
        BY <1>2, <4>1, <4>2, <4>3
    <3>3. h[a] = h[c] + Black(t, a) + Missing(hole, a, s)
      BY <1>2
    <3>4. h2[c] = h[c] /\ h[c] \in Nat
      BY <1>2, <1>3, <2>0, <2>3, <3>2
    <3>5. h2[a] = h2[c] + Black(u, a) + Missing(hole, a, s)
      <4>1. h2[a] = h[b] /\ Black(u, a) = 0
        BY <1>3, <1>4
      <4>2. Missing(hole, a, s) \in Nat /\ h[b] \in Nat /\ Black(t, a) \in Nat
        BY <1>1, <1>2
      <4>3. h[a] = h[b] + Black(t, a)
        BY <1>6
      <4> HIDE DEF c
      <4> QED
        BY <3>3, <3>4, <4>1, <4>2, <4>3
    <3> QED
      BY <2>3, <3>1, <3>5
  <2>4. CASE m = a /\ d = o
    <3>1. u.child[d][m] = inner
      BY <1>0, <1>1, <2>0, <2>4 DEF TurnedChild
    <3>2. h2[inner] = h[b]
      BY <1>0, <1>1, <1>2, <1>3, <1>7
    <3> QED
      BY <1>0, <1>1, <1>2, <1>3, <1>4, <1>5, <2>4, <3>1, <3>2
  <2>5. CASE m # a /\ m # b
    <3> DEFINE c == t.child[d][m]
    <3>1. h2[m] = h[m] /\ Black(u, m) = Black(t, m) /\ h[m] = h[c] + Black(t, m) + Missing(hole, m, d)
      BY <1>2, <1>3, <1>4, <2>5
    <3>2. CASE c = a
      <4>1. t.parent[a] = m
        BY <1>2, <2>0, <3>2, ChildFacts
      <4>2. d = (IF t.child[s][m] = a THEN s ELSE Other(s))
        <5>1. t.child[Other(d)][m] # a
          BY <1>2, <2>0, <3>2, ChildFacts
        <5> QED
          BY <1>0, <3>2, <5>1, SideFacts
      <4>3. u.child[d][m] = b
        BY <2>0, <2>5, <4>1, <4>2 DEF TurnedChild
      <4> QED
        BY <1>3, <3>1, <3>2, <4>3
    <3>3. CASE c # a
      <4>1. ~(m = t.parent[a] /\ d = (IF t.child[s][m] = a THEN s ELSE Other(s)))
        <5> SUFFICES ASSUME m = t.parent[a], d = (IF t.child[s][m] = a THEN s ELSE Other(s))
                     PROVE  FALSE
          OBVIOUS
        <5>1. PICK e \in Sides : t.child[e][m] = a
          BY ShapeFacts DEF Held
        <5> QED
          BY <1>0, <3>3, <5>1
      <4>2. u.child[d][m] = c
        BY <2>0, <2>5, <4>1 DEF TurnedChild
      <4>3. c # b
        <5>1. c = b => t.parent[b] = m
          BY <1>1, <1>2, <2>0, ChildFacts
        <5> QED
          BY <1>1, <2>5, <5>1
      <4>4. h2[c] = h[c]
        BY <1>2, <1>3, <2>0, <3>3, <4>3
      <4> QED
        BY <3>1, <4>2, <4>4
    <3> QED
      BY <3>2, <3>3
  <2> QED
    BY <1>0, <2>1, <2>2, <2>3, <2>4, <2>5
<1>9. Even(u, M, h2, hole)
  BY <1>3, <1>8 DEF Even
<1> QED
  BY <1>9 DEF h2

(* What hangs where after a rotation, in terms of what did before. *)
LEMMA TurnedFacts ==
  ASSUME NEW t, NEW M, NEW at, NEW edge, Shape(t, M, at, edge),
         NEW s \in Sides, NEW a \in M, NEW b, NEW u,
         Turns(t, u, a, b, s)
  PROVE  /\ u.child[s][b] = a /\ u.child[Other(s)][b] = t.child[Other(s)][b]
         /\ u.child[s][a] = t.child[s][a] /\ u.child[Other(s)][a] = t.child[s][b]
         /\ \A m \in Whole(M) : \A d \in Sides : m # a /\ m # b =>
              /\ t.child[d][m] = a => u.child[d][m] = b
              /\ t.child[d][m] # a => u.child[d][m] = t.child[d][m]
              /\ t.child[d][m] # b
<1>t. /\ b = t.child[Other(s)][a] /\ b # nil /\ u \in Tree
      /\ \A d \in Sides : \A m \in Fields : u.child[d][m] = TurnedChild(t, a, b, s, d, m)
  BY DEF Turns
<1> USE <1>t
<1>0. /\ Other(s) \in Sides /\ Other(s) # s /\ \A d \in Sides : d = s \/ d = Other(s)
  BY SideFacts
<1>1. b \in M /\ t.parent[b] = a /\ a # b /\ a # nil /\ a \in Whole(M) /\ Whole(M) \subseteq Fields /\ b \in Fields
  BY RotateShape, ShapeFacts
<1>2. /\ u.child[s][b] = a /\ u.child[Other(s)][b] = t.child[Other(s)][b]
      /\ u.child[s][a] = t.child[s][a] /\ u.child[Other(s)][a] = t.child[s][b]
  BY <1>0, <1>1 DEF TurnedChild
<1>3. ASSUME NEW m \in Whole(M), NEW d \in Sides, m # a, m # b
      PROVE  /\ t.child[d][m] = a => u.child[d][m] = b
             /\ t.child[d][m] # a => u.child[d][m] = t.child[d][m]
             /\ t.child[d][m] # b
  <2>0. u.child[d][m] = TurnedChild(t, a, b, s, d, m)
    BY <1>1
  <2>1. CASE t.child[d][m] = a
    <3>1. t.parent[a] = m /\ t.child[Other(d)][m] # a
      BY <1>1, <2>1, ChildFacts
    <3>2. d = (IF t.child[s][m] = a THEN s ELSE Other(s))
      BY <1>0, <2>1, <3>1, SideFacts
    <3>3. u.child[d][m] = b
      BY <1>3, <2>0, <3>1, <3>2 DEF TurnedChild
    <3> QED
      BY <1>1, <2>1, <3>3
  <2>2. CASE t.child[d][m] # a
    <3>1. ~(m = t.parent[a] /\ d = (IF t.child[s][m] = a THEN s ELSE Other(s)))
      <4> SUFFICES ASSUME m = t.parent[a], d = (IF t.child[s][m] = a THEN s ELSE Other(s))
                   PROVE  FALSE
        OBVIOUS
      <4>1. PICK e \in Sides : t.child[e][m] = a
        BY ShapeFacts DEF Held
      <4> QED
        BY <1>0, <2>2, <4>1
    <3>2. u.child[d][m] = t.child[d][m]
      BY <1>3, <2>0, <3>1 DEF TurnedChild
    <3>3. t.child[d][m] = b => t.parent[b] = m
      BY <1>1, ChildFacts
    <3> QED
      BY <1>1, <1>3, <2>2, <3>2, <3>3
  <2> QED
    BY <2>1, <2>2
<1> QED
  BY <1>2, <1>3

(* Such a rotation, at a black node, also separates the red node from a red   *)
(* child on the outer side.                                                   *)
LEMMA TurnCalm ==
  ASSUME NEW t, NEW M, NEW at, NEW edge, Shape(t, M, at, edge),
         NEW low, Calm(t, M, low, None),
         NEW s \in Sides, NEW a \in M, NEW b,
         t.red[b], ~t.red[a], ~t.red[t.child[s][a]], ~t.red[t.child[s][b]],
         low = None \/ low = t.child[Other(s)][b], NEW u,
         Turns(t, u, a, b, s),
         Swaps(t, u, a, b)
  PROVE  Calm(u, M, None, None)
<1>t. /\ b = t.child[Other(s)][a] /\ b # nil /\ u \in Tree
      /\ \A d \in Sides : \A m \in Fields : u.child[d][m] = TurnedChild(t, a, b, s, d, m)
  BY DEF Turns
<1>s. \A m \in Fields : u.red[m] = IF m = a THEN TRUE ELSE IF m = b THEN FALSE ELSE t.red[m]
  <2>1. t \in Tree /\ a \in Fields
    BY ShapeFacts
  <2>2. t.red[a] = FALSE
    BY <2>1 DEF Tree
  <2> QED
    BY <2>2 DEF Swaps
<1> USE <1>t, <1>s
<1>0. /\ Other(s) \in Sides /\ Other(s) # s /\ \A d \in Sides : d = s \/ d = Other(s)
  BY SideFacts
<1>1. /\ b \in M /\ a # b /\ nil \notin M /\ nil \in Fields /\ root \in Fields /\ root \notin M
      /\ M \subseteq Whole(M) /\ Whole(M) \subseteq Fields /\ None \notin M /\ None # nil /\ root \in Whole(M)
      /\ a \in Whole(M) /\ b \in Whole(M)
  <2>1. nil \in Fields /\ root \in Fields
    BY DEF Fields
  <2> QED
    BY <2>1, RotateShape, ShapeFacts, RBTreeAssumption
<1>2. /\ u.child[s][b] = a /\ u.child[Other(s)][b] = t.child[Other(s)][b]
      /\ u.child[s][a] = t.child[s][a] /\ u.child[Other(s)][a] = t.child[s][b]
      /\ \A m \in Whole(M) : \A d \in Sides : m # a /\ m # b =>
              /\ t.child[d][m] = a => u.child[d][m] = b
              /\ t.child[d][m] # a => u.child[d][m] = t.child[d][m]
              /\ t.child[d][m] # b
  BY TurnedFacts
<1>3. ~u.red[nil] /\ ~u.red[root]
  BY <1>1 DEF Calm
<1>4. \A m \in Whole(M) : \A d \in Sides : t.child[d][m] \in Fields /\ (t.child[d][m] # nil => t.child[d][m] \in M)
  <2>1. \A m \in Whole(M) : \A d \in Sides : t.child[d][m] # nil => t.child[d][m] \in M
    BY ChildFacts
  <2> QED
    BY <1>1, <2>1
<1>5. ASSUME NEW m \in M, NEW d \in Sides, u.red[m], u.red[u.child[d][m]]
      PROVE  FALSE
  <2>1. CASE m = a
    <3>1. u.child[d][m] = t.child[s][a] \/ u.child[d][m] = t.child[s][b]
      BY <1>0, <1>2, <2>1
    <3>2. /\ t.child[s][a] # a /\ t.child[s][b] # a
      <4>1. a # nil /\ b # nil
        BY <1>1
      <4>2. t.child[s][a] # a
        BY <1>1, <4>1, ChildFacts
      <4>3. t.child[s][b] # a
        <5>1. t.child[s][b] # nil => t.child[s][b] # a
          BY <1>0, <1>1, GrandchildFacts
        <5> QED
          BY <4>1, <5>1
      <4> QED
        BY <4>2, <4>3
    <3>3. t.child[s][a] \in Fields /\ t.child[s][b] \in Fields
      BY <1>1, <1>4
    <3>4. ~u.red[t.child[s][a]] /\ ~u.red[t.child[s][b]]
      BY <3>2, <3>3
    <3>5. ~u.red[u.child[d][m]]
      <4>1. CASE u.child[d][m] = t.child[s][a]
        BY <3>4, <4>1
      <4>2. CASE u.child[d][m] = t.child[s][b]
        BY <3>4, <4>2
      <4> QED
        BY <3>1, <4>1, <4>2
    <3> QED
      BY <1>5, <3>5
  <2>2. CASE m = b
    BY <1>1, <1>5, <2>2
  <2>3. CASE m # a /\ m # b
    <3>1. m \in Whole(M) /\ m \in Fields /\ t.red[m]
      BY <1>1, <1>5, <2>3
    <3>2. CASE t.child[d][m] = a
      <4>1. u.child[d][m] = b
        BY <1>2, <2>3, <3>1, <3>2
      <4>2. ~u.red[b]
        BY <1>1
      <4> QED
        BY <1>5, <4>1, <4>2
    <3>3. CASE t.child[d][m] # a
      <4>1. u.child[d][m] = t.child[d][m] /\ t.child[d][m] # b /\ t.child[d][m] \in Fields
        BY <1>2, <1>4, <2>3, <3>1, <3>3
      <4>2. t.red[t.child[d][m]]
        BY <1>5, <3>3, <4>1
      <4>3. t.child[d][m] = low
        BY <1>1, <3>1, <4>2 DEF Calm
      <4>4. low = t.child[Other(s)][b] /\ low # nil /\ low # None
        <5>1. t.child[d][m] # nil
          BY <4>2 DEF Calm
        <5> QED
          BY <1>1, <1>4, <3>1, <4>3, <5>1
      <4>5. t.parent[low] = m /\ t.parent[low] = b
        BY <1>0, <1>1, <3>1, <4>3, <4>4, ChildFacts
      <4> QED
        BY <2>3, <4>5
    <3> QED
      BY <3>2, <3>3
  <2> QED
    BY <2>1, <2>2, <2>3
<1>6. ~u.red[u.child["left"][root]]
  <2>1. "left" \in Sides /\ root # a /\ root # b /\ t.child["left"][root] \in Fields
    BY <1>1, <1>4 DEF Sides
  <2>2. CASE t.child["left"][root] = a
    <3>1. u.child["left"][root] = b
      BY <1>1, <1>2, <2>1, <2>2
    <3>2. b \in Fields /\ b # a
      BY <1>1
    <3> QED
      BY <3>1, <3>2
  <2>3. CASE t.child["left"][root] # a
    <3>1. u.child["left"][root] = t.child["left"][root] /\ t.child["left"][root] # b
      BY <1>1, <1>2, <2>1, <2>3
    <3>2. u.red[u.child["left"][root]] = t.red[t.child["left"][root]]
      BY <2>1, <2>3, <3>1
    <3>3. SUFFICES ASSUME t.red[t.child["left"][root]]
                   PROVE  FALSE
      BY <3>2
    <3>4. t.child["left"][root] # nil
      BY <3>3 DEF Calm
    <3>5. t.child["left"][root] = low /\ low # None
      BY <1>1, <1>4, <2>1, <3>3, <3>4 DEF Calm
    <3>6. t.parent[low] = root /\ t.parent[low] = b
      BY <1>0, <1>1, <2>1, <3>4, <3>5, ChildFacts
    <3> QED
      BY <2>1, <3>6
  <2> QED
    BY <2>2, <2>3
<1> QED
  BY <1>3, <1>5, <1>6 DEF Calm

(* The first rotation of an insertion turns two red nodes: the lower one of   *)
(* them is then the one below a red node.                                     *)
LEMMA InnerCalm ==
  ASSUME NEW t, NEW M, NEW at, NEW edge, Shape(t, M, at, edge),
         NEW s \in Sides, NEW a \in M, NEW b,
         Calm(t, M, b, None), t.red[b], t.red[a], NEW u,
         Turns(t, u, a, b, s),
         u.red = t.red
  PROVE  /\ Calm(u, M, a, None)
         /\ ~t.red[t.child[s][b]] /\ ~t.red[t.child[Other(s)][b]] /\ ~t.red[t.child[s][a]]
<1>t. /\ b = t.child[Other(s)][a] /\ b # nil /\ u \in Tree
      /\ \A d \in Sides : \A m \in Fields : u.child[d][m] = TurnedChild(t, a, b, s, d, m)
  BY DEF Turns
<1> USE <1>t
<1>0. /\ Other(s) \in Sides /\ Other(s) # s /\ \A d \in Sides : d = s \/ d = Other(s)
  BY SideFacts
<1>1. /\ b \in M /\ a # b /\ nil \notin M /\ nil \in Fields /\ root \in Fields /\ root \notin M
      /\ M \subseteq Whole(M) /\ Whole(M) \subseteq Fields /\ None \notin M /\ None # nil /\ root \in Whole(M)
      /\ a \in Whole(M) /\ b \in Whole(M) /\ t.parent[b] = a /\ t.parent[a] # b
  <2>1. nil \in Fields /\ root \in Fields
    BY DEF Fields
  <2> QED
    BY <2>1, RotateShape, ShapeFacts, RBTreeAssumption
<1>2. /\ u.child[s][b] = a /\ u.child[Other(s)][b] = t.child[Other(s)][b]
      /\ u.child[s][a] = t.child[s][a] /\ u.child[Other(s)][a] = t.child[s][b]
      /\ \A m \in Whole(M) : \A d \in Sides : m # a /\ m # b =>
              /\ t.child[d][m] = a => u.child[d][m] = b
              /\ t.child[d][m] # a => u.child[d][m] = t.child[d][m]
              /\ t.child[d][m] # b
  BY TurnedFacts
<1>3. \A m \in M : \A d \in Sides : t.red[m] /\ t.red[t.child[d][m]] => t.child[d][m] = b
  BY <1>1 DEF Calm
<1>4. ~t.red[t.child[s][b]] /\ ~t.red[t.child[Other(s)][b]] /\ ~t.red[t.child[s][a]]
  <2>1. \A d \in Sides : t.child[d][b] # b
    <3> SUFFICES ASSUME NEW d \in Sides, t.child[d][b] = b
                 PROVE  FALSE
      OBVIOUS
    <3>1. t.child[d][b] # nil
      BY <1>1
    <3> QED
      BY <1>1, <3>1, ChildFacts
  <2>2. t.child[s][a] # b
    <3>1. t.child[s][a] # nil => t.child[Other(s)][a] # t.child[s][a]
      BY <1>1, ChildFacts
    <3> QED
      BY <3>1
  <2> QED
    BY <1>0, <1>1, <1>3, <2>1, <2>2
<1>5. ASSUME NEW m \in M, NEW d \in Sides, t.red[m], t.red[u.child[d][m]]
      PROVE  u.child[d][m] = a
  <2>1. CASE m = a
    BY <1>0, <1>2, <1>4, <1>5, <2>1
  <2>2. CASE m = b
    BY <1>0, <1>2, <1>4, <1>5, <2>2
  <2>3. CASE m # a /\ m # b
    <3>1. CASE t.child[d][m] = a
      BY <1>1, <1>3, <1>5, <3>1
    <3>2. CASE t.child[d][m] # a
      <4>1. u.child[d][m] = t.child[d][m] /\ t.child[d][m] # b
        BY <1>1, <1>2, <2>3, <3>2
      <4> QED
        BY <1>3, <1>5, <4>1
    <3> QED
      BY <3>1, <3>2
  <2> QED
    BY <2>1, <2>2, <2>3
<1>6. ~t.red[u.child["left"][root]]
  <2>1. "left" \in Sides /\ root # a /\ root # b
    BY <1>1 DEF Sides
  <2>2. t.red[t.child["left"][root]] => t.child["left"][root] = b \/ t.child["left"][root] = None
    BY DEF Calm
  <2>3. t.child["left"][root] # b
    BY <1>1, <1>2, <2>1
  <2>4. ~t.red[t.child["left"][root]]
    <3>1. t.child["left"][root] = nil \/ t.child["left"][root] \in M
      BY <1>1, <2>1, ChildFacts
    <3> QED
      BY <1>1, <2>2, <2>3, <3>1
  <2>5. u.child["left"][root] = t.child["left"][root]
    BY <1>1, <1>2, <2>1, <2>4
  <2> QED
    BY <2>4, <2>5
<1>7. ~t.red[nil] /\ ~t.red[root]
  BY DEF Calm
<1> QED
  BY <1>4, <1>5, <1>6, <1>7 DEF Calm

-----------------------------------------------------------------------------
(* The last rotation of a deletion: the node that comes up takes the colour   *)
(* of the one that goes down to the hole and fills it, its red child turns    *)
(* black.                                                                     *)
Filled(h, a, b, c) == [h EXCEPT ![a] = h[b], ![b] = h[a], ![c] = h[c] + 1]

(* b has a's colour, and a and c are black. *)
Closes(t, u, a, b, c) ==
  \A m \in Fields : u.red[m] = IF m = a \/ m = c THEN FALSE ELSE IF m = b THEN t.red[a] ELSE t.red[m]

(* The last rotation of RB_DELETE_FIXUP_SUB closes the hole: the red nephew   *)
(* on the far side gives the black node that was missing.                     *)
LEMMA CloseFacts ==
  ASSUME NEW t, NEW M, NEW at, NEW edge, NEW h, Shape(t, M, at, edge),
         NEW s \in Sides, NEW a \in M, NEW b,
         NEW c, c = t.child[Other(s)][b], c # nil, t.red[c], ~t.red[b],
         Even(t, M, h, <<a, s>>), Calm(t, M, None, None), NEW u,
         Turns(t, u, a, b, s),
         Closes(t, u, a, b, c)
  PROVE  /\ Even(u, M, Filled(h, a, b, c), NoHole)
         /\ Calm(u, M, None, None)
<1>t. /\ b = t.child[Other(s)][a] /\ b # nil /\ u \in Tree
      /\ \A d \in Sides : \A m \in Fields : u.child[d][m] = TurnedChild(t, a, b, s, d, m)
  BY DEF Turns
<1>s. \A m \in Fields : u.red[m] = IF m = a \/ m = c THEN FALSE
                                   ELSE IF m = b THEN t.red[a] ELSE t.red[m]
  BY DEF Closes
<1> USE <1>t, <1>s
<1> DEFINE o == Other(s)
           h2 == Filled(h, a, b, c)
           hole == <<a, s>>
<1>0. /\ o \in Sides /\ o # s /\ Other(o) = s /\ \A d \in Sides : d = s \/ d = o
  BY SideFacts
<1>a. b = t.child[o][a] /\ c = t.child[o][b]
  OBVIOUS
<1>1. /\ b \in M /\ a # b /\ nil \notin M /\ nil \in Fields /\ root \in Fields /\ root \notin M
      /\ M \subseteq Whole(M) /\ Whole(M) \subseteq Fields /\ None \notin M /\ None # nil /\ root \in Whole(M)
      /\ a \in Whole(M) /\ b \in Whole(M) /\ t.parent[b] = a /\ t.parent[a] # b
  <2>1. nil \in Fields /\ root \in Fields
    BY DEF Fields
  <2> QED
    BY <2>1, RotateShape, ShapeFacts, RBTreeAssumption
<1>2. c \in M /\ c # a /\ c # b /\ t.parent[c] = b /\ c \in Whole(M)
  <2> HIDE DEF o
  <2> QED
    BY <1>0, <1>a, <1>1, GrandchildFacts
<1>3. /\ u.child[s][b] = a /\ u.child[o][b] = c
      /\ u.child[s][a] = t.child[s][a] /\ u.child[o][a] = t.child[s][b]
      /\ \A m \in Whole(M) : \A d \in Sides : m # a /\ m # b =>
              /\ t.child[d][m] = a => u.child[d][m] = b
              /\ t.child[d][m] # a => u.child[d][m] = t.child[d][m]
              /\ t.child[d][m] # b
  BY TurnedFacts
<1>4. /\ \A m \in M : h[m] \in Nat /\ Black(t, m) \in Nat
      /\ \A m \in Whole(M) : \A d \in Sides : t.child[d][m] \in M \cup {nil} /\ h[t.child[d][m]] \in Nat
                                              /\ t.child[d][m] \in Fields
      /\ \A m \in M : \A d \in Sides :
           h[m] = h[t.child[d][m]] + Black(t, m) + Missing(hole, m, d)
      /\ h[nil] = 0
  BY EvenFacts
<1>5. /\ Missing(hole, a, s) = 1 /\ Missing(hole, a, o) = 0
      /\ \A m \in M : \A d \in Sides : m # a => Missing(hole, m, d) = 0
      /\ \A m \in M : \A d \in Sides : Missing(NoHole, m, d) = 0
  BY <1>0, <1>1, SMTT(30) DEF Missing, NoHole
<1>6. /\ h2 \in [M \cup {nil} -> Nat] /\ h2[nil] = 0 /\ h2[a] = h[b] /\ h2[b] = h[a] /\ h2[c] = h[c] + 1
      /\ \A m \in M \cup {nil} : m # a /\ m # b /\ m # c => h2[m] = h[m]
  <2>1. h \in [M \cup {nil} -> Nat]
    BY SMTT(30) DEF Even
  <2>2. h[a] \in Nat /\ h[b] \in Nat /\ h[c] \in Nat
    BY <1>1, <1>2, <1>4
  <2>3. /\ a \in M \cup {nil} /\ b \in M \cup {nil} /\ c \in M \cup {nil} /\ nil \in M \cup {nil}
        /\ a # b /\ a # c /\ b # c /\ nil # a /\ nil # b /\ nil # c
    BY <1>1, <1>2
  <2>4. h[c] + 1 \in Nat
    BY <2>2, SMTT(30)
  <2>5. h2 \in [M \cup {nil} -> Nat]
    BY <2>1, <2>2, <2>3, <2>4, SMTT(30) DEF Filled
  <2>6. \A m \in M \cup {nil} : h2[m] = IF m = c THEN h[c] + 1 ELSE IF m = b THEN h[a]
                                       ELSE IF m = a THEN h[b] ELSE h[m]
    BY <2>1, <2>3 DEF Filled
  <2> HIDE DEF h2
  <2> QED
    BY <1>4, <2>3, <2>5, <2>6
<1>7. /\ Black(t, b) = 1 /\ Black(u, a) = 1 /\ Black(u, b) = Black(t, a)
      /\ Black(t, c) = 0 /\ Black(u, c) = 1
      /\ \A m \in M : m # a /\ m # b /\ m # c => Black(u, m) = Black(t, m)
  BY <1>1, <1>2 DEF Black
<1> HIDE <1>t, <1>s DEF h2, hole
<1>8. h[a] = h[b] + Black(t, a) /\ h[a] = h[t.child[s][a]] + Black(t, a) + 1
  <2>1. h[a] = h[t.child[o][a]] + Black(t, a) + Missing(hole, a, o)
    BY <1>0, <1>4
  <2>2. h[a] = h[t.child[s][a]] + Black(t, a) + Missing(hole, a, s)
    BY <1>4
  <2> QED
    BY <1>a, <1>1, <1>4, <1>5, <2>1, <2>2
<1>9. h[b] = h[c] + 1 /\ h[b] = h[t.child[s][b]] + 1
  <2>1. h[b] = h[t.child[o][b]] + Black(t, b) + Missing(hole, b, o)
    BY <1>0, <1>1, <1>4
  <2>2. h[b] = h[t.child[s][b]] + Black(t, b) + Missing(hole, b, s)
    BY <1>1, <1>4
  <2>3. Missing(hole, b, o) = 0 /\ Missing(hole, b, s) = 0
    BY <1>0, <1>1, <1>5
  <2>4. h[t.child[o][b]] = h[c] /\ h[c] \in Nat /\ h[b] \in Nat
    BY <1>a, <1>1, <1>2, <1>4
  <2>5. h[t.child[s][b]] \in Nat
    BY <1>1, <1>4
  <2> QED
    BY <1>7, <2>1, <2>2, <2>3, <2>4, <2>5
<1>10. /\ t.child[s][a] # a /\ t.child[s][a] # b /\ t.child[s][a] # c
       /\ t.child[s][b] # a /\ t.child[s][b] # b /\ t.child[s][b] # c
  <2>1. a # nil /\ b # nil /\ c # nil
    BY <1>1
  <2>2. t.child[s][a] # nil => /\ t.parent[t.child[s][a]] = a /\ t.child[s][a] # a
                               /\ t.child[o][a] # t.child[s][a]
    BY <1>1, ChildFacts
  <2>3. t.child[s][b] # nil => /\ t.parent[t.child[s][b]] = b /\ t.child[s][b] # b
                               /\ t.child[o][b] # t.child[s][b]
    BY <1>1, ChildFacts
  <2> QED
    BY <1>a, <1>1, <1>2, <2>1, <2>2, <2>3
<1>b. \A m \in Whole(M) : \A d \in Sides : m # a /\ m # b =>
        /\ t.child[d][m] # c
  <2> SUFFICES ASSUME NEW m \in Whole(M), NEW d \in Sides, m # a, m # b, t.child[d][m] = c
               PROVE  FALSE
    OBVIOUS
  <2>1. t.parent[c] = m
    BY ChildFacts
  <2> QED
    BY <1>2, <2>1
<1>11. ASSUME NEW m \in M, NEW d \in Sides
       PROVE  h2[m] = h2[u.child[d][m]] + Black(u, m) + Missing(NoHole, m, d)
  <2>0. Missing(NoHole, m, d) = 0 /\ m \in Whole(M)
    BY <1>1, <1>5
  <2>1. CASE m = b
    <3>0. /\ h[a] \in Nat /\ h[b] \in Nat /\ h[c] \in Nat /\ Black(t, a) \in Nat
          /\ h2[m] = h[a] /\ Black(u, m) = Black(t, a)
      BY <1>1, <1>2, <1>4, <1>6, <1>7, <2>1, Zenon
    <3>1. CASE d = s
      <4>1. h2[u.child[d][m]] = h[b]
        BY <1>3, <1>6, <2>1, <3>1
      <4> QED
        BY <1>8, <2>0, <3>0, <4>1
    <3>2. CASE d = o
      <4>1. h2[u.child[d][m]] = h[c] + 1
        BY <1>3, <1>6, <2>1, <3>2, Zenon
      <4> QED
        BY <1>8, <1>9, <2>0, <3>0, <4>1
    <3> QED
      BY <1>0, <3>1, <3>2
  <2>2. CASE m = a
    <3>1. CASE d = s
      <4>1. h2[t.child[s][a]] = h[t.child[s][a]] /\ h[t.child[s][a]] \in Nat
        BY <1>1, <1>4, <1>6, <1>10
      <4>2. h2[m] = h[b] /\ Black(u, m) = 1 /\ u.child[d][m] = t.child[s][a]
        BY <1>3, <1>6, <1>7, <2>2, <3>1, Zenon
      <4>3. h[a] \in Nat /\ h[b] \in Nat /\ Black(t, a) \in Nat
        BY <1>1, <1>4
      <4> QED
        BY <1>8, <2>0, <4>1, <4>2, <4>3
    <3>2. CASE d = o
      <4>1. h2[t.child[s][b]] = h[t.child[s][b]] /\ h[t.child[s][b]] \in Nat
        BY <1>1, <1>4, <1>6, <1>10, ZenonT(30)
      <4>2. h2[m] = h[b] /\ Black(u, m) = 1 /\ u.child[d][m] = t.child[s][b]
        BY <1>3, <1>6, <1>7, <2>2, <3>2, Zenon
      <4> QED
        BY <1>9, <2>0, <4>1, <4>2
    <3> QED
      BY <1>0, <3>1, <3>2
  <2>3. CASE m # a /\ m # b
    <3> DEFINE e == t.child[d][m]
    <3>1. h[m] = h[e] + Black(t, m) /\ h[e] \in Nat /\ Black(t, m) \in Nat /\ h[m] \in Nat /\ e \in M \cup {nil}
      <4>1. h[m] = h[e] + Black(t, m) + Missing(hole, m, d)
        BY <1>4
      <4>2. Missing(hole, m, d) = 0
        BY <1>5, <2>3
      <4>3. h[e] \in Nat /\ Black(t, m) \in Nat /\ h[m] \in Nat /\ e \in M \cup {nil}
        BY <1>4, <2>0
      <4> QED
        BY <4>1, <4>2, <4>3
    <3>2. e # b /\ e # c
      BY <1>3, <1>b, <2>0, <2>3
    <3>3. h2[u.child[d][m]] = h[e]
      <4>1. CASE e = a
        BY <1>3, <1>6, <2>0, <2>3, <4>1
      <4>2. CASE e # a
        BY <1>3, <1>6, <2>0, <2>3, <3>1, <3>2, <4>2
      <4> QED
        BY <4>1, <4>2
    <3>4. CASE m = c
      <4>1. h2[m] = h[m] + 1 /\ Black(t, m) = 0 /\ Black(u, m) = 1
        BY <1>6, <1>7, <3>4
      <4> QED
        BY <2>0, <3>1, <3>3, <4>1
    <3>5. CASE m # c
      <4>1. h2[m] = h[m] /\ Black(u, m) = Black(t, m)
        BY <1>6, <1>7, <2>3, <3>5
      <4> QED
        BY <2>0, <3>1, <3>3, <4>1
    <3> QED
      BY <3>4, <3>5
  <2> QED
    BY <2>1, <2>2, <2>3
<1>12. Even(u, M, h2, NoHole)
  BY <1>6, <1>11 DEF Even
<1>13. \A m \in M : \A d \in Sides : ~(t.red[m] /\ t.red[t.child[d][m]])
  <2> SUFFICES ASSUME NEW m \in M, NEW d \in Sides, t.red[m], t.red[t.child[d][m]]
               PROVE  FALSE
    OBVIOUS
  <2>1. t.child[d][m] = None
    BY <1>1 DEF Calm
  <2>2. t.child[d][m] = nil \/ t.child[d][m] \in M
    BY <1>1, <1>4
  <2> QED
    BY <1>1, <2>1, <2>2
<1>14. ASSUME NEW m \in M, NEW d \in Sides, u.red[m], u.red[u.child[d][m]]
       PROVE  FALSE
  <2>0. m \in Whole(M) /\ m \in Fields /\ a \in Fields /\ b \in Fields /\ c \in Fields
    BY <1>1, <1>2
  <2>1. m # a /\ m # c
    BY <1>s, <1>14, <2>0
  <2>2. CASE m = b
    <3>1. u.child[d][m] = a \/ u.child[d][m] = c
      BY <1>0, <1>3, <2>2
    <3>2. ~u.red[a] /\ ~u.red[c]
      BY <1>s, <2>0
    <3> QED
      BY <1>14, <3>1, <3>2
  <2>3. CASE m # b
    <3>1. t.red[m]
      BY <1>s, <1>14, <2>0, <2>1, <2>3
    <3>2. CASE t.child[d][m] = a
      <4>1. u.child[d][m] = b
        BY <1>3, <2>0, <2>1, <2>3, <3>2
      <4>2. u.red[b] = t.red[a]
        BY <1>s, <1>1, <1>2, <2>0
      <4>3. t.red[a]
        BY <1>14, <4>1, <4>2
      <4> QED
        BY <1>13, <3>1, <3>2, <4>3
    <3>3. CASE t.child[d][m] # a
      <4>1. u.child[d][m] = t.child[d][m] /\ t.child[d][m] # b /\ t.child[d][m] # c /\ t.child[d][m] \in Fields
        BY <1>3, <1>4, <1>b, <2>0, <2>1, <2>3, <3>3
      <4>2. u.red[u.child[d][m]] = t.red[t.child[d][m]]
        BY <1>s, <3>3, <4>1
      <4> QED
        BY <1>13, <1>14, <3>1, <4>2
    <3> QED
      BY <3>2, <3>3
  <2> QED
    BY <2>2, <2>3
<1>15. ~u.red[u.child["left"][root]]
  <2> DEFINE e == t.child["left"][root]
  <2>1. "left" \in Sides /\ root # a /\ root # b /\ e \in Fields /\ (e = nil \/ e \in M)
        /\ b \in Fields
    BY <1>1, <1>4 DEF Sides
  <2>2. ~t.red[e]
    BY <1>1, <2>1 DEF Calm
  <2>3. CASE e = a
    <3>1. u.child["left"][root] = b
      BY <1>1, <1>3, <2>1, <2>3
    <3> QED
      BY <1>s, <1>1, <1>2, <2>1, <2>2, <2>3, <3>1
  <2>4. CASE e # a
    <3>1. u.child["left"][root] = e /\ e # b /\ e # c
      BY <1>1, <1>3, <1>b, <2>1, <2>4
    <3> QED
      BY <1>s, <2>1, <2>2, <2>4, <3>1
  <2> QED
    BY <2>3, <2>4
<1>16. ~u.red[nil] /\ ~u.red[root]
  BY <1>s, <1>1, <1>2 DEF Calm
<1> QED
  BY <1>12, <1>14, <1>15, <1>16 DEF Calm, h2

-----------------------------------------------------------------------------
(* Every node of the tree is a child of its parent, on one side.              *)
LEMMA ParentFacts ==
  ASSUME NEW t, NEW M, NEW at, NEW edge, Shape(t, M, at, edge),
         NEW y \in M, NEW p, p = t.parent[y]
  PROVE  /\ p \in Whole(M) /\ p # y /\ y # nil
         /\ \E s \in Sides : t.child[s][p] = y /\ t.child[Other(s)][p] # y
         /\ p = root => t.child["left"][root] = y
<1>1. p \in Whole(M) /\ (\E s \in Sides : t.child[s][p] = y) /\ nil \notin M
  BY ShapeFacts DEF Held
<1>2. PICK s \in Sides : t.child[s][p] = y
  BY <1>1
<1>3. y # nil
  BY <1>1
<1>4. t.child[Other(s)][p] # y /\ y # p
  BY <1>1, <1>2, <1>3, ChildFacts
<1>5. ASSUME p = root
      PROVE  t.child["left"][root] = y
  <2>1. t.child["right"][root] = nil
    BY DEF Shape
  <2> QED
    BY <1>2, <1>3, <1>5, <2>1 DEF Sides
<1> QED
  BY <1>1, <1>2, <1>3, <1>4, <1>5

(* The side of m that n is on. *)
SideAt(t, m, n) == IF n = t.child["left"][m] THEN "left" ELSE "right"

(* What an insertion's loop finds above a red node whose parent is red. *)
LEMMA UncleFacts ==
  ASSUME NEW t, NEW M, NEW at, NEW edge, Shape(t, M, at, edge),
         NEW y \in M, Calm(t, M, y, None), NEW p, p = t.parent[y], t.red[p],
         NEW g, g = t.parent[p],
         NEW s, s = SideAt(t, g, p)
  PROVE  /\ p \in M /\ g \in M /\ ~t.red[g] /\ p # y /\ g # p /\ g # y
         /\ s \in Sides /\ t.child[s][g] = p /\ t.child[Other(s)][g] # p
         /\ t.child[Other(s)][g] # g /\ t.child[Other(s)][g] # y
         /\ t.child[Other(s)][g] \in M \cup {nil}
<1>1. p \in Whole(M) /\ p # y
  BY ParentFacts
<1>2. p \in M
  BY <1>1 DEF Calm, Whole
<1>3. /\ g \in Whole(M) /\ g # p
      /\ \E d \in Sides : t.child[d][g] = p /\ t.child[Other(d)][g] # p
      /\ g = root => t.child["left"][root] = p
  BY <1>2, ParentFacts
<1>4. PICK d \in Sides : t.child[d][g] = p /\ t.child[Other(d)][g] # p
  BY <1>3
<1>5. s = d /\ s \in Sides
  BY <1>4 DEF Sides, Other, SideAt
<1>6. p # None /\ y # None
  BY <1>2, ShapeFacts, RBTreeAssumption DEF Fields
<1>7. g # root
  BY <1>1, <1>3, <1>6 DEF Calm
<1>8. g \in M
  BY <1>3, <1>7 DEF Whole
<1>9. g # None
  BY <1>8, ShapeFacts, RBTreeAssumption DEF Fields
<1>10. ~t.red[g]
  BY <1>1, <1>4, <1>8, <1>9 DEF Calm
<1>11. y # g
  <2>1. PICK e \in Sides : t.child[e][p] = y
    BY ParentFacts
  <2>2. y # nil /\ p # nil
    BY <1>2, ShapeFacts
  <2> QED
    BY <1>3, <1>4, <2>1, <2>2, GrandchildFacts
<1>12. Other(s) \in Sides
  BY <1>5, SideFacts, SMTT(30)
<1> DEFINE c == t.child[Other(s)][g]
<1>13. c # g /\ c # y /\ c \in M \cup {nil}
  <2>1. y # nil /\ g \in Whole(M) /\ g # nil
    BY <1>8, ShapeFacts
  <2>2. CASE c = nil
    BY <2>1, <2>2
  <2>3. CASE c # nil
    <3>1. c \in M /\ t.parent[c] = g /\ c # g
      <4> DEFINE o == Other(s)
      <4>1. c = t.child[o][g] /\ o \in Sides
        BY <1>12
      <4> HIDE DEF c, o
      <4> QED
        BY <2>1, <2>3, <4>1, ChildFacts
    <3> QED
      BY <1>3, <3>1
  <2> QED
    BY <2>2, <2>3
<1> QED
  BY <1>1, <1>2, <1>3, <1>4, <1>5, <1>8, <1>10, <1>11, <1>13

(* An insertion's loop is at a red node that may be below a red one. *)
Inserting(t, M, y) ==
  /\ y \in M /\ t.red[y] /\ Calm(t, M, y, None)
  /\ \E h : Even(t, M, h, NoHole)

(* u is t with a red leaf n below p. *)
Grows(t, u, n, p, s) ==
  /\ u \in Tree
  /\ \A d \in Sides : \A m \in Fields : u.child[d][m] =
       IF m = n THEN nil ELSE IF m = p /\ d = s THEN n ELSE t.child[d][m]
  /\ \A m \in Fields : u.red[m] = IF m = n THEN TRUE ELSE t.red[m]

(* A new red leaf leaves the ways down even, and can only be red below a red  *)
(* parent.                                                                    *)
LEMMA LeafBalance ==
  ASSUME NEW t, NEW M, NEW at, NEW edge, NEW h, Shape(t, M, at, edge),
         Even(t, M, h, NoHole), Calm(t, M, None, None),
         NEW n \in Nodes, n \notin M, NEW p \in Whole(M), NEW s \in Sides,
         t.child[s][p] = nil, NEW u, Grows(t, u, n, p, s)
  PROVE  Inserting(u, M \cup {n}, n)
<1> USE DEF Grows
<1> DEFINE N == M \cup {n}
           h2 == [m \in N \cup {nil} |-> IF m = n THEN 0 ELSE h[m]]
<1>1. /\ \A m \in M : h[m] \in Nat /\ Black(t, m) \in Nat
      /\ \A m \in Whole(M) : \A d \in Sides : t.child[d][m] \in M \cup {nil} /\ h[t.child[d][m]] \in Nat
                                              /\ t.child[d][m] \in Fields
      /\ \A m \in M : \A d \in Sides :
           h[m] = h[t.child[d][m]] + Black(t, m) + Missing(NoHole, m, d)
      /\ h[nil] = 0
  BY EvenFacts
<1>2. /\ n \in Fields /\ nil \in Fields /\ root \in Fields /\ n # nil /\ n # root /\ nil \notin M
      /\ None \notin M /\ None # n /\ None # nil /\ M \subseteq Fields /\ n \in N /\ root # nil
  BY ShapeFacts, RBTreeAssumption DEF Fields
<1>3. \A m \in N : \A d \in Sides : Missing(NoHole, m, d) = 0
  BY <1>2 DEF Missing, NoHole
<1>4. h2 \in [N \cup {nil} -> Nat] /\ h2[nil] = 0 /\ h2[n] = 0 /\ \A m \in M \cup {nil} : h2[m] = h[m]
  BY <1>1, <1>2
<1> HIDE DEF h2
<1>5. \A m \in M : \A d \in Sides : h2[u.child[d][m]] = h[t.child[d][m]]
  <2> SUFFICES ASSUME NEW m \in M, NEW d \in Sides
               PROVE  h2[u.child[d][m]] = h[t.child[d][m]]
    OBVIOUS
  <2>1. m \in Fields /\ m # n /\ m \in Whole(M)
    BY <1>2, ShapeFacts
  <2>2. CASE m = p /\ d = s
    BY <1>1, <1>4, <2>1, <2>2
  <2>3. CASE ~(m = p /\ d = s)
    BY <1>1, <1>4, <2>1, <2>3
  <2> QED
    BY <2>2, <2>3
<1>6. Even(u, N, h2, NoHole)
  <2> SUFFICES ASSUME NEW m \in N, NEW d \in Sides
               PROVE  h2[m] = h2[u.child[d][m]] + Black(u, m) + Missing(NoHole, m, d)
    BY <1>4 DEF Even
  <2>1. CASE m = n
    <3>1. u.child[d][m] = nil /\ Black(u, m) = 0
      BY <1>2, <2>1 DEF Black
    <3> QED
      BY <1>3, <1>4, <2>1, <3>1
  <2>2. CASE m # n
    <3>1. m \in M /\ m \in Fields
      BY <1>2, <2>2
    <3>2. Black(u, m) = Black(t, m)
      BY <2>2, <3>1 DEF Black
    <3> QED
      BY <1>1, <1>3, <1>4, <1>5, <3>1, <3>2
  <2> QED
    BY <2>1, <2>2
<1>7. \A m \in Fields : \A d \in Sides : m # n => u.child[d][m] = t.child[d][m] \/ u.child[d][m] = n
  OBVIOUS
<1>8. Calm(u, N, n, None)
  <2>1. ~u.red[nil] /\ ~u.red[root]
    BY <1>2 DEF Calm
  <2>2. ASSUME NEW m \in N, NEW d \in Sides, u.red[m], u.red[u.child[d][m]]
        PROVE  u.child[d][m] = n
    <3>1. CASE m = n
      BY <1>2, <2>1, <2>2, <3>1
    <3>2. CASE m # n
      <4>0. m \in M /\ m \in Whole(M)
        BY <3>2, ShapeFacts
      <4>1. CASE u.child[d][m] = t.child[d][m] /\ u.child[d][m] # n
        <5>1. t.red[m] /\ t.red[t.child[d][m]] /\ t.child[d][m] \in M \cup {nil}
          BY <1>1, <1>2, <2>2, <4>0, <4>1
        <5> QED
          BY <1>2, <4>0, <5>1 DEF Calm
      <4> QED
        BY <1>2, <1>7, <3>2, <4>0, <4>1
    <3> QED
      BY <3>1, <3>2
  <2>3. ASSUME u.red[u.child["left"][root]]
        PROVE  u.child["left"][root] = n
    <3>1. "left" \in Sides /\ root \in Whole(M)
      BY DEF Sides, Whole
    <3>2. CASE u.child["left"][root] = t.child["left"][root] /\ u.child["left"][root] # n
      <4>1. t.red[t.child["left"][root]] /\ t.child["left"][root] \in M \cup {nil}
        BY <1>1, <1>2, <2>3, <3>1, <3>2
      <4> QED
        BY <1>2, <4>1 DEF Calm
    <3> QED
      BY <1>2, <1>7, <3>1, <3>2
  <2> QED
    BY <2>1, <2>2, <2>3 DEF Calm
<1> QED
  BY <1>2, <1>6, <1>8 DEF Inserting

(* Recolouring the parent, its sibling and the grandparent moves the red pair *)
(* up.                                                                        *)
Recolours(t, u, g, p, c) ==
  /\ u.child = t.child
  /\ \A m \in Fields : u.red[m] = IF m = g THEN TRUE ELSE IF m = p \/ m = c THEN FALSE ELSE t.red[m]

(* RB_INSERT_SUB with a red uncle: the black node of the grandparent goes to  *)
(* its two children, and the one red node that can be wrong is the            *)
(* grandparent.                                                               *)
LEMMA RecolourBalance ==
  ASSUME NEW t, NEW M, NEW at, NEW edge, Shape(t, M, at, edge),
         NEW y, Inserting(t, M, y), NEW p \in M, t.parent[y] = p, t.red[p],
         NEW g \in M, g # p, ~t.red[g], NEW s \in Sides, t.child[s][g] = p,
         NEW c, t.child[Other(s)][g] = c, c # p, c # g, c # y, c \in M \cup {nil}, t.red[c],
         NEW u, Recolours(t, u, g, p, c)
  PROVE  Inserting(u, M, g)
<1>r. /\ u.child = t.child
      /\ \A m \in Fields : u.red[m] = IF m = g THEN TRUE ELSE IF m = p \/ m = c THEN FALSE ELSE t.red[m]
  BY DEF Recolours
<1> USE <1>r
<1>1. PICK h : Even(t, M, h, NoHole)
  BY DEF Inserting
<1>a. y \in M /\ t.red[y] /\ Calm(t, M, y, None)
  BY DEF Inserting
<1>2. /\ p \in M /\ g \in M /\ ~t.red[g] /\ g # p
      /\ s \in Sides /\ t.child[s][g] = p /\ c # p /\ c # g /\ c # y /\ c \in M \cup {nil}
  OBVIOUS
<1>3. c \in M
  BY <1>2 DEF Calm, Inserting
<1>4. /\ nil \notin M /\ M \subseteq Whole(M) /\ Whole(M) \subseteq Fields /\ nil \in Fields
      /\ root \in Fields /\ root \notin M /\ None \notin M /\ None # nil /\ root \in Whole(M)
  BY ShapeFacts, RBTreeAssumption DEF Fields
<1>5. /\ \A m \in M : h[m] \in Nat /\ Black(t, m) \in Nat
      /\ \A m \in Whole(M) : \A d \in Sides : t.child[d][m] \in M \cup {nil} /\ h[t.child[d][m]] \in Nat
                                              /\ t.child[d][m] \in Fields
      /\ \A m \in M : \A d \in Sides :
           h[m] = h[t.child[d][m]] + Black(t, m) + Missing(NoHole, m, d)
      /\ h[nil] = 0
  BY <1>1, EvenFacts
<1>6. \A m \in M : \A d \in Sides : Missing(NoHole, m, d) = 0
  BY <1>4 DEF Missing, NoHole
<1>7. t.parent[p] = g /\ t.parent[c] = g
  <2> DEFINE o == Other(s)
  <2>1. o \in Sides /\ c = t.child[o][g]
    BY <1>2, SideFacts
  <2> HIDE DEF o
  <2>2. c # nil /\ p # nil /\ g \in Whole(M)
    BY <1>2, <1>3, <1>4
  <2>3. t.parent[c] = g
    BY <2>1, <2>2, ChildFacts
  <2>4. t.parent[p] = g
    BY <1>2, <2>2, ChildFacts
  <2> QED
    BY <2>3, <2>4
<1>8. \A m \in Whole(M) : \A d \in Sides :
        /\ m # g => t.child[d][m] # p /\ t.child[d][m] # c
        /\ m = g => t.child[d][m] = p \/ t.child[d][m] = c
  <2> SUFFICES ASSUME NEW m \in Whole(M), NEW d \in Sides
               PROVE  /\ m # g => t.child[d][m] # p /\ t.child[d][m] # c
                      /\ m = g => t.child[d][m] = p \/ t.child[d][m] = c
    OBVIOUS
  <2>1. t.child[d][m] # nil => t.parent[t.child[d][m]] = m
    BY ChildFacts
  <2>2. d = s \/ d = Other(s)
    BY <1>2, SideFacts
  <2> QED
    BY <1>2, <1>3, <1>4, <1>7, <2>1, <2>2
<1> DEFINE h2 == [m \in M \cup {nil} |-> IF m = p \/ m = c THEN h[m] + 1 ELSE h[m]]
<1>9. /\ h2 \in [M \cup {nil} -> Nat] /\ h2[nil] = 0 /\ h2[p] = h[p] + 1 /\ h2[c] = h[c] + 1
      /\ \A m \in M \cup {nil} : m # p /\ m # c => h2[m] = h[m]
  BY <1>2, <1>3, <1>4, <1>5
<1> HIDE DEF h2
<1>10. /\ Black(t, p) = 0 /\ Black(t, c) = 0 /\ Black(t, g) = 1
       /\ Black(u, p) = 1 /\ Black(u, c) = 1 /\ Black(u, g) = 0
       /\ \A m \in M : m # p /\ m # c /\ m # g => Black(u, m) = Black(t, m)
  BY <1>2, <1>3, <1>4 DEF Black
<1>11. Even(u, M, h2, NoHole)
  <2> SUFFICES ASSUME NEW m \in M, NEW d \in Sides
               PROVE  h2[m] = h2[t.child[d][m]] + Black(u, m) + Missing(NoHole, m, d)
    BY <1>9 DEF Even
  <2> DEFINE e == t.child[d][m]
  <2>1. h[m] = h[e] + Black(t, m) /\ h[m] \in Nat /\ h[e] \in Nat /\ Black(t, m) \in Nat
        /\ Missing(NoHole, m, d) = 0 /\ e \in M \cup {nil} /\ m \in Whole(M)
    BY <1>4, <1>5, <1>6
  <2>2. CASE m = g
    <3>1. h2[e] = h[e] + 1
      BY <1>8, <1>9, <2>1, <2>2
    <3>2. h2[m] = h[m] /\ Black(u, m) = 0 /\ Black(t, m) = 1
      BY <1>2, <1>9, <1>10, <2>2
    <3> QED
      BY <2>1, <3>1, <3>2
  <2>3. CASE m # g
    <3>1. h2[e] = h[e]
      BY <1>8, <1>9, <2>1, <2>3
    <3>2. h2[m] + Black(t, m) = h[m] + Black(u, m) /\ h2[m] \in Nat /\ Black(u, m) \in Nat
      BY <1>9, <1>10, <2>1, <2>3
    <3> QED
      BY <2>1, <3>1, <3>2
  <2> QED
    BY <2>2, <2>3
<1>12. Calm(u, M, g, None)
  <2>1. ~u.red[nil] /\ ~u.red[root]
    BY <1>a, <1>2, <1>4 DEF Calm
  <2>2. ASSUME NEW m \in M, NEW d \in Sides, u.red[m], u.red[t.child[d][m]]
        PROVE  t.child[d][m] = g
    <3>0. m \in Whole(M) /\ m \in Fields /\ t.child[d][m] \in Fields
      BY <1>4, <1>5
    <3>1. m # p /\ m # c
      BY <1>2, <2>2, <3>0
    <3>2. m # g
      <4>1. CASE m = g
        <5>1. t.child[d][m] = p \/ t.child[d][m] = c
          BY <1>8, <3>0, <4>1
        <5> QED
          BY <1>2, <2>2, <3>0, <5>1
      <4> QED
        BY <4>1
    <3>3. t.red[m]
      BY <2>2, <3>0, <3>1, <3>2
    <3>4. CASE t.child[d][m] # g
      <4>1. t.red[t.child[d][m]]
        BY <1>2, <2>2, <3>0, <3>4
      <4>2. t.child[d][m] = y
        BY <1>a, <1>4, <3>3, <4>1 DEF Calm
      <4>3. t.parent[y] = m
        BY <1>a, <1>4, <3>0, <4>2, ChildFacts
      <4> QED
        BY <3>1, <4>3
    <3> QED
      BY <3>4
  <2>3. ASSUME u.red[t.child["left"][root]]
        PROVE  t.child["left"][root] = g
    <3>1. "left" \in Sides /\ t.child["left"][root] \in Fields
      BY <1>4, <1>5 DEF Sides
    <3>2. CASE t.child["left"][root] # g
      <4>1. t.red[t.child["left"][root]]
        BY <1>2, <2>3, <3>1, <3>2
      <4>2. t.child["left"][root] \in M \cup {nil}
        BY <1>4, <1>5, <3>1
      <4>3. t.child["left"][root] = y
        BY <1>a, <1>4, <4>1, <4>2 DEF Calm
      <4>4. t.parent[y] = root
        BY <1>a, <1>4, <3>1, <4>3, ChildFacts
      <4> QED
        BY <1>2, <1>4, <4>4
    <3> QED
      BY <3>2
  <2> QED
    BY <2>1, <2>2, <2>3 DEF Calm
<1>13. u.red[g]
  BY <1>2, <1>4
<1> QED
  BY <1>2, <1>11, <1>12, <1>13 DEF Inserting

(* At the end of an insertion the top becomes black. *)
LEMMA TopBalance ==
  ASSUME NEW t, NEW M, NEW at, NEW edge, Shape(t, M, at, edge),
         NEW y, Inserting(t, M, y), ~t.red[t.parent[y]],
         NEW u, u.child = t.child,
         \A m \in Fields : u.red[m] = IF m = t.child["left"][root] THEN FALSE ELSE t.red[m]
  PROVE  Calm(u, M, None, None) /\ \E h : Even(u, M, h, NoHole)
<1>1. PICK h : Even(t, M, h, NoHole)
  BY DEF Inserting
<1>a. y \in M /\ t.red[y] /\ Calm(t, M, y, None)
  BY DEF Inserting
<1> DEFINE c == t.child["left"][root]
<1>4. /\ nil \notin M /\ M \subseteq Whole(M) /\ Whole(M) \subseteq Fields /\ nil \in Fields
      /\ root \in Fields /\ root \notin M /\ None \notin M /\ None # nil /\ root \in Whole(M)
      /\ "left" \in Sides
  BY ShapeFacts, RBTreeAssumption DEF Fields, Sides
<1>5. /\ \A m \in M : h[m] \in Nat /\ Black(t, m) \in Nat
      /\ \A m \in Whole(M) : \A d \in Sides : t.child[d][m] \in M \cup {nil} /\ h[t.child[d][m]] \in Nat
                                              /\ t.child[d][m] \in Fields
      /\ \A m \in M : \A d \in Sides :
           h[m] = h[t.child[d][m]] + Black(t, m) + Missing(NoHole, m, d)
      /\ h[nil] = 0
  BY <1>1, EvenFacts
<1>6. \A m \in M : \A d \in Sides : Missing(NoHole, m, d) = 0
  BY <1>4 DEF Missing, NoHole
<1>7. c \in M \cup {nil} /\ c \in Fields
  BY <1>4, <1>5
<1>8. \A m \in M : \A d \in Sides : t.child[d][m] = c => c = nil
  <2> SUFFICES ASSUME NEW m \in M, NEW d \in Sides, t.child[d][m] = c, c # nil
               PROVE  FALSE
    OBVIOUS
  <2>1. t.parent[c] = m
    BY <1>4, ChildFacts
  <2>2. t.parent[c] = root
    BY <1>4, ChildFacts
  <2> QED
    BY <1>4, <2>1, <2>2
<1> DEFINE h2 == [m \in M \cup {nil} |-> IF m = c THEN h[m] + (1 - Black(t, m)) ELSE h[m]]
<1>b. Black(t, c) \in {0, 1} /\ Black(t, nil) = 1
  BY <1>a DEF Black, Calm
<1>9. /\ h2 \in [M \cup {nil} -> Nat] /\ h2[nil] = 0 /\ h2[c] = h[c] + (1 - Black(t, c))
      /\ \A m \in M \cup {nil} : m # c => h2[m] = h[m]
  <2>1. \A m \in M \cup {nil} : h[m] \in Nat
    BY <1>5
  <2> QED
    BY <1>b, <1>4, <1>5, <1>7, <2>1
<1>10. Black(u, c) = 1 /\ \A m \in M : m # c => Black(u, m) = Black(t, m)
  BY <1>4, <1>7 DEF Black
<1> HIDE DEF h2, c
<1>11. Even(u, M, h2, NoHole)
  <2> SUFFICES ASSUME NEW m \in M, NEW d \in Sides
               PROVE  h2[m] = h2[t.child[d][m]] + Black(u, m) + Missing(NoHole, m, d)
    BY <1>9 DEF Even
  <2> DEFINE e == t.child[d][m]
  <2>1. h[m] = h[e] + Black(t, m) /\ h[m] \in Nat /\ h[e] \in Nat /\ Black(t, m) \in Nat
        /\ Missing(NoHole, m, d) = 0 /\ e \in M \cup {nil} /\ m \in Whole(M)
    BY <1>4, <1>5, <1>6
  <2>2. h2[e] = h[e]
    <3>1. CASE e = c
      BY <1>5, <1>8, <1>9, <3>1
    <3>2. CASE e # c
      BY <1>9, <2>1, <3>2
    <3> QED
      BY <3>1, <3>2
  <2>3. CASE m = c
    <3>1. h2[m] = h[m] + (1 - Black(t, m)) /\ Black(u, m) = 1
      BY <1>9, <1>10, <2>3
    <3> QED
      BY <2>1, <2>2, <3>1
  <2>4. CASE m # c
    <3>1. h2[m] = h[m] /\ Black(u, m) = Black(t, m)
      BY <1>9, <1>10, <2>4
    <3> QED
      BY <2>1, <2>2, <3>1
  <2> QED
    BY <2>3, <2>4
<1>12. Calm(u, M, None, None)
  <2>1. ~u.red[nil] /\ ~u.red[root]
    BY <1>a, <1>4 DEF Calm
  <2>2. ASSUME NEW m \in M, NEW d \in Sides, u.red[m], u.red[t.child[d][m]]
        PROVE  FALSE
    <3>0. m \in Whole(M) /\ m \in Fields /\ t.child[d][m] \in Fields /\ t.child[d][m] \in M \cup {nil}
      BY <1>4, <1>5
    <3>1. t.red[m] /\ t.red[t.child[d][m]]
      BY <2>2, <3>0
    <3>2. t.child[d][m] = y
      BY <1>a, <1>4, <3>0, <3>1 DEF Calm
    <3>3. t.parent[y] = m
      BY <1>a, <1>4, <3>0, <3>2, ChildFacts
    <3> QED
      BY <3>1, <3>3
  <2>3. ~u.red[t.child["left"][root]]
    BY <1>7 DEF c
  <2> QED
    BY <2>1, <2>2, <2>3 DEF Calm
<1> QED
  BY <1>11, <1>12

-----------------------------------------------------------------------------
(* n in black.                                                                *)
BlackAt(t, n) == Colour(t, n, FALSE)

(* u is t with n in black.                                                    *)
Blackens(t, u, n) ==
  /\ u \in Tree /\ u.child = t.child /\ u.parent = t.parent
  /\ \A m \in Fields : u.red[m] = IF m = n THEN FALSE ELSE t.red[m]

(* A node in black changes no other field.                                    *)
LEMMA Blackened ==
  ASSUME NEW t \in Tree, NEW n \in Fields, NEW u, u = BlackAt(t, n)
  PROVE  Blackens(t, u, n)
<1>1. u = [t EXCEPT !.red[n] = FALSE]
  BY DEF BlackAt, Colour
<1>2. /\ u = [t EXCEPT !.red = [t.red EXCEPT ![n] = FALSE]]
      /\ t.red \in [Fields -> BOOLEAN]
  BY <1>1 DEF Tree
<1>3. u.child = t.child /\ u.parent = t.parent /\ u.red = [t.red EXCEPT ![n] = FALSE]
  BY <1>2 DEF Tree
<1>4. u.red \in [Fields -> BOOLEAN]
  BY <1>2, <1>3
<1>5. \A m \in Fields : u.red[m] = IF m = n THEN FALSE ELSE t.red[m]
  BY <1>2, <1>3
<1> QED
  BY <1>2, <1>3, <1>4, <1>5 DEF Tree, Blackens

(* n in red.                                                                  *)
RedAt(t, n) == Colour(t, n, TRUE)

(* u is t with n in red.                                                      *)
Reddens(t, u, n) ==
  /\ u \in Tree /\ u.child = t.child /\ u.parent = t.parent
  /\ \A m \in Fields : u.red[m] = IF m = n THEN TRUE ELSE t.red[m]

(* A node in red changes no other field.                                      *)
LEMMA Reddened ==
  ASSUME NEW t \in Tree, NEW n \in Fields, NEW u, u = RedAt(t, n)
  PROVE  Reddens(t, u, n)
<1>1. u = [t EXCEPT !.red[n] = TRUE]
  BY DEF RedAt, Colour
<1>2. /\ u = [t EXCEPT !.red = [t.red EXCEPT ![n] = TRUE]]
      /\ t.red \in [Fields -> BOOLEAN]
  BY <1>1 DEF Tree
<1>3. u.child = t.child /\ u.parent = t.parent /\ u.red = [t.red EXCEPT ![n] = TRUE]
  BY <1>2 DEF Tree
<1>4. u.red \in [Fields -> BOOLEAN]
  BY <1>2, <1>3
<1>5. \A m \in Fields : u.red[m] = IF m = n THEN TRUE ELSE t.red[m]
  BY <1>2, <1>3
<1> QED
  BY <1>2, <1>3, <1>4, <1>5 DEF Tree, Reddens

(* v is t with b black and g red. *)
Paints(t, v, b, g) ==
  /\ v \in Tree /\ v.child = t.child /\ v.parent = t.parent
  /\ \A m \in Fields : v.red[m] = IF m = g THEN TRUE ELSE IF m = b THEN FALSE ELSE t.red[m]

(* The two assignments of colour before a rotation.                           *)
LEMMA Painted ==
  ASSUME NEW t \in Tree, NEW b \in Fields, NEW g \in Fields, NEW v, v = RedAt(BlackAt(t, b), g)
  PROVE  Paints(t, v, b, g)
<1>1. PICK w : w = BlackAt(t, b)
  OBVIOUS
<1>2. Blackens(t, w, b)
  BY <1>1, Blackened
<1>3. w \in Tree /\ v = RedAt(w, g)
  BY <1>1, <1>2 DEF Blackens
<1>4. Reddens(w, v, g)
  BY <1>3, Reddened
<1> QED
  BY <1>2, <1>4 DEF Blackens, Reddens, Paints

(* A rotation of a recoloured tree turns the tree and keeps the new colours.  *)
Repaints(t, v) == v \in Tree /\ v.child = t.child /\ v.parent = t.parent

(* A rotation after a change of colours is a rotation of the tree with those  *)
(* colours.                                                                   *)
LEMMA PaintedTurn ==
  ASSUME NEW t, NEW M, NEW at, NEW edge, Shape(t, M, at, edge),
         NEW s \in Sides, NEW a \in M, NEW b, b = t.child[Other(s)][a], b # nil,
         NEW v, Repaints(t, v), NEW u, u = Rotate(v, a, s)
  PROVE  /\ u \in Tree /\ u.red = v.red /\ Turns(t, u, a, b, s)
         /\ Shape(u, M, at, TurnedEdge(M, at, edge, a, b, s))
<1>r. v \in Tree /\ v.child = t.child /\ v.parent = t.parent
  BY DEF Repaints
<1> USE <1>r
<1>1. Shape(v, M, at, edge)
  BY ShapeSame
<1>2. b = v.child[Other(s)][a]
  OBVIOUS
<1>3. /\ u \in Tree /\ u.red = v.red
      /\ Shape(u, M, at, TurnedEdge(M, at, edge, a, b, s))
      /\ \A d \in Sides : \A m \in Fields : u.child[d][m] = TurnedChild(v, a, b, s, d, m)
      /\ \A m \in Fields : u.parent[m] = TurnedParent(v, a, b, s, m)
  BY <1>1, <1>2, RotateShape
<1>4. \A d \in Sides : \A m \in Fields : TurnedChild(v, a, b, s, d, m) = TurnedChild(t, a, b, s, d, m)
  BY DEF TurnedChild
<1>5. \A m \in Fields : TurnedParent(v, a, b, s, m) = TurnedParent(t, a, b, s, m)
  BY DEF TurnedParent
<1> QED
  BY <1>3, <1>4, <1>5 DEF Turns

(* A calm tree stays calm whatever exceptions are allowed. *)
LEMMA CalmAll ==
  ASSUME NEW t, NEW M, NEW at, NEW edge, Shape(t, M, at, edge), Calm(t, M, None, None),
         NEW low, NEW high
  PROVE  Calm(t, M, low, high)
<1>1. None \notin M /\ None # nil /\ root \in Whole(M) /\ M \subseteq Whole(M) /\ "left" \in Sides
  BY ShapeFacts, RBTreeAssumption DEF Fields, Sides
<1>2. \A m \in Whole(M) : \A d \in Sides : t.child[d][m] # None
  BY <1>1, ChildFacts
<1> QED
  BY <1>1, <1>2 DEF Calm

(* The rotation that ends an insertion's loop, with the lower red node on the *)
(* outer side.                                                                *)
LEMMA TwistBalance ==
  ASSUME NEW t, NEW M, NEW at, NEW edge, Shape(t, M, at, edge),
         NEW y, Inserting(t, M, y), NEW b \in M, t.red[b], b # y,
         NEW g \in M, g # b, g # y, ~t.red[g],
         NEW s \in Sides, t.child[s][g] = b, t.child[s][b] = y,
         ~t.red[t.child[Other(s)][g]], ~t.red[t.child[Other(s)][b]],
         NEW v, Paints(t, v, b, g), NEW u, u = Rotate(v, g, Other(s))
  PROVE  u \in Tree /\ Inserting(u, M, y) /\ \E e : Shape(u, M, at, e)
<1>p. /\ v \in Tree /\ v.child = t.child /\ v.parent = t.parent
      /\ \A m \in Fields : v.red[m] = IF m = g THEN TRUE ELSE IF m = b THEN FALSE ELSE t.red[m]
  BY DEF Paints
<1> USE <1>p
<1> DEFINE o == Other(s)
<1>1. o \in Sides /\ Other(o) = s
  BY SideFacts
<1>2. /\ nil \notin M /\ M \subseteq Whole(M) /\ Whole(M) \subseteq Fields /\ t \in Tree
      /\ g \in Fields /\ b \in Fields /\ y \in M /\ y \in Fields /\ None \notin M
  BY ShapeFacts, RBTreeAssumption DEF Inserting, Fields
<1>5. u = Rotate(v, g, o) /\ b = t.child[Other(o)][g] /\ b # nil
      /\ ~t.red[t.child[o][g]] /\ ~t.red[t.child[o][b]] /\ y = t.child[Other(o)][b]
  BY <1>1, <1>2
<1> HIDE DEF o
<1>6. /\ u \in Tree /\ u.red = v.red /\ Turns(t, u, g, b, o)
      /\ Shape(u, M, at, TurnedEdge(M, at, edge, g, b, o))
  BY <1>1, <1>5, PaintedTurn DEF Repaints
<1>7. Swaps(t, u, g, b)
  <2>1. t.red[g] = FALSE
    BY <1>2 DEF Tree
  <2> QED
    BY <1>6, <2>1 DEF Swaps
<1>8. Calm(t, M, y, None) /\ t.red[y]
  BY DEF Inserting
<1>9. Calm(u, M, None, None)
  BY <1>1, <1>5, <1>6, <1>7, <1>8, TurnCalm
<1>10. PICK h : Even(t, M, h, NoHole)
  BY DEF Inserting
<1>11. Even(u, M, Swapped(h, g, b), NoHole)
  <2>1. NoHole # <<g, Other(o)>> /\ \A d \in Sides : NoHole # <<b, d>>
    BY <1>2 DEF NoHole
  <2> QED
    BY <1>1, <1>6, <1>7, <1>10, <2>1, TurnEven
<1>12. u.red[y]
  BY <1>2, <1>7, <1>8 DEF Swaps
<1>13. Calm(u, M, y, None)
  BY <1>6, <1>9, CalmAll
<1> QED
  BY <1>2, <1>6, <1>11, <1>12, <1>13 DEF Inserting

(* The rotation before it, which brings the lower red node to the outer side. *)
LEMMA InnerBalance ==
  ASSUME NEW t, NEW M, NEW at, NEW edge, Shape(t, M, at, edge),
         NEW y, Inserting(t, M, y), NEW p \in M, t.red[p], p # y,
         NEW g \in M, g # p, g # y, t.parent[p] = g,
         NEW s \in Sides, t.child[s][g] = p, t.child[Other(s)][p] = y,
         t.child[Other(s)][g] # p,
         NEW u, u = Rotate(t, p, s)
  PROVE  /\ u \in Tree /\ u.red = t.red /\ Inserting(u, M, p) /\ \E e : Shape(u, M, at, e)
         /\ u.parent[p] = y /\ u.parent[y] = g
         /\ u.child[s][g] = y /\ u.child[s][y] = p
         /\ u.child[Other(s)][g] = t.child[Other(s)][g]
         /\ ~u.red[u.child[Other(s)][y]]
<1>1. /\ nil \notin M /\ M \subseteq Whole(M) /\ Whole(M) \subseteq Fields /\ t \in Tree
      /\ g \in Fields /\ p \in Fields /\ y \in M /\ y \in Fields /\ y # nil /\ None \notin M
      /\ Other(s) \in Sides
  BY ShapeFacts, SideFacts, RBTreeAssumption DEF Inserting, Fields
<1>2. y = t.child[Other(s)][p] /\ t.child = t.child /\ t.parent = t.parent
  OBVIOUS
<1>3. /\ u \in Tree /\ u.red = t.red
      /\ Shape(u, M, at, TurnedEdge(M, at, edge, p, y, s))
      /\ Turns(t, u, p, y, s)
  BY <1>1, <1>2, PaintedTurn DEF Repaints
<1>4. Calm(t, M, y, None) /\ t.red[y]
  BY DEF Inserting
<1>5. /\ Calm(u, M, p, None)
      /\ ~t.red[t.child[s][y]] /\ ~t.red[t.child[Other(s)][y]] /\ ~t.red[t.child[s][p]]
  BY <1>1, <1>2, <1>3, <1>4, InnerCalm
<1>6. PICK h : Even(t, M, h, NoHole)
  BY DEF Inserting
<1>7. Even(u, M, Swapped(h, p, y), NoHole)
  <2>1. NoHole # <<p, Other(s)>> /\ \A d \in Sides : NoHole # <<y, d>>
    BY <1>1 DEF NoHole
  <2>2. Swaps(t, u, p, y)
    <3>1. t.red[p] = TRUE /\ t.red[y] = TRUE
      BY <1>1, <1>4 DEF Tree
    <3> QED
      BY <1>3, <3>1 DEF Swaps
  <2> QED
    BY <1>1, <1>3, <1>4, <1>6, <2>1, <2>2, TurnEven
<1>8. /\ u.child[s][y] = p /\ u.child[Other(s)][y] = t.child[Other(s)][y]
      /\ u.child[s][g] = y /\ u.child[Other(s)][g] = t.child[Other(s)][g]
  <2>1. /\ u.child[s][y] = p /\ u.child[Other(s)][y] = t.child[Other(s)][y]
        /\ \A m \in Whole(M) : \A d \in Sides : m # p /\ m # y =>
              /\ t.child[d][m] = p => u.child[d][m] = y
              /\ t.child[d][m] # p => u.child[d][m] = t.child[d][m]
    BY <1>1, <1>2, <1>3, TurnedFacts
  <2> QED
    BY <1>1, <2>1
<1>9. u.parent[p] = y /\ u.parent[y] = g
  BY <1>1, <1>3 DEF Turns, TurnedParent
<1>10. Inserting(u, M, p)
  BY <1>3, <1>5, <1>7 DEF Inserting
<1> QED
  BY <1>3, <1>5, <1>8, <1>9, <1>10

-----------------------------------------------------------------------------
(* Between calls: even, and calm. *)
Balanced(t, M) == Calm(t, M, None, None) /\ \E h : Even(t, M, h, NoHole)

(* The places that at gives are those of t's nodes in order.                  *)
Laid(t, M, at) == \E edge : Shape(t, M, at, edge)

(* rb_insert leaves a tree with its node at the place the walk found, which   *)
(* the fix-up loop has still to look at.                                      *)
LEMMA InsertKeeps ==
  ASSUME NEW at, Laid(tree, members, at), Balanced(tree, members), NEW n \in Nodes, rb_insert(n),
         NEW p, p = LeafPlace(tree, n), NEW s, s = Below(p, n)
  PROVE  Laid(tree', members', GrownAt(members, at, n, p, s)) /\ Inserting(tree', members', x')
<1>1. \E edge : Shape(tree, members, at, edge)
  BY DEF Laid
<1>2. PICK edge : Shape(tree, members, at, edge)
  BY <1>1
<1>3. PICK h : Even(tree, members, h, NoHole)
  BY DEF Balanced
<1>6. p \in Whole(members) /\ s \in Sides /\ tree.child[s][p] = nil
  BY <1>2, LeafPlaceFacts
<1>7. p = root => s = "left"
  BY DEF Below
<1>8. PICK u : u = [child |-> [d \in Sides |->
                      [tree.child[d] EXCEPT ![n] = nil, ![p] = IF d = s THEN n ELSE @]],
                    parent |-> [tree.parent EXCEPT ![n] = p],
                    red |-> [tree.red EXCEPT ![n] = TRUE]]
  OBVIOUS
<1>9. n \notin members /\ tree' = u /\ members' = members \cup {n} /\ x' = n
  BY <1>8 DEF rb_insert, LeafPlace
<1>10. /\ tree \in Tree /\ n \in Fields /\ p \in Fields /\ n # p /\ nil \in Fields
  BY <1>2, <1>6, <1>9, ShapeFacts, RBTreeAssumption DEF Fields, Whole
<1>11. /\ u \in Tree
       /\ \A d \in Sides : \A m \in Fields : u.child[d][m] =
            IF m = n THEN nil ELSE IF m = p /\ d = s THEN n ELSE tree.child[d][m]
       /\ \A m \in Fields : u.parent[m] = IF m = n THEN p ELSE tree.parent[m]
       /\ \A m \in Fields : u.red[m] = IF m = n THEN TRUE ELSE tree.red[m]
  <2>1. /\ tree.child \in [Sides -> [Fields -> Fields]] /\ tree.parent \in [Fields -> Fields]
        /\ tree.red \in [Fields -> BOOLEAN]
    BY <1>10 DEF Tree
  <2>2. /\ u.child = [d \in Sides |->
                      [tree.child[d] EXCEPT ![n] = nil, ![p] = IF d = s THEN n ELSE @]]
        /\ u.parent = [tree.parent EXCEPT ![n] = p]
        /\ u.red = [tree.red EXCEPT ![n] = TRUE]
    BY <1>8
  <2>3. \A d \in Sides : /\ u.child[d] \in [Fields -> Fields]
                         /\ \A m \in Fields : u.child[d][m] =
                              IF m = n THEN nil ELSE IF m = p /\ d = s THEN n ELSE tree.child[d][m]
    <3> TAKE d \in Sides
    <3>1. u.child[d] = [tree.child[d] EXCEPT ![n] = nil, ![p] = IF d = s THEN n ELSE @]
      BY <2>2
    <3>2. tree.child[d] \in [Fields -> Fields]
      BY <2>1
    <3> QED
      BY <1>10, <3>1, <3>2
  <2>4. u.parent \in [Fields -> Fields] /\ \A m \in Fields : u.parent[m] = IF m = n THEN p ELSE tree.parent[m]
    BY <1>10, <2>1, <2>2
  <2>5. u.red \in [Fields -> BOOLEAN] /\ \A m \in Fields : u.red[m] = IF m = n THEN TRUE ELSE tree.red[m]
    <3>1. u.red = [m \in Fields |-> IF m = n THEN TRUE ELSE tree.red[m]]
      BY <1>10, <2>1, <2>2
    <3>2. \A m \in Fields : tree.red[m] \in BOOLEAN
      BY <2>1
    <3> QED
      BY <3>1, <3>2
  <2>6. u.child \in [Sides -> [Fields -> Fields]]
    BY <2>2, <2>3
  <2>7. u = [child |-> u.child, parent |-> u.parent, red |-> u.red]
    BY <1>8, <2>2
  <2>8. u \in Tree
    BY <2>4, <2>5, <2>6, <2>7 DEF Tree
  <2> QED
    BY <2>3, <2>4, <2>5, <2>8
<1>12. Shape(u, members \cup {n}, GrownAt(members, at, n, p, s), GrownEdge(members, at, edge, n, p, s))
  BY <1>2, <1>6, <1>7, <1>9, <1>11, LeafShape
<1>13. Inserting(u, members \cup {n}, n)
  <2>1. Grows(tree, u, n, p, s)
    BY <1>11 DEF Grows
  <2>2. Calm(tree, members, None, None)
    BY DEF Balanced
  <2> QED
    BY <1>2, <1>3, <1>6, <1>9, <2>1, <2>2, LeafBalance
<1> QED
  BY <1>9, <1>12, <1>13 DEF Laid

(* A round of RB_INSERT_SUB with a red uncle moves the one wrong node two     *)
(* levels up.                                                                 *)
LEMMA InsertRecolourKeeps ==
  ASSUME NEW at, Laid(tree, members, at), Inserting(tree, members, x), InsertRecolour
  PROVE  Laid(tree', members', at) /\ Inserting(tree', members', x')
<1>1. \E edge : Shape(tree, members, at, edge)
  BY DEF Laid
<1>2. PICK edge : Shape(tree, members, at, edge)
  BY <1>1
<1>3. PICK p : p = tree.parent[x]
  OBVIOUS
<1>4. PICK g : g = tree.parent[p]
  OBVIOUS
<1>5. PICK s : s = ParentSide
  OBVIOUS
<1>6. PICK c : c = tree.child[Other(s)][g]
  OBVIOUS
<1>7. PICK v : v = BlackAt(tree, p)
  OBVIOUS
<1>8. PICK w : w = BlackAt(v, c)
  OBVIOUS
<1>9. PICK u : u = RedAt(w, g)
  OBVIOUS
<1>10. tree.red[p] /\ tree.red[c] /\ tree' = u /\ x' = g /\ members' = members
  BY <1>3, <1>4, <1>5, <1>6, <1>7, <1>8, <1>9, Zenon DEF InsertRecolour, BlackAt, RedAt
<1>11. x \in members /\ Calm(tree, members, x, None)
  BY DEF Inserting
<1>12. s = SideAt(tree, g, p)
  BY <1>3, <1>4, <1>5, SMTT(30) DEF ParentSide, SideAt
<1>13. /\ p \in members /\ g \in members /\ ~tree.red[g] /\ p # x /\ g # p /\ g # x
       /\ s \in Sides /\ tree.child[s][g] = p /\ c # p /\ c # g /\ c # x /\ c \in members \cup {nil}
  BY <1>2, <1>3, <1>4, <1>6, <1>10, <1>11, <1>12, UncleFacts
<1>14. /\ tree \in Tree /\ p \in Fields /\ g \in Fields /\ c \in Fields
  BY <1>2, <1>13, ShapeFacts DEF Fields
<1>15. /\ v \in Tree /\ v.child = tree.child /\ v.parent = tree.parent
       /\ \A m \in Fields : v.red[m] = IF m = p THEN FALSE ELSE tree.red[m]
  <2>1. Blackens(tree, v, p)
    BY <1>7, <1>14, Blackened
  <2> QED
    BY <2>1 DEF Blackens
<1>16. /\ w \in Tree /\ w.child = tree.child /\ w.parent = tree.parent
       /\ \A m \in Fields : w.red[m] = IF m = c THEN FALSE ELSE v.red[m]
  <2>1. Blackens(v, w, c)
    BY <1>8, <1>14, <1>15, Blackened
  <2> QED
    BY <1>15, <2>1 DEF Blackens
<1>17. /\ u \in Tree /\ u.child = tree.child /\ u.parent = tree.parent
       /\ \A m \in Fields : u.red[m] = IF m = g THEN TRUE ELSE w.red[m]
  <2>1. Reddens(w, u, g)
    BY <1>9, <1>14, <1>16, Reddened
  <2> QED
    BY <1>16, <2>1 DEF Reddens
<1>18. \A m \in Fields : u.red[m] = IF m = g THEN TRUE ELSE IF m = p \/ m = c THEN FALSE ELSE tree.red[m]
  BY <1>15, <1>16, <1>17
<1>19. Shape(u, members, at, edge)
  BY <1>2, <1>17, ShapeSame
<1>20. Inserting(u, members, g)
  <2>1. tree.parent[x] = p /\ tree.child[Other(s)][g] = c
    BY <1>3, <1>6
  <2>2. Recolours(tree, u, g, p, c)
    BY <1>17, <1>18 DEF Recolours
  <2> QED
    BY <1>2, <1>10, <1>13, <2>1, <2>2, RecolourBalance
<1> QED
  BY <1>10, <1>19, <1>20 DEF Laid

(* A round of RB_INSERT_SUB with a black uncle, with one rotation or two,     *)
(* leaves no wrong node.                                                      *)
LEMMA InsertRotateKeeps ==
  ASSUME NEW at, Laid(tree, members, at), Inserting(tree, members, x), InsertRotate
  PROVE  Laid(tree', members', at) /\ Inserting(tree', members', x')
<1>1. \E edge : Shape(tree, members, at, edge)
  BY DEF Laid
<1>2. PICK edge : Shape(tree, members, at, edge)
  BY <1>1
<1>3. PICK p : p = tree.parent[x]
  OBVIOUS
<1>4. PICK g : g = tree.parent[p]
  OBVIOUS
<1>5. PICK s : s = ParentSide
  OBVIOUS
<1>6. PICK c : c = tree.child[Other(s)][g]
  OBVIOUS
<1>10. tree.red[p] /\ ~tree.red[c] /\ members' = members
  BY <1>3, <1>4, <1>5, <1>6, Zenon DEF InsertRotate
<1>11. x \in members /\ Calm(tree, members, x, None) /\ tree.red[x]
  BY SMTT(30) DEF Inserting
<1>12. s = SideAt(tree, g, p)
  BY <1>3, <1>4, <1>5 DEF ParentSide, SideAt
<1>13. /\ p \in members /\ g \in members /\ ~tree.red[g] /\ p # x /\ g # p /\ g # x
       /\ s \in Sides /\ tree.child[s][g] = p /\ c # p /\ c # g /\ c # x /\ c \in members \cup {nil}
  BY <1>2, <1>3, <1>4, <1>6, <1>10, <1>11, <1>12, UncleFacts
<1>14. /\ tree \in Tree /\ p \in Fields /\ g \in Fields /\ c \in Fields /\ x \in Fields
       /\ Other(s) \in Sides
  BY <1>2, <1>11, <1>13, ShapeFacts, SideFacts DEF Fields
<1>15. CASE x = tree.child[Other(s)][p]
  <2>1. PICK t : t = Rotate(tree, p, s)
    OBVIOUS
  <2>2. tree.parent[p] = g /\ tree.child[Other(s)][p] = x /\ tree.child[Other(s)][g] # p
    BY <1>4, <1>6, <1>13, <1>15
  <2>3. /\ t \in Tree /\ t.red = tree.red /\ Inserting(t, members, p) /\ \E e : Shape(t, members, at, e)
        /\ t.parent[p] = x /\ t.parent[x] = g
        /\ t.child[s][g] = x /\ t.child[s][x] = p
        /\ t.child[Other(s)][g] = tree.child[Other(s)][g]
        /\ ~t.red[t.child[Other(s)][x]]
    BY <1>2, <1>10, <1>13, <2>1, <2>2, InnerBalance
  <2>4. PICK e : Shape(t, members, at, e)
    BY <2>3
  <2>5. PICK v : v = RedAt(BlackAt(t, x), g)
    OBVIOUS
  <2>6. PICK u : u = Rotate(v, g, Other(s))
    OBVIOUS
  <2>7. tree' = u /\ x' = p
    BY <1>3, <1>4, <1>5, <1>15, <2>1, <2>3, <2>5, <2>6, Zenon DEF InsertRotate, RedAt, BlackAt
  <2>8. Paints(t, v, x, g)
    BY <1>14, <2>3, <2>5, Painted
  <2>9. t.red[x] /\ ~t.red[g] /\ ~t.red[t.child[Other(s)][g]]
    BY <1>6, <1>10, <1>11, <1>13, <2>3
  <2>10. u \in Tree /\ Inserting(u, members, p) /\ \E d : Shape(u, members, at, d)
    BY <1>11, <1>13, <2>3, <2>4, <2>6, <2>8, <2>9, TwistBalance
  <2> QED
    BY <1>10, <2>7, <2>10 DEF Laid
<1>16. CASE x # tree.child[Other(s)][p]
  <2>1. tree.child[s][p] = x
    <3>1. PICK d \in Sides : tree.child[d][p] = x
      BY <1>2, <1>3, <1>11, ParentFacts
    <3>2. d = s \/ d = Other(s)
      BY <1>13, SideFacts
    <3> QED
      BY <1>16, <3>1, <3>2
  <2>2. ~tree.red[tree.child[Other(s)][p]]
    <3>1. p # None
      BY <1>2, <1>13, ShapeFacts, RBTreeAssumption DEF Fields
    <3> QED
      BY <1>10, <1>11, <1>13, <1>14, <1>16, <3>1 DEF Calm
  <2>5. PICK v : v = RedAt(BlackAt(tree, p), g)
    OBVIOUS
  <2>6. PICK u : u = Rotate(v, g, Other(s))
    OBVIOUS
  <2>7. tree' = u /\ x' = x
    BY <1>3, <1>4, <1>5, <1>16, <2>5, <2>6 DEF InsertRotate, RedAt, BlackAt
  <2>8. Paints(tree, v, p, g)
    BY <1>14, <2>5, Painted
  <2>9. ~tree.red[tree.child[Other(s)][g]]
    BY <1>6, <1>10
  <2>10. u \in Tree /\ Inserting(u, members, x) /\ \E d : Shape(u, members, at, d)
    BY <1>2, <1>10, <1>13, <2>1, <2>2, <2>6, <2>8, <2>9, TwistBalance
  <2> QED
    BY <1>10, <2>7, <2>10 DEF Laid
<1> QED
  BY <1>15, <1>16

(* What a call returns with is what it made of the tree. *)
LEMMA ReturnKeeps ==
  ASSUME NEW t \in Tree, NEW M, NEW at, Laid(t, M, at), Balanced(t, M), Return(t), members' = M
  PROVE  Laid(tree', members', at) /\ Balanced(tree', members') /\ pc' = "idle"
<1>1. \E edge : Shape(t, M, at, edge)
  BY DEF Laid
<1>2. PICK edge : Shape(t, M, at, edge)
  BY <1>1
<1>3. PICK h : Even(t, M, h, NoHole)
  BY DEF Balanced
<1>4. PICK u : u = [t EXCEPT !.parent[nil] = nil]
  OBVIOUS
<1>5. tree' = u /\ members' = M /\ pc' = "idle"
  BY <1>4 DEF Return
<1>6. u = [t EXCEPT !.parent = [t.parent EXCEPT ![nil] = nil]] /\ t.parent \in [Fields -> Fields]
  BY <1>4 DEF Tree
<1>7. /\ u.child = t.child /\ u.red = t.red /\ u \in Tree
      /\ \A m \in Fields : m # nil => u.parent[m] = t.parent[m]
  <2>1. nil \in Fields
    BY DEF Fields
  <2> QED
    BY <1>6, <2>1 DEF Tree
<1>8. Shape(u, M, at, edge)
  <2>1. \A m \in M : u.parent[m] = t.parent[m]
    BY <1>2, <1>7, ShapeFacts
  <2> QED
    BY <1>2, <1>7, <2>1, ShapeSame
<1>9. Even(u, M, h, NoHole)
  BY <1>3, <1>7 DEF Even, Black
<1>10. Calm(u, M, None, None)
  BY <1>7 DEF Balanced, Calm
<1> QED
  BY <1>5, <1>8, <1>9, <1>10 DEF Laid, Balanced

(* The loop of rb_insert ends with nothing wrong, and blackens the top.       *)
LEMMA InsertDoneKeeps ==
  ASSUME NEW at, Laid(tree, members, at), Inserting(tree, members, x), InsertDone
  PROVE  Laid(tree', members', at) /\ Balanced(tree', members') /\ pc' = "idle"
<1>1. \E edge : Shape(tree, members, at, edge)
  BY DEF Laid
<1>2. PICK edge : Shape(tree, members, at, edge)
  BY <1>1
<1>3. PICK c : c = tree.child["left"][root]
  OBVIOUS
<1>4. PICK u : u = BlackAt(tree, c)
  OBVIOUS
<1>5. Return(u) /\ members' = members /\ ~tree.red[tree.parent[x]]
  BY <1>3, <1>4 DEF InsertDone, BlackAt
<1>6. tree \in Tree /\ root \in Fields /\ c \in Fields
  <2>1. tree \in Tree /\ root \in Fields /\ "left" \in Sides
    BY <1>2, ShapeFacts DEF Fields, Sides
  <2>2. tree.child \in [Sides -> [Fields -> Fields]]
    BY <2>1 DEF Tree
  <2> QED
    BY <1>3, <2>1, <2>2
<1>7. Blackens(tree, u, c)
  BY <1>4, <1>6, Blackened
<1>8. /\ u \in Tree /\ u.child = tree.child /\ u.parent = tree.parent
      /\ \A m \in Fields : u.red[m] = IF m = tree.child["left"][root] THEN FALSE ELSE tree.red[m]
  BY <1>3, <1>7 DEF Blackens
<1>9. Shape(u, members, at, edge)
  BY <1>2, <1>8, ShapeSame
<1>10. Balanced(u, members)
  BY <1>2, <1>5, <1>8, TopBalance DEF Balanced
<1> QED
  BY <1>5, <1>8, <1>9, <1>10, ReturnKeeps DEF Laid

-----------------------------------------------------------------------------
(* A deletion's loop is at the node below which a black node is missing, or   *)
(* is done.                                                                   *)
Holed(t, M, y, p, s) ==
  /\ p \in Whole(M) /\ t.parent[y] = p /\ s \in Sides /\ t.child[s][p] = y
  /\ p = root => s = "left"
  /\ \E h : Even(t, M, h, <<p, s>>)

(* The loop of rb_delete_fixup is at such a node, or has jumped to its copy   *)
(* of the top.                                                                *)
Deleting(t, M, y, c) ==
  /\ y \in M \cup {nil} /\ Calm(t, M, y, y)
  /\ \/ /\ \E p : \E s : Holed(t, M, y, p, s)
        /\ c = t.child["left"][root] \/ t.red[y]
     \/ y = c /\ y \in M /\ ~t.red[y] /\ \E h : Even(t, M, h, NoHole)

(* At a black node no exception is left. *)
LEMMA CalmBlack ==
  ASSUME NEW t, NEW M, NEW y, Calm(t, M, y, y), ~t.red[y]
  PROVE  Calm(t, M, None, None)
BY DEF Calm

(* Opposite a hole hangs a node that is not what hangs in the hole. *)
LEMMA SiblingFacts ==
  ASSUME NEW t, NEW M, NEW at, NEW edge, NEW h, Shape(t, M, at, edge),
         NEW p \in M, NEW s \in Sides, Even(t, M, h, <<p, s>>),
         NEW y, t.child[s][p] = y, NEW w, w = t.child[Other(s)][p]
  PROVE  w \in M /\ w # nil /\ w # y /\ w # p /\ t.parent[w] = p /\ y # p /\ SideAt(t, p, y) = s
<1> DEFINE o == Other(s)
           hole == <<p, s>>
<1>1. o \in Sides /\ o # s /\ \A d \in Sides : d = s \/ d = o
  BY SideFacts
<1>2. p \in Whole(M) /\ nil \notin M
  BY ShapeFacts
<1>3. Missing(hole, p, s) = 1 /\ Missing(hole, p, o) = 0
  BY <1>1 DEF Missing
<1>4. /\ \A m \in M : h[m] \in Nat /\ Black(t, m) \in Nat
      /\ \A m \in Whole(M) : \A d \in Sides : t.child[d][m] \in M \cup {nil} /\ h[t.child[d][m]] \in Nat
                                              /\ t.child[d][m] \in Fields
      /\ \A m \in M : \A d \in Sides :
           h[m] = h[t.child[d][m]] + Black(t, m) + Missing(hole, m, d)
      /\ h[nil] = 0
  BY EvenFacts
<1>5. w = t.child[o][p]
  OBVIOUS
<1> HIDE DEF o, hole
<1>6. h[y] \in Nat /\ h[w] \in Nat /\ w \in M \cup {nil}
  BY <1>1, <1>2, <1>4, <1>5
<1>7. h[p] = h[y] + Black(t, p) + 1
  BY <1>3, <1>4
<1>8. h[p] = h[w] + Black(t, p) + 0
  BY <1>1, <1>3, <1>4, <1>5
<1>9. h[w] = h[y] + 1
  BY <1>4, <1>6, <1>7, <1>8
<1>10. w # nil /\ w # y
  BY <1>4, <1>6, <1>9
<1>11. t.parent[w] = p /\ w # p
  BY <1>1, <1>2, <1>5, <1>10, ChildFacts
<1>12. y # p
  <2>1. CASE y = nil
    BY <1>2, <2>1
  <2>2. CASE y # nil
    BY <1>2, <2>2, ChildFacts
  <2> QED
    BY <2>1, <2>2
<1>13. SideAt(t, p, y) = s
  BY <1>1, <1>5, <1>10 DEF SideAt, Sides
<1> QED
  BY <1>6, <1>10, <1>11, <1>12, <1>13

(* Without a node at the top the tree is empty. *)
LEMMA NoTop ==
  ASSUME NEW t, NEW M, NEW at, NEW edge, Shape(t, M, at, edge), t.child["left"][root] = nil
  PROVE  M = {}
<1>1. "left" \in Sides /\ root \in Whole(M) /\ IsFiniteSet(M) /\ Cardinality(M) \in Nat
  BY ShapeFacts DEF Sides
<1>2. edge["left"][root] = at[root]
  BY <1>1, ShapeFacts DEF Hangs
<1>3. at[root] = Cardinality(M) + 1 /\ edge["left"][root] = 1
  BY DEF Shape, Layout
<1>4. Cardinality(M) = 0
  BY <1>1, <1>2, <1>3
<1> QED
  BY <1>1, <1>4, FS_EmptySet

(* The end of a deletion: colouring the node of the hole black fills it.      *)
LEMMA DoneBalance ==
  ASSUME NEW t, NEW M, NEW at, NEW edge, Shape(t, M, at, edge),
         NEW y, NEW c, Deleting(t, M, y, c), y = c \/ t.red[y], NEW u, Blackens(t, u, y)
  PROVE  Balanced(u, M)
<1>1. y \in M \cup {nil} /\ Calm(t, M, y, y)
  BY DEF Deleting
<1>2. /\ u \in Tree /\ u.child = t.child /\ u.parent = t.parent
      /\ \A m \in Fields : u.red[m] = IF m = y THEN FALSE ELSE t.red[m]
  BY DEF Blackens
<1>4. /\ nil \notin M /\ M \subseteq Whole(M) /\ Whole(M) \subseteq Fields /\ nil \in Fields
      /\ root \in Fields /\ root \notin M /\ None \notin M /\ None # nil /\ root \in Whole(M)
      /\ "left" \in Sides /\ t \in Tree
  BY ShapeFacts, RBTreeAssumption DEF Fields, Sides
<1>5. \A m \in Whole(M) : \A d \in Sides : t.child[d][m] \in Fields
  BY <1>4 DEF Tree
<1>6. Calm(u, M, None, None)
  <2>1. ~u.red[nil] /\ ~u.red[root]
    BY <1>1, <1>2, <1>4 DEF Calm
  <2>2. \A m \in Fields : u.red[m] => t.red[m] /\ m # y
    BY <1>2
  <2>3. \A m \in M : \A d \in Sides : ~(u.red[m] /\ u.red[u.child[d][m]])
    BY <1>1, <1>2, <1>4, <1>5, <2>2 DEF Calm
  <2>4. ~u.red[u.child["left"][root]]
    BY <1>1, <1>2, <1>4, <1>5, <2>2 DEF Calm
  <2> QED
    BY <2>1, <2>3, <2>4 DEF Calm
<1>7. CASE ~t.red[y] /\ \E h : Even(t, M, h, NoHole)
  <2>1. PICK h : Even(t, M, h, NoHole)
    BY <1>7
  <2>2. \A m \in M : Black(u, m) = Black(t, m)
    BY <1>2, <1>4, <1>7 DEF Black
  <2>3. Even(u, M, h, NoHole)
    BY <1>2, <2>1, <2>2 DEF Even
  <2> QED
    BY <1>6, <2>3 DEF Balanced
<1>8. ASSUME NEW p, NEW s, Holed(t, M, y, p, s), c = t.child["left"][root] \/ t.red[y]
      PROVE  Balanced(u, M)
  <2>1. PICK h : Even(t, M, h, <<p, s>>)
    BY <1>8 DEF Holed
  <2>2. p \in Whole(M) /\ t.parent[y] = p /\ s \in Sides /\ t.child[s][p] = y
    BY <1>8 DEF Holed
  <2>3. CASE ~t.red[y]
    <3>1. y = t.child["left"][root]
      BY <1>8, <2>3
    <3>2. \A m \in M : \A d \in Sides : Missing(<<p, s>>, m, d) = Missing(NoHole, m, d)
      <4>1. CASE y = nil
        <5>1. M = {}
          BY <3>1, <4>1, NoTop
        <5> QED
          BY <5>1
      <4>2. CASE y # nil
        <5>1. p = root
          BY <1>4, <2>2, <3>1, <4>2, ChildFacts
        <5> QED
          BY <1>4, <5>1 DEF Missing, NoHole
      <4> QED
        BY <4>1, <4>2
    <3>3. Even(t, M, h, NoHole)
      BY <2>1, <3>2 DEF Even
    <3> QED
      BY <1>7, <2>3, <3>3
  <2>4. CASE t.red[y]
    <3> DEFINE hole == <<p, s>>
               h2 == [m \in M \cup {nil} |-> IF m = y THEN h[m] + 1 ELSE h[m]]
    <3>1. y \in M /\ y # nil
      BY <1>1, <1>4, <2>4 DEF Calm
    <3>2. /\ \A m \in M : h[m] \in Nat /\ Black(t, m) \in Nat
          /\ \A m \in Whole(M) : \A d \in Sides : t.child[d][m] \in M \cup {nil} /\ h[t.child[d][m]] \in Nat
          /\ \A m \in M : \A d \in Sides :
               h[m] = h[t.child[d][m]] + Black(t, m) + Missing(hole, m, d)
          /\ h[nil] = 0
      BY <2>1, EvenFacts
    <3>3. /\ h2 \in [M \cup {nil} -> Nat] /\ h2[nil] = 0 /\ h2[y] = h[y] + 1
          /\ \A m \in M \cup {nil} : m # y => h2[m] = h[m]
      BY <1>4, <3>1, <3>2
    <3> HIDE DEF h2
    <3>4. Black(t, y) = 0 /\ Black(u, y) = 1 /\ \A m \in M : m # y => Black(u, m) = Black(t, m)
      BY <1>2, <1>4, <2>4, <3>1 DEF Black
    <3>5. ASSUME NEW m \in M, NEW d \in Sides
          PROVE  h2[m] = h2[t.child[d][m]] + Black(u, m) + Missing(NoHole, m, d)
      <4> DEFINE e == t.child[d][m]
      <4>0. Missing(NoHole, m, d) = 0 /\ m \in Whole(M)
        BY <1>4 DEF Missing, NoHole
      <4>1. h2[e] = h[e] + Missing(hole, m, d)
        <5>1. CASE e = y
          <6>1. m = p
            BY <2>2, <3>1, <4>0, <5>1, ChildFacts
          <6>2. t.child[Other(d)][m] # y
            BY <3>1, <4>0, <5>1, ChildFacts
          <6>3. d = s
            BY <2>2, <6>1, <6>2, SideFacts
          <6>4. Missing(hole, m, d) = 1
            BY <6>1, <6>3 DEF Missing
          <6> QED
            BY <3>3, <5>1, <6>4
        <5>2. CASE e # y
          <6>1. Missing(hole, m, d) = 0
            BY <2>2, <5>2 DEF Missing
          <6>2. h2[e] = h[e] /\ h[e] \in Nat
            BY <3>2, <3>3, <4>0, <5>2
          <6> QED
            BY <6>1, <6>2
        <5> QED
          BY <5>1, <5>2
      <4>2. h[m] = h[e] + Black(t, m) + Missing(hole, m, d) /\ h[e] \in Nat /\ h[m] \in Nat
            /\ Black(t, m) \in Nat /\ Missing(hole, m, d) \in Nat
        BY <3>2, <4>0 DEF Missing
      <4>3. CASE m = y
        <5>1. h2[m] = h[m] + 1 /\ Black(t, m) = 0 /\ Black(u, m) = 1
          BY <3>3, <3>4, <4>3
        <5> QED
          BY <4>0, <4>1, <4>2, <5>1
      <4>4. CASE m # y
        <5>1. h2[m] = h[m] /\ Black(u, m) = Black(t, m)
          BY <3>3, <3>4, <4>4
        <5> QED
          BY <4>0, <4>1, <4>2, <5>1
      <4> QED
        BY <4>3, <4>4
    <3>6. Even(u, M, h2, NoHole)
      BY <1>2, <3>3, <3>5 DEF Even
    <3> QED
      BY <1>6, <3>6 DEF Balanced
  <2> QED
    BY <2>3, <2>4
<1> QED
  BY <1>7, <1>8 DEF Deleting

(* The loop of rb_delete_fixup ends, and the node it blackens is the one the  *)
(* hole was above.                                                            *)
LEMMA DeleteDoneKeeps ==
  ASSUME NEW at, Laid(tree, members, at), Deleting(tree, members, x, top), DeleteDone
  PROVE  Laid(tree', members', at) /\ Balanced(tree', members') /\ pc' = "idle"
<1>1. \E edge : Shape(tree, members, at, edge)
  BY DEF Laid
<1>2. PICK edge : Shape(tree, members, at, edge)
  BY <1>1
<1>4. PICK u : u = BlackAt(tree, x)
  OBVIOUS
<1>5. Return(u) /\ members' = members /\ (x = top \/ tree.red[x])
  BY <1>4 DEF DeleteDone, Fixing, BlackAt
<1>6. tree \in Tree /\ x \in Fields
  BY <1>2, ShapeFacts DEF Deleting, Fields
<1>7. Blackens(tree, u, x)
  BY <1>4, <1>6, Blackened
<1>8. u \in Tree /\ u.child = tree.child /\ u.parent = tree.parent
  BY <1>7 DEF Blackens
<1>9. Shape(u, members, at, edge)
  BY <1>2, <1>8, ShapeSame
<1>10. Balanced(u, members)
  BY <1>2, <1>5, <1>7, DoneBalance
<1> QED
  BY <1>5, <1>8, <1>9, <1>10, ReturnKeeps DEF Laid

(* The hole with its sibling black: what a fix-up works on. *)
Open(t, M, at, y, p, s, w) ==
  /\ t \in Tree /\ \E e : Shape(t, M, at, e)
  /\ p \in M /\ s \in Sides /\ t.parent[y] = p /\ t.child[s][p] = y /\ ~t.red[y] /\ y \in M \cup {nil}
  /\ Calm(t, M, None, None) /\ \E h : Even(t, M, h, <<p, s>>)
  /\ w = t.child[Other(s)][p] /\ w \in M /\ w # y /\ w # p

(* A red sibling is turned above the hole's node; a nephew takes its place.   *)
LEMMA SiblingBalance ==
  ASSUME NEW t, NEW M, NEW at, NEW y, NEW p, NEW s, NEW w, Open(t, M, at, y, p, s, w), t.red[w],
         NEW v, v = RedAt(BlackAt(t, w), p), NEW u, u = Rotate(v, p, s)
  PROVE  /\ \E w2 : Open(u, M, at, y, p, s, w2) /\ ~u.red[w2]
         /\ u.red[p] /\ \A m \in Fields : u.red[m] => t.red[m] \/ m = p
         /\ \A m \in M : m # p /\ t.parent[m] = root => u.parent[m] = root
<1>1. PICK edge : Shape(t, M, at, edge)
  BY DEF Open
<1>2. /\ p \in M /\ s \in Sides /\ t.parent[y] = p /\ t.child[s][p] = y /\ ~t.red[y] /\ y \in M \cup {nil}
      /\ Calm(t, M, None, None)
      /\ w = t.child[Other(s)][p] /\ w \in M /\ w # y /\ w # p
  BY DEF Open
<1>3. PICK h : Even(t, M, h, <<p, s>>)
  BY DEF Open
<1>4. /\ nil \notin M /\ M \subseteq Whole(M) /\ Whole(M) \subseteq Fields /\ nil \in Fields
      /\ None \notin M /\ None # nil /\ t \in Tree /\ w # nil
      /\ p \in Fields /\ w \in Fields /\ y \in Fields /\ Other(s) \in Sides
      /\ Other(s) # s
  BY <1>1, <1>2, ShapeFacts, SideFacts, RBTreeAssumption DEF Fields
<1>5. Paints(t, v, w, p)
  BY <1>4, Painted
<1>6. v \in Tree /\ v.child = t.child /\ v.parent = t.parent
  BY <1>5 DEF Paints
<1>7. /\ u \in Tree /\ u.red = v.red /\ Turns(t, u, p, w, s)
      /\ Shape(u, M, at, TurnedEdge(M, at, edge, p, w, s))
  BY <1>1, <1>2, <1>4, <1>6, PaintedTurn DEF Repaints
<1>8. \A d \in Sides : ~t.red[t.child[d][w]] /\ t.child[d][w] \in Fields
  <2> TAKE d \in Sides
  <2>1. t.child[d][w] \in M \cup {nil} /\ t.child[d][w] \in Fields
    BY <1>1, <1>2, <1>3, <1>4, EvenFacts
  <2>2. t.child[d][w] # None
    BY <1>4, <2>1
  <2> QED
    BY <1>2, <1>4, <2>1, <2>2 DEF Calm
<1>9. ~t.red[p]
  BY <1>2, <1>4 DEF Calm
<1>10. Swaps(t, u, p, w)
  <2>1. t.red[p] = FALSE
    BY <1>4, <1>9 DEF Tree
  <2> QED
    BY <1>5, <1>7, <2>1 DEF Swaps, Paints
<1>11. Even(u, M, Swapped(h, p, w), <<p, s>>)
  <2>1. <<p, s>> # <<p, Other(s)>> /\ \A d \in Sides : <<p, s>> # <<w, d>>
    BY <1>2, <1>4
  <2> QED
    BY <1>1, <1>2, <1>3, <1>7, <1>10, <2>1, TurnEven
<1>12. Calm(u, M, None, None)
  <2>1. ~t.red[t.child[s][p]] /\ ~t.red[t.child[s][w]]
    BY <1>2, <1>8
  <2> QED
    BY <1>1, <1>2, <1>7, <1>9, <1>10, <2>1, TurnCalm
<1>13. u.child[s][p] = y /\ u.child[Other(s)][p] = t.child[s][w]
  BY <1>1, <1>2, <1>7, TurnedFacts
<1>14. PICK w2 : w2 = u.child[Other(s)][p]
  OBVIOUS
<1>15. w2 \in M /\ w2 # y /\ w2 # p
  BY <1>2, <1>7, <1>11, <1>13, <1>14, SiblingFacts
<1>16. \A m \in Fields : u.red[m] = IF m = p THEN TRUE ELSE IF m = w THEN FALSE ELSE t.red[m]
  BY <1>5, <1>7 DEF Paints
<1>17. ~u.red[w2] /\ ~u.red[y]
  <2>0. y # p
    BY <1>1, <1>2, <1>3, SiblingFacts
  <2>1. w2 \in Fields /\ ~t.red[w2]
    BY <1>2, <1>8, <1>13, <1>14
  <2> QED
    BY <1>2, <1>4, <1>15, <1>16, <2>0, <2>1
<1>18. u.parent[y] = p
  <2>1. y # p
    BY <1>1, <1>2, <1>3, SiblingFacts
  <2>2. y # nil => y # t.child[s][w]
    BY <1>2, <1>13, <1>14, <1>15, SMTT(30)
  <2> QED
    BY <1>2, <1>4, <1>7, <2>1, <2>2 DEF Turns, TurnedParent
<1>19. Open(u, M, at, y, p, s, w2)
  BY <1>2, <1>7, <1>11, <1>12, <1>13, <1>14, <1>15, <1>17, <1>18 DEF Open
<1>20. ASSUME NEW m \in M, m # p, t.parent[m] = root
       PROVE  u.parent[m] = root
  <2>1. m # w
    <3>1. t.parent[w] = p
      BY <1>1, <1>2, <1>4, ChildFacts
    <3> QED
      BY <1>1, <1>2, <1>20, <3>1, ShapeFacts
  <2>2. m # nil /\ w \in Whole(M) /\ m \in Fields /\ w # root
    BY <1>1, <1>2, <1>4, ShapeFacts
  <2>3. m # t.child[s][w]
    <3>1. CASE m = t.child[s][w]
      <4>1. t.parent[m] = w
        BY <1>1, <1>2, <2>2, <3>1, ChildFacts
      <4> QED
        BY <1>20, <2>2, <4>1
    <3> QED
      BY <3>1
  <2> QED
    BY <1>7, <1>20, <2>1, <2>2, <2>3 DEF Turns, TurnedParent
<1> QED
  BY <1>4, <1>16, <1>17, <1>19, <1>20

(* With two black children the sibling turns red, and the hole moves up.      *)
LEMMA LiftBalance ==
  ASSUME NEW t, NEW M, NEW at, NEW y, NEW p, NEW s, NEW w, Open(t, M, at, y, p, s, w), ~t.red[w],
         \A d \in Sides : ~t.red[t.child[d][w]], NEW u, Reddens(t, u, w)
  PROVE  /\ Calm(u, M, p, p) /\ \E q : \E d : Holed(u, M, p, q, d)
         /\ \E e : Shape(u, M, at, e)
         /\ u.child = t.child /\ \A m \in Fields : m # w => u.red[m] = t.red[m]
<1>1. PICK edge : Shape(t, M, at, edge)
  BY DEF Open
<1>2. /\ p \in M /\ s \in Sides /\ t.parent[y] = p /\ t.child[s][p] = y /\ ~t.red[y] /\ y \in M \cup {nil}
      /\ Calm(t, M, None, None)
      /\ w = t.child[Other(s)][p] /\ w \in M /\ w # y /\ w # p
  BY DEF Open
<1>3. PICK h : Even(t, M, h, <<p, s>>)
  BY DEF Open
<1>4. /\ nil \notin M /\ M \subseteq Whole(M) /\ Whole(M) \subseteq Fields /\ nil \in Fields
      /\ None \notin M /\ None # nil /\ t \in Tree /\ w # nil /\ root \notin M /\ root \in Fields
      /\ root \in Whole(M) /\ "left" \in Sides
      /\ p \in Fields /\ w \in Fields /\ y \in Fields
  BY <1>1, <1>2, ShapeFacts, RBTreeAssumption DEF Fields, Sides
<1>a. Other(s) \in Sides /\ Other(s) # s /\ \A d \in Sides : d = s \/ d = Other(s)
  BY <1>2, SideFacts
<1>5. /\ u \in Tree /\ u.child = t.child /\ u.parent = t.parent
      /\ \A m \in Fields : u.red[m] = IF m = w THEN TRUE ELSE t.red[m]
  BY DEF Reddens
<1>6. Shape(u, M, at, edge)
  BY <1>1, <1>5, ShapeSame
<1>7. PICK q : q = t.parent[p]
  OBVIOUS
<1>8. /\ q \in Whole(M) /\ q # p
      /\ \E d \in Sides : t.child[d][q] = p /\ t.child[Other(d)][q] # p
      /\ q = root => t.child["left"][root] = p
  BY <1>1, <1>2, <1>7, ParentFacts
<1>9. PICK d \in Sides : t.child[d][q] = p /\ t.child[Other(d)][q] # p
  BY <1>8
<1>10. q = root => d = "left"
  BY <1>8, <1>9 DEF Sides, Other
<1>11. t.parent[w] = p /\ y # p
  BY <1>1, <1>2, <1>3, SiblingFacts
<1>22. w # q
  <2> DEFINE o == Other(s)
  <2>1. o \in Sides /\ w = t.child[o][p]
    BY <1>2, <1>a
  <2> HIDE DEF o
  <2>2. p # nil
    BY <1>2, <1>4
  <2>3. p = t.child[d][q] /\ q \in Whole(M) /\ w # nil
    BY <1>4, <1>8, <1>9
  <2>4. \A m \in Whole(M) : \A k \in Sides : \A l \in Sides :
          t.child[k][m] # nil /\ t.child[l][t.child[k][m]] # nil => t.child[l][t.child[k][m]] # m
    BY <1>1, GrandchildFacts
  <2> QED
    BY <2>1, <2>2, <2>3, <2>4, Zenon
<1> DEFINE hole == <<p, s>>
           hole2 == <<q, d>>
           h2 == [m \in M \cup {nil} |-> IF m = w \/ m = p THEN h[m] - 1 ELSE h[m]]
<1>12. /\ \A m \in M : h[m] \in Nat /\ Black(t, m) \in Nat
       /\ \A m \in Whole(M) : \A c \in Sides : t.child[c][m] \in M \cup {nil} /\ h[t.child[c][m]] \in Nat
                                               /\ t.child[c][m] \in Fields
       /\ \A m \in M : \A c \in Sides :
            h[m] = h[t.child[c][m]] + Black(t, m) + Missing(hole, m, c)
       /\ h[nil] = 0
  BY <1>1, <1>3, EvenFacts
<1>13. Missing(hole, p, s) = 1 /\ \A m \in M : \A c \in Sides : m # p \/ c # s => Missing(hole, m, c) = 0
  BY DEF Missing
<1>14. Missing(hole2, q, d) = 1 /\ \A m \in M : \A c \in Sides : m # q \/ c # d => Missing(hole2, m, c) = 0
  BY DEF Missing
<1>15. Black(t, w) = 1 /\ Black(u, w) = 0 /\ \A m \in M : m # w => Black(u, m) = Black(t, m)
  BY <1>2, <1>4, <1>5 DEF Black
<1> HIDE DEF hole, hole2
<1>16. h[w] - 1 \in Nat /\ h[p] - 1 \in Nat
  <2>1. h[w] = h[t.child[s][w]] + Black(t, w) + Missing(hole, w, s)
    BY <1>2, <1>12
  <2>2. h[p] = h[t.child[s][p]] + Black(t, p) + Missing(hole, p, s)
    BY <1>2, <1>12
  <2>3. Missing(hole, w, s) = 0
    BY <1>2, <1>13
  <2>4. h[t.child[s][w]] \in Nat /\ h[t.child[s][p]] \in Nat /\ Black(t, p) \in Nat /\ h[w] \in Nat /\ h[p] \in Nat
    BY <1>2, <1>4, <1>12
  <2> QED
    BY <1>13, <1>15, <2>1, <2>2, <2>3, <2>4
<1>17. /\ h2 \in [M \cup {nil} -> Nat] /\ h2[nil] = 0 /\ h2[w] = h[w] - 1 /\ h2[p] = h[p] - 1
       /\ \A m \in M \cup {nil} : m # w /\ m # p => h2[m] = h[m]
  <2>1. \A m \in M \cup {nil} : h[m] \in Nat
    BY <1>12
  <2> QED
    BY <1>2, <1>4, <1>12, <1>16, <2>1
<1> HIDE DEF h2
<1>18. ASSUME NEW m \in M, NEW c \in Sides
       PROVE  h2[m] = h2[t.child[c][m]] + Black(u, m) + Missing(hole2, m, c)
  <2> DEFINE e == t.child[c][m]
  <2>1. h[m] = h[e] + Black(t, m) + Missing(hole, m, c) /\ h[m] \in Nat /\ h[e] \in Nat
        /\ Black(t, m) \in Nat /\ e \in M \cup {nil} /\ m \in Whole(M)
    BY <1>4, <1>12
  <2>2. e # nil => t.parent[e] = m /\ e # m /\ t.child[Other(c)][m] # e
    BY <1>1, <2>1, ChildFacts
  <2>3. e = p => m = q /\ c = d
    <3>1. CASE e = p
      <4>1. m = q
        BY <1>2, <1>4, <1>7, <2>2, <3>1
      <4>2. c = d
        BY <1>2, <1>4, <1>9, <2>2, <3>1, <4>1, SideFacts
      <4> QED
        BY <4>1, <4>2
    <3> QED
      BY <3>1
  <2>4. e = w => m = p
    BY <1>2, <1>4, <1>11, <2>2
  <2>5. CASE m = w
    <3>1. e # w /\ e # p
      BY <1>2, <1>22, <2>3, <2>4, <2>5
    <3>2. h2[e] = h[e] /\ h2[m] = h[m] - 1 /\ Black(t, m) = 1 /\ Black(u, m) = 0
      BY <1>15, <1>17, <2>1, <2>5, <3>1
    <3>3. Missing(hole, m, c) = 0
      BY <1>2, <1>13, <2>5
    <3>4. Missing(hole2, m, c) = 0
      <4>1. CASE m = q /\ c = d
        BY <1>9, <3>1, <4>1
      <4>2. CASE m # q \/ c # d
        BY <1>14, <4>2
      <4> QED
        BY <4>1, <4>2
    <3> QED
      BY <2>1, <3>2, <3>3, <3>4
  <2>6. CASE m = p
    <3>0. Missing(hole2, m, c) = 0 /\ h2[m] = h[m] - 1 /\ Black(u, m) = Black(t, m)
      BY <1>2, <1>8, <1>14, <1>15, <1>17, <2>6
    <3>1. CASE c = s
      <4>1. e = y /\ h2[e] = h[e]
        BY <1>2, <1>11, <1>17, <2>1, <2>6, <3>1
      <4>2. Missing(hole, m, c) = 1
        BY <1>13, <2>6, <3>1
      <4> QED
        BY <2>1, <3>0, <4>1, <4>2
    <3>2. CASE c = Other(s)
      <4>1. e = w /\ h2[e] = h[e] - 1
        BY <1>2, <1>17, <2>6, <3>2
      <4>2. Missing(hole, m, c) = 0
        BY <1>a, <1>13, <3>2
      <4> QED
        BY <2>1, <3>0, <4>1, <4>2
    <3> QED
      BY <1>a, <3>1, <3>2
  <2>7. CASE m # w /\ m # p
    <3>0. h2[m] = h[m] /\ Black(u, m) = Black(t, m) /\ Missing(hole, m, c) = 0 /\ e # w
      BY <1>13, <1>15, <1>17, <2>4, <2>7
    <3>1. CASE e = p
      <4>1. h2[e] = h[e] - 1 /\ Missing(hole2, m, c) = 1
        BY <1>14, <1>17, <2>3, <3>1
      <4> QED
        BY <2>1, <3>0, <4>1
    <3>2. CASE e # p
      <4>1. h2[e] = h[e]
        BY <1>17, <2>1, <3>0, <3>2
      <4>2. Missing(hole2, m, c) = 0
        BY <1>9, <1>14, <3>2
      <4> QED
        BY <2>1, <3>0, <4>1, <4>2
    <3> QED
      BY <3>1, <3>2
  <2> QED
    BY <2>5, <2>6, <2>7
<1>19. Even(u, M, h2, hole2)
  BY <1>5, <1>17, <1>18 DEF Even
<1>20. Holed(u, M, p, q, d)
  BY <1>5, <1>7, <1>8, <1>9, <1>10, <1>19 DEF Holed, hole2
<1>21. Calm(u, M, p, p)
  <2>1. ~u.red[nil] /\ ~u.red[root]
    BY <1>2, <1>4, <1>5 DEF Calm
  <2>2. ASSUME NEW m \in M, NEW c \in Sides, u.red[m], u.red[t.child[c][m]]
        PROVE  m = p
    <3>0. m \in Whole(M) /\ m \in Fields /\ t.child[c][m] \in Fields /\ t.child[c][m] \in M \cup {nil}
      BY <1>4, <1>12
    <3>1. CASE t.child[c][m] = w
      BY <1>1, <1>4, <1>11, <3>0, <3>1, ChildFacts
    <3>2. CASE t.child[c][m] # w
      <4>1. t.red[t.child[c][m]]
        BY <1>5, <2>2, <3>0, <3>2
      <4>2. m # w
        BY <4>1
      <4>3. t.red[m]
        BY <1>5, <2>2, <3>0, <4>2
      <4> QED
        BY <1>2, <1>4, <3>0, <4>1, <4>3 DEF Calm
    <3> QED
      BY <3>1, <3>2
  <2>3. ~u.red[t.child["left"][root]]
    <3>0. t.child["left"][root] \in M \cup {nil} /\ t.child["left"][root] \in Fields
      BY <1>4, <1>12
    <3>1. t.child["left"][root] # w
      <4>1. CASE t.child["left"][root] = w
        <5>1. t.parent[w] = root
          BY <1>1, <1>4, <4>1, ChildFacts
        <5> QED
          BY <1>2, <1>4, <1>11, <5>1
      <4> QED
        BY <4>1
    <3>2. t.child["left"][root] # None
      BY <1>4, <3>0
    <3> QED
      BY <1>2, <1>5, <3>0, <3>1, <3>2 DEF Calm
  <2> QED
    BY <1>5, <2>1, <2>2, <2>3 DEF Calm
<1> QED
  BY <1>5, <1>6, <1>20, <1>21

(* A red nephew on the near side is turned above the sibling. *)
Leans(t, u, s, w, b) ==
  b = t.child[s][w] /\ t.red[b] /\ u = Rotate(RedAt(BlackAt(t, b), w), w, Other(s))

(* RB_DELETE_FIXUP_SUB when only the near nephew is red: once turned, the     *)
(* hole has a red nephew on the far side.                                     *)
LEMMA FarBalance ==
  ASSUME NEW t, NEW M, NEW at, NEW y, NEW p, NEW s, NEW w, Open(t, M, at, y, p, s, w), ~t.red[w],
         ~t.red[t.child[Other(s)][w]], NEW b, NEW u, Leans(t, u, s, w, b)
  PROVE  /\ Open(u, M, at, y, p, s, b) /\ ~u.red[b] /\ u.child[Other(s)][b] = w /\ u.red[w]
         /\ \A m \in Fields : u.red[m] => t.red[m] \/ m = w
         /\ \A m \in M : t.parent[m] = root => u.parent[m] = root
<1>o. PICK o : o = Other(s)
  OBVIOUS
<1>v. PICK v : v = RedAt(BlackAt(t, b), w)
  OBVIOUS
<1>l. b = t.child[s][w] /\ t.red[b] /\ u = Rotate(v, w, o)
  BY <1>o, <1>v DEF Leans
<1>1. PICK edge : Shape(t, M, at, edge)
  BY DEF Open
<1>2. /\ p \in M /\ s \in Sides /\ t.parent[y] = p /\ t.child[s][p] = y /\ ~t.red[y] /\ y \in M \cup {nil}
      /\ Calm(t, M, None, None)
      /\ w = t.child[o][p] /\ w \in M /\ w # y /\ w # p
  BY <1>o DEF Open
<1>3. PICK h : Even(t, M, h, <<p, s>>)
  BY DEF Open
<1>4. /\ nil \notin M /\ M \subseteq Whole(M) /\ Whole(M) \subseteq Fields /\ nil \in Fields
      /\ None \notin M /\ None # nil /\ t \in Tree /\ w # nil /\ root \notin M
      /\ p \in Fields /\ w \in Fields /\ y \in Fields /\ o \in Sides /\ Other(o) = s
      /\ o # s /\ p \in Whole(M) /\ w \in Whole(M) /\ p # nil
  BY <1>o, <1>1, <1>2, ShapeFacts, SideFacts, RBTreeAssumption DEF Fields
<1>5. b \in M /\ b # nil /\ b \in Fields /\ t.parent[b] = w /\ b # w /\ b # p
  <2>1. b \in M \cup {nil}
    BY <1>l, <1>1, <1>2, <1>3, <1>4, EvenFacts
  <2>2. b # nil
    BY <1>l, <1>2 DEF Calm
  <2>3. t.parent[b] = w /\ b # w
    BY <1>l, <1>1, <1>2, <1>4, <2>2, ChildFacts
  <2>5. \A m \in Whole(M) : \A k \in Sides : \A l \in Sides :
          t.child[k][m] # nil /\ t.child[l][t.child[k][m]] # nil => t.child[l][t.child[k][m]] # m
    BY <1>1, GrandchildFacts
  <2>6. b # p
    BY <1>l, <1>2, <1>4, <2>2, <2>5
  <2> QED
    BY <1>4, <2>1, <2>2, <2>3, <2>6
<1>6. b = t.child[Other(o)][w] /\ u = Rotate(v, w, o) /\ ~t.red[t.child[o][w]]
  BY <1>l, <1>o, <1>4
<1>7. Paints(t, v, b, w)
  BY <1>v, <1>4, <1>5, Painted
<1>8. v \in Tree /\ v.child = t.child /\ v.parent = t.parent
  BY <1>7 DEF Paints
<1>9. /\ u \in Tree /\ u.red = v.red /\ Turns(t, u, w, b, o)
      /\ Shape(u, M, at, TurnedEdge(M, at, edge, w, b, o))
  BY <1>1, <1>2, <1>4, <1>5, <1>6, <1>8, PaintedTurn DEF Repaints
<1>10. Swaps(t, u, w, b)
  <2>1. t.red[w] = FALSE
    BY <1>4 DEF Tree
  <2> QED
    BY <1>7, <1>9, <2>1, Zenon DEF Swaps, Paints
<1>11. Even(u, M, Swapped(h, w, b), <<p, s>>)
  <2>1. <<p, s>> # <<w, Other(o)>> /\ \A d \in Sides : <<p, s>> # <<b, d>>
    BY <1>2, <1>5
  <2> QED
    BY <1>l, <1>1, <1>2, <1>3, <1>4, <1>9, <1>10, <2>1, TurnEven, ZenonT(30)
<1>12. Calm(u, M, None, None)
  <2>1. ~t.red[t.child[o][b]]
    <3>1. t.child[o][b] \in M \cup {nil}
      BY <1>1, <1>3, <1>4, <1>5, EvenFacts
    <3> QED
      BY <1>l, <1>2, <1>4, <1>5, <3>1, ZenonT(30) DEF Calm
  <2> QED
    BY <1>l, <1>1, <1>2, <1>4, <1>6, <1>9, <1>10, <2>1, TurnCalm, ZenonT(30)
<1>13. u.child[s][p] = y /\ u.child[o][p] = b /\ u.child[o][b] = w
  <2>1. /\ u.child[o][b] = w
        /\ \A m \in Whole(M) : \A d \in Sides : m # w /\ m # b =>
              /\ t.child[d][m] = w => u.child[d][m] = b
              /\ t.child[d][m] # w => u.child[d][m] = t.child[d][m]
    BY <1>1, <1>2, <1>4, <1>9, TurnedFacts
  <2> QED
    BY <1>2, <1>4, <1>5, <2>1
<1>14. b # y
  <2>1. CASE y = nil
    BY <1>5, <2>1
  <2> QED
    BY <1>2, <1>5, <2>1
<1>15. u.parent[y] = p
  <2>1. y # nil => y # t.child[o][b]
    <3>1. CASE y # nil /\ y = t.child[o][b]
      <4>1. t.parent[y] = b
        BY <1>1, <1>4, <1>5, <3>1, ChildFacts
      <4> QED
        BY <1>2, <1>5, <4>1
    <3> QED
      BY <3>1
  <2> QED
    BY <1>2, <1>4, <1>9, <1>14, <2>1 DEF Turns, TurnedParent
<1>16. \A m \in Fields : u.red[m] = IF m = w THEN TRUE ELSE IF m = b THEN FALSE ELSE t.red[m]
  BY <1>7, <1>9 DEF Paints
<1>17. ~u.red[b] /\ u.red[w] /\ ~u.red[y]
  BY <1>2, <1>4, <1>5, <1>14, <1>16
<1>18. Open(u, M, at, y, p, s, b)
  BY <1>2, <1>5, <1>9, <1>11, <1>12, <1>13, <1>14, <1>15, <1>17, <1>o DEF Open
<1>19. ASSUME NEW m \in M, t.parent[m] = root
       PROVE  u.parent[m] = root
  <2>1. t.parent[w] = p
    BY <1>1, <1>2, <1>4, ChildFacts
  <2>2. m # w /\ m # b /\ m # nil /\ m \in Fields
    BY <1>2, <1>4, <1>5, <1>19, <2>1
  <2>3. m # t.child[o][b]
    <3>1. CASE m = t.child[o][b]
      <4>1. t.parent[m] = b
        BY <1>1, <1>4, <1>5, <2>2, <3>1, ChildFacts
      <4> QED
        BY <1>4, <1>5, <1>19, <4>1
    <3> QED
      BY <3>1
  <2> QED
    BY <1>9, <1>19, <2>2, <2>3 DEF Turns, TurnedParent
<1> QED
  BY <1>o, <1>13, <1>16, <1>17, <1>18, <1>19

(* With a red nephew on the far side the last rotation fills the hole. *)
LEMMA CloseBalance ==
  ASSUME NEW t, NEW M, NEW at, NEW y, NEW p, NEW s, NEW w, Open(t, M, at, y, p, s, w), ~t.red[w],
         NEW c, c = t.child[Other(s)][w], t.red[c],
         NEW v \in Tree, v.child = t.child, v.parent = t.parent, Closes(t, v, p, w, c),
         NEW u, u = Rotate(v, p, s)
  PROVE  /\ Balanced(u, M) /\ \E e : Shape(u, M, at, e)
         /\ ~u.red[p] /\ \A m \in Fields : u.red[m] => t.red[m] \/ m = w
<1>1. PICK edge : Shape(t, M, at, edge)
  BY DEF Open
<1>2. /\ p \in M /\ s \in Sides /\ Calm(t, M, None, None)
      /\ w = t.child[Other(s)][p] /\ w \in M /\ w # y /\ w # p
  BY DEF Open
<1>3. PICK h : Even(t, M, h, <<p, s>>)
  BY DEF Open
<1>4. w # nil /\ c # nil /\ p \in Fields
  BY <1>1, <1>2, ShapeFacts DEF Calm
<1>5. /\ u \in Tree /\ u.red = v.red /\ Turns(t, u, p, w, s)
      /\ Shape(u, M, at, TurnedEdge(M, at, edge, p, w, s))
  BY <1>1, <1>2, <1>4, PaintedTurn DEF Repaints
<1>6. Closes(t, u, p, w, c)
  BY <1>5 DEF Closes
<1>7. Even(u, M, Filled(h, p, w, c), NoHole) /\ Calm(u, M, None, None)
  BY <1>1, <1>2, <1>3, <1>4, <1>5, <1>6, CloseFacts
<1>8. ~u.red[p] /\ \A m \in Fields : u.red[m] => t.red[m] \/ m = w
  BY <1>4, <1>6 DEF Closes
<1> QED
  BY <1>5, <1>7, <1>8 DEF Balanced

(* What a fix-up of a deletion starts from, its sibling made black. *)
Opened(t, at, p, w) ==
  /\ Open(t, members, at, x, p, SideOf, w) /\ ~t.red[w]
  /\ top \in members /\ ~tree.red[top]
  /\ (t.child = tree.child /\ top = tree.child["left"][root]) \/ t.red[p]
  /\ \A m \in Fields : t.red[m] => tree.red[m] \/ m = p
  /\ top # p => t.parent[top] = root

(* A round of rb_delete_fixup finds the hole with a black sibling opposite,   *)
(* after the first rotation if need be.                                       *)
LEMMA OpenFacts ==
  ASSUME NEW at, Laid(tree, members, at), Deleting(tree, members, x, top), Fixing
  PROVE  \E p : \E w : Opened(BlackSibling, at, p, w)
<1>1. \E edge : Shape(tree, members, at, edge)
  BY DEF Laid
<1>2. PICK edge : Shape(tree, members, at, edge)
  BY <1>1
<1>3. x # top /\ ~tree.red[x]
  BY DEF Fixing
<1>4. PICK p : \E s : Holed(tree, members, x, p, s) /\ top = tree.child["left"][root]
  BY <1>3 DEF Deleting
<1>5. PICK s : Holed(tree, members, x, p, s) /\ top = tree.child["left"][root]
  BY <1>4
<1>6. /\ p \in Whole(members) /\ tree.parent[x] = p /\ s \in Sides /\ tree.child[s][p] = x
      /\ p = root => s = "left"
  BY <1>5 DEF Holed
<1>7. PICK h : Even(tree, members, h, <<p, s>>)
  BY <1>5 DEF Holed
<1>8. p \in members /\ p # root
  <2>1. p # root
    BY <1>3, <1>5, <1>6
  <2> QED
    BY <1>2, <1>6, <2>1, ShapeFacts DEF Whole
<1>9. x \in members \cup {nil} /\ Calm(tree, members, None, None)
  BY <1>3, CalmBlack DEF Deleting
<1>10. PICK w : w = tree.child[Other(s)][p]
  OBVIOUS
<1>11. w \in members /\ w # nil /\ w # x /\ w # p /\ tree.parent[w] = p /\ x # p /\ SideAt(tree, p, x) = s
  BY <1>2, <1>6, <1>7, <1>8, <1>10, SiblingFacts, SMTT(30)
<1>12. SideOf = s
  BY <1>6, <1>11 DEF SideOf, SideAt
<1>13. Open(tree, members, at, x, p, s, w)
  BY <1>2, <1>3, <1>6, <1>7, <1>8, <1>9, <1>10, <1>11, ShapeFacts DEF Open
<1>14. top \in members /\ tree.parent[top] = root
  <2>1. top # nil
    BY <1>2, <1>5, <1>8, NoTop
  <2>2. "left" \in Sides /\ root \in Whole(members)
    BY DEF Sides, Whole
  <2> QED
    BY <1>2, <1>5, <2>1, <2>2, ChildFacts
<1>15. ~tree.red[top]
  <2>1. top # None
    BY <1>2, <1>14, ShapeFacts, RBTreeAssumption DEF Fields
  <2> QED
    BY <1>5, <1>9, <2>1 DEF Calm
<1>16. CASE ~tree.red[w]
  <2>1. BlackSibling = tree
    BY <1>6, <1>10, <1>12, <1>16 DEF BlackSibling
  <2>2. Opened(tree, at, p, w)
    BY <1>5, <1>12, <1>13, <1>14, <1>15, <1>16 DEF Opened
  <2> QED
    BY <2>1, <2>2
<1>17. CASE tree.red[w]
  <2>1. PICK v : v = RedAt(BlackAt(tree, w), p)
    OBVIOUS
  <2>2. PICK u : u = Rotate(v, p, s)
    OBVIOUS
  <2>3. BlackSibling = u
    BY <1>6, <1>10, <1>12, <1>17, <2>1, <2>2 DEF BlackSibling, RedAt, BlackAt
  <2>4. /\ \E w2 : Open(u, members, at, x, p, s, w2) /\ ~u.red[w2]
        /\ u.red[p] /\ \A m \in Fields : u.red[m] => tree.red[m] \/ m = p
        /\ \A m \in members : m # p /\ tree.parent[m] = root => u.parent[m] = root
    BY <1>13, <1>17, <2>1, <2>2, SiblingBalance
  <2>5. PICK w2 : Open(u, members, at, x, p, s, w2) /\ ~u.red[w2]
    BY <2>4
  <2>6. Opened(u, at, p, w2)
    BY <1>12, <1>14, <1>15, <2>4, <2>5 DEF Opened
  <2> QED
    BY <2>3, <2>6
<1> QED
  BY <1>16, <1>17

(* A round of RB_DELETE_FIXUP_SUB with two black nephews moves the hole to    *)
(* the parent.                                                                *)
LEMMA DeleteRecolourKeeps ==
  ASSUME NEW at, Laid(tree, members, at), Deleting(tree, members, x, top), DeleteRecolour
  PROVE  Laid(tree', members', at) /\ Deleting(tree', members', x', top') /\ pc' = pc
<1>1. PICK t : t = BlackSibling
  OBVIOUS
<1>2. PICK s : s = SideOf
  OBVIOUS
<1>3. Fixing
  BY DEF DeleteRecolour
<1>4. \E p : \E w : Opened(t, at, p, w)
  BY <1>1, <1>3, OpenFacts
<1>5. PICK p : \E w : Opened(t, at, p, w)
  BY <1>4
<1>6. PICK w : Opened(t, at, p, w)
  BY <1>5
<1>7. Open(t, members, at, x, p, s, w) /\ ~t.red[w]
  BY <1>2, <1>6 DEF Opened
<1>8. t.parent[x] = p /\ w = t.child[Other(s)][p] /\ t \in Tree /\ w \in members /\ p \in members /\ w # p
  BY <1>7 DEF Open
<1>9. PICK u : u = RedAt(t, w)
  OBVIOUS
<1>10. /\ tree' = u /\ x' = p /\ members' = members /\ top' = top /\ pc' = pc
       /\ \A d \in Sides : ~t.red[t.child[d][w]]
  BY <1>1, <1>2, <1>8, <1>9 DEF DeleteRecolour, RedAt
<1>11. w \in Fields /\ p \in Fields
  BY <1>7, <1>8, ShapeFacts DEF Open
<1>12. Reddens(t, u, w)
  BY <1>8, <1>9, <1>11, Reddened
<1>13. /\ Calm(u, members, p, p) /\ \E q : \E d : Holed(u, members, p, q, d)
       /\ \E e : Shape(u, members, at, e)
       /\ u.child = t.child /\ \A m \in Fields : m # w => u.red[m] = t.red[m]
  BY <1>7, <1>10, <1>12, LiftBalance
<1>14. top = u.child["left"][root] \/ u.red[p]
  <2>1. (t.child = tree.child /\ top = tree.child["left"][root]) \/ t.red[p]
    BY <1>6 DEF Opened
  <2> QED
    BY <1>8, <1>11, <1>13, <2>1
<1>15. Deleting(u, members, p, top)
  BY <1>8, <1>13, <1>14 DEF Deleting
<1> QED
  BY <1>10, <1>13, <1>15 DEF Laid

(* n with colour c in t, whatever the colour. *)
LEMMA Coloured ==
  ASSUME NEW t \in Tree, NEW n \in Fields, NEW c \in BOOLEAN, NEW u, u = Colour(t, n, c)
  PROVE  Repaints(t, u) /\ \A m \in Fields : m # n => u.red[m] = t.red[m]
BY DEF Colour, Tree, Repaints

(* The colour that was asked for.                                             *)
LEMMA ColouredValue ==
  ASSUME NEW t \in Tree, NEW n \in Fields, NEW c, NEW u, u = Colour(t, n, c)
  PROVE  u.red[n] = c
BY DEF Colour, Tree

(* The three assignments of colour before the last rotation.                  *)
LEMMA ClosePainted ==
  ASSUME NEW t \in Tree, NEW w \in Fields, NEW p \in Fields, NEW c \in Fields, w # p, w # c,
         NEW v, v = BlackAt(BlackAt(Colour(t, w, t.red[p]), p), c)
  PROVE  Repaints(t, v) /\ Closes(t, v, p, w, c)
<1>1. PICK r : r = t.red[p]
  OBVIOUS
<1>2. r \in BOOLEAN
  BY <1>1 DEF Tree
<1>3. PICK v1 : v1 = Colour(t, w, r)
  OBVIOUS
<1>4. Repaints(t, v1) /\ \A m \in Fields : m # w => v1.red[m] = t.red[m]
  BY <1>2, <1>3, Coloured
<1>5. v1.red[w] = r
  BY <1>3, ColouredValue
<1>6. PICK v2 : v2 = BlackAt(v1, p)
  OBVIOUS
<1>7. v1 \in Tree
  BY <1>4 DEF Repaints
<1>8. Blackens(v1, v2, p)
  BY <1>6, <1>7, Blackened
<1>9. v2 \in Tree
  BY <1>8 DEF Blackens
<1>10. v = BlackAt(v2, c)
  BY <1>1, <1>3, <1>6
<1>11. Blackens(v2, v, c)
  BY <1>9, <1>10, Blackened
<1>12. Repaints(t, v)
  BY <1>4, <1>8, <1>11 DEF Repaints, Blackens
<1>13. \A m \in Fields : v.red[m] = IF m = c THEN FALSE ELSE IF m = p THEN FALSE ELSE v1.red[m]
  BY <1>8, <1>11 DEF Blackens
<1>14. v1.red[w] = t.red[p]
  BY <1>1, <1>5
<1>15. ASSUME NEW m \in Fields
       PROVE  v.red[m] = IF m = p \/ m = c THEN FALSE ELSE IF m = w THEN t.red[p] ELSE t.red[m]
  <2>1. CASE m = w
    BY <1>13, <1>14, <2>1
  <2>2. CASE m # w
    BY <1>4, <1>13, <2>2
  <2> QED
    BY <2>1, <2>2
<1> QED
  BY <1>12, <1>15 DEF Closes

(* The last rotation of a deletion, and the jump to the top. *)
Finishes(t, u, p, s, w) ==
  u = Rotate(BlackAt(BlackAt(Colour(t, w, t.red[p]), p), t.child[Other(s)][w]), p, s)

(* After the last rotation no hole is left, and the node the loop jumps to is *)
(* black, as its copy of the top was.                                         *)
LEMMA FinishBalance ==
  ASSUME NEW t, NEW at, NEW p, NEW w, Open(t, members, at, x, p, SideOf, w), ~t.red[w],
         t.red[t.child[Other(SideOf)][w]],
         NEW c \in members, c # p => ~t.red[c] /\ c # w, NEW u, Finishes(t, u, p, SideOf, w)
  PROVE  Balanced(u, members) /\ (\E e : Shape(u, members, at, e)) /\ ~u.red[c]
<1>1. PICK s : s = SideOf
  OBVIOUS
<1>2. PICK f : f = t.child[Other(s)][w]
  OBVIOUS
<1>3. PICK v : v = BlackAt(BlackAt(Colour(t, w, t.red[p]), p), f)
  OBVIOUS
<1>4. u = Rotate(v, p, s)
  BY <1>1, <1>2, <1>3 DEF Finishes
<1>5. Open(t, members, at, x, p, s, w) /\ t.red[f]
  BY <1>1, <1>2
<1>6. PICK edge : Shape(t, members, at, edge)
  BY <1>5 DEF Open
<1>7. /\ t \in Tree /\ p \in Fields /\ w \in Fields /\ w # p /\ s \in Sides /\ w \in members /\ p \in members
      /\ members \subseteq Fields /\ w \in Whole(members) /\ Calm(t, members, None, None)
  BY <1>5, <1>6, ShapeFacts DEF Open
<1>8. f # nil /\ Other(s) \in Sides
  BY <1>5, <1>7, SideFacts DEF Calm
<1>9. f \in members /\ f # w
  BY <1>2, <1>6, <1>7, <1>8, ChildFacts
<1>10. f \in Fields
  BY <1>7, <1>9
<1>11. Repaints(t, v) /\ Closes(t, v, p, w, f)
  BY <1>3, <1>7, <1>9, <1>10, ClosePainted
<1>12. v \in Tree /\ v.child = t.child /\ v.parent = t.parent
  BY <1>11 DEF Repaints
<1>13. /\ Balanced(u, members) /\ \E e : Shape(u, members, at, e)
       /\ ~u.red[p] /\ \A m \in Fields : u.red[m] => t.red[m] \/ m = w
  BY <1>2, <1>4, <1>5, <1>11, <1>12, CloseBalance
<1> QED
  BY <1>7, <1>13

(* A round of RB_DELETE_FIXUP_SUB with a red nephew closes the hole; x jumps  *)
(* to the copy of the top, which may no longer be the top and is black all    *)
(* the same.                                                                  *)
LEMMA DeleteRotateKeeps ==
  ASSUME NEW at, Laid(tree, members, at), Deleting(tree, members, x, top), DeleteRotate
  PROVE  Laid(tree', members', at) /\ Deleting(tree', members', x', top') /\ pc' = pc
<1>1. PICK t : t = BlackSibling
  OBVIOUS
<1>2. PICK s : s = SideOf
  OBVIOUS
<1>3. Fixing
  BY Zenon DEF DeleteRotate
<1>4. \E p : \E w : Opened(t, at, p, w)
  BY <1>1, <1>3, OpenFacts
<1>5. PICK p : \E w : Opened(t, at, p, w)
  BY <1>4
<1>6. PICK w : Opened(t, at, p, w)
  BY <1>5
<1>7. Open(t, members, at, x, p, s, w) /\ ~t.red[w]
  BY <1>2, <1>6 DEF Opened
<1>8. /\ t.parent[x] = p /\ w = t.child[Other(s)][p] /\ t \in Tree /\ w \in members /\ p \in members
      /\ w # p /\ s \in Sides
  BY <1>7 DEF Open
<1>9. PICK edge : Shape(t, members, at, edge)
  BY <1>7 DEF Open
<1>10. /\ members \subseteq Fields /\ members \subseteq Whole(members) /\ root \notin members
       /\ nil \notin members /\ Other(s) \in Sides /\ \A d \in Sides : d = s \/ d = Other(s)
  BY <1>8, <1>9, ShapeFacts, SideFacts
<1>11. t.parent[w] = p
  BY <1>8, <1>9, <1>10, ChildFacts
<1>12. top \in members /\ (top # p => ~t.red[top] /\ t.parent[top] = root)
  BY <1>6, <1>10 DEF Opened
<1>13. top # p => top # w
  BY <1>8, <1>10, <1>11, <1>12
<1>14. PICK f : f = IF t.red[t.child[Other(s)][w]] THEN t
                    ELSE Rotate(RedAt(BlackAt(t, t.child[s][w]), w), w, Other(s))
  OBVIOUS
<1>15. PICK v : v = f.child[Other(s)][p]
  OBVIOUS
<1>16. PICK u : Finishes(f, u, p, s, v)
  BY DEF Finishes
<1>17. tree' = u /\ x' = top /\ members' = members /\ top' = top /\ pc' = pc
  BY <1>1, <1>2, <1>8, <1>14, <1>15, <1>16, ZenonT(30) DEF DeleteRotate, Finishes, RedAt, BlackAt
<1>18. \E c \in Sides : t.red[t.child[c][w]]
  BY <1>1, <1>2, <1>8, Zenon DEF DeleteRotate
<1>19. /\ Open(f, members, at, x, p, s, v) /\ ~f.red[v] /\ f.red[f.child[Other(s)][v]]
       /\ top # p => ~f.red[top] /\ top # v
  <2>1. CASE t.red[t.child[Other(s)][w]]
    <3>1. f = t /\ v = w
      BY <1>8, <1>14, <1>15, <2>1
    <3> QED
      BY <1>7, <1>12, <1>13, <2>1, <3>1
  <2>2. CASE ~t.red[t.child[Other(s)][w]]
    <3>1. t.red[t.child[s][w]]
      BY <1>10, <1>18, <2>2
    <3>2. PICK b : b = t.child[s][w]
      OBVIOUS
    <3>3. Leans(t, f, s, w, b)
      BY <1>14, <2>2, <3>1, <3>2 DEF Leans
    <3>4. /\ Open(f, members, at, x, p, s, b) /\ ~f.red[b] /\ f.child[Other(s)][b] = w /\ f.red[w]
          /\ \A m \in Fields : f.red[m] => t.red[m] \/ m = w
          /\ \A m \in members : t.parent[m] = root => f.parent[m] = root
      BY <1>7, <2>2, <3>3, FarBalance
    <3>5. v = b
      BY <1>15, <3>4 DEF Open
    <3>6. f.red[f.child[Other(s)][v]]
      BY <3>4, <3>5
    <3>7. top # p => ~f.red[top]
      BY <1>10, <1>12, <1>13, <3>4
    <3>8. f.parent[b] = p
      <4>1. PICK e : Shape(f, members, at, e)
        BY <3>4 DEF Open
      <4>2. b = f.child[Other(s)][p] /\ b \in members
        BY <3>4 DEF Open
      <4> QED
        BY <1>8, <1>10, <4>1, <4>2, ChildFacts
    <3>9. top # p => top # b
      BY <1>8, <1>10, <1>12, <3>4, <3>8
    <3> QED
      BY <3>4, <3>5, <3>6, <3>7, <3>9
  <2> QED
    BY <2>1, <2>2
<1>20. Balanced(u, members) /\ (\E e : Shape(u, members, at, e)) /\ ~u.red[top]
  BY <1>2, <1>12, <1>16, <1>19, FinishBalance
<1>21. PICK e : Shape(u, members, at, e)
  BY <1>20
<1>22. Calm(u, members, top, top)
  BY <1>20, <1>21, CalmAll DEF Balanced
<1>23. Deleting(u, members, top, top)
  BY <1>12, <1>20, <1>22 DEF Deleting, Balanced
<1> QED
  BY <1>17, <1>21, <1>23 DEF Laid

-----------------------------------------------------------------------------
(* A tree out of which a node was taken: a black one leaves a hole at y, on    *)
(* side d of q.                                                               *)
Cut(t, M, at, y, q, d, red) ==
  /\ Laid(t, M, at) /\ y \in M \cup {nil}
  /\ Calm(t, M, y, y) /\ (red => Calm(t, M, None, None))
  /\ q \in Whole(M) /\ t.parent[y] = q /\ d \in Sides /\ t.child[d][q] = y
  /\ q = root => d = "left"
  /\ \E h : Even(t, M, h, IF red THEN NoHole ELSE <<q, d>>)

(* rb_delete takes out a node with one child at most: where it hung a hole is *)
(* left if it was black.                                                      *)
LEMMA SpliceCut ==
  ASSUME NEW t, NEW M, NEW at, NEW edge, Shape(t, M, at, edge), Balanced(t, M),
         NEW out \in M, NEW e \in Sides, t.child[e][out] = nil,
         NEW up, up = t.child[Other(e)][out],
         NEW p, p = t.parent[out], NEW s \in Sides, t.child[s][p] = out,
         NEW u, Splices(t, u, out, up, p, s)
  PROVE  Cut(u, M \ {out}, ShrunkAt(M, at, out), up, p, s, t.red[out])
<1> DEFINE N == M \ {out}
           r == t.red[out]
<1>1. PICK h : Even(t, M, h, NoHole)
  BY DEF Balanced
<1>2. Calm(t, M, None, None)
  BY DEF Balanced
<1>3. /\ u \in Tree /\ u.red = t.red
      /\ \A d \in Sides : \A m \in Fields : u.child[d][m] = IF m = p /\ d = s THEN up ELSE t.child[d][m]
      /\ \A m \in Fields : u.parent[m] = IF m = up THEN p ELSE t.parent[m]
  BY DEF Splices
<1>4. /\ nil \notin M /\ M \subseteq Whole(M) /\ Whole(M) \subseteq Fields /\ nil \in Fields
      /\ None \notin M /\ None # nil /\ t \in Tree /\ root \notin M /\ root \in Fields
      /\ root \in Whole(M) /\ "left" \in Sides /\ out # nil /\ out \in Fields /\ out \in Whole(M)
  BY ShapeFacts, RBTreeAssumption DEF Fields, Sides
<1>5. p \in Whole(M) /\ p # out /\ p \in Fields /\ p \in Whole(N) /\ (p = root => t.child["left"][root] = out)
  <2>1. p \in Whole(M) /\ p # out /\ (p = root => t.child["left"][root] = out)
    BY ParentFacts
  <2> QED
    BY <1>4, <2>1 DEF Whole
<1>6. Laid(u, N, ShrunkAt(M, at, out))
  <2>1. Shape(u, N, ShrunkAt(M, at, out), ShrunkEdge(M, at, edge, out))
    BY <1>3, SpliceShape
  <2> QED
    BY <2>1 DEF Laid
<1>7. Other(e) \in Sides /\ Other(s) \in Sides /\ \A d \in Sides : d = s \/ d = Other(s)
  BY SideFacts
<1>8. up \in M \cup {nil} /\ up # out /\ up \in Fields
  <2>1. up \in M \cup {nil}
    BY <1>1, <1>4, <1>7, EvenFacts
  <2>2. up # out
    <3>1. CASE up # nil
      <4> DEFINE o == Other(e)
      <4>1. up = t.child[o][out] /\ o \in Sides
        BY <1>7
      <4> HIDE DEF o
      <4> QED
        BY <1>4, <3>1, <4>1, ChildFacts
    <3> QED
      BY <1>4, <3>1
  <2> QED
    BY <1>4, <2>1, <2>2
<1>9. p = root => s = "left"
  <2>1. CASE p = root /\ s = "right"
    <3>1. t.child["right"][root] = nil
      BY DEF Shape
    <3> QED
      BY <1>4, <2>1, <3>1
  <2> QED
    BY <2>1 DEF Sides
<1>10. /\ \A m \in M : h[m] \in Nat /\ Black(t, m) \in Nat
       /\ \A m \in Whole(M) : \A d \in Sides : t.child[d][m] \in M \cup {nil} /\ h[t.child[d][m]] \in Nat
                                               /\ t.child[d][m] \in Fields
       /\ \A m \in M : \A d \in Sides :
            h[m] = h[t.child[d][m]] + Black(t, m) + Missing(NoHole, m, d)
       /\ h[nil] = 0
  BY <1>1, EvenFacts
<1>11. \A m \in M : \A d \in Sides : Missing(NoHole, m, d) = 0
  BY <1>4 DEF Missing, NoHole
<1>12. h[out] = h[up] + Black(t, out) /\ h[up] \in Nat
  <2> DEFINE o == Other(e)
  <2>1. up = t.child[o][out] /\ o \in Sides
    BY <1>7
  <2> HIDE DEF o
  <2>2. h[out] = h[up] + Black(t, out) + Missing(NoHole, out, o)
    BY <1>10, <2>1
  <2> QED
    BY <1>4, <1>10, <1>11, <2>1, <2>2
<1> DEFINE h2 == [m \in N \cup {nil} |-> h[m]]
           hole == IF r THEN NoHole ELSE <<p, s>>
<1>13. h2 \in [N \cup {nil} -> Nat] /\ \A m \in N \cup {nil} : h2[m] = h[m]
  BY <1>10
<1> HIDE DEF h2
<1>14. /\ r => \A m \in M : \A d \in Sides : Missing(hole, m, d) = 0
       /\ ~r => /\ Missing(hole, p, s) = 1
                /\ \A m \in M : \A d \in Sides : m # p \/ d # s => Missing(hole, m, d) = 0
  BY <1>11 DEF Missing
<1>15. (r => Black(t, out) = 0) /\ (~r => Black(t, out) = 1)
  BY DEF Black
<1> HIDE DEF hole
<1>16. \A m \in N : \A d \in Sides : ~(m = p /\ d = s) => t.child[d][m] # out /\ t.child[d][m] \in N \cup {nil}
  <2> SUFFICES ASSUME NEW m \in N, NEW d \in Sides, ~(m = p /\ d = s), t.child[d][m] = out
               PROVE  FALSE
    BY <1>4, <1>10
  <2>1. m \in Whole(M)
    BY <1>4
  <2>2. t.parent[out] = m
    BY <1>4, <2>1, ChildFacts
  <2>3. t.child[Other(d)][m] # out
    BY <1>4, <2>1, ChildFacts
  <2>4. m = p
    BY <2>2
  <2>5. d # s
    BY <2>4
  <2>6. s = Other(d)
    BY <2>5, SideFacts
  <2> QED
    BY <2>3, <2>4, <2>6
<1>17. ASSUME NEW m \in N, NEW d \in Sides
       PROVE  h2[m] = h2[u.child[d][m]] + Black(u, m) + Missing(hole, m, d)
  <2>1. m \in M /\ m \in Whole(M) /\ m \in Fields /\ h2[m] = h[m] /\ Black(u, m) = Black(t, m)
    BY <1>3, <1>4, <1>13 DEF Black
  <2>2. h[m] = h[t.child[d][m]] + Black(t, m) /\ h[m] \in Nat /\ h[t.child[d][m]] \in Nat /\ Black(t, m) \in Nat
    BY <1>10, <1>11, <2>1
  <2>3. CASE m = p /\ d = s
    <3>1. u.child[d][m] = up /\ t.child[d][m] = out /\ h2[up] = h[up]
      BY <1>3, <1>8, <1>13, <2>1, <2>3
    <3>2. Missing(hole, m, d) = Black(t, out)
      BY <1>14, <1>15, <2>1, <2>3
    <3> QED
      BY <1>12, <2>1, <2>2, <3>1, <3>2, <1>4, <1>10
  <2>4. CASE ~(m = p /\ d = s)
    <3>1. u.child[d][m] = t.child[d][m] /\ h2[t.child[d][m]] = h[t.child[d][m]]
      BY <1>3, <1>13, <1>16, <2>1, <2>4
    <3>2. Missing(hole, m, d) = 0
      BY <1>14, <2>1, <2>4
    <3> QED
      BY <2>1, <2>2, <3>1, <3>2
  <2> QED
    BY <2>3, <2>4
<1>18. Even(u, N, h2, hole)
  BY <1>10, <1>13, <1>17 DEF Even
<1>19. ASSUME NEW m \in N, NEW d \in Sides, u.red[m], u.red[u.child[d][m]]
       PROVE  u.child[d][m] = up /\ ~r
  <2>1. m \in M /\ m \in Whole(M) /\ m \in Fields /\ t.red[m]
    BY <1>3, <1>4, <1>19
  <2>2. m = p /\ d = s
    <3>1. CASE ~(m = p /\ d = s)
      <4>1. t.red[t.child[d][m]] /\ t.child[d][m] # None
        BY <1>3, <1>4, <1>10, <1>19, <2>1, <3>1
      <4> QED
        BY <1>2, <1>4, <2>1, <4>1 DEF Calm
    <3> QED
      BY <3>1
  <2>3. u.child[d][m] = up
    BY <1>3, <2>1, <2>2
  <2>4. ~r
    BY <1>2, <1>4, <2>1, <2>2 DEF Calm
  <2> QED
    BY <2>3, <2>4
<1>20. ASSUME u.red[u.child["left"][root]]
       PROVE  u.child["left"][root] = up /\ ~r
  <2>1. t.child["left"][root] # None
    BY <1>4, <1>10
  <2>2. ~t.red[t.child["left"][root]]
    BY <1>2, <1>4, <2>1, <1>10 DEF Calm
  <2>3. p = root /\ s = "left"
    BY <1>3, <1>4, <1>20, <2>2
  <2> QED
    BY <1>3, <1>4, <1>5, <2>2, <2>3
<1>21. ~u.red[nil] /\ ~u.red[root]
  BY <1>2, <1>3 DEF Calm
<1>22. Calm(u, N, up, up) /\ (r => Calm(u, N, None, None))
  BY <1>19, <1>20, <1>21 DEF Calm
<1>23. u.parent[up] = p /\ u.child[s][p] = up
  BY <1>3, <1>5, <1>8
<1>24. up \in N \cup {nil}
  BY <1>8
<1> QED
  BY <1>5, <1>6, <1>9, <1>18, <1>22, <1>23, <1>24 DEF Cut, hole

(* The node that was taken out stands in for another: the hole stays where it *)
(* is.                                                                        *)
LEMMA TakeCut ==
  ASSUME NEW t, NEW M, NEW at, NEW y, NEW q, NEW d, NEW r, Cut(t, M, at, y, q, d, r),
         NEW n \in Nodes, n \notin M, NEW z \in M, y # z,
         q # z => \A c \in Sides : t.child[c][z] # y,
         NEW p, p = t.parent[z], NEW s \in Sides, t.child[s][p] = z,
         NEW u, Takes(t, u, z, n, p, s)
  PROVE  Cut(u, (M \ {z}) \cup {n}, InPlaceOf(M, at, z, n), y, IF q = z THEN n ELSE q, d, r)
<1> DEFINE N == (M \ {z}) \cup {n}
           q2 == IF q = z THEN n ELSE q
           hole == IF r THEN NoHole ELSE <<q, d>>
           hole2 == IF r THEN NoHole ELSE <<q2, d>>
<1>1. /\ Laid(t, M, at) /\ y \in M \cup {nil}
      /\ Calm(t, M, y, y) /\ (r => Calm(t, M, None, None))
      /\ q \in Whole(M) /\ t.parent[y] = q /\ d \in Sides /\ t.child[d][q] = y
      /\ q = root => d = "left"
      /\ \E h : Even(t, M, h, hole)
  BY DEF Cut
<1>2. \E edge : Shape(t, M, at, edge)
  BY <1>1 DEF Laid
<1>3. PICK edge : Shape(t, M, at, edge)
  BY <1>2
<1>4. PICK h : Even(t, M, h, hole)
  BY <1>1
<1>5. /\ u \in Tree
      /\ \A c \in Sides : \A m \in Fields : u.child[c][m] =
           IF m = n THEN t.child[c][z] ELSE IF m = p /\ c = s THEN n ELSE t.child[c][m]
      /\ \A m \in Fields : u.parent[m] =
           IF m = n THEN p
           ELSE IF m = t.child["left"][z] \/ m = t.child["right"][z] THEN n
           ELSE t.parent[m]
      /\ \A m \in Fields : u.red[m] = IF m = n THEN t.red[z] ELSE t.red[m]
  BY DEF Takes
<1>6. /\ nil \notin M /\ M \subseteq Whole(M) /\ Whole(M) \subseteq Fields /\ nil \in Fields
      /\ None \notin M /\ None # nil /\ t \in Tree /\ root \notin M /\ root \in Fields
      /\ root \in Whole(M) /\ "left" \in Sides /\ "right" \in Sides /\ z # nil /\ z \in Fields /\ z \in Whole(M)
      /\ n \in Fields /\ n # nil /\ n # root /\ n \notin Whole(M) /\ None # n /\ n # z /\ z # root
      /\ y \in Fields /\ q \in Fields /\ y # n /\ q # n
  <2>1. t \in Tree /\ M \subseteq Nodes /\ nil \notin M /\ root \notin M
    BY <1>3, ShapeFacts, RBTreeAssumption
  <2>2. M \subseteq Whole(M) /\ Whole(M) \subseteq Fields /\ root \in Whole(M)
    BY <2>1 DEF Whole, Fields
  <2>3. nil \in Fields /\ root \in Fields /\ n \in Fields /\ z \in Fields /\ z \in Whole(M) /\ "left" \in Sides /\ "right" \in Sides
    BY <2>1, <2>2 DEF Fields, Sides
  <2>4. n # nil /\ n # root /\ None # n /\ None # nil /\ None \notin M
    BY <2>1, <2>2, <2>3, RBTreeAssumption
  <2>5. n \notin Whole(M) /\ n # z /\ z # root /\ z # nil
    BY <2>1, <2>4 DEF Whole
  <2>6. y \in Fields /\ q \in Fields /\ y # n /\ q # n
    BY <1>1, <2>1, <2>2, <2>3, <2>4, <2>5
  <2> QED
    BY <2>1, <2>2, <2>3, <2>4, <2>5, <2>6
<1>7. Laid(u, N, InPlaceOf(M, at, z, n))
  <2>1. Shape(u, N, InPlaceOf(M, at, z, n), [c \in Sides |-> InPlaceOf(M, edge[c], z, n)])
    BY <1>3, TakeShape
  <2> QED
    BY <2>1 DEF Laid
<1>8. /\ \A m \in M : h[m] \in Nat /\ Black(t, m) \in Nat
      /\ \A m \in Whole(M) : \A c \in Sides : t.child[c][m] \in M \cup {nil} /\ h[t.child[c][m]] \in Nat
                                              /\ t.child[c][m] \in Fields
      /\ \A m \in M : \A c \in Sides :
           h[m] = h[t.child[c][m]] + Black(t, m) + Missing(hole, m, c)
      /\ h[nil] = 0
  BY <1>3, <1>4, EvenFacts
<1>9. /\ p \in Whole(M) /\ p # z /\ p \in Fields /\ p # n
      /\ \A m \in Whole(M) : \A c \in Sides : t.child[c][m] = z => m = p /\ c = s
  <2>1. p \in Whole(M) /\ p # z
    BY <1>3, ParentFacts
  <2>2. ASSUME NEW m \in Whole(M), NEW c \in Sides, t.child[c][m] = z
        PROVE  m = p /\ c = s
    <3>1. m = p
      BY <1>3, <1>6, <2>2, ChildFacts
    <3>2. t.child[Other(c)][m] # z
      BY <1>3, <1>6, <2>2, ChildFacts
    <3> QED
      BY <3>1, <3>2, SideFacts
  <2> QED
    BY <1>6, <2>1, <2>2
<1>10. /\ \A c \in Sides : u.child[c][n] = t.child[c][z] /\ t.child[c][z] # n
       /\ \A m \in Whole(M) : \A c \in Sides : m # z =>
            /\ t.child[c][m] = z => u.child[c][m] = n
            /\ t.child[c][m] # z => u.child[c][m] = t.child[c][m]
            /\ t.child[c][m] # n
  <2>1. \A m \in Whole(M) : m # n /\ m \in Fields
    BY <1>6
  <2>2. \A m \in Whole(M) : \A c \in Sides : t.child[c][m] # n
    BY <1>6, <1>8
  <2>3. \A c \in Sides : u.child[c][n] = t.child[c][z] /\ t.child[c][z] # n
    BY <1>5, <1>6, <2>2
  <2>4. \A m \in Whole(M) : \A c \in Sides : (m = p /\ c = s) <=> t.child[c][m] = z
    BY <1>9
  <2>5. \A m \in Whole(M) : \A c \in Sides : u.child[c][m] = IF t.child[c][m] = z THEN n ELSE t.child[c][m]
    BY <1>5, <2>1, <2>4
  <2> QED
    BY <2>2, <2>3, <2>5
<1>11. /\ u.red[n] = t.red[z] /\ \A m \in Fields : m # n => u.red[m] = t.red[m]
  BY <1>5, <1>6
<1>12. /\ \A c \in Sides : Missing(hole2, n, c) = Missing(hole, z, c)
       /\ \A m \in M : \A c \in Sides : m # z => Missing(hole2, m, c) = Missing(hole, m, c)
  BY <1>6 DEF Missing, NoHole
<1> HIDE DEF hole, hole2
<1> DEFINE h2 == [m \in N \cup {nil} |-> IF m = n THEN h[z] ELSE h[m]]
<1>13. /\ h2 \in [N \cup {nil} -> Nat] /\ h2[n] = h[z]
       /\ \A m \in M \cup {nil} : m # z => h2[m] = h[m]
  BY <1>6, <1>8
<1> HIDE DEF h2
<1>14. Black(u, n) = Black(t, z) /\ \A m \in M : Black(u, m) = Black(t, m)
  BY <1>6, <1>11 DEF Black
<1>15. ASSUME NEW m \in N, NEW c \in Sides
       PROVE  h2[m] = h2[u.child[c][m]] + Black(u, m) + Missing(hole2, m, c)
  <2>1. CASE m = n
    <3>1. h[z] = h[t.child[c][z]] + Black(t, z) + Missing(hole, z, c)
      BY <1>8
    <3>2. t.child[c][z] # z /\ t.child[c][z] \in M \cup {nil}
      BY <1>6, <1>8, <1>9
    <3>3. h2[u.child[c][m]] = h[t.child[c][z]]
      BY <1>10, <1>13, <2>1, <3>2
    <3> QED
      BY <1>12, <1>13, <1>14, <2>1, <3>1, <3>3
  <2>2. CASE m # n
    <3>0. m \in M /\ m # z /\ m \in Whole(M)
      BY <1>6, <2>2
    <3>1. h[m] = h[t.child[c][m]] + Black(t, m) + Missing(hole, m, c)
      BY <1>8, <3>0
    <3>2. h2[u.child[c][m]] = h[t.child[c][m]]
      <4>1. CASE t.child[c][m] = z
        BY <1>10, <1>13, <3>0, <4>1
      <4>2. CASE t.child[c][m] # z
        BY <1>8, <1>10, <1>13, <3>0, <4>2
      <4> QED
        BY <4>1, <4>2
    <3> QED
      BY <1>12, <1>13, <1>14, <3>0, <3>1, <3>2
  <2> QED
    BY <2>1, <2>2
<1>16. Even(u, N, h2, hole2)
  BY <1>6, <1>8, <1>13, <1>15 DEF Even
<1>17. ASSUME NEW low, low # z, Calm(t, M, low, low)
       PROVE  Calm(u, N, low, low)
  <2>1. ~u.red[nil] /\ ~u.red[root]
    BY <1>6, <1>11, <1>17 DEF Calm
  <2>2. ASSUME NEW m \in N, NEW c \in Sides, u.red[m], u.red[u.child[c][m]]
        PROVE  u.child[c][m] = low \/ m = low
    <3>1. CASE m = n
      <4>1. t.red[z] /\ t.red[t.child[c][z]]
        BY <1>6, <1>8, <1>10, <1>11, <2>2, <3>1
      <4> QED
        BY <1>10, <1>17, <3>1, <4>1 DEF Calm
    <3>2. CASE m # n
      <4>0. m \in M /\ m # z /\ m \in Whole(M) /\ m \in Fields
        BY <1>6, <3>2
      <4>1. t.red[m]
        BY <1>11, <2>2, <3>2, <4>0
      <4>2. CASE t.child[c][m] = z
        <5>1. t.red[z]
          BY <1>10, <1>11, <2>2, <4>0, <4>2
        <5> QED
          BY <1>17, <4>0, <4>1, <4>2, <5>1 DEF Calm
      <4>3. CASE t.child[c][m] # z
        <5>1. u.child[c][m] = t.child[c][m] /\ t.child[c][m] # n /\ t.child[c][m] \in Fields
          BY <1>8, <1>10, <4>0, <4>3
        <5>2. t.red[t.child[c][m]]
          BY <1>11, <2>2, <5>1
        <5> QED
          BY <1>17, <4>0, <4>1, <5>1, <5>2 DEF Calm
      <4> QED
        BY <4>2, <4>3
    <3> QED
      BY <3>1, <3>2
  <2>3. ASSUME u.red[u.child["left"][root]]
        PROVE  u.child["left"][root] = low
    <3>1. CASE t.child["left"][root] = z
      <4>1. t.red[z]
        BY <1>6, <1>10, <1>11, <2>3, <3>1
      <4> QED
        BY <1>17, <3>1, <4>1 DEF Calm
    <3>2. CASE t.child["left"][root] # z
      <4>1. /\ u.child["left"][root] = t.child["left"][root] /\ t.child["left"][root] # n
            /\ t.child["left"][root] \in Fields
        BY <1>6, <1>8, <1>10, <3>2
      <4>2. t.red[t.child["left"][root]]
        BY <1>11, <2>3, <4>1
      <4> QED
        BY <1>17, <4>1, <4>2 DEF Calm
    <3> QED
      BY <3>1, <3>2
  <2> QED
    BY <2>1, <2>2, <2>3 DEF Calm
<1>18. Calm(u, N, y, y) /\ (r => Calm(u, N, None, None))
  BY <1>1, <1>6, <1>17
<1>19. u.parent[y] = q2 /\ u.child[d][q2] = y
  <2>1. CASE q = z
    <3>1. y = t.child["left"][z] \/ y = t.child["right"][z]
      BY <1>1, <2>1 DEF Sides
    <3> QED
      BY <1>1, <1>5, <1>6, <1>10, <2>1, <3>1
  <2>2. CASE q # z
    <3>1. y # t.child["left"][z] /\ y # t.child["right"][z]
      BY <1>6, <2>2
    <3>2. u.parent[y] = q
      BY <1>1, <1>5, <1>6, <3>1
    <3> QED
      BY <1>1, <1>10, <2>2, <3>2
  <2> QED
    BY <2>1, <2>2
<1>20. q2 \in Whole(N) /\ y \in N \cup {nil} /\ (q2 = root => d = "left")
  BY <1>1, <1>6 DEF Whole
<1> QED
  BY <1>1, <1>7, <1>16, <1>18, <1>19, <1>20 DEF Cut, hole2

(* u is t without what z holds. *)
Drops(t, u, z) ==
  /\ u \in Tree
  /\ \A d \in Sides : \A m \in Fields : u.child[d][m] = IF m = z THEN nil ELSE t.child[d][m]
  /\ \A m \in Fields : u.parent[m] = IF m = z THEN nil ELSE t.parent[m]
  /\ \A m \in Fields : u.red[m] = IF m = z THEN FALSE ELSE t.red[m]

(* Drop writes no field of another node.                                      *)
LEMMA Dropped ==
  ASSUME NEW t \in Tree, NEW z \in Fields, NEW u, u = Drop(t, z)
  PROVE  Drops(t, u, z)
<1>1. /\ Drop(t, z) \in Tree
      /\ \A d \in Sides : \A m \in Fields : Drop(t, z).child[d][m] =
              IF m = z THEN nil ELSE t.child[d][m]
      /\ \A m \in Fields : Drop(t, z).parent[m] = IF m = z THEN nil ELSE t.parent[m]
      /\ \A m \in Fields : Drop(t, z).red[m] = IF m = z THEN FALSE ELSE t.red[m]
  BY DropFields
<1>2. PICK v : v = Drop(t, z)
  OBVIOUS
<1>3. Drops(t, v, z)
  BY <1>1, <1>2 DEF Drops
<1> QED
  BY <1>2, <1>3

(* What is no longer in the tree can be written: the tree is as it was.       *)
LEMMA DropCut ==
  ASSUME NEW t, NEW M, NEW at, NEW y, NEW q, NEW d, NEW r, Cut(t, M, at, y, q, d, r),
         NEW z \in Nodes, z \notin M, NEW u, Drops(t, u, z)
  PROVE  Cut(u, M, at, y, q, d, r) /\ u \in Tree
<1> DEFINE hole == IF r THEN NoHole ELSE <<q, d>>
<1>1. /\ Laid(t, M, at) /\ y \in M \cup {nil}
      /\ Calm(t, M, y, y) /\ (r => Calm(t, M, None, None))
      /\ q \in Whole(M) /\ t.parent[y] = q /\ d \in Sides /\ t.child[d][q] = y
      /\ q = root => d = "left"
      /\ \E h : Even(t, M, h, hole)
  BY DEF Cut
<1>2. \E edge : Shape(t, M, at, edge)
  BY <1>1 DEF Laid
<1>3. PICK edge : Shape(t, M, at, edge)
  BY <1>2
<1>4. PICK h : Even(t, M, h, hole)
  BY <1>1
<1>5. /\ nil \notin M /\ M \subseteq Whole(M) /\ Whole(M) \subseteq Fields /\ nil \in Fields
      /\ t \in Tree /\ root \in Whole(M) /\ "left" \in Sides /\ z # nil /\ z \in Fields /\ z # root
      /\ z \notin Whole(M) /\ y # z /\ y \in Fields
  BY <1>1, <1>3, ShapeFacts, RBTreeAssumption DEF Fields, Sides, Whole
<1>6. /\ u \in Tree
      /\ \A c \in Sides : \A m \in Fields : u.child[c][m] = IF m = z THEN nil ELSE t.child[c][m]
      /\ \A m \in Fields : u.parent[m] = IF m = z THEN nil ELSE t.parent[m]
      /\ \A m \in Fields : u.red[m] = IF m = z THEN FALSE ELSE t.red[m]
  BY DEF Drops
<1>7. /\ \A m \in Whole(M) : \A c \in Sides : u.child[c][m] = t.child[c][m] /\ t.child[c][m] # z
                                              /\ t.child[c][m] \in Fields
      /\ \A m \in M : u.parent[m] = t.parent[m]
  <2>1. \A m \in Whole(M) : \A c \in Sides : t.child[c][m] \in M \cup {nil} /\ t.child[c][m] \in Fields
    BY <1>3, <1>4, EvenFacts
  <2> QED
    BY <1>5, <1>6, <2>1
<1>8. Shape(u, M, at, edge)
  BY <1>3, <1>6, <1>7, ShapeSame
<1>9. \A m \in Fields : m # z => u.red[m] = t.red[m]
  BY <1>6
<1>10. \A m \in M : Black(u, m) = Black(t, m)
  BY <1>5, <1>9 DEF Black
<1>11. Even(u, M, h, hole)
  BY <1>4, <1>5, <1>7, <1>10 DEF Even
<1>12. ASSUME NEW low, Calm(t, M, low, low)
       PROVE  Calm(u, M, low, low)
  <2>1. \A m \in Whole(M) : u.red[m] = t.red[m]
    BY <1>5, <1>9
  <2>2. \A m \in Whole(M) : \A c \in Sides : u.red[u.child[c][m]] = t.red[t.child[c][m]]
    BY <1>7, <1>9
  <2>3. u.red[nil] = t.red[nil]
    BY <1>5, <1>9
  <2> QED
    BY <1>5, <1>7, <1>12, <2>1, <2>2, <2>3 DEF Calm
<1>13. u.parent[y] = q /\ u.child[d][q] = y
  BY <1>1, <1>5, <1>6, <1>7
<1> QED
  BY <1>1, <1>6, <1>8, <1>11, <1>12, <1>13 DEF Cut, Laid

(* The tree once out's only child has its place, as rb_delete makes it.       *)
LEMMA Spliced ==
  ASSUME NEW t, NEW M, NEW at, NEW edge, Shape(t, M, at, edge),
         NEW out \in M, NEW e \in Sides, t.child[e][out] = nil,
         NEW up, up = t.child[Other(e)][out],
         NEW p, p = t.parent[out], NEW s \in Sides, t.child[s][p] = out,
         NEW u, u = Replace([t EXCEPT !.parent[up] = p], out, up)
  PROVE  Splices(t, u, out, up, p, s)
<1>1. /\ t \in Tree /\ out \in Fields /\ nil \in Fields /\ out \in Whole(M) /\ out # nil /\ Other(e) \in Sides
      /\ Whole(M) \subseteq Fields /\ M \subseteq Fields
  BY ShapeFacts, SideFacts, RBTreeAssumption DEF Fields
<1>2. p \in Whole(M) /\ p \in Fields /\ t.child[Other(s)][p] # out
  <2>1. p \in Whole(M)
    BY ParentFacts
  <2>2. t.child[Other(s)][p] # out
    BY <1>1, <2>1, ChildFacts
  <2> QED
    BY <1>1, <2>1, <2>2
<1>3. up \in Fields /\ up # out
  <2>1. CASE up = nil
    BY <1>1, <2>1
  <2>2. CASE up # nil
    BY <1>1, <2>2, ChildFacts
  <2> QED
    BY <2>1, <2>2
<1>4. PICK v : v = [t EXCEPT !.parent[up] = p]
  OBVIOUS
<1>5. v = [t EXCEPT !.parent = [t.parent EXCEPT ![up] = p]] /\ t.parent \in [Fields -> Fields]
  BY <1>1, <1>4 DEF Tree
<1>6. /\ v \in Tree /\ v.child = t.child /\ v.red = t.red
      /\ \A m \in Fields : v.parent[m] = IF m = up THEN p ELSE t.parent[m]
  BY <1>1, <1>2, <1>3, <1>5 DEF Tree
<1>7. v.parent[out] = p /\ v.child[s][p] = out /\ v.child[Other(s)][p] # out
  BY <1>1, <1>2, <1>3, <1>6
<1>8. PICK w : w = Replace(v, out, up)
  OBVIOUS
<1>9. /\ w \in Tree /\ w.parent = v.parent /\ w.red = v.red
      /\ \A d \in Sides : \A k \in Fields : w.child[d][k] = IF k = p /\ d = s THEN up ELSE v.child[d][k]
  BY <1>1, <1>3, <1>6, <1>7, <1>8, ReplaceFields
<1>10. Splices(t, w, out, up, p, s)
  BY <1>6, <1>9 DEF Splices
<1> QED
  BY <1>4, <1>8, <1>10

(* The tree once n, which is outside it, has z's place.                       *)
LEMMA Taken ==
  ASSUME NEW t, NEW M, NEW at, NEW edge, Shape(t, M, at, edge),
         NEW z \in M, NEW n \in Nodes, n \notin M, NEW p, p = t.parent[z],
         NEW s \in Sides, t.child[s][p] = z, NEW u, u = Take(t, z, n)
  PROVE  Takes(t, u, z, n, p, s)
<1>1. /\ t \in Tree /\ z \in Fields /\ n \in Fields /\ z \in Whole(M) /\ n \notin Whole(M) /\ n # nil /\ z # n
      /\ M \subseteq Whole(M)
  BY ShapeFacts, RBTreeAssumption DEF Fields, Whole
<1>2. p \in Whole(M) /\ p # z /\ p # n
  BY <1>1, ParentFacts
<1>3. t.child[Other(s)][p] # z
  <2>1. z # nil
    BY ParentFacts
  <2> QED
    BY <1>2, <2>1, ChildFacts
<1>4. \A d \in Sides : t.child[d][z] # n
  <2> SUFFICES ASSUME NEW d \in Sides, t.child[d][z] = n
               PROVE  FALSE
    OBVIOUS
  <2>1. n \in M
    BY <1>1, ChildFacts
  <2> QED
    BY <2>1
<1>5. PICK v : v = Take(t, z, n)
  OBVIOUS
<1>6. /\ v \in Tree
      /\ \A d \in Sides : \A m \in Fields : v.child[d][m] =
           IF m = n THEN t.child[d][z] ELSE IF m = p /\ d = s THEN n ELSE t.child[d][m]
      /\ \A m \in Fields : v.parent[m] =
           IF m = n THEN p
           ELSE IF m = t.child["left"][z] \/ m = t.child["right"][z] THEN n
           ELSE t.parent[m]
      /\ \A m \in Fields : v.red[m] = IF m = n THEN t.red[z] ELSE t.red[m]
  BY <1>1, <1>2, <1>3, <1>4, <1>5, TakeFields
<1>7. Takes(t, v, z, n, p, s)
  BY <1>6 DEF Takes
<1> QED
  BY <1>5, <1>7

(* The node rb_delete takes out: z itself if it misses a child, and the next  *)
(* one in order, which has no left child, if not.                             *)
OutNode(t, z) == IF \E s \in Sides : t.child[s][z] = nil THEN z ELSE Adjacent(t, z, "right")

(* The child that node has, nil if none.                                      *)
OnlyChild(t, n) == IF t.child["left"][n] # nil THEN t.child["left"][n] ELSE t.child["right"][n]

(* The node that rb_delete unlinks has one child at most, and if it is not z  *)
(* it is the one behind z.                                                    *)
LEMMA OutFacts ==
  ASSUME NEW t, NEW M, NEW at, NEW edge, Shape(t, M, at, edge), NEW z \in M,
         NEW out, out = OutNode(t, z), NEW up, up = OnlyChild(t, out)
  PROVE  /\ out \in M /\ \E e \in Sides : t.child[e][out] = nil /\ up = t.child[Other(e)][out]
         /\ out # z => at[out] = at[z] + 1 /\ up # z /\ \A c \in Sides : t.child[c][z] # nil
<1>0. z \in Whole(M) /\ "left" \in Sides /\ "right" \in Sides /\ Other("left") = "right" /\ Other("right") = "left"
      /\ M \subseteq Whole(M) /\ \A c \in Sides : c = "left" \/ c = "right"
  BY ShapeFacts DEF Sides, Other
<1>1. \A d \in Sides : t.child[d][out] = nil => \E e \in Sides : t.child[e][out] = nil /\ up = t.child[Other(e)][out]
  BY <1>0 DEF OnlyChild
<1>2. CASE \E s \in Sides : t.child[s][z] = nil
  BY <1>1, <1>2 DEF OutNode
<1>3. CASE ~ \E s \in Sides : t.child[s][z] = nil
  <2>1. PICK r : r = t.child["right"][z]
    OBVIOUS
  <2>2. r # nil
    BY <1>0, <1>3, <2>1
  <2>3. out = Outermost(t, r, "left")
    BY <1>0, <1>3, <2>1, <2>2 DEF OutNode, Adjacent
  <2>4. r \in M
    BY <1>0, <2>1, <2>2, ChildFacts
  <2>5. out \in M /\ t.child["left"][out] = nil /\ at[out] = edge["left"][r]
    BY <1>0, <2>3, <2>4, OutermostFacts
  <2>6. edge["left"][r] = at[z] + 1
    <3>1. Hangs(t, M, at, edge, z, "right")
      BY <1>0, ShapeFacts
    <3> QED
      BY <1>0, <2>1, <2>2, <3>1 DEF Hangs, Step
  <2>7. at[z] \in Int /\ at[out] \in Int /\ at[out] > at[z]
    <3>1. at[z] \in Int /\ at[out] \in Int
      BY <1>0, <2>5, ShapeFacts
    <3> QED
      BY <2>5, <2>6, <3>1
  <2>8. up # z
    <3>1. up = t.child["right"][out]
      BY <2>5 DEF OnlyChild
    <3>2. up # nil => at[out] < at[up]
      BY <1>0, <2>5, <3>1, ChildFacts
    <3>3. z # nil
      BY ParentFacts
    <3> QED
      BY <2>7, <3>2, <3>3
  <2> QED
    BY <1>0, <1>1, <1>3, <2>5, <2>6, <2>8
<1> QED
  BY <1>2, <1>3

(* What rb_delete makes of the tree before its fix-up.                        *)
Deleted(t, z, out, up) ==
  LET spliced == Replace([t EXCEPT !.parent[up] = t.parent[out]], out, up)
  IN Drop(IF out = z THEN spliced ELSE Take(spliced, z, out), z)

(* Whichever node rb_delete unlinks, the tree it leaves is the one without z. *)
LEMMA DeletedCut ==
  ASSUME NEW t, NEW M, NEW at, Laid(t, M, at), Balanced(t, M), NEW z \in M,
         NEW out, out = OutNode(t, z), NEW up, up = OnlyChild(t, out),
         NEW u, u = Deleted(t, z, out, up)
  PROVE  u \in Tree /\ \E q : \E d : Cut(u, M \ {z}, ShrunkAt(M, at, z), up, q, d, t.red[out])
<1>1. \E edge : Shape(t, M, at, edge)
  BY DEF Laid
<1>2. PICK edge : Shape(t, M, at, edge)
  BY <1>1
<1>3. /\ out \in M
      /\ out # z => at[out] = at[z] + 1 /\ up # z /\ \A c \in Sides : t.child[c][z] # nil
      /\ \E e \in Sides : t.child[e][out] = nil /\ up = t.child[Other(e)][out]
  BY <1>2, OutFacts
<1>4. PICK e \in Sides : t.child[e][out] = nil /\ up = t.child[Other(e)][out]
  BY <1>3
<1>5. PICK p : p = t.parent[out]
  OBVIOUS
<1>6. PICK s \in Sides : t.child[s][p] = out
  BY <1>2, <1>3, <1>5, ParentFacts
<1>7. PICK v : v = Replace([t EXCEPT !.parent[up] = p], out, up)
  OBVIOUS
<1>8. Splices(t, v, out, up, p, s)
  BY <1>2, <1>3, <1>4, <1>5, <1>6, <1>7, Spliced
<1>9. PICK r : r = t.red[out]
  OBVIOUS
<1>10. Cut(v, M \ {out}, ShrunkAt(M, at, out), up, p, s, r)
  BY <1>2, <1>3, <1>4, <1>5, <1>6, <1>8, <1>9, SpliceCut
<1>11. out \in Nodes /\ z \in Nodes /\ M \subseteq Whole(M) /\ M \subseteq Fields
  BY <1>2, <1>3, ShapeFacts DEF Fields
<1>12. CASE out = z
  <2>1. u = Drop(v, z)
    BY <1>5, <1>7, <1>12 DEF Deleted
  <2>2. v \in Tree
    BY <1>8 DEF Splices
  <2>3. Drops(v, u, z)
    BY <1>11, <2>1, <2>2, Dropped
  <2>4. Cut(v, M \ {z}, ShrunkAt(M, at, z), up, p, s, r) /\ z \notin M \ {z}
    BY <1>10, <1>12
  <2>5. Cut(u, M \ {z}, ShrunkAt(M, at, z), up, p, s, r) /\ u \in Tree
    BY <1>11, <2>3, <2>4, DropCut
  <2> QED
    BY <1>9, <2>5
<1>13. CASE out # z
  <2> DEFINE N == M \ {out}
  <2>1. z \in N /\ out \notin N /\ up # z /\ \A c \in Sides : t.child[c][z] # nil
    BY <1>3, <1>13
  <2>0. PICK b : b = ShrunkAt(M, at, out)
    OBVIOUS
  <2>2. \E f : Shape(v, N, b, f)
    BY <1>10, <2>0 DEF Cut, Laid
  <2>3. PICK f : Shape(v, N, b, f)
    BY <2>2
  <2>4. PICK k : k = v.parent[z]
    OBVIOUS
  <2>5. PICK c \in Sides : v.child[c][k] = z
    BY <2>1, <2>3, <2>4, ParentFacts
  <2>6. PICK w : w = Take(v, z, out)
    OBVIOUS
  <2>7. Takes(v, w, z, out, k, c)
    BY <1>11, <2>1, <2>3, <2>4, <2>5, <2>6, Taken
  <2>8. ASSUME p # z, NEW a \in Sides
        PROVE  v.child[a][z] # up
    <3>1. v.child[a][z] = t.child[a][z]
      BY <1>8, <1>11, <2>1, <2>8 DEF Splices
    <3>2. CASE up = nil
      BY <2>1, <3>1, <3>2
    <3>3. CASE up # nil
      <4>1. t.parent[up] = out
        BY <1>2, <1>3, <1>4, <1>11, <3>3, SideFacts, ChildFacts
      <4>2. t.child[a][z] # nil => t.parent[t.child[a][z]] = z
        BY <1>2, <1>11, ChildFacts
      <4> QED
        BY <1>13, <2>1, <3>1, <4>1, <4>2
    <3> QED
      BY <3>2, <3>3
  <2>9. PICK q : q = IF p = z THEN out ELSE p
    OBVIOUS
  <2>10. PICK K : K = (N \ {z}) \cup {out}
    OBVIOUS
  <2>11. Cut(w, K, InPlaceOf(N, b, z, out), up, q, s, r)
    <3>1. p # z => \A a \in Sides : v.child[a][z] # up
      BY <2>8
    <3>2. Cut(w, (N \ {z}) \cup {out}, InPlaceOf(N, b, z, out), up, IF p = z THEN out ELSE p, s, r)
      BY <1>10, <1>11, <2>0, <2>1, <2>4, <2>5, <2>7, <3>1, TakeCut, ZenonT(30)
    <3> QED
      BY <2>9, <2>10, <3>2
  <2>12. K = M \ {z} /\ z \notin K
    BY <1>3, <1>13, <2>10
  <2>13. u = Drop(w, z) /\ w \in Tree
    BY <1>5, <1>7, <1>13, <2>6, <2>7 DEF Deleted, Takes
  <2>14. Drops(w, u, z)
    BY <1>11, <2>13, Dropped
  <2>15. Cut(u, K, InPlaceOf(N, b, z, out), up, q, s, r) /\ u \in Tree
    BY <1>11, <2>11, <2>12, <2>14, DropCut
  <2>16. InPlaceOf(N, b, z, out) = ShrunkAt(M, at, z)
    <3>1. /\ \A m \in Whole(M) : at[m] \in Int
          /\ \A m, k2 \in Whole(M) : at[m] = at[k2] => m = k2
          /\ root \notin M /\ z \in M /\ out \in M /\ at[out] = at[z] + 1
      BY <1>2, <1>3, <1>13, ShapeFacts DEF Shape, Layout
    <3>2. Whole((N \ {z}) \cup {out}) = Whole(M \ {z}) /\ out \in Whole(M \ {z}) /\ z \in Whole(M \ {out})
      BY <2>10, <2>12, <3>1 DEF Whole
    <3>3. ASSUME NEW m \in Whole(M \ {z})
          PROVE  (IF m = out THEN b[z] ELSE b[m]) = IF at[m] > at[z] THEN at[m] - 1 ELSE at[m]
      <4>1. b[z] = IF at[z] > at[out] THEN at[z] - 1 ELSE at[z]
        BY <2>0, <3>2 DEF ShrunkAt
      <4>2. m \in Whole(M) /\ m # z /\ z \in Whole(M) /\ out \in Whole(M)
        BY <3>1 DEF Whole
      <4>3. CASE m = out
        BY <3>1, <4>1, <4>2, <4>3
      <4>4. CASE m # out
        <5>1. m \in Whole(M \ {out})
          BY <4>2, <4>4 DEF Whole
        <5>2. b[m] = IF at[m] > at[out] THEN at[m] - 1 ELSE at[m]
          BY <2>0, <5>1 DEF ShrunkAt
        <5>3. at[m] # at[z] /\ at[m] # at[out] /\ at[m] \in Int /\ at[z] \in Int
          BY <3>1, <4>2, <4>4
        <5> QED
          BY <3>1, <4>4, <5>2, <5>3
      <4> QED
        BY <4>3, <4>4
    <3> QED
      BY <3>2, <3>3 DEF InPlaceOf, ShrunkAt
  <2> QED
    BY <1>9, <2>12, <2>15, <2>16
<1> QED
  BY <1>12, <1>13

(* A deletion leaves a black node missing at most.                            *)
LEMMA DeleteKeeps ==
  ASSUME NEW at, Laid(tree, members, at), Balanced(tree, members), NEW z \in Nodes, rb_delete(z)
  PROVE  /\ Laid(tree', members', ShrunkAt(members, at, z))
         /\ \/ Balanced(tree', members') /\ pc' = "idle"
            \/ Deleting(tree', members', x', top') /\ pc' = "delete_fixup"
<1>1. PICK out : out = OutNode(tree, z)
  OBVIOUS
<1>2. PICK up : up = OnlyChild(tree, out)
  OBVIOUS
<1>3. PICK u : u = Deleted(tree, z, out, up)
  OBVIOUS
<1>4. /\ z \in members /\ members' = members \ {z}
      /\ \/ tree.red[out] /\ Return(u)
         \/ ~tree.red[out] /\ tree' = u /\ x' = up /\ top' = u.child["left"][root] /\ pc' = "delete_fixup"
  BY <1>1, <1>2, <1>3, Zenon DEF rb_delete, OutNode, OnlyChild, Deleted
<1>5. u \in Tree /\ \E q : \E d : Cut(u, members \ {z}, ShrunkAt(members, at, z), up, q, d, tree.red[out])
  BY <1>1, <1>2, <1>3, <1>4, DeletedCut
<1>6. PICK q : \E d : Cut(u, members \ {z}, ShrunkAt(members, at, z), up, q, d, tree.red[out])
  BY <1>5
<1>7. PICK d : Cut(u, members \ {z}, ShrunkAt(members, at, z), up, q, d, tree.red[out])
  BY <1>6
<1>8. CASE tree.red[out] /\ Return(u)
  <2>1. Laid(u, members \ {z}, ShrunkAt(members, at, z)) /\ Balanced(u, members \ {z})
    BY <1>7, <1>8 DEF Cut, Balanced
  <2> QED
    BY <1>4, <1>5, <1>8, <2>1, ReturnKeeps
<1>9. CASE ~tree.red[out] /\ tree' = u /\ x' = up /\ top' = u.child["left"][root] /\ pc' = "delete_fixup"
  <2>1. /\ Laid(u, members \ {z}, ShrunkAt(members, at, z)) /\ up \in (members \ {z}) \cup {nil} /\ Calm(u, members \ {z}, up, up)
        /\ Holed(u, members \ {z}, up, q, d)
    BY <1>7, <1>9 DEF Cut, Holed
  <2>2. Deleting(u, members \ {z}, up, u.child["left"][root])
    BY <2>1 DEF Deleting
  <2> QED
    BY <1>4, <1>9, <2>1, <2>2
<1> QED
  BY <1>4, <1>8, <1>9
-----------------------------------------------------------------------------
(* The nodes below a node in order.  q is the nodes of M at the places from    *)
(* lo to hi.                                                                  *)
Spans(M, at, q, lo, hi) ==
  /\ q \in Seq(M) /\ Len(q) = hi - lo + 1
  /\ \A i \in 1 .. Len(q) : at[q[i]] = lo + i - 1

(* What is on the left of a node, the node, and what is on its right.         *)
LEMMA SpansJoin ==
  ASSUME NEW M, NEW at, NEW lo \in Int, NEW hi \in Int, NEW n \in M, at[n] \in Int,
         NEW a, Spans(M, at, a, lo, at[n] - 1), NEW b, Spans(M, at, b, at[n] + 1, hi)
  PROVE  Spans(M, at, a \o <<n>> \o b, lo, hi)
<1>1. PICK k \in Int : k = at[n]
  OBVIOUS
<1>2. /\ a \in Seq(M) /\ Len(a) = k - lo /\ \A i \in 1 .. Len(a) : at[a[i]] = lo + i - 1
      /\ b \in Seq(M) /\ Len(b) = hi - k /\ \A i \in 1 .. Len(b) : at[b[i]] = k + i
  <2>1. a \in Seq(M) /\ Len(a) = (k - 1) - lo + 1 /\ \A i \in 1 .. Len(a) : at[a[i]] = lo + i - 1
    BY <1>1 DEF Spans
  <2>2. b \in Seq(M) /\ Len(b) = hi - (k + 1) + 1 /\ \A i \in 1 .. Len(b) : at[b[i]] = (k + 1) + i - 1
    BY <1>1 DEF Spans
  <2>3. /\ \A i \in 1 .. Len(b) : (k + 1) + i - 1 = k + i
        /\ (k - 1) - lo + 1 = k - lo /\ hi - (k + 1) + 1 = hi - k
    BY <2>2
  <2> QED
    BY <2>1, <2>2, <2>3
<1>3. PICK A \in Nat : A = Len(a) /\ A = k - lo
  BY <1>2
<1>4. PICK B \in Nat : B = Len(b) /\ B = hi - k
  BY <1>2
<1>5. PICK u : u = a \o <<n>>
  OBVIOUS
<1>6. u \in Seq(M) /\ Len(u) = A + 1 /\ (\A i \in 1 .. A : u[i] = a[i]) /\ u[A + 1] = n
  <2>1. /\ u \in Seq(M) /\ Len(u) = Len(a) + Len(<<n>>)
        /\ \A i \in 1 .. Len(a) + Len(<<n>>) : u[i] = IF i <= Len(a) THEN a[i] ELSE <<n>>[i - Len(a)]
    <3>1. <<n>> \in Seq(M)
      OBVIOUS
    <3> QED
      BY <1>2, <1>5, <3>1, ConcatProperties
  <2>2. Len(<<n>>) = 1 /\ <<n>>[1] = n
    OBVIOUS
  <2>3. Len(u) = A + 1 /\ \A i \in 1 .. A + 1 : u[i] = IF i <= A THEN a[i] ELSE <<n>>[i - A]
    BY <1>3, <2>1, <2>2
  <2>4. A + 1 \in 1 .. A + 1 /\ (A + 1) - A = 1 /\ ~(A + 1 <= A)
    OBVIOUS
  <2>5. u[A + 1] = n
    BY <2>2, <2>3, <2>4
  <2>6. \A i \in 1 .. A : i \in 1 .. A + 1 /\ i <= A
    OBVIOUS
  <2> QED
    BY <2>1, <2>3, <2>5, <2>6
<1>7. PICK q : q = u \o b
  OBVIOUS
<1>8. q \in Seq(M) /\ Len(q) = A + 1 + B /\ \A i \in 1 .. A + 1 : q[i] = u[i]
  <2>1. /\ q \in Seq(M) /\ Len(q) = Len(u) + Len(b)
        /\ \A i \in 1 .. Len(u) + Len(b) : q[i] = IF i <= Len(u) THEN u[i] ELSE b[i - Len(u)]
    BY <1>2, <1>6, <1>7, ConcatProperties
  <2>2. \A i \in 1 .. A + 1 + B : q[i] = IF i <= A + 1 THEN u[i] ELSE b[i - (A + 1)]
    BY <1>4, <1>6, <2>1
  <2>3. \A i \in 1 .. A + 1 : i \in 1 .. A + 1 + B /\ i <= A + 1
    OBVIOUS
  <2> QED
    BY <1>4, <1>6, <2>1, <2>2, <2>3
<1>9. \A i \in 1 .. B : q[A + 1 + i] = b[i]
  <2>1. \A i \in 1 .. Len(u) + Len(b) : q[i] = IF i <= Len(u) THEN u[i] ELSE b[i - Len(u)]
    BY <1>2, <1>6, <1>7, ConcatProperties
  <2>2. \A i \in 1 .. A + 1 + B : q[i] = IF i <= A + 1 THEN u[i] ELSE b[i - (A + 1)]
    BY <1>4, <1>6, <2>1
  <2>3. \A i \in 1 .. B : A + 1 + i \in 1 .. A + 1 + B /\ ~(A + 1 + i <= A + 1) /\ (A + 1 + i) - (A + 1) = i
    OBVIOUS
  <2> QED
    BY <2>2, <2>3
<1>10. ASSUME NEW i \in 1 .. A + 1 + B
       PROVE  at[q[i]] = lo + i - 1
  <2>1. CASE i \in 1 .. A
    <3>1. q[i] = a[i]
      BY <1>6, <1>8, <2>1
    <3> QED
      BY <1>2, <1>3, <2>1, <3>1
  <2>2. CASE i = A + 1
    <3>1. q[i] = n
      BY <1>6, <1>8, <2>2
    <3>2. k = lo + i - 1
      BY <1>3, <2>2
    <3> QED
      BY <1>1, <3>1, <3>2
  <2>3. CASE i > A + 1
    <3>1. PICK l \in 1 .. B : i = A + 1 + l
      <4>1. i - (A + 1) \in 1 .. B /\ i = A + 1 + (i - (A + 1))
        BY <1>3, <1>4, <2>3
      <4> QED
        BY <4>1
    <3>2. q[i] = b[l] /\ at[b[l]] = k + l
      BY <1>2, <1>4, <1>9, <3>1
    <3>3. k + l = lo + i - 1
      BY <1>3, <3>1
    <3> QED
      BY <3>2, <3>3
  <2> QED
    BY <2>1, <2>2, <2>3
<1>11. Len(q) = hi - lo + 1
  BY <1>3, <1>4, <1>8
<1>12. Spans(M, at, q, lo, hi)
  BY <1>8, <1>10, <1>11 DEF Spans
<1> QED
  BY <1>5, <1>7, <1>12

(* The places name one sequence of nodes.                                     *)
LEMMA SpansUnique ==
  ASSUME NEW M, NEW at, \A m, n \in M : at[m] = at[n] => m = n, NEW lo \in Int, NEW hi \in Int,
         NEW q, Spans(M, at, q, lo, hi), NEW r, Spans(M, at, r, lo, hi)
  PROVE  q = r
<1>1. /\ q \in Seq(M) /\ r \in Seq(M) /\ Len(q) = Len(r)
      /\ \A i \in 1 .. Len(q) : at[q[i]] = at[r[i]] /\ q[i] \in M /\ r[i] \in M
  BY DEF Spans
<1>2. \A i \in 1 .. Len(q) : q[i] = r[i]
  BY <1>1
<1> QED
  BY <1>1, <1>2

(* Order, of any tree. *)
OrderOf(t) ==
  LET walk[d \in 0 .. Cardinality(Nodes) + 1] ==
        [m \in Fields |->
           IF d = 0 \/ m = nil THEN <<>>
           ELSE walk[d - 1][t.child["left"][m]] \o <<m>> \o walk[d - 1][t.child["right"][m]]]
  IN walk[Cardinality(Nodes) + 1][t.child["left"][root]]

(* The walk over the tree lists the places one by one.                        *)
LEMMA OrderSpans ==
  ASSUME NEW t, NEW M, NEW at, NEW edge, Shape(t, M, at, edge)
  PROVE  Spans(M, at, OrderOf(t), 1, Cardinality(M))
<1>1. PICK C : C = Cardinality(Nodes) /\ C \in Nat
  BY ReachFacts
<1>2. PICK V : V = [Fields -> Seq(Fields)]
  OBVIOUS
<1>3. PICK first : first = [m \in Fields |-> <<>>]
  OBVIOUS
<1> DEFINE Level(f, m) ==
             IF m = nil THEN <<>> ELSE f[t.child["left"][m]] \o <<m>> \o f[t.child["right"][m]]
<1>4. PICK step : step = [f \in V |-> [m \in Fields |-> Level(f, m)]]
  OBVIOUS
<1>5. /\ M \subseteq Fields /\ nil \in Fields /\ nil \notin M /\ root \in Fields /\ M \subseteq Whole(M)
      /\ t.child["left"] \in [Fields -> Fields] /\ t.child["right"] \in [Fields -> Fields]
      /\ "left" \in Sides /\ "right" \in Sides /\ root \in Whole(M)
  <2>1. nil \in Fields /\ root \in Fields /\ "left" \in Sides /\ "right" \in Sides
    BY DEF Fields, Sides
  <2> QED
    BY <2>1, ShapeFacts DEF Tree
<1>6. step \in [V -> V] /\ first \in V
  <2>1. ASSUME NEW f \in V, NEW m \in Fields
        PROVE  Level(f, m) \in Seq(Fields)
    <3>1. f[t.child["left"][m]] \in Seq(Fields) /\ f[t.child["right"][m]] \in Seq(Fields)
      BY <1>2, <1>5
    <3> QED
      BY <3>1
  <2>2. <<>> \in Seq(Fields)
    OBVIOUS
  <2> HIDE DEF Level
  <2> QED
    BY <1>2, <1>3, <1>4, <2>1, <2>2
<1>7. PICK f \in [0 .. C + 1 -> V] : Rounds(f, C + 1, first, step)
  <2>1. C + 1 \in Nat
    BY <1>1
  <2> QED
    BY <1>6, <2>1, RoundsExist
<1>8. \A d \in 0 .. C + 1 : f[d] = IF d = 0 THEN first ELSE step[f[d - 1]]
  <2>1. PICK r : r = [d \in 0 .. C + 1 |-> IF d = 0 THEN first ELSE step[f[d - 1]]]
    OBVIOUS
  <2>2. f = r
    BY <1>7, <2>1 DEF Rounds
  <2> QED
    BY <2>1, <2>2
<1> DEFINE Lists(g) == [d \in 0 .. C + 1 |->
                         [m \in Fields |->
                            IF d = 0 \/ m = nil THEN <<>>
                            ELSE g[d - 1][t.child["left"][m]] \o <<m>> \o g[d - 1][t.child["right"][m]]]]
<1>9. ASSUME NEW g, g = Lists(g)
      PROVE  Spans(M, at, g[C + 1][t.child["left"][root]], 1, Cardinality(M))
  <2> DEFINE reach(m) == edge["right"][m] - edge["left"][m]
  <2>1. \A d \in 0 .. C + 1 : \A m \in Fields :
          g[d][m] = IF d = 0 \/ m = nil THEN <<>>
                    ELSE g[d - 1][t.child["left"][m]] \o <<m>> \o g[d - 1][t.child["right"][m]]
    <3>1. PICK r : r = Lists(g)
      BY Zenon
    <3>2. g = r
      BY <1>9, <3>1, Zenon
    <3>3. \A d \in 0 .. C + 1 : \A m \in Fields :
            r[d][m] = IF d = 0 \/ m = nil THEN <<>>
                      ELSE g[d - 1][t.child["left"][m]] \o <<m>> \o g[d - 1][t.child["right"][m]]
      BY <3>1
    <3> QED
      BY <3>2, <3>3, ZenonT(30)
  <2>2. /\ \A m \in Whole(M) : reach(m) \in Nat /\ reach(m) <= C
        /\ \A m \in Whole(M) : \A s \in Sides :
             t.child[s][m] # nil => reach(t.child[s][m]) < reach(m)
    BY <1>1, ReachFacts
  <2> HIDE DEF reach
  <2>3. /\ \A m \in Whole(M) : /\ at[m] \in Int /\ edge["left"][m] \in Int /\ edge["right"][m] \in Int
                               /\ \A s \in Sides : Hangs(t, M, at, edge, m, s)
        /\ Cardinality(M) \in Nat /\ at[root] = Cardinality(M) + 1 /\ edge["left"][root] = 1
        /\ Other("left") = "right" /\ Other("right") = "left" /\ Step("left") = -1 /\ Step("right") = 1
    <3>1. /\ \A m \in Whole(M) : at[m] \in Int /\ edge["left"][m] \in Int /\ edge["right"][m] \in Int
          /\ \A m \in Whole(M) : \A s \in Sides : Hangs(t, M, at, edge, m, s)
          /\ Cardinality(M) \in Nat
      BY ShapeFacts
    <3>2. at[root] = Cardinality(M) + 1 /\ edge["left"][root] = 1
      BY DEF Shape, Layout
    <3>3. Other("left") = "right" /\ Other("right") = "left" /\ Step("left") = -1 /\ Step("right") = 1
      BY DEF Other, Step
    <3> QED
      BY <3>1, <3>2, <3>3
  <2>4. /\ <<>> \in Seq(M) /\ Len(<<>>) = 0
    OBVIOUS
  <2> DEFINE Good == {d \in 0 .. C + 1 :
                        \A m \in M : reach(m) < d => Spans(M, at, g[d][m], edge["left"][m], edge["right"][m])}
  <2>5. 0 \in Good
    <3>1. \A m \in M : ~(reach(m) < 0)
      BY <1>5, <2>2
    <3> QED
      BY <1>1, <3>1
  <2>6. ASSUME NEW d \in 0 .. C + 1, d \in Good, d < C + 1
        PROVE  d + 1 \in Good
    <3>1. d + 1 \in 0 .. C + 1 /\ d + 1 # 0 /\ (d + 1) - 1 = d /\ d \in Nat
      BY <1>1, <2>6
    <3>2. g[d][nil] = <<>>
      BY <1>5, <2>1
    <3>3. ASSUME NEW m \in M, reach(m) < d + 1
          PROVE  Spans(M, at, g[d + 1][m], edge["left"][m], edge["right"][m])
      <4>1. m \in Whole(M) /\ m # nil /\ m \in Fields /\ reach(m) \in Nat /\ at[m] \in Int
            /\ edge["left"][m] \in Int /\ edge["right"][m] \in Int
        BY <1>5, <2>2, <2>3
      <4>2. PICK l : l = t.child["left"][m]
        OBVIOUS
      <4>3. PICK r : r = t.child["right"][m]
        OBVIOUS
      <4>4. ASSUME NEW s \in Sides, t.child[s][m] # nil
            PROVE  /\ Spans(M, at, g[d][t.child[s][m]], edge["left"][t.child[s][m]], edge["right"][t.child[s][m]])
                   /\ edge[s][t.child[s][m]] = edge[s][m] /\ edge[Other(s)][t.child[s][m]] = at[m] + Step(s)
        <5>1. PICK c : c = t.child[s][m]
          OBVIOUS
        <5>2. c \in M /\ edge[s][c] = edge[s][m] /\ edge[Other(s)][c] = at[m] + Step(s)
          BY <2>3, <4>1, <4>4, <5>1 DEF Hangs
        <5>3. reach(c) \in Nat /\ reach(c) < d
          BY <1>5, <2>2, <3>1, <3>3, <4>1, <4>4, <5>1, <5>2
        <5>4. Spans(M, at, g[d][c], edge["left"][c], edge["right"][c])
          BY <2>6, <5>2, <5>3
        <5> QED
          BY <5>1, <5>2, <5>4
      <4>5. Spans(M, at, g[d][l], edge["left"][m], at[m] - 1)
        <5>1. CASE l = nil
          <6>1. edge["left"][m] = at[m]
            <7>1. Hangs(t, M, at, edge, m, "left")
              BY <1>5, <2>3, <4>1
            <7> QED
              BY <4>2, <5>1, <7>1 DEF Hangs
          <6>2. g[d][l] = <<>> /\ at[m] - 1 - at[m] + 1 = 0
            BY <3>2, <4>1, <5>1
          <6> QED
            BY <2>4, <6>1, <6>2 DEF Spans
        <5>2. CASE l # nil
          <6>1. edge["left"][l] = edge["left"][m] /\ edge["right"][l] = at[m] - 1
            BY <1>5, <2>3, <4>1, <4>2, <4>4, <5>2
          <6>2. Spans(M, at, g[d][l], edge["left"][l], edge["right"][l])
            BY <1>5, <4>2, <4>4, <5>2
          <6> QED
            BY <6>1, <6>2
        <5> QED
          BY <5>1, <5>2
      <4>6. Spans(M, at, g[d][r], at[m] + 1, edge["right"][m])
        <5>1. CASE r = nil
          <6>1. edge["right"][m] = at[m]
            <7>1. Hangs(t, M, at, edge, m, "right")
              BY <1>5, <2>3, <4>1
            <7> QED
              BY <4>3, <5>1, <7>1 DEF Hangs
          <6>2. g[d][r] = <<>> /\ at[m] - (at[m] + 1) + 1 = 0
            BY <3>2, <4>1, <5>1
          <6> QED
            BY <2>4, <6>1, <6>2 DEF Spans
        <5>2. CASE r # nil
          <6>1. edge["right"][r] = edge["right"][m] /\ edge["left"][r] = at[m] + 1
            BY <1>5, <2>3, <4>1, <4>3, <4>4, <5>2
          <6>2. Spans(M, at, g[d][r], edge["left"][r], edge["right"][r])
            BY <1>5, <4>3, <4>4, <5>2
          <6> QED
            BY <6>1, <6>2
        <5> QED
          BY <5>1, <5>2
      <4>7. g[d + 1][m] = g[d][l] \o <<m>> \o g[d][r]
        BY <2>1, <3>1, <4>1, <4>2, <4>3
      <4>8. Spans(M, at, g[d][l] \o <<m>> \o g[d][r], edge["left"][m], edge["right"][m])
        BY <4>1, <4>5, <4>6, SpansJoin
      <4> QED
        BY <4>7, <4>8
    <3> QED
      BY <3>1, <3>3
  <2>7. Good = 0 .. C + 1
    <3>1. Good \in SUBSET (0 .. C + 1) /\ C + 1 \in Nat /\ 0 \in Nat
      BY <1>1
    <3> HIDE DEF Good
    <3> QED
      BY <2>5, <2>6, <3>1, Steps
  <2>8. \A m \in M : reach(m) < C + 1 => Spans(M, at, g[C + 1][m], edge["left"][m], edge["right"][m])
    <3>1. C + 1 \in Good
      BY <1>1, <2>7
    <3> QED
      BY <3>1
  <2>9. PICK c : c = t.child["left"][root]
    OBVIOUS
  <2>10. CASE c = nil
    <3>1. Cardinality(M) = 0
      <4>1. Hangs(t, M, at, edge, root, "left")
        BY <1>5, <2>3
      <4>2. edge["left"][root] = at[root]
        BY <2>9, <2>10, <4>1 DEF Hangs
      <4> QED
        BY <2>3, <4>2
    <3>2. g[C + 1][c] = <<>>
      <4>1. C + 1 \in 0 .. C + 1
        BY <1>1
      <4> QED
        BY <1>5, <2>1, <2>10, <4>1
    <3> QED
      BY <2>4, <2>9, <3>1, <3>2 DEF Spans
  <2>11. CASE c # nil
    <3>1. c \in M /\ edge["left"][c] = 1 /\ edge["right"][c] = Cardinality(M)
      <4>1. Hangs(t, M, at, edge, root, "left")
        BY <1>5, <2>3
      <4> QED
        BY <2>3, <2>9, <2>11, <4>1 DEF Hangs
    <3>2. reach(c) \in Nat /\ reach(root) \in Nat /\ reach(root) <= C /\ reach(c) < reach(root)
      BY <1>5, <2>2, <2>9, <2>11, <3>1
    <3> QED
      BY <1>1, <2>8, <2>9, <3>1, <3>2
  <2> QED
    BY <2>10, <2>11
<1>10. f = Lists(f)
  <2>1. PICK r : r = Lists(f)
    BY Zenon
  <2>2. ASSUME NEW d \in 0 .. C + 1
        PROVE  f[d] = r[d]
    <3>1. r[d] = [m \in Fields |-> IF d = 0 \/ m = nil THEN <<>>
                                   ELSE f[d - 1][t.child["left"][m]] \o <<m>> \o f[d - 1][t.child["right"][m]]]
      BY <2>1
    <3>2. CASE d = 0
      BY <1>3, <1>8, <3>1, <3>2
    <3>3. CASE d # 0
      <4>1. d - 1 \in 0 .. C + 1
        BY <1>1, <3>3
      <4>2. f[d - 1] \in V
        BY <1>7, <4>1
      <4>3. f[d] = [m \in Fields |-> Level(f[d - 1], m)]
        <5> HIDE DEF Level
        <5> QED
          BY <1>4, <1>8, <3>3, <4>2, SMTT(30)
      <4> QED
        BY <3>1, <3>3, <4>3, Zenon
    <3> QED
      BY <3>2, <3>3, SMTT(30)
  <2>3. f = [d \in 0 .. C + 1 |-> f[d]] /\ r = [d \in 0 .. C + 1 |-> r[d]]
    BY <1>7, <2>1
  <2> QED
    BY <2>1, <2>2, <2>3, ZenonT(30)
<1>11. \E g : g = Lists(g)
  BY <1>10, Zenon
<1>12. OrderOf(t) = (CHOOSE g : g = Lists(g))[C + 1][t.child["left"][root]]
  BY <1>1 DEF OrderOf
<1> QED
  <2> HIDE DEF Lists
  <2>1. (CHOOSE g : g = Lists(g)) = Lists(CHOOSE g : g = Lists(g))
    BY <1>11
  <2> QED
    BY <1>9, <1>12, <2>1

(* The greater a key, the later its node.                                     *)
Sorted(M, at) == \A m, n \in M : at[m] < at[n] => Key[m] <= Key[n]

(* rb_insert_binary's walk ends where the nodes that stay before the new one  *)
(* end: those of its key among them.                                          *)
LEMMA LeafPlaceSorted ==
  ASSUME NEW t, NEW M, NEW at, NEW edge, Shape(t, M, at, edge), Sorted(M, at),
         NEW n \in Nodes, NEW p, p = LeafPlace(t, n), NEW s, s = Below(p, n)
  PROVE  \A j \in M : Key[j] <= Key[n] <=> at[j] < Place(at, p, s)
<1>1. /\ M \subseteq Whole(M) /\ Whole(M) \subseteq Fields /\ nil \in Fields /\ root \in Whole(M)
      /\ t.child \in [Sides -> [Fields -> Fields]] /\ root \notin M
      /\ \A m \in Whole(M) : \A d \in Sides : Hangs(t, M, at, edge, m, d)
  <2>1. nil \in Fields
    BY DEF Fields
  <2> QED
    BY <2>1, ShapeFacts DEF Tree
<1>2. \A m : Below(m, n) \in Sides
  BY DEF Below, Sides
<1>3. PICK next : next = [m \in Fields |-> IF t.child[Below(m, n)][m] = nil THEN m
                                           ELSE t.child[Below(m, n)][m]]
  OBVIOUS
<1>4. next \in [Fields -> Fields]
  BY <1>1, <1>2, <1>3
<1>5. PICK P : P = {m \in Whole(M) : \A j \in M : /\ at[j] < edge["left"][m] => Key[j] <= Key[n]
                                                  /\ at[j] > edge["right"][m] => Key[j] > Key[n]}
  OBVIOUS
<1>6. PICK rank : rank = [m \in P |-> edge["right"][m] - edge["left"][m]]
  OBVIOUS
<1>7. /\ \A m \in Whole(M) : at[m] \in Int /\ edge["left"][m] \in Int /\ edge["right"][m] \in Int
      /\ \A m \in M : at[m] >= 1 /\ at[m] < at[root] /\ Key[m] \in Int
      /\ edge["left"][root] = 1 /\ edge["right"][root] = at[root] /\ Key[n] \in Int
      /\ \A j, m \in Whole(M) : at[j] = at[m] => j = m
  <2>1. /\ \A m \in Whole(M) : at[m] \in Int /\ edge["left"][m] \in Int /\ edge["right"][m] \in Int
        /\ M \subseteq Nodes /\ at \in [Whole(M) -> 1 .. Cardinality(M) + 1] /\ Cardinality(M) \in Nat
    BY ShapeFacts
  <2>2. /\ \A j, m \in Whole(M) : at[j] = at[m] => j = m
        /\ edge["left"][root] = 1 /\ at[root] = Cardinality(M) + 1 /\ t.child["right"][root] = nil
    BY DEF Shape, Layout
  <2>3. edge["right"][root] = at[root]
    <3>1. Hangs(t, M, at, edge, root, "right")
      BY <1>1 DEF Sides
    <3> QED
      BY <2>2, <3>1 DEF Hangs
  <2>4. ASSUME NEW m \in M
        PROVE  at[m] >= 1 /\ at[m] < at[root] /\ Key[m] \in Int
    <3>1. at[m] \in 1 .. Cardinality(M) + 1 /\ at[m] # at[root]
      BY <1>1, <2>1, <2>2
    <3> QED
      BY <2>1, <2>2, <3>1, RBTreeAssumption
  <2>5. Key[n] \in Int
    BY RBTreeAssumption
  <2> QED
    BY <2>1, <2>2, <2>3, <2>4, <2>5
<1>8. rank \in [P -> Nat] /\ root \in P /\ rank[root] <= Cardinality(Nodes) /\ P \in SUBSET Fields
  <2>1. \A j \in M : ~(at[j] < edge["left"][root]) /\ ~(at[j] > edge["right"][root])
    BY <1>1, <1>7
  <2>2. root \in P
    BY <1>1, <1>5, <2>1
  <2> QED
    BY <1>1, <1>5, <1>6, <2>2, ReachFacts
(* Which nodes stay before n, seen from m. *)
<1>9. ASSUME NEW m \in Whole(M), NEW j \in M
      PROVE  /\ Below(m, n) = "left" /\ at[j] >= at[m] => Key[j] > Key[n]
             /\ Below(m, n) = "right" /\ at[j] <= at[m] => Key[j] <= Key[n]
  <2>1. CASE m = root
    BY <1>1, <1>7, <2>1 DEF Below
  <2>2. CASE m # root
    <3>1. m \in M
      BY <2>2 DEF Whole
    <3>2. Key[m] \in Int /\ Key[n] \in Int /\ Key[j] \in Int
      BY <1>7, <3>1
    <3>3. (at[j] > at[m] => Key[m] <= Key[j]) /\ (at[j] < at[m] => Key[j] <= Key[m]) /\ (at[j] = at[m] => j = m)
      BY <1>1, <1>7, <3>1 DEF Sorted
    <3>4. at[j] \in Int /\ at[m] \in Int
      BY <1>1, <1>7
    <3> QED
      BY <2>2, <3>2, <3>3, <3>4 DEF Below
  <2> QED
    BY <2>1, <2>2
<1>10. ASSUME NEW m \in P, next[m] # m
       PROVE  next[m] \in P /\ rank[next[m]] < rank[m]
  <2>1. /\ m \in Whole(M) /\ m \in Fields
        /\ \A j \in M : /\ at[j] < edge["left"][m] => Key[j] <= Key[n]
                        /\ at[j] > edge["right"][m] => Key[j] > Key[n]
    BY <1>1, <1>5
  <2>2. PICK d \in Sides : d = Below(m, n)
    BY <1>2
  <2>3. PICK c : c = next[m]
    OBVIOUS
  <2>4. c = t.child[d][m] /\ c # nil
    BY <1>3, <1>10, <2>1, <2>2, <2>3
  <2>5. c \in M /\ edge[d][c] = edge[d][m] /\ edge[Other(d)][c] = at[m] + Step(d)
    BY <1>1, <2>1, <2>4 DEF Hangs
  <2>6. c \in Whole(M) /\ at[m] \in Int
    BY <1>1, <1>7, <2>1, <2>5
  <2>7. ASSUME NEW j \in M
        PROVE  /\ at[j] < edge["left"][c] => Key[j] <= Key[n]
               /\ at[j] > edge["right"][c] => Key[j] > Key[n]
    <3>1. at[j] \in Int
      BY <1>1, <1>7
    <3>2. CASE d = "left"
      <4>1. edge["left"][c] = edge["left"][m] /\ edge["right"][c] = at[m] - 1
        BY <2>5, <2>6, <3>2 DEF Other, Step
      <4>2. at[j] >= at[m] => Key[j] > Key[n]
        BY <1>9, <2>1, <2>2, <3>2
      <4> QED
        BY <2>1, <2>6, <3>1, <4>1, <4>2
    <3>3. CASE d = "right"
      <4>1. edge["right"][c] = edge["right"][m] /\ edge["left"][c] = at[m] + 1
        BY <2>5, <2>6, <3>3 DEF Other, Step
      <4>2. at[j] <= at[m] => Key[j] <= Key[n]
        BY <1>9, <2>1, <2>2, <3>3
      <4> QED
        BY <2>1, <2>6, <3>1, <4>1, <4>2
    <3> QED
      BY <3>2, <3>3 DEF Sides
  <2>8. c \in P
    BY <1>5, <2>6, <2>7
  <2>9. edge["right"][c] - edge["left"][c] < edge["right"][m] - edge["left"][m]
    BY <2>1, <2>4, ReachFacts
  <2> QED
    BY <1>6, <2>3, <2>8, <2>9
<1>11. Walk(next, root) \in P
  BY <1>4, <1>8, <1>10, WalkEnds
<1>12. p = Walk(next, root)
  BY <1>3 DEF LeafPlace
<1>13. /\ p \in Whole(M) /\ s \in Sides /\ t.child[s][p] = nil
       /\ \A j \in M : /\ at[j] < edge["left"][p] => Key[j] <= Key[n]
                       /\ at[j] > edge["right"][p] => Key[j] > Key[n]
  BY <1>5, <1>11, <1>12, LeafPlaceFacts
<1>14. edge[s][p] = at[p]
  BY <1>1, <1>13 DEF Hangs
<1>15. ASSUME NEW j \in M
       PROVE  Key[j] <= Key[n] <=> at[j] < Place(at, p, s)
  <2>1. at[j] \in Int /\ at[p] \in Int /\ Key[j] \in Int /\ Key[n] \in Int
    BY <1>1, <1>7, <1>13
  <2>2. CASE s = "left"
    <3>1. Place(at, p, s) = at[p] /\ edge["left"][p] = at[p]
      BY <1>14, <2>2 DEF Place
    <3>2. at[j] >= at[p] => Key[j] > Key[n]
      BY <1>9, <1>13, <2>2
    <3> QED
      BY <1>13, <2>1, <3>1, <3>2
  <2>3. CASE s = "right"
    <3>1. Place(at, p, s) = at[p] + 1 /\ edge["right"][p] = at[p]
      BY <1>14, <2>3 DEF Place
    <3>2. at[j] <= at[p] => Key[j] <= Key[n]
      BY <1>9, <1>13, <2>3
    <3> QED
      BY <1>13, <2>1, <3>1, <3>2
  <2> QED
    BY <1>13, <2>2, <2>3 DEF Sides
<1> QED
  BY <1>15

(* rb_tree_successor and rb_tree_predecessor find the next place, or nil at   *)
(* the end.                                                                   *)
LEMMA AdjacentFacts ==
  ASSUME NEW t, NEW M, NEW at, NEW edge, Shape(t, M, at, edge),
         NEW n \in M, NEW s \in Sides, NEW e, e = Adjacent(t, n, s)
  PROVE  \/ e \in M /\ at[e] = at[n] + Step(s)
         \/ e = nil /\ at[n] + Step(s) \notin 1 .. Cardinality(M)
<1>1. /\ M \subseteq Whole(M) /\ M \subseteq Fields /\ nil \in Fields /\ root \in Whole(M)
      /\ t.parent \in [Fields -> Fields] /\ Cardinality(M) \in Nat
      /\ \A m \in Whole(M) : \A d \in Sides : Hangs(t, M, at, edge, m, d)
      /\ \A m \in Whole(M) : at[m] \in Int /\ \A d \in Sides : edge[d][m] \in Int
      /\ Other(s) \in Sides /\ Other(Other(s)) = s /\ "left" \in Sides
      /\ root \notin M /\ nil \notin M
  <2>1. nil \in Fields /\ "left" \in Sides
    BY DEF Fields, Sides
  <2> QED
    BY <2>1, ShapeFacts, SideFacts DEF Tree
<1>2. at[root] = Cardinality(M) + 1 /\ edge["left"][root] = 1
  BY DEF Shape, Layout
<1>3. CASE t.child[s][n] # nil
  <2>1. PICK c : c = t.child[s][n]
    OBVIOUS
  <2>2. c \in M /\ edge[Other(s)][c] = at[n] + Step(s)
    BY <1>1, <1>3, <2>1 DEF Hangs
  <2>3. e = Outermost(t, c, Other(s))
    BY <1>3, <2>1 DEF Adjacent
  <2> QED
    BY <1>1, <2>2, <2>3, OutermostFacts
<1>4. CASE t.child[s][n] = nil
  <2>1. PICK next : next = [m \in Fields |->
                      IF t.parent[m] # root /\ m = t.child[s][t.parent[m]] THEN t.parent[m] ELSE m]
    OBVIOUS
  <2>2. PICK up : up = Walk(next, n)
    OBVIOUS
  <2>3. e = IF t.parent[up] = root THEN nil ELSE t.parent[up]
    BY <1>4, <2>1, <2>2 DEF Adjacent
  <2>4. next \in [Fields -> Fields]
    BY <1>1, <2>1
  <2>5. PICK P : P = {m \in M : edge[s][m] = at[n]}
    OBVIOUS
  <2>6. PICK C \in Nat : C = Cardinality(Nodes)
    BY ReachFacts
  <2>7. PICK rank : rank = [m \in P |-> C - (edge["right"][m] - edge["left"][m])]
    OBVIOUS
  <2>8. ASSUME NEW m \in M
        PROVE  /\ edge["right"][m] - edge["left"][m] \in Nat
               /\ edge["right"][m] - edge["left"][m] <= C
    BY <1>1, <2>6, ReachFacts
  <2>9. rank \in [P -> Nat] /\ \A m \in P : rank[m] <= C
    <3>1. \A m \in P : C - (edge["right"][m] - edge["left"][m]) \in Nat
                       /\ C - (edge["right"][m] - edge["left"][m]) <= C
      BY <2>5, <2>8
    <3> QED
      BY <2>7, <3>1
  <2>10. n \in P /\ P \in SUBSET Fields
    <3>1. Hangs(t, M, at, edge, n, s)
      BY <1>1
    <3> QED
      BY <1>1, <1>4, <2>5, <3>1 DEF Hangs
  <2>11. ASSUME NEW m \in P, next[m] # m
         PROVE  next[m] \in P /\ rank[next[m]] < rank[m]
    <3>1. m \in M /\ m \in Fields /\ edge[s][m] = at[n]
      BY <1>1, <2>5
    <3>2. PICK p : p = t.parent[m]
      OBVIOUS
    <3>3. next[m] = p /\ p # root /\ m = t.child[s][p]
      BY <2>1, <2>11, <3>1, <3>2
    <3>4. p \in M /\ p \in Whole(M) /\ m # nil
      <4>1. p \in Whole(M) /\ m # nil
        BY <3>1, <3>2, ParentFacts
      <4> QED
        BY <3>3, <4>1 DEF Whole
    <3>5. edge[s][m] = edge[s][p]
      BY <1>1, <3>3, <3>4 DEF Hangs
    <3>6. p \in P
      BY <2>5, <3>1, <3>4, <3>5
    <3>7. edge["right"][m] - edge["left"][m] < edge["right"][p] - edge["left"][p]
      BY <3>3, <3>4, ReachFacts
    <3>8. rank[p] < rank[m]
      BY <2>7, <2>8, <3>1, <3>4, <3>6, <3>7
    <3> QED
      BY <3>3, <3>6, <3>8
  <2>12. up \in P /\ next[up] = up
    BY <2>2, <2>4, <2>6, <2>9, <2>10, <2>11, WalkEnds
  <2>13. up \in M /\ up \in Fields /\ edge[s][up] = at[n]
    BY <1>1, <2>5, <2>12
  <2>14. PICK p : p = t.parent[up]
    OBVIOUS
  <2>15. p \in Whole(M) /\ p # up /\ up # nil
    BY <2>13, <2>14, ParentFacts
  <2>16. PICK d \in Sides : t.child[d][p] = up
    BY <2>13, <2>14, ParentFacts
  <2>17. edge[Other(d)][up] = at[p] + Step(d)
    BY <1>1, <2>15, <2>16 DEF Hangs
  <2>18. CASE p = root
    <3>1. e = nil
      BY <2>3, <2>14, <2>18
    <3>2. t.child["left"][root] = up
      <4>1. t.child["right"][root] = nil
        BY DEF Shape
      <4> QED
        BY <2>15, <2>16, <2>18, <4>1 DEF Sides
    <3>3. edge["left"][up] = 1 /\ edge["right"][up] = Cardinality(M)
      <4>1. Hangs(t, M, at, edge, root, "left")
        BY <1>1
      <4>2. edge["left"][up] = edge["left"][root] /\ edge[Other("left")][up] = at[root] + Step("left")
        BY <2>15, <3>2, <4>1 DEF Hangs
      <4> QED
        BY <1>1, <1>2, <4>2 DEF Other, Step
    <3>4. CASE s = "left"
      BY <1>1, <2>13, <3>1, <3>3, <3>4 DEF Step
    <3>5. CASE s = "right"
      BY <1>1, <2>13, <3>1, <3>3, <3>5 DEF Step
    <3> QED
      BY <3>4, <3>5 DEF Sides
  <2>19. CASE p # root
    <3>1. e = p /\ p \in M
      BY <2>3, <2>14, <2>15, <2>19 DEF Whole
    <3>2. d # s
      BY <2>1, <2>12, <2>13, <2>14, <2>15, <2>16, <2>19
    <3>3. Other(d) = s /\ at[p] \in Int /\ at[n] \in Int
      BY <1>1, <2>15, <3>2, SideFacts
    <3>4. at[n] = at[p] + Step(d)
      BY <2>13, <2>17, <3>3
    <3>5. CASE s = "left"
      <4>1. d = "right"
        BY <3>2, <3>5 DEF Sides
      <4> QED
        BY <3>1, <3>3, <3>4, <3>5, <4>1 DEF Step
    <3>6. CASE s = "right"
      <4>1. d = "left"
        BY <3>2, <3>6 DEF Sides
      <4> QED
        BY <3>1, <3>3, <3>4, <3>6, <4>1 DEF Step
    <3> QED
      BY <3>5, <3>6 DEF Sides
  <2> QED
    BY <2>18, <2>19
<1> QED
  BY <1>3, <1>4

(* Where the walk of rb_search ends.                                          *)
SearchEnd(t, k) ==
  Walk([m \in Fields |->
          IF m = nil \/ (m \in Nodes /\ Key[m] = k) THEN m
          ELSE t.child[IF Key[m] > k THEN "left" ELSE "right"][m]],
       t.child["left"][root])

(* rb_search finds a node of the key it is asked for, or none if the tree     *)
(* has none.                                                                  *)
LEMMA SearchFacts ==
  ASSUME NEW t, NEW M, NEW at, NEW edge, Shape(t, M, at, edge), Sorted(M, at),
         NEW k \in Int, NEW e, e = SearchEnd(t, k)
  PROVE  \/ e \in M /\ Key[e] = k
         \/ e = nil /\ \A m \in M : Key[m] # k
<1>1. /\ M \subseteq Whole(M) /\ M \subseteq Fields /\ M \subseteq Nodes /\ nil \in Fields /\ root \in Whole(M)
      /\ t.child \in [Sides -> [Fields -> Fields]]
      /\ \A m \in Whole(M) : \A d \in Sides : Hangs(t, M, at, edge, m, d)
      /\ \A m \in Whole(M) : at[m] \in Int /\ edge["left"][m] \in Int /\ edge["right"][m] \in Int
      /\ "left" \in Sides /\ "right" \in Sides
      /\ root \notin M /\ nil \notin M /\ nil \notin Nodes /\ Cardinality(M) \in Nat
  <2>1. nil \in Fields /\ "left" \in Sides /\ "right" \in Sides
    BY DEF Fields, Sides
  <2> QED
    BY <2>1, ShapeFacts, RBTreeAssumption DEF Tree
<1>2. \A m \in M : Key[m] \in Int
  BY <1>1, RBTreeAssumption
<1>3. PICK next : next = [m \in Fields |->
                    IF m = nil \/ (m \in Nodes /\ Key[m] = k) THEN m
                    ELSE t.child[IF Key[m] > k THEN "left" ELSE "right"][m]]
  OBVIOUS
<1>4. next \in [Fields -> Fields]
  BY <1>1, <1>3
<1>5. PICK first : first = t.child["left"][root]
  OBVIOUS
<1>6. PICK reach : reach = [m \in M |-> edge["right"][m] - edge["left"][m]]
  OBVIOUS
<1>7. PICK C \in Nat : C = Cardinality(Nodes)
  BY ReachFacts
(* Where a node of key k can be, seen from m. *)
<1>8. PICK P : P = {m \in M \cup {nil} : \A j \in M : Key[j] = k =>
                      m # nil /\ edge["left"][m] <= at[j] /\ at[j] <= edge["right"][m]}
  OBVIOUS
<1>9. PICK rank : rank = [m \in P |-> IF m = nil THEN 0 ELSE reach[m] + 1]
  OBVIOUS
<1>10. \A m \in M : reach[m] \in Nat
  BY <1>1, <1>6, ReachFacts
<1>11. first \in M => reach[first] + 1 <= C
  <2> SUFFICES ASSUME first \in M
               PROVE  reach[first] + 1 <= C
    OBVIOUS
  <2>1. edge["right"][first] - edge["left"][first] < edge["right"][root] - edge["left"][root]
    BY <1>1, <1>5, ReachFacts
  <2>2. edge["right"][root] - edge["left"][root] <= C /\ edge["right"][root] - edge["left"][root] \in Nat
    BY <1>1, <1>7, ReachFacts
  <2>3. reach[first] = edge["right"][first] - edge["left"][first] /\ reach[first] \in Nat
    BY <1>6, <1>10
  <2> QED
    BY <2>1, <2>2, <2>3
<1>12. first \in P
  <2>1. Hangs(t, M, at, edge, root, "left")
    BY <1>1
  <2>2. at[root] = Cardinality(M) + 1 /\ edge["left"][root] = 1
    BY DEF Shape, Layout
  <2>3. \A j \in M : at[j] \in 1 .. Cardinality(M)
    <3>1. \A j \in M : at[j] \in 1 .. Cardinality(M) + 1
      BY <1>1, ShapeFacts
    <3>2. \A j \in M : at[j] # at[root]
      BY <1>1 DEF Shape, Layout
    <3> QED
      BY <1>1, <2>2, <3>1, <3>2
  <2>4. CASE first = nil
    <3>1. Cardinality(M) = 0
      <4>1. edge["left"][root] = at[root]
        BY <1>5, <2>1, <2>4 DEF Hangs
      <4> QED
        BY <1>1, <2>2, <4>1
    <3> QED
      BY <1>1, <1>8, <2>3, <2>4, <3>1
  <2>5. CASE first # nil
    <3>1. first \in M /\ edge["left"][first] = 1 /\ edge["right"][first] = Cardinality(M)
      BY <1>1, <1>5, <2>1, <2>2, <2>5 DEF Hangs, Other, Step
    <3> QED
      BY <1>1, <1>8, <2>3, <2>5, <3>1
  <2> QED
    BY <2>4, <2>5
<1>13. rank \in [P -> Nat] /\ rank[first] <= C /\ P \in SUBSET Fields
  <2>1. \A m \in P : (IF m = nil THEN 0 ELSE reach[m] + 1) \in Nat
    BY <1>8, <1>10
  <2> QED
    BY <1>1, <1>7, <1>8, <1>9, <1>11, <1>12, <2>1
<1>14. ASSUME NEW m \in P, next[m] # m
       PROVE  next[m] \in P /\ rank[next[m]] < rank[m]
  <2>1. m \in Fields /\ m # nil /\ ~(m \in Nodes /\ Key[m] = k)
    BY <1>1, <1>3, <1>8, <1>14
  <2>2. /\ m \in M /\ m \in Whole(M) /\ Key[m] # k /\ Key[m] \in Int /\ at[m] \in Int
        /\ \A j \in M : Key[j] = k => edge["left"][m] <= at[j] /\ at[j] <= edge["right"][m]
    BY <1>1, <1>2, <1>8, <2>1
  <2>3. PICK d \in Sides : d = IF Key[m] > k THEN "left" ELSE "right"
    BY <1>1
  <2>4. PICK c : c = t.child[d][m]
    OBVIOUS
  <2>5. next[m] = c
    BY <1>3, <2>1, <2>3, <2>4
  <2>6. /\ c = nil => edge[d][m] = at[m]
        /\ c # nil => c \in M /\ edge[d][c] = edge[d][m] /\ edge[Other(d)][c] = at[m] + Step(d)
    <3>1. Hangs(t, M, at, edge, m, d)
      BY <1>1, <2>2
    <3> QED
      BY <2>4, <3>1 DEF Hangs
  <2>7. ASSUME NEW j \in M, Key[j] = k
        PROVE  /\ at[j] \in Int /\ d = "left" => at[j] < at[m]
               /\ at[j] \in Int /\ d = "right" => at[m] < at[j]
    <3>1. at[j] \in Int /\ Key[j] \in Int /\ j # m /\ at[j] # at[m]
      <4>1. at[j] = at[m] => j = m
        BY <1>1, <2>2 DEF Shape, Layout
      <4> QED
        BY <1>1, <1>2, <2>2, <2>7, <4>1
    <3>2. (at[j] < at[m] => Key[j] <= Key[m]) /\ (at[m] < at[j] => Key[m] <= Key[j])
      BY <2>2 DEF Sorted
    <3> QED
      BY <2>2, <2>3, <2>7, <3>1, <3>2
  <2>8. ASSUME NEW j \in M, Key[j] = k
        PROVE  c # nil /\ edge["left"][c] <= at[j] /\ at[j] <= edge["right"][c]
    <3>1. at[j] \in Int /\ edge["left"][m] <= at[j] /\ at[j] <= edge["right"][m]
      BY <1>1, <2>2, <2>8
    <3>2. CASE d = "left"
      <4>1. at[j] < at[m]
        BY <2>7, <2>8, <3>1, <3>2
      <4>2. c # nil
        BY <2>2, <2>6, <3>1, <3>2, <4>1
      <4>3. edge["left"][c] = edge["left"][m] /\ edge["right"][c] = at[m] - 1
        BY <2>2, <2>6, <3>2, <4>2 DEF Other, Step
      <4> QED
        BY <2>2, <3>1, <4>1, <4>2, <4>3
    <3>3. CASE d = "right"
      <4>1. at[m] < at[j]
        BY <2>7, <2>8, <3>1, <3>3
      <4>2. c # nil
        BY <2>2, <2>6, <3>1, <3>3, <4>1
      <4>3. edge["right"][c] = edge["right"][m] /\ edge["left"][c] = at[m] + 1
        BY <2>2, <2>6, <3>3, <4>2 DEF Other, Step
      <4> QED
        BY <2>2, <3>1, <4>1, <4>2, <4>3
    <3> QED
      BY <3>2, <3>3 DEF Sides
  <2>9. c \in P
    BY <1>8, <2>6, <2>8
  <2>10. rank[c] < rank[m]
    <3>1. rank[m] = reach[m] + 1 /\ reach[m] \in Nat
      BY <1>9, <1>10, <2>2, <2>1
    <3>2. CASE c = nil
      BY <1>9, <2>9, <3>1, <3>2
    <3>3. CASE c # nil
      <4>1. rank[c] = reach[c] + 1 /\ reach[c] \in Nat
        BY <1>9, <1>10, <2>6, <2>9, <3>3
      <4>2. reach[c] < reach[m]
        BY <1>6, <2>2, <2>4, <2>6, <3>3, ReachFacts
      <4> QED
        BY <3>1, <4>1, <4>2
    <3> QED
      BY <3>2, <3>3
  <2> QED
    BY <2>5, <2>9, <2>10
<1>15. Walk(next, first) \in P /\ next[Walk(next, first)] = Walk(next, first)
  BY <1>4, <1>7, <1>12, <1>13, <1>14, WalkEnds
<1>16. e = Walk(next, first)
  BY <1>3, <1>5 DEF SearchEnd
<1>17. e \in P /\ next[e] = e
  BY <1>15, <1>16
<1>18. CASE e = nil
  BY <1>8, <1>17, <1>18
<1>19. CASE e # nil
  <2>1. e \in M /\ e \in Nodes /\ e \in Fields /\ e \in Whole(M)
    BY <1>1, <1>8, <1>17, <1>19
  <2>2. Key[e] = k
    <3> SUFFICES ASSUME Key[e] # k
                 PROVE  FALSE
      OBVIOUS
    <3>1. PICK d \in Sides : d = IF Key[e] > k THEN "left" ELSE "right"
      BY <1>1
    <3>2. t.child[d][e] = e
      BY <1>3, <1>17, <1>19, <2>1, <3>1
    <3>3. t.child[d][e] # e
      BY <1>19, <2>1, <3>2, ChildFacts
    <3> QED
      BY <3>2, <3>3
  <2> QED
    BY <2>1, <2>2
<1> QED
  BY <1>18, <1>19

-----------------------------------------------------------------------------
(* Order is the list of the nodes that their places say it is.                *)
LEMMA OrderFacts ==
  ASSUME NEW t, NEW M, NEW at, Laid(t, M, at), NEW q, q = OrderOf(t)
  PROVE  /\ M \subseteq Nodes /\ IsFiniteSet(M) /\ Cardinality(M) \in Nat
         /\ \A m, n \in M : at[m] = at[n] => m = n
         /\ \A m \in M : at[m] \in 1 .. Cardinality(M) /\ q[at[m]] = m
         /\ q \in Seq(M) /\ Len(q) = Cardinality(M) /\ Distinct(q) /\ Range(q) = M
         /\ \A i \in 1 .. Cardinality(M) : q[i] \in M /\ at[q[i]] = i
         /\ Spans(M, at, q, 1, Cardinality(M))
<1>1. \E edge : Shape(t, M, at, edge)
  BY DEF Laid
<1>2. PICK edge : Shape(t, M, at, edge)
  BY <1>1
<1>3. /\ M \subseteq Nodes /\ IsFiniteSet(M) /\ Cardinality(M) \in Nat /\ root \notin M
      /\ M \subseteq Whole(M) /\ root \in Whole(M) /\ at \in [Whole(M) -> 1 .. Cardinality(M) + 1]
  BY <1>2, ShapeFacts
<1>4. (\A m, n \in Whole(M) : at[m] = at[n] => m = n) /\ at[root] = Cardinality(M) + 1
  BY <1>2 DEF Shape, Layout
<1>5. \A m \in M : at[m] \in 1 .. Cardinality(M)
  <2>1. \A m \in M : at[m] \in 1 .. Cardinality(M) + 1 /\ at[m] # Cardinality(M) + 1
    BY <1>3, <1>4
  <2> QED
    BY <1>3, <2>1
<1>6. Spans(M, at, q, 1, Cardinality(M))
  BY <1>2, OrderSpans
<1>7. /\ q \in Seq(M) /\ Len(q) = Cardinality(M)
      /\ \A i \in 1 .. Cardinality(M) : q[i] \in M /\ at[q[i]] = i
  <2>1. /\ q \in Seq(M) /\ Len(q) = Cardinality(M) - 1 + 1
        /\ \A i \in 1 .. Len(q) : at[q[i]] = 1 + i - 1
    BY <1>6 DEF Spans
  <2>2. Len(q) = Cardinality(M) /\ \A i \in 1 .. Cardinality(M) : 1 + i - 1 = i
    BY <1>3, <2>1
  <2> QED
    BY <2>1, <2>2
<1>8. \A m \in M : q[at[m]] = m
  BY <1>3, <1>4, <1>5, <1>7
<1>9. Distinct(q)
  BY <1>7 DEF Distinct
<1>10. Range(q) = M
  <2>1. Range(q) = {q[i] : i \in 1 .. Cardinality(M)}
    BY <1>7 DEF Range
  <2> QED
    BY <1>5, <1>7, <1>8, <2>1
<1> QED
  BY <1>3, <1>4, <1>5, <1>6, <1>7, <1>8, <1>9, <1>10

(* A fix-up that leaves every node its place leaves the order as it is.       *)
LEMMA SameOrder ==
  ASSUME NEW t, NEW u, NEW M, NEW at, Laid(t, M, at), Laid(u, M, at)
  PROVE  OrderOf(u) = OrderOf(t)
<1>1. PICK C \in Nat : C = Cardinality(M)
  BY OrderFacts
<1>2. (\A m, n \in M : at[m] = at[n] => m = n)
  BY OrderFacts
<1>3. Spans(M, at, OrderOf(t), 1, C) /\ Spans(M, at, OrderOf(u), 1, C)
  BY <1>1, OrderFacts
<1> QED
  BY <1>1, <1>2, <1>3, SpansUnique

(* A new node at place k, and the ones from there on a place further.         *)
LEMMA GrownOrder ==
  ASSUME NEW t, NEW M, NEW at, Laid(t, M, at), NEW n \in Nodes, n \notin M,
         NEW k \in 1 .. Cardinality(M) + 1, NEW u, NEW b, Laid(u, M \cup {n}, b), b[n] = k,
         \A m \in M : b[m] = IF at[m] >= k THEN at[m] + 1 ELSE at[m]
  PROVE  OrderOf(u) = InsertAt(OrderOf(t), k, n)
<1>1. PICK q : q = OrderOf(t)
  OBVIOUS
<1>2. PICK C \in Nat : C = Cardinality(M)
  BY OrderFacts
<1>3. PICK N : N = M \cup {n}
  OBVIOUS
<1>4. /\ IsFiniteSet(M) /\ q \in Seq(M) /\ Len(q) = C /\ Distinct(q) /\ Range(q) = M
      /\ \A i \in 1 .. C : q[i] \in M /\ at[q[i]] = i
  BY <1>1, <1>2, OrderFacts
<1>5. Cardinality(N) = C + 1
  <2>1. Cardinality(M \cup {n}) = Cardinality(M) + 1
    BY <1>4, FS_AddElement
  <2> QED
    BY <1>2, <1>3, <2>1
<1>6. q \in Seq(N) /\ n \in N /\ n \notin Range(q) /\ k \in 1 .. Len(q) + 1
  BY <1>2, <1>3, <1>4
<1>7. PICK r : r = InsertAt(q, k, n)
  OBVIOUS
<1>8. /\ r \in Seq(N) /\ Len(r) = Len(q) + 1
      /\ \A i \in 1 .. Len(q) + 1 : r[i] = IF i < k THEN q[i] ELSE IF i = k THEN n ELSE q[i - 1]
  <2>1. /\ InsertAt(q, k, n) \in Seq(N) /\ Len(InsertAt(q, k, n)) = Len(q) + 1
        /\ \A i \in 1 .. Len(q) + 1 :
             InsertAt(q, k, n)[i] = IF i < k THEN q[i] ELSE IF i = k THEN n ELSE q[i - 1]
    BY <1>4, <1>6, PutAt
  <2> QED
    BY <1>7, <2>1
<1>9. \A i \in 1 .. C + 1 : b[r[i]] = i
  <2> SUFFICES ASSUME NEW i \in 1 .. C + 1
               PROVE  b[r[i]] = i
    OBVIOUS
  <2>1. r[i] = IF i < k THEN q[i] ELSE IF i = k THEN n ELSE q[i - 1]
    BY <1>4, <1>8
  <2>2. CASE i < k
    <3>1. i \in 1 .. C /\ r[i] = q[i] /\ i \in Int /\ k \in Int
      BY <1>2, <2>1, <2>2
    <3>2. q[i] \in M /\ at[q[i]] = i
      BY <1>4, <3>1
    <3> QED
      BY <2>2, <3>1, <3>2
  <2>3. CASE i = k
    BY <2>1, <2>3
  <2>4. CASE i > k
    <3>1. i - 1 \in 1 .. C /\ r[i] = q[i - 1] /\ i - 1 >= k
      BY <1>2, <2>1, <2>4
    <3>2. q[i - 1] \in M /\ at[q[i - 1]] = i - 1
      BY <1>4, <3>1
    <3>3. b[q[i - 1]] = at[q[i - 1]] + 1
      BY <3>1, <3>2
    <3> QED
      BY <3>1, <3>2, <3>3
  <2> QED
    BY <2>2, <2>3, <2>4
<1>10. Spans(N, b, r, 1, C + 1)
  <2>1. Len(r) = (C + 1) - 1 + 1 /\ \A i \in 1 .. Len(r) : b[r[i]] = 1 + i - 1
    BY <1>4, <1>8, <1>9
  <2> QED
    BY <1>8, <2>1 DEF Spans
<1>11. Spans(N, b, OrderOf(u), 1, C + 1) /\ \A m, j \in N : b[m] = b[j] => m = j
  <2>1. Laid(u, N, b)
    BY <1>3
  <2> QED
    BY <1>5, <2>1, OrderFacts
<1>12. OrderOf(u) = r
  <2>1. 1 \in Int /\ C + 1 \in Int
    OBVIOUS
  <2> QED
    BY <1>10, <1>11, <2>1, SpansUnique
<1> QED
  BY <1>1, <1>7, <1>12

(* A node gone from its place, and the ones behind it a place nearer.         *)
LEMMA ShrunkOrder ==
  ASSUME NEW t, NEW M, NEW at, Laid(t, M, at), NEW z \in M,
         NEW u, Laid(u, M \ {z}, ShrunkAt(M, at, z))
  PROVE  OrderOf(u) = RemoveAt(OrderOf(t), at[z])
<1>1. PICK q : q = OrderOf(t)
  OBVIOUS
<1>2. PICK C \in Nat : C = Cardinality(M)
  BY OrderFacts
<1>3. PICK N : N = M \ {z}
  OBVIOUS
<1>4. PICK k : k = at[z]
  OBVIOUS
<1>5. PICK b : b = ShrunkAt(M, at, z)
  OBVIOUS
<1>6. /\ IsFiniteSet(M) /\ q \in Seq(M) /\ Len(q) = C /\ Distinct(q)
      /\ \A i \in 1 .. C : q[i] \in M /\ at[q[i]] = i
      /\ k \in 1 .. C /\ q[k] = z
  BY <1>1, <1>2, <1>4, OrderFacts
<1>7. Cardinality(N) = C - 1 /\ C > 0
  <2>1. Cardinality(M \ {z}) = Cardinality(M) - 1
    BY <1>6, FS_RemoveElement
  <2> QED
    BY <1>2, <1>3, <1>6, <2>1
<1>8. \A m \in N : b[m] = IF at[m] > k THEN at[m] - 1 ELSE at[m]
  BY <1>3, <1>4, <1>5 DEF ShrunkAt, Whole
<1>9. PICK r : r = RemoveAt(q, k)
  OBVIOUS
<1>10. /\ r \in Seq(M) /\ Len(r) = C - 1
       /\ \A i \in 1 .. C - 1 : r[i] = IF i < k THEN q[i] ELSE q[i + 1]
  <2>1. k \in 1 .. Len(q)
    BY <1>6
  <2> QED
    BY <1>6, <1>9, <2>1, TakenOut
<1>11. ASSUME NEW i \in 1 .. C - 1
       PROVE  r[i] \in N /\ b[r[i]] = i
  <2>1. CASE i < k
    <3>1. i \in 1 .. C /\ r[i] = q[i] /\ i # k
      BY <1>6, <1>10, <1>11, <2>1
    <3>2. q[i] \in M /\ at[q[i]] = i /\ q[i] # z
      BY <1>4, <1>6, <3>1
    <3> QED
      BY <1>3, <1>6, <1>8, <2>1, <3>1, <3>2
  <2>2. CASE i >= k
    <3>1. i + 1 \in 1 .. C /\ r[i] = q[i + 1] /\ i + 1 # k /\ i + 1 > k
      BY <1>6, <1>10, <1>11, <2>2
    <3>2. q[i + 1] \in M /\ at[q[i + 1]] = i + 1 /\ q[i + 1] # z
      BY <1>4, <1>6, <3>1
    <3>3. q[i + 1] \in N
      BY <1>3, <3>2
    <3>4. b[q[i + 1]] = at[q[i + 1]] - 1
      BY <1>8, <3>1, <3>2, <3>3
    <3> QED
      BY <3>1, <3>2, <3>3, <3>4
  <2> QED
    BY <1>6, <2>1, <2>2
<1>12. Spans(N, b, r, 1, C - 1)
  <2>1. r \in [1 .. C - 1 -> N]
    BY <1>10, <1>11
  <2>2. r \in Seq(N)
    BY <1>7, <2>1, C - 1 \in Nat
  <2>3. Len(r) = (C - 1) - 1 + 1 /\ \A i \in 1 .. Len(r) : b[r[i]] = 1 + i - 1
    BY <1>10, <1>11
  <2> QED
    BY <2>2, <2>3 DEF Spans
<1>13. Spans(N, b, OrderOf(u), 1, C - 1) /\ \A m, j \in N : b[m] = b[j] => m = j
  <2>1. Laid(u, N, b)
    BY <1>3, <1>5
  <2> QED
    BY <1>7, <2>1, OrderFacts
<1>14. OrderOf(u) = r
  <2>1. 1 \in Int /\ C - 1 \in Int
    OBVIOUS
  <2> QED
    BY <1>12, <1>13, <2>1, SpansUnique
<1> QED
  BY <1>1, <1>4, <1>9, <1>14

(* rb_insert: the new node comes behind the nodes of its key and before the   *)
(* greater ones, and stays to be coloured.                                    *)
LEMMA InsertOrdered ==
  ASSUME NEW at, Laid(tree, members, at), Sorted(members, at), Balanced(tree, members),
         NEW n \in Nodes, rb_insert(n)
  PROVE  /\ Inserting(tree', members', x')
         /\ \E b : Laid(tree', members', b) /\ Sorted(members', b)
         /\ \E k \in 1 .. Cardinality(members) + 1 :
              /\ \A j \in members : Key[j] <= Key[n] <=> at[j] < k
              /\ OrderOf(tree') = InsertAt(OrderOf(tree), k, n)
<1>1. \E edge : Shape(tree, members, at, edge)
  BY DEF Laid
<1>2. PICK edge : Shape(tree, members, at, edge)
  BY <1>1
<1>3. PICK p : p = LeafPlace(tree, n)
  OBVIOUS
<1>4. PICK s : s = Below(p, n)
  OBVIOUS
<1>5. PICK b : b = GrownAt(members, at, n, p, s)
  OBVIOUS
<1>6. PICK k : k = Place(at, p, s)
  OBVIOUS
<1>7. Laid(tree', members', b) /\ Inserting(tree', members', x')
  BY <1>3, <1>4, <1>5, InsertKeeps
<1>8. n \notin members /\ members' = members \cup {n}
  BY DEF rb_insert
<1>9. /\ members \subseteq Nodes /\ Cardinality(members) \in Nat /\ root \notin members
      /\ \A m \in Whole(members) : at[m] \in 1 .. Cardinality(members) + 1
      /\ at[root] = Cardinality(members) + 1 /\ \A m \in members : at[m] \in 1 .. Cardinality(members)
  <2>1. at[root] = Cardinality(members) + 1
    BY <1>2 DEF Shape, Layout
  <2> QED
    BY <1>2, <2>1, ShapeFacts, OrderFacts
<1>10. k \in 1 .. Cardinality(members) + 1
  <2>1. p \in Whole(members) /\ s \in Sides
    BY <1>2, <1>3, <1>4, LeafPlaceFacts
  <2>2. CASE p = root
    <3>1. k = at[root]
      BY <1>4, <1>6, <2>2 DEF Below, Place
    <3> QED
      BY <1>9, <3>1
  <2>3. CASE p # root
    <3>1. p \in members
      BY <2>1, <2>3 DEF Whole
    <3>2. k = at[p] \/ k = at[p] + 1
      BY <1>6 DEF Place
    <3> QED
      BY <1>9, <3>1, <3>2
  <2> QED
    BY <2>2, <2>3
<1>11. \A j \in members : Key[j] <= Key[n] <=> at[j] < k
  BY <1>2, <1>3, <1>4, <1>6, LeafPlaceSorted
<1>12. b[n] = k /\ \A m \in members : b[m] = IF at[m] >= k THEN at[m] + 1 ELSE at[m]
  <2>1. \A m \in Whole(members \cup {n}) :
          b[m] = IF m = n THEN k ELSE IF at[m] >= k THEN at[m] + 1 ELSE at[m]
    BY <1>5, <1>6 DEF GrownAt
  <2>2. n \in Whole(members \cup {n}) /\ members \subseteq Whole(members \cup {n})
    BY DEF Whole
  <2> QED
    BY <1>8, <2>1, <2>2
<1>13. OrderOf(tree') = InsertAt(OrderOf(tree), k, n)
  <2>1. Laid(tree', members \cup {n}, b)
    BY <1>7, <1>8
  <2> QED
    BY <1>8, <1>10, <1>12, <2>1, GrownOrder
<1>14. Sorted(members \cup {n}, b)
  <2> SUFFICES ASSUME NEW m \in members \cup {n}, NEW j \in members \cup {n}, b[m] < b[j]
               PROVE  Key[m] <= Key[j]
    BY DEF Sorted
  <2>1. k \in Int /\ Key[n] \in Int /\ \A i \in members : Key[i] \in Int /\ at[i] \in Int
    BY <1>9, <1>10, RBTreeAssumption
  <2>2. CASE m = n /\ j = n
    BY <2>1, <2>2
  <2>3. CASE m = n /\ j # n
    <3>1. j \in members /\ ~(at[j] < k)
      BY <1>12, <2>1, <2>3
    <3>2. ~(Key[j] <= Key[n])
      BY <1>11, <3>1
    <3> QED
      BY <2>1, <2>3, <3>1, <3>2
  <2>4. CASE m # n /\ j = n
    <3>1. m \in members /\ at[m] < k
      BY <1>12, <2>1, <2>4
    <3> QED
      BY <1>11, <2>4, <3>1
  <2>5. CASE m # n /\ j # n
    <3>1. m \in members /\ j \in members /\ at[m] < at[j]
      BY <1>12, <2>1, <2>5
    <3> QED
      BY <3>1 DEF Sorted
  <2> QED
    BY <2>2, <2>3, <2>4, <2>5
<1> QED
  BY <1>7, <1>8, <1>10, <1>11, <1>13, <1>14

(* rb_delete: the node goes and the others keep their order.                  *)
LEMMA DeleteOrdered ==
  ASSUME NEW at, Laid(tree, members, at), Sorted(members, at), Balanced(tree, members),
         NEW z \in Nodes, rb_delete(z)
  PROVE  /\ \/ Balanced(tree', members') /\ pc' = "idle"
            \/ Deleting(tree', members', x', top') /\ pc' = "delete_fixup"
         /\ \E b : Laid(tree', members', b) /\ Sorted(members', b)
         /\ z \in members /\ OrderOf(tree') = RemoveAt(OrderOf(tree), at[z])
<1>1. PICK b : b = ShrunkAt(members, at, z)
  OBVIOUS
<1>2. /\ Laid(tree', members', ShrunkAt(members, at, z))
      /\ \/ Balanced(tree', members') /\ pc' = "idle"
         \/ Deleting(tree', members', x', top') /\ pc' = "delete_fixup"
  BY DeleteKeeps
<1>3. z \in members /\ members' = members \ {z}
  BY Zenon DEF rb_delete
<1>4. OrderOf(tree') = RemoveAt(OrderOf(tree), at[z])
  <2>1. Laid(tree', members \ {z}, ShrunkAt(members, at, z))
    BY <1>2, <1>3
  <2> QED
    BY <1>3, <2>1, ShrunkOrder
<1>5. Sorted(members \ {z}, b)
  <2> SUFFICES ASSUME NEW m \in members \ {z}, NEW j \in members \ {z}, b[m] < b[j]
               PROVE  Key[m] <= Key[j]
    BY DEF Sorted
  <2>1. /\ \A i \in members : at[i] \in 1 .. Cardinality(members)
        /\ \A i, l \in members : at[i] = at[l] => i = l
        /\ Cardinality(members) \in Nat
    BY OrderFacts
  <2>2. \A i \in members \ {z} : b[i] = IF at[i] > at[z] THEN at[i] - 1 ELSE at[i]
    BY <1>1 DEF ShrunkAt, Whole
  <2>3. \A i \in members : at[i] \in Int
    BY <2>1
  <2>4. at[m] # at[z] /\ at[j] # at[z] /\ m \in members /\ j \in members
    BY <1>3, <2>1
  <2>5. at[m] < at[j]
    BY <1>3, <2>2, <2>3, <2>4
  <2> QED
    BY <2>4, <2>5 DEF Sorted
<1> QED
  BY <1>1, <1>2, <1>3, <1>4, <1>5

(* A round of a fix-up: the tree changes and no node its place.               *)
FixUp == \/ InsertRecolour \/ InsertRotate \/ InsertDone
         \/ DeleteRecolour \/ DeleteRotate \/ DeleteDone

(* No round loses a node or moves it.                                         *)
LEMMA FixUpOrdered ==
  ASSUME NEW at, Laid(tree, members, at), FixUp,
         pc = "insert_fixup" => Inserting(tree, members, x),
         pc = "delete_fixup" => Deleting(tree, members, x, top)
  PROVE  /\ members' = members /\ answer' = answer /\ Laid(tree', members', at)
         /\ pc' \in {"idle", "insert_fixup", "delete_fixup"}
         /\ pc' = "idle" => Balanced(tree', members')
         /\ pc' = "insert_fixup" => Inserting(tree', members', x')
         /\ pc' = "delete_fixup" => Deleting(tree', members', x', top')
         /\ OrderOf(tree') = OrderOf(tree)
<1> DEFINE Left ==
             /\ members' = members /\ answer' = answer /\ Laid(tree', members', at)
             /\ pc' \in {"idle", "insert_fixup", "delete_fixup"}
             /\ pc' = "idle" => Balanced(tree', members')
             /\ pc' = "insert_fixup" => Inserting(tree', members', x')
             /\ pc' = "delete_fixup" => Deleting(tree', members', x', top')
<1>1. ASSUME InsertRecolour
      PROVE  Left
  <2>1. pc = "insert_fixup" /\ pc' = pc /\ members' = members /\ answer' = answer
    BY <1>1 DEF InsertRecolour
  <2>2. Laid(tree', members', at) /\ Inserting(tree', members', x')
    BY <1>1, <2>1, InsertRecolourKeeps
  <2> QED
    BY <2>1, <2>2
<1>2. ASSUME InsertRotate
      PROVE  Left
  <2>1. pc = "insert_fixup" /\ pc' = pc /\ members' = members /\ answer' = answer
    BY <1>2, Zenon DEF InsertRotate
  <2>2. Laid(tree', members', at) /\ Inserting(tree', members', x')
    BY <1>2, <2>1, InsertRotateKeeps
  <2> QED
    BY <2>1, <2>2
<1>3. ASSUME InsertDone
      PROVE  Left
  <2>1. pc = "insert_fixup" /\ members' = members /\ answer' = answer
    BY <1>3 DEF InsertDone
  <2>2. Laid(tree', members', at) /\ Balanced(tree', members') /\ pc' = "idle"
    BY <1>3, <2>1, InsertDoneKeeps
  <2> QED
    BY <2>1, <2>2
<1>4. ASSUME DeleteRecolour
      PROVE  Left
  <2>1. pc = "delete_fixup" /\ pc' = pc /\ members' = members /\ answer' = answer
    BY <1>4 DEF DeleteRecolour, Fixing
  <2>2. Laid(tree', members', at) /\ Deleting(tree', members', x', top')
    BY <1>4, <2>1, DeleteRecolourKeeps
  <2> QED
    BY <2>1, <2>2, SMTT(30)
<1>5. ASSUME DeleteRotate
      PROVE  Left
  <2>1. pc = "delete_fixup" /\ pc' = pc /\ members' = members /\ answer' = answer
    BY <1>5, Zenon DEF DeleteRotate, Fixing
  <2>2. Laid(tree', members', at) /\ Deleting(tree', members', x', top')
    BY <1>5, <2>1, DeleteRotateKeeps
  <2> QED
    BY <2>1, <2>2
<1>6. ASSUME DeleteDone
      PROVE  Left
  <2>1. pc = "delete_fixup" /\ members' = members /\ answer' = answer
    BY <1>6 DEF DeleteDone
  <2>2. Laid(tree', members', at) /\ Balanced(tree', members') /\ pc' = "idle"
    BY <1>6, <2>1, DeleteDoneKeeps
  <2> QED
    BY <2>1, <2>2
<1>7. Left
  BY <1>1, <1>2, <1>3, <1>4, <1>5, <1>6 DEF FixUp
<1>8. OrderOf(tree') = OrderOf(tree)
  <2>1. Laid(tree', members, at)
    BY <1>7
  <2> QED
    BY <2>1, SameOrder
<1> QED
  BY <1>7, <1>8

-----------------------------------------------------------------------------
(* What every call and every round of a fix-up loop leaves: the nodes in a    *)
(* tree in the order of their keys, and what the loop has still to repair.    *)
IInv ==
  /\ \E at : Laid(tree, members, at) /\ Sorted(members, at)
  /\ pc \in {"idle", "insert_fixup", "delete_fixup"}
  /\ pc = "idle" => Balanced(tree, members)
  /\ pc = "insert_fixup" => Inserting(tree, members, x)
  /\ pc = "delete_fixup" => Deleting(tree, members, x, top)

(* The empty tree Init makes.                                                 *)
LEMMA InitIInv ==
  ASSUME Init
  PROVE  IInv
<1>1. /\ members = {} /\ pc = "idle"
      /\ tree.child = [s \in Sides |-> [n \in Fields |-> nil]]
      /\ tree.parent = [n \in Fields |-> nil] /\ tree.red = [n \in Fields |-> FALSE]
      /\ tree \in Tree
  <2>1. nil \in Fields
    BY DEF Fields
  <2> QED
    BY <2>1 DEF Init, Tree
<1>2. PICK at : at = [m \in {root} |-> 1]
  OBVIOUS
<1>3. PICK edge : edge = [s \in Sides |-> [m \in {root} |-> 1]]
  OBVIOUS
<1>4. Whole({}) = {root} /\ Cardinality({}) = 0 /\ root \in Fields /\ "left" \in Sides /\ "right" \in Sides
  BY FS_EmptySet DEF Whole, Fields, Sides
<1>5. Layout({}, at, edge)
  <2>1. at \in [{root} -> 1 .. 0 + 1] /\ edge \in [Sides -> [{root} -> 1 .. 0 + 1]]
    BY <1>2, <1>3
  <2>2. at[root] = 1 /\ edge["left"][root] = 1 /\ edge["right"][root] = 1
    BY <1>2, <1>3, <1>4
  <2>3. PICK W : W = {root}
    OBVIOUS
  <2>4. PICK C : C = 0
    OBVIOUS
  <2>5. Whole({}) = W /\ Cardinality({}) = C
    BY <1>4, <2>3, <2>4
  <2>6. at \in [W -> 1 .. C + 1] /\ edge \in [Sides -> [W -> 1 .. C + 1]]
    BY <2>1, <2>3, <2>4
  <2>7. \A m \in W : m = root
    BY <2>3
  <2>8. \A m, n \in W : at[m] = at[n] => m = n
    BY <2>7
  <2>9. \A m \in W : edge["left"][m] <= at[m] /\ at[m] <= edge["right"][m]
    BY <2>2, <2>7
  <2>10. at[root] = C + 1 /\ edge["left"][root] = 1
    BY <2>2, <2>4
  <2> QED
    BY <2>5, <2>6, <2>8, <2>9, <2>10 DEF Layout
<1>6. \A s \in Sides : tree.child[s][root] = nil
  BY <1>1, <1>4
<1>7. \A s \in Sides : Hangs(tree, {}, at, edge, root, s)
  BY <1>2, <1>3, <1>6 DEF Hangs
<1>8. Shape(tree, {}, at, edge)
  BY <1>1, <1>4, <1>5, <1>6, <1>7 DEF Shape
<1>9. Laid(tree, members, at) /\ Sorted(members, at)
  BY <1>1, <1>8 DEF Laid, Sorted
<1>10. \A m \in Fields : ~tree.red[m]
  BY <1>1
<1>11. Calm(tree, {}, None, None)
  <2>1. nil \in Fields /\ tree.child["left"][root] = nil
    BY <1>4, <1>6 DEF Fields
  <2> QED
    BY <1>4, <1>10, <2>1 DEF Calm
<1>12. PICK h : h = [m \in {} \cup {nil} |-> 0]
  OBVIOUS
<1>13. Even(tree, {}, h, NoHole)
  BY <1>12 DEF Even
<1> QED
  BY <1>1, <1>9, <1>11, <1>13 DEF IInv, Balanced

(* A query reads the tree and writes none of it.                              *)
LEMMA IInvStep ==
  ASSUME IInv, [Next]_vars
  PROVE  IInv'
<1>1. PICK at : Laid(tree, members, at) /\ Sorted(members, at)
  BY DEF IInv
<1>2. ASSUME NEW n \in Nodes, rb_insert(n)
      PROVE  IInv'
  <2>1. Balanced(tree, members) /\ pc' = "insert_fixup"
    BY <1>2 DEF rb_insert, Ready, IInv
  <2>2. Inserting(tree', members', x') /\ \E b : Laid(tree', members', b) /\ Sorted(members', b)
    BY <1>1, <1>2, <2>1, InsertOrdered
  <2> QED
    BY <2>1, <2>2 DEF IInv
<1>3. ASSUME NEW n \in Nodes, rb_delete(n)
      PROVE  IInv'
  <2>1. Balanced(tree, members)
    BY <1>3, Zenon DEF rb_delete, Ready, IInv
  <2>2. /\ \/ Balanced(tree', members') /\ pc' = "idle"
           \/ Deleting(tree', members', x', top') /\ pc' = "delete_fixup"
        /\ \E b : Laid(tree', members', b) /\ Sorted(members', b)
    BY <1>1, <1>3, <2>1, DeleteOrdered
  <2> QED
    BY <2>2 DEF IInv
<1>4. CASE UNCHANGED <<tree, members, pc, x, top>>
  BY <1>4 DEF IInv
<1>5. ASSUME NEW n, rb_node_next(n) \/ rb_node_prev(n)
      PROVE  IInv'
  BY <1>4, <1>5 DEF rb_node_next, rb_node_prev, Query
<1>6. ASSUME NEW k, rb_search(k)
      PROVE  IInv'
  BY <1>4, <1>6 DEF rb_search, Query
<1>7. CASE UseAnswer
  BY <1>4, <1>7 DEF UseAnswer
<1>8. CASE FixUp
  <2>1. (pc = "insert_fixup" => Inserting(tree, members, x)) /\ (pc = "delete_fixup" => Deleting(tree, members, x, top))
    BY DEF IInv
  <2>2. /\ members' = members /\ Laid(tree', members', at)
        /\ pc' \in {"idle", "insert_fixup", "delete_fixup"}
        /\ pc' = "idle" => Balanced(tree', members')
        /\ pc' = "insert_fixup" => Inserting(tree', members', x')
        /\ pc' = "delete_fixup" => Deleting(tree', members', x', top')
    BY <1>1, <1>8, <2>1, FixUpOrdered
  <2>3. Laid(tree', members', at) /\ Sorted(members', at)
    BY <1>1, <2>2
  <2> QED
    BY <2>2, <2>3 DEF IInv
<1>9. CASE UNCHANGED vars
  BY <1>4, <1>9 DEF vars
<1> QED
  BY <1>2, <1>3, <1>5, <1>6, <1>7, <1>8, <1>9 DEF Next, FixUp

(* Between calls nothing is left to repair, which is what RedBlack says.      *)
LEMMA IInvRedBlack ==
  ASSUME IInv
  PROVE  RedBlack
<1> SUFFICES ASSUME pc = "idle"
             PROVE  /\ ~tree.red[nil] /\ ~tree.red[root] /\ ~tree.red[tree.child["left"][root]]
                    /\ \A s \in Sides : \A n \in members :
                         LET c == tree.child[s][n]
                         IN c # nil => tree.parent[c] = n /\ ~(tree.red[n] /\ tree.red[c])
                    /\ BlackHeight # -1
  BY DEF RedBlack
<1>1. PICK at : \E edge : Shape(tree, members, at, edge)
  BY DEF IInv, Laid
<1>2. PICK edge : Shape(tree, members, at, edge)
  BY <1>1
<1>3. PICK h : Even(tree, members, h, NoHole)
  BY DEF IInv, Balanced
<1>4. Calm(tree, members, None, None)
  BY DEF IInv, Balanced
<1>5. \A m \in Whole(members) : \A s \in Sides : tree.child[s][m] # None
  <2>1. \A m \in Whole(members) : \A s \in Sides : tree.child[s][m] \in Fields
    BY <1>2, <1>3, EvenFacts
  <2> QED
    BY <2>1, RBTreeAssumption
<1>6. root \in Whole(members) /\ members \subseteq Whole(members) /\ "left" \in Sides /\ None \notin members
  BY <1>2, ShapeFacts, RBTreeAssumption DEF Sides, Fields
<1>7. ~tree.red[nil] /\ ~tree.red[root] /\ ~tree.red[tree.child["left"][root]]
  BY <1>4, <1>5, <1>6 DEF Calm
<1>8. ASSUME NEW s \in Sides, NEW n \in members, tree.child[s][n] # nil
      PROVE  tree.parent[tree.child[s][n]] = n /\ ~(tree.red[n] /\ tree.red[tree.child[s][n]])
  <2>1. tree.parent[tree.child[s][n]] = n
    BY <1>2, <1>6, <1>8, ChildFacts
  <2>2. n # None /\ tree.child[s][n] # None
    BY <1>5, <1>6
  <2> QED
    BY <1>4, <2>1, <2>2 DEF Calm
<1>9. BlackHeight # -1
  BY <1>2, <1>3, HeightFacts
<1> QED
  BY <1>7, <1>8, <1>9

(* Whatever rb_insert and rb_delete are called with, and however far the       *)
(* rebalancing climbs, each call leaves a tree with no red node below a red    *)
(* one, as many black nodes on every way down, and parent fields that undo the *)
(* child fields.                                                               *)
THEOREM RedBlackKept == Spec => []RedBlack
<1>1. Init => IInv
  BY InitIInv
<1>2. IInv /\ [Next]_vars => IInv'
  BY IInvStep
<1>3. IInv => RedBlack
  BY IInvRedBlack
<1> QED
  BY <1>1, <1>2, <1>3, PTL DEF Spec

-----------------------------------------------------------------------------
(* Init keeps no node.                                                        *)
LEMMA InitBag ==
  ASSUME Init
  PROVE  Bag!Init
<1>1. PICK at : Laid(tree, members, at)
  BY InitIInv DEF IInv
<1>2. members = {} /\ answer = None
  BY DEF Init
<1>3. Order = OrderOf(tree)
  BY DEF Order, OrderOf
<1>4. Order \in Seq(members) /\ Len(Order) = Cardinality(members)
  BY <1>1, <1>3, OrderFacts
<1>5. Order = <<>>
  <2>1. Len(Order) = 0
    BY <1>2, <1>4, FS_EmptySet
  <2> QED
    BY <1>4, <2>1, EmptySeq
<1> QED
  BY <1>2, <1>5 DEF Bag!Init

(* What a query answers is what the order says.                               *)
LEMMA QueryStep ==
  ASSUME NEW at, Laid(tree, members, at), Sorted(members, at)
  PROVE  /\ \A n \in Nodes : rb_node_next(n) => Bag!Neighbour(n, 1)
         /\ \A n \in Nodes : rb_node_prev(n) => Bag!Neighbour(n, -1)
         /\ \A k \in Int : rb_search(k) => Bag!Search(k)
<1>1. PICK q : q = OrderOf(tree)
  OBVIOUS
<1>2. PICK edge : Shape(tree, members, at, edge)
  BY DEF Laid
<1>3. PICK C \in Nat : C = Cardinality(members)
  BY OrderFacts
<1>4. /\ q \in Seq(members) /\ Len(q) = C /\ Range(q) = members
      /\ \A m \in members : at[m] \in 1 .. C /\ q[at[m]] = m
      /\ \A m, n \in members : at[m] = at[n] => m = n
      /\ \A i \in 1 .. C : q[i] \in members /\ at[q[i]] = i
      /\ nil \notin members /\ members \subseteq Nodes
  <2>1. nil \notin members
    BY <1>2, ShapeFacts
  <2> QED
    BY <1>1, <1>3, <2>1, OrderFacts
<1>5. Order = q /\ (tree' = tree => Order' = Order)
  BY <1>1, ZenonT(30) DEF Order, OrderOf
<1>6. ASSUME NEW n \in members, NEW s \in Sides, Query(Adjacent(tree, n, s))
      PROVE  Bag!Neighbour(n, Step(s))
  <2>1. PICK e : e = Adjacent(tree, n, s)
    OBVIOUS
  <2>2. answer' = (IF e = nil THEN None ELSE e) /\ tree' = tree
    BY <1>6, <2>1 DEF Query
  <2>3. \/ e \in members /\ at[e] = at[n] + Step(s)
        \/ e = nil /\ at[n] + Step(s) \notin 1 .. C
    BY <1>2, <1>3, <2>1, AdjacentFacts
  <2>4. PICK i \in 1 .. C : i = at[n]
    BY <1>4
  <2>5. i \in DOMAIN q /\ q[i] = n /\ DOMAIN q = 1 .. C
    BY <1>4, <2>4
  <2>6. answer' = IF i + Step(s) \in DOMAIN q THEN q[i + Step(s)] ELSE None
    <3>1. CASE e \in members /\ at[e] = at[n] + Step(s)
      <4>1. i + Step(s) \in 1 .. C /\ q[i + Step(s)] = e /\ e # nil
        BY <1>4, <2>4, <3>1
      <4> QED
        BY <2>2, <2>5, <4>1
    <3>2. CASE e = nil /\ at[n] + Step(s) \notin 1 .. C
      BY <2>2, <2>4, <2>5, <3>2
    <3> QED
      BY <2>3, <3>1, <3>2
  <2> QED
    BY <1>5, <2>2, <2>5, <2>6 DEF Bag!Neighbour
<1>7. ASSUME NEW n \in Nodes, rb_node_next(n)
      PROVE  Bag!Neighbour(n, 1)
  <2>1. n \in members /\ Query(Adjacent(tree, n, "right")) /\ "right" \in Sides /\ Step("right") = 1
    BY <1>7 DEF rb_node_next, Sides, Step
  <2> QED
    BY <1>6, <2>1
<1>8. ASSUME NEW n \in Nodes, rb_node_prev(n)
      PROVE  Bag!Neighbour(n, -1)
  <2>1. n \in members /\ Query(Adjacent(tree, n, "left")) /\ "left" \in Sides /\ Step("left") = -1
    BY <1>8 DEF rb_node_prev, Sides, Step
  <2> QED
    BY <1>6, <2>1
<1>9. ASSUME NEW k \in Int, rb_search(k)
      PROVE  Bag!Search(k)
  <2>1. PICK e : e = SearchEnd(tree, k)
    OBVIOUS
  <2>2. answer' = (IF e = nil THEN None ELSE e) /\ tree' = tree
    <3>1. Query(e)
      BY <1>9, <2>1 DEF rb_search, SearchEnd
    <3> QED
      BY <3>1 DEF Query
  <2>3. \/ e \in members /\ Key[e] = k
        \/ e = nil /\ \A m \in members : Key[m] # k
    BY <1>2, <2>1, SearchFacts
  <2>4. PICK equal : equal = {m \in members : Key[m] = k}
    OBVIOUS
  <2>5. IF equal = {} THEN answer' = None ELSE answer' \in equal
    BY <1>4, <2>2, <2>3, <2>4
  <2>6. Bag!ToSet(Order) = members
    BY <1>4, <1>5 DEF Bag!ToSet, Range
  <2> QED
    BY <1>5, <2>2, <2>4, <2>5, <2>6 DEF Bag!Search
<1> QED
  BY <1>7, <1>8, <1>9

(* Every step of the pointer code is one of the ordered bag or none.          *)
LEMMA BagStep ==
  ASSUME IInv, [Next]_vars
  PROVE  [Bag!Next]_<<Order, answer>>
<1>1. PICK at : Laid(tree, members, at) /\ Sorted(members, at)
  BY DEF IInv
<1>2. PICK q : q = OrderOf(tree)
  OBVIOUS
<1>3. PICK C \in Nat : C = Cardinality(members)
  BY <1>1, OrderFacts
<1>4. /\ members \subseteq Nodes /\ q \in Seq(members) /\ Len(q) = C /\ Range(q) = members
      /\ \A m \in members : at[m] \in 1 .. C /\ q[at[m]] = m
      /\ \A i \in 1 .. C : q[i] \in members /\ at[q[i]] = i
  BY <1>1, <1>2, <1>3, OrderFacts
<1>5. Order = q /\ Order' = OrderOf(tree') /\ (tree' = tree => Order' = Order)
  BY <1>2, ZenonT(30) DEF Order, OrderOf
<1>6. DOMAIN q = 1 .. C /\ Bag!ToSet(q) = members
  BY <1>4 DEF Bag!ToSet, Range
<1>7. ASSUME NEW n \in Nodes, rb_insert(n)
      PROVE  Bag!Insert(n)
  <2>1. Balanced(tree, members) /\ n \notin members /\ answer' = answer
    BY <1>7 DEF rb_insert, Ready, IInv
  <2>2. PICK k \in 1 .. C + 1 : /\ \A j \in members : Key[j] <= Key[n] <=> at[j] < k
                                /\ OrderOf(tree') = InsertAt(OrderOf(tree), k, n)
    BY <1>1, <1>3, <1>7, <2>1, InsertOrdered
  <2>3. Order' = Bag!InsertAt(Order, k, n)
    BY <1>2, <1>5, <2>2 DEF InsertAt, Bag!InsertAt
  <2>4. \A j \in DOMAIN Order : Key[Order[j]] <= Key[n] <=> j < k
    BY <1>4, <1>5, <1>6, <2>2
  <2>5. k \in 1 .. Len(Order) + 1 /\ n \notin Bag!ToSet(Order)
    BY <1>4, <1>5, <1>6, <2>1
  <2> QED
    BY <2>1, <2>3, <2>4, <2>5 DEF Bag!Insert
<1>8. ASSUME NEW n \in Nodes, rb_delete(n)
      PROVE  Bag!Delete(n)
  <2>1. Balanced(tree, members) /\ answer' = answer
    BY <1>8, Zenon DEF rb_delete, Ready, IInv
  <2>2. n \in members /\ OrderOf(tree') = RemoveAt(OrderOf(tree), at[n])
    BY <1>1, <1>8, <2>1, DeleteOrdered
  <2>3. Order' = Bag!RemoveAt(Order, at[n])
    BY <1>2, <1>5, <2>2 DEF RemoveAt, Bag!RemoveAt
  <2>4. at[n] \in DOMAIN Order /\ Order[at[n]] = n
    BY <1>4, <1>5, <1>6, <2>2
  <2> QED
    BY <2>1, <2>3, <2>4 DEF Bag!Delete
<1>9. ASSUME NEW n \in Nodes, rb_node_next(n)
      PROVE  Bag!Neighbour(n, 1)
  BY <1>1, <1>9, QueryStep
<1>10. ASSUME NEW n \in Nodes, rb_node_prev(n)
       PROVE  Bag!Neighbour(n, -1)
  BY <1>1, <1>10, QueryStep
<1>11. ASSUME NEW k \in {Key[n] : n \in Nodes}, rb_search(k)
       PROVE  Bag!Search(k)
  <2>1. k \in Int
    BY RBTreeAssumption
  <2> QED
    BY <1>1, <1>11, <2>1, QueryStep
<1>12. UseAnswer => Bag!Forget
  BY <1>5 DEF UseAnswer, Bag!Forget
<1>13. ASSUME FixUp
       PROVE  UNCHANGED <<Order, answer>>
  <2>1. (pc = "insert_fixup" => Inserting(tree, members, x)) /\ (pc = "delete_fixup" => Deleting(tree, members, x, top))
    BY DEF IInv
  <2>2. answer' = answer /\ OrderOf(tree') = OrderOf(tree)
    BY <1>1, <1>13, <2>1, FixUpOrdered
  <2> QED
    BY <1>2, <1>5, <2>2
<1>14. UNCHANGED vars => UNCHANGED <<Order, answer>>
  BY <1>5 DEF vars
<1>15. CASE Next
  <2>1. \/ \E n \in Nodes : rb_insert(n) \/ rb_delete(n) \/ rb_node_next(n) \/ rb_node_prev(n)
        \/ \E k \in {Key[n] : n \in Nodes} : rb_search(k)
        \/ UseAnswer \/ FixUp
    BY <1>15 DEF Next, FixUp
  <2>2. \/ \E n \in Nodes : Bag!Insert(n) \/ Bag!Delete(n) \/ Bag!Neighbour(n, 1) \/ Bag!Neighbour(n, -1)
        \/ \E k \in {Key[n] : n \in Nodes} : Bag!Search(k)
        \/ Bag!Forget \/ UNCHANGED <<Order, answer>>
    BY <1>7, <1>8, <1>9, <1>10, <1>11, <1>12, <1>13, <2>1
  <2> QED
    BY <2>2 DEF Bag!Next
<1> QED
  BY <1>14, <1>15

(* However the fix-up loops turn and recolour the tree, rb_insert, rb_delete,  *)
(* rb_search, rb_node_next and rb_node_prev are the operations of a bag of     *)
(* nodes in the order of their keys, those of one key in the order they came:  *)
(* no call loses a node, doubles it or answers out of order.                   *)
THEOREM OrderedBagImplemented == Spec => ImplementsOrderedBag
<1>1. Init => IInv /\ Bag!Init
  BY InitIInv, InitBag
<1>2. IInv /\ [Next]_vars => IInv' /\ [Bag!Next]_<<Order, answer>>
  BY IInvStep, BagStep
<1> QED
  BY <1>1, <1>2, PTL DEF Spec, ImplementsOrderedBag, Bag!Spec
=============================================================================

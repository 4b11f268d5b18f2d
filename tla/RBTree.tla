------------------------------- MODULE RBTree -------------------------------
(***************************************************************************)
(* The red-black tree of kern/libs/rb_tree.c on its pointer fields, one     *)
(* step per iteration of a loop.  root is the sentinel above the tree, nil  *)
(* the shared leaf, whose parent field the deletion uses.                   *)
(*                                                                         *)
(* left and right are the two functions of child, so that the mirrored      *)
(* halves of the macros are one operator over the side.                     *)
(***************************************************************************)
EXTENDS Integers, Sequences, FiniteSets

CONSTANTS
  Nodes,      \* the nodes callers own
  Key,        \* what compare goes by
  nil, root,  \* the two nodes of the tree itself
  None        \* NULL

Fields == Nodes \cup {nil, root}
Sides == {"left", "right"}
Other(s) == IF s = "left" THEN "right" ELSE "left"

ASSUME RBTreeAssumption ==
  /\ IsFiniteSet(Nodes) /\ Key \in [Nodes -> Int]
  /\ nil \notin Nodes /\ root \notin Nodes /\ nil # root /\ None \notin Fields

VARIABLES
  tree,     \* the fields child, parent and red of every node
  members,  \* the nodes callers have inserted and not deleted
  pc,       \* "idle", "insert_fixup", "delete_fixup"
  x,        \* where a fix-up loop is
  top,      \* rb_delete_fixup's copy of the tree's top node
  answer    \* what the last query returned

vars == <<tree, members, pc, x, top, answer>>

(* A node outside the tree is its owner's memory; nil stands for whatever    *)
(* its fields hold.                                                          *)
Init ==
  /\ tree = [child |-> [s \in Sides |-> [n \in Fields |-> nil]],
             parent |-> [n \in Fields |-> nil],
             red |-> [n \in Fields |-> FALSE]]
  /\ members = {} /\ pc = "idle" /\ answer = None
  /\ x = nil /\ top = nil

(* The caller uses an answer before it calls again. *)
Ready == pc = "idle" /\ answer = None
UseAnswer == answer # None /\ answer' = None /\ UNCHANGED <<tree, members, pc, x, top>>

-----------------------------------------------------------------------------
(* FUNC_ROTATE: node a goes down to side s, its other child comes up.         *)
Rotate(t, a, s) ==
  LET o == Other(s)
      b == t.child[o][a]
      inner == t.child[s][b]
      p == t.parent[a]
      side == IF t.child[s][p] = a THEN s ELSE o
      parents == IF inner # nil THEN [t.parent EXCEPT ![inner] = a] ELSE t.parent
  IN [t EXCEPT !.child = [@ EXCEPT ![o][a] = inner, ![side][p] = b, ![s][b] = a],
               !.parent = [parents EXCEPT ![b] = p, ![a] = b]]

Colour(t, n, red) == [t EXCEPT !.red[n] = red]

(* n takes the place of m below m's parent. *)
Replace(t, m, n) ==
  LET p == t.parent[m]
      side == IF t.child["left"][p] = m THEN "left" ELSE "right"
  IN [t EXCEPT !.child[side][p] = n]

(* Where a loop that steps from node to node ends, next keeping it where it  *)
(* is when it is done: it visits no node twice.                              *)
Walk(next, n) ==
  LET visited[i \in 0 .. Cardinality(Nodes) + 1] ==
        IF i = 0 THEN n ELSE next[visited[i - 1]]
  IN visited[Cardinality(Nodes) + 1]

(* The walk down a side, as far as it goes. *)
Outermost(t, n, s) ==
  Walk([m \in Fields |-> IF t.child[s][m] = nil THEN m ELSE t.child[s][m]], n)

(* rb_tree_successor with s = "right" and rb_tree_predecessor with s =       *)
(* "left": down the side, or up to where the node lies on the other side.    *)
Adjacent(t, n, s) ==
  LET up == Walk([m \in Fields |->
                    IF t.parent[m] # root /\ m = t.child[s][t.parent[m]] THEN t.parent[m] ELSE m], n)
  IN IF t.child[s][n] # nil THEN Outermost(t, t.child[s][n], Other(s))
     ELSE IF t.parent[up] = root THEN nil ELSE t.parent[up]

-----------------------------------------------------------------------------
(* Mistake: an equal key goes before the ones that are there. *)
Below_Before(m, n) == IF m = root \/ Key[m] >= Key[n] THEN "left" ELSE "right"

(* The side of m that n belongs to. *)
Below(m, n) == IF m = root \/ Key[m] > Key[n] THEN "left" ELSE "right"

(* rb_insert_binary and the colour; the walk down writes nothing.            *)
rb_insert(n) ==
  LET p == Walk([m \in Fields |-> LET c == tree.child[Below(m, n)][m]
                                  IN IF c = nil THEN m ELSE c], root)
  IN /\ Ready /\ n \notin members
     /\ tree' = [child |-> [s \in Sides |->
                    [tree.child[s] EXCEPT ![n] = nil, ![p] = IF s = Below(p, n) THEN n ELSE @]],
                 parent |-> [tree.parent EXCEPT ![n] = p],
                 red |-> [tree.red EXCEPT ![n] = TRUE]]
     /\ members' = members \cup {n}
     /\ x' = n /\ pc' = "insert_fixup"
     /\ UNCHANGED <<top, answer>>

(* The side of the grandparent that x's parent is on. *)
ParentSide ==
  LET p == tree.parent[x]
  IN IF p = tree.child["left"][tree.parent[p]] THEN "left" ELSE "right"

(* The two branches of RB_INSERT_SUB, y being x's uncle. *)
InsertRecolour ==
  LET p == tree.parent[x]
      g == tree.parent[p]
      uncle == tree.child[Other(ParentSide)][g]
  IN /\ pc = "insert_fixup" /\ tree.red[p] /\ tree.red[uncle]
     /\ tree' = Colour(Colour(Colour(tree, p, FALSE), uncle, FALSE), g, TRUE)
     /\ x' = g
     /\ UNCHANGED <<members, pc, top, answer>>

InsertRotate ==
  LET p == tree.parent[x]
      g == tree.parent[p]
      s == ParentSide
      uncle == tree.child[Other(s)][g]
      inner == x = tree.child[Other(s)][p]
      low == IF inner THEN p ELSE x
      t == IF inner THEN Rotate(tree, p, s) ELSE tree
      mid == t.parent[low]
      high == t.parent[mid]
  IN /\ pc = "insert_fixup" /\ tree.red[p] /\ ~tree.red[uncle]
     /\ tree' = Rotate(Colour(Colour(t, mid, FALSE), high, TRUE), high, Other(s))
     /\ x' = low
     /\ UNCHANGED <<members, pc, top, answer>>

(* A call returns with tree t.  nil's parent is read by no call but the one  *)
(* that wrote it.                                                            *)
Return(t) ==
  /\ tree' = [t EXCEPT !.parent[nil] = nil]
  /\ pc' = "idle" /\ x' = nil /\ top' = nil

InsertDone ==
  /\ pc = "insert_fixup" /\ ~tree.red[tree.parent[x]]
  /\ Return(Colour(tree, tree.child["left"][root], FALSE))
  /\ UNCHANGED <<members, answer>>


-----------------------------------------------------------------------------
(* Mistake: the node that moves keeps its own colour. *)
Take_OwnColour(t, z, n) ==
  LET moved == Replace(t, z, n)
      l == moved.child["left"][z]
      r == moved.child["right"][z]
  IN [moved EXCEPT !.child = [s \in Sides |-> [@[s] EXCEPT ![n] = moved.child[s][z]]],
                   !.parent = [@ EXCEPT ![l] = n, ![r] = n, ![n] = moved.parent[z]]]

(* n takes z's place, children and colour: *y = *z.                           *)
Take(t, z, n) ==
  LET moved == Replace(t, z, n)
      l == moved.child["left"][z]
      r == moved.child["right"][z]
  IN [child |-> [s \in Sides |-> [moved.child[s] EXCEPT ![n] = moved.child[s][z]]],
      parent |-> [moved.parent EXCEPT ![l] = n, ![r] = n, ![n] = moved.parent[z]],
      red |-> [moved.red EXCEPT ![n] = moved.red[z]]]

(* What z's fields hold once it is out of the tree is its owner's business. *)
Drop(t, z) ==
  [child |-> [s \in Sides |-> [t.child[s] EXCEPT ![z] = nil]],
   parent |-> [t.parent EXCEPT ![z] = nil],
   red |-> [t.red EXCEPT ![z] = FALSE]]

rb_delete(z) ==
  LET out == IF \E s \in Sides : tree.child[s][z] = nil THEN z ELSE Adjacent(tree, z, "right")
      up == IF tree.child["left"][out] # nil THEN tree.child["left"][out] ELSE tree.child["right"][out]
      spliced == Replace([tree EXCEPT !.parent[up] = tree.parent[out]], out, up)
      t == Drop(IF out = z THEN spliced ELSE Take(spliced, z, out), z)
  IN /\ Ready /\ z \in members
     /\ members' = members \ {z}
     /\ \/ tree.red[out] /\ Return(t)
        \/ /\ ~tree.red[out] /\ tree' = t
           /\ x' = up /\ top' = t.child["left"][root] /\ pc' = "delete_fixup"
     /\ UNCHANGED answer

Fixing == pc = "delete_fixup" /\ x # top /\ ~tree.red[x]

(* The side x is on, and the tree once its sibling is black.                  *)
SideOf == IF x = tree.child["left"][tree.parent[x]] THEN "left" ELSE "right"
BlackSibling ==
  LET p == tree.parent[x]
      w == tree.child[Other(SideOf)][p]
  IN IF tree.red[w] THEN Rotate(Colour(Colour(tree, w, FALSE), p, TRUE), p, SideOf) ELSE tree

(* The two branches of RB_DELETE_FIXUP_SUB. *)
DeleteRecolour ==
  LET t == BlackSibling
      p == t.parent[x]
      w == t.child[Other(SideOf)][p]
  IN /\ Fixing /\ \A s \in Sides : ~t.red[t.child[s][w]]
     /\ tree' = Colour(t, w, TRUE) /\ x' = p
     /\ UNCHANGED <<members, pc, top, answer>>

DeleteRotate ==
  LET s == SideOf
      o == Other(s)
      t == BlackSibling
      p == t.parent[x]
      w == t.child[o][p]
      far == IF t.red[t.child[o][w]] THEN t
             ELSE Rotate(Colour(Colour(t, t.child[s][w], FALSE), w, TRUE), w, o)
      v == far.child[o][p]
      coloured == Colour(Colour(Colour(far, v, far.red[p]), p, FALSE), far.child[o][v], FALSE)
  IN /\ Fixing /\ \E c \in Sides : t.red[t.child[c][w]]
     /\ tree' = Rotate(coloured, p, s) /\ x' = top
     /\ UNCHANGED <<members, pc, top, answer>>

DeleteDone ==
  /\ pc = "delete_fixup" /\ ~Fixing
  /\ Return(Colour(tree, x, FALSE))
  /\ UNCHANGED <<members, answer>>

-----------------------------------------------------------------------------
Query(n) ==
  /\ Ready /\ answer' = (IF n = nil THEN None ELSE n)
  /\ UNCHANGED <<tree, members, pc, x, top>>

rb_node_next(n) == n \in members /\ Query(Adjacent(tree, n, "right"))
rb_node_prev(n) == n \in members /\ Query(Adjacent(tree, n, "left"))

rb_search(k) ==
  Query(Walk([m \in Fields |->
                IF m = nil \/ (m \in Nodes /\ Key[m] = k) THEN m
                ELSE tree.child[IF Key[m] > k THEN "left" ELSE "right"][m]],
             tree.child["left"][root]))

Next ==
  \/ \E n \in Nodes : rb_insert(n) \/ rb_delete(n) \/ rb_node_next(n) \/ rb_node_prev(n)
  \/ \E k \in {Key[n] : n \in Nodes} : rb_search(k)
  \/ UseAnswer
  \/ InsertRecolour \/ InsertRotate \/ InsertDone
  \/ DeleteRecolour \/ DeleteRotate \/ DeleteDone

Spec == Init /\ [][Next]_vars

-----------------------------------------------------------------------------
(* The nodes below n in order, and the black nodes on every way down, -1 if  *)
(* two ways differ.                                                          *)
Order ==
  LET walk[d \in 0 .. Cardinality(Nodes) + 1] ==
        [m \in Fields |->
           IF d = 0 \/ m = nil THEN <<>>
           ELSE walk[d - 1][tree.child["left"][m]] \o <<m>> \o walk[d - 1][tree.child["right"][m]]]
  IN walk[Cardinality(Nodes) + 1][tree.child["left"][root]]

BlackHeight ==
  LET height[d \in 0 .. Cardinality(Nodes) + 1] ==
        [m \in Fields |->
           IF d = 0 THEN -1
           ELSE IF m = nil THEN 0
           ELSE LET l == height[d - 1][tree.child["left"][m]]
                    r == height[d - 1][tree.child["right"][m]]
                IN IF l # r \/ l = -1 THEN -1 ELSE IF tree.red[m] THEN l ELSE l + 1]
  IN height[Cardinality(Nodes) + 1][tree.child["left"][root]]

(* Between calls the tree is what its fix-up loops must restore (rb_insert   *)
(* l.156, rb_delete_fixup l.237): no red node below a red one, as many black *)
(* nodes on every way down, nil and the top black, and parent fields that    *)
(* undo the child fields, on which the next fix-up climbs.                   *)
RedBlack ==
  pc = "idle" =>
    /\ ~tree.red[nil] /\ ~tree.red[root] /\ ~tree.red[tree.child["left"][root]]
    /\ \A s \in Sides : \A n \in members :
         LET c == tree.child[s][n]
         IN c # nil => tree.parent[c] = n /\ ~(tree.red[n] /\ tree.red[c])
    /\ BlackHeight # -1

(* The pointer code keeps an ordered bag: an insertion puts its node behind  *)
(* the nodes of the same key and before the greater ones, a deletion takes   *)
(* out its node and no other, though it moves another into its place, the    *)
(* rotations move nothing, and rb_search, rb_node_next and rb_node_prev      *)
(* answer from that order.                                                   *)
Bag == INSTANCE OrderedBag WITH items <- Order
ImplementsOrderedBag == Bag!Spec
=============================================================================

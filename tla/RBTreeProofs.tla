---------------------------- MODULE RBTreeProofs ----------------------------
(***************************************************************************)
(* Theorems about the red-black tree, for any finite set of keys.          *)
(*                                                                         *)
(* Between two iterations of a loop the tree is not balanced, so a theorem *)
(* about it has to say by how much.  The invariant IInv says there are     *)
(* functions b and h on the nodes, the sets of keys below each and the     *)
(* number of black nodes below each, that fit the pointers and the colors: *)
(* Shape relates b to the pointers node by node, Level relates h to the    *)
(* colors, but for the one side that an erase left short, Colors says      *)
(* where two reds may meet, and Locals what the operation under way knows. *)
(* Because each part speaks of a node and its children only, a step is     *)
(* proved by saying what b and h become at the few nodes it moves.  What   *)
(* the properties compute by walking (Subtree, BlackCount, Deepest, Climb) *)
(* is then read off b and h, with a least number as the induction.         *)
(***************************************************************************)
EXTENDS TreeSearch, FiniteSetTheorems, WellFoundedInduction, TLAPS

(***************************************************************************)
(* The parts of the invariant.                                             *)
(***************************************************************************)

\* A node, or none.
Maybe == Nodes \cup {NULL}

\* The type of t.
Trees == [kid : [Nodes -> [Dirs -> Maybe]], par : [Nodes -> Maybe],
          col : [Nodes -> {"red", "black"}], root : Maybe]

\* b[n] is the set of nodes below n, and n.
Below(b, m) == IF m = NULL THEN {} ELSE b[m]

\* The nodes H of the tree are those below its root, which has no parent.
Rooted(s, H, b) ==
  /\ s.root \in H \cup {NULL} /\ H = Below(b, s.root)
  /\ s.root # NULL => s.par[s.root] = NULL

\* Children and parents in H point to each other.
Paired(s, H) ==
  \A n \in H :
    /\ \A d \in Dirs : s.kid[n][d] # NULL => s.kid[n][d] \in H /\ s.par[s.kid[n][d]] = n
    /\ s.par[n] = NULL => n = s.root
    /\ s.par[n] # NULL => s.par[n] \in H /\ \E d \in Dirs : s.kid[s.par[n]][d] = n

\* Every node has smaller keys below it on the left and larger ones on the right.
Sorted(s, H, b) ==
  \A n \in H :
    /\ b[n] = {n} \cup Below(b, s.kid[n]["left"]) \cup Below(b, s.kid[n]["right"])
    /\ \A m \in Below(b, s.kid[n]["left"]) : m < n
    /\ \A m \in Below(b, s.kid[n]["right"]) : m > n

\* With m, all that is below m is below n, and so is the way up from m to n.
Closed(s, H, b) ==
  \A n \in H :
    /\ b[n] \subseteq H
    /\ \A m \in b[n] : b[m] \subseteq b[n] /\ (m # n => s.par[m] \in b[n])

\* The tree s is a search tree of the nodes H.
Shape(s, H, b) == Rooted(s, H, b) /\ Paired(s, H) /\ Sorted(s, H, b) /\ Closed(s, H, b)

\* h[n] is the number of black nodes on a path from n down to a leaf, n not counted.
Weight(s, h, m) == IF m = NULL THEN 0 ELSE IF s.col[m] = "black" THEN h[m] + 1 ELSE h[m]

\* All paths count the same, but for those on side e of p, which lack one.
Level(s, H, h, p, e) ==
  \A n \in H, d \in Dirs :
    h[n] = Weight(s, h, s.kid[n][d]) + (IF n = p /\ d = e THEN 1 ELSE 0)

\* Red, of a tree that need not be t.
IsRed(s, n) == n # NULL /\ s.col[n] = "red"

\* NoRedRed, of a tree that need not be t.
Calm(s, n) == IsRed(s, n) => \A d \in Dirs : ~IsRed(s, s.kid[n][d])

\* Where a search for x is: every node above that place is on the other side of parent
\* from it, or on the same side of x.
Placed(b) ==
  /\ new \in Nodes /\ node \in members \cup {NULL} /\ parent \in members \cup {NULL}
  /\ IF parent = NULL THEN node = t.root
     ELSE new # parent /\ node = t.kid[parent][IF new < parent THEN "left" ELSE "right"]
  /\ new \in members => new \in Below(b, node)
  /\ \A m \in members : parent # NULL /\ parent \in b[m] /\ m # parent
       => new # m /\ (parent < m <=> new < m)

\* A node that is not allocated has no content, and no operation means none is new.
Spare ==
  /\ pc \in {"idle", "returned"} => new = NULL
  /\ \A n \in Nodes \ (Held \cup {new}) :
       t.par[n] = NULL /\ \A d \in Dirs : t.kid[n][d] = NULL

\* What is known of the locals between two iterations.
Locals(b) ==
  /\ pc \in {"idle", "descend", "returned", "fixinsert", "fixerase"}
  /\ members \subseteq Nodes /\ Spare
  /\ pc = "descend" => Placed(b)
  /\ pc = "fixinsert" =>
       /\ new \in Nodes \ members /\ node \in Held /\ parent = t.par[node]
  /\ pc = "fixerase" =>
       /\ new \in members /\ node \in Held \cup {NULL} /\ parent \in Held
       /\ t.kid[parent][Side(parent, node)] = node

\* Where a red node may be: rbtree.c:26-38, and in the insert loop rbtree.c:78-85.
Colors ==
  IF pc = "fixinsert"
  THEN /\ IsRed(t, node)
       /\ \A n \in Held \ {parent} : Calm(t, n)
       /\ IsRed(t, t.root) => node = t.root
       /\ IsRed(t, parent) => \A d \in Dirs : t.kid[parent][d] # node
                                => ~IsRed(t, t.kid[parent][d])
  ELSE /\ ~IsRed(t, t.root) /\ \A n \in Held : Calm(t, n)
       /\ pc = "fixerase" => ~IsRed(t, node)

\* The node, and its side, below which the erase loop is one black short: rbtree.c:207-213.
ShortAt == IF pc = "fixerase" THEN parent ELSE NULL

ShortSide == IF pc = "fixerase" THEN Side(parent, node) ELSE "left"

\* The invariant, given the sets b and the counts h.
Inv(b, h) ==
  /\ t \in Trees /\ Shape(t, Held, b) /\ Level(t, Held, h, ShortAt, ShortSide)
  /\ Colors /\ Locals(b)

-----------------------------------------------------------------------------
(****************************************************************************)
(* What the shape says.                                                    *)
(****************************************************************************)
\* What the shape of a tree says about a node.
LEMMA Family ==
  ASSUME NEW s \in Trees, NEW H \in SUBSET Nodes, NEW b \in [Nodes -> SUBSET Nodes],
         Shape(s, H, b), NEW n \in H
  PROVE  /\ n \in b[n] /\ n \in Nat /\ n \in Nodes /\ n # NULL /\ b[n] \subseteq H
         /\ b[n] = {n} \cup Below(b, s.kid[n]["left"]) \cup Below(b, s.kid[n]["right"])
         /\ \A m \in Below(b, s.kid[n]["left"]) : m < n
         /\ \A m \in Below(b, s.kid[n]["right"]) : m > n
<1>1. n \in Nat /\ NULL \notin Nodes
  BY NodesAssumption
<1> QED BY <1>1 DEF Shape, Sorted, Closed

\* And about its child m, if it has one on side d.
ChildOf(s, H, b, n, d, m) ==
  m # NULL =>
    /\ m \in H /\ m \in b[m] /\ m # n /\ s.par[m] = n /\ b[m] \subseteq b[n]
    /\ n \notin b[m] /\ m # s.root /\ m # s.kid[n][Opp(d)] /\ s.par[n] # m
    /\ \A x \in Below(b, s.kid[n][Opp(d)]) : x \notin b[m]

\* The child of n on side d is below n only, and apart from the other side.
LEMMA ChildIs ==
  ASSUME NEW s \in Trees, NEW H \in SUBSET Nodes, NEW b \in [Nodes -> SUBSET Nodes],
         Shape(s, H, b), NEW n \in H, NEW d \in Dirs
  PROVE  ChildOf(s, H, b, n, d, s.kid[n][d])
<1> SUFFICES ASSUME NEW m, m = s.kid[n][d], m # NULL
             PROVE  ChildOf(s, H, b, n, d, m)
  BY DEF ChildOf
<1>1. m \in H /\ s.par[m] = n
  BY DEF Shape, Paired
<1>2. m \in b[m] /\ m \in Nat /\ n \in Nat /\ m # NULL /\ n # NULL /\ b[m] \subseteq Nat
  <2>1. \A x \in H : x \in b[x] /\ x \in Nat /\ x # NULL /\ b[x] \subseteq H
    BY Family
  <2>2. H \subseteq Nat
    BY NodesAssumption
  <2> QED BY <1>1, <2>1, <2>2
<1>3. /\ b[n] = {n} \cup Below(b, s.kid[n]["left"]) \cup Below(b, s.kid[n]["right"])
      /\ \A x \in Below(b, s.kid[n]["left"]) : x < n
      /\ \A x \in Below(b, s.kid[n]["right"]) : x > n
  BY DEF Shape, Sorted
<1>4. Below(b, m) = b[m]
  BY DEF Below
<1>5. /\ b[m] \subseteq b[n] /\ n \notin b[m]
      /\ \A x \in Below(b, s.kid[n][Opp(d)]) : x \notin b[m]
  <2>1. CASE d = "left"
    <3>1. Opp(d) = "right"
      BY <2>1 DEF Opp
    <3> QED BY <2>1, <3>1, <1>2, <1>3, <1>4
  <2>2. CASE d = "right"
    <3>1. Opp(d) = "left"
      BY <2>2 DEF Opp
    <3> QED BY <2>2, <3>1, <1>2, <1>3, <1>4
  <2> QED BY <2>1, <2>2 DEF Dirs
<1>6. m # s.kid[n][Opp(d)]
  BY <1>2, <1>4, <1>5
<1>7. m # s.root
  BY <1>1, <1>2 DEF Shape, Rooted
<1>8. s.par[n] # m
  <2>1. ASSUME s.par[n] = m
        PROVE  n \in b[m]
    <3>1. PICK e \in Dirs : s.kid[m][e] = n
      <4>1. \A x \in H : s.par[x] # NULL => \E e \in Dirs : s.kid[s.par[x]][e] = x
        BY DEF Shape, Paired
      <4> QED BY <2>1, <1>2, <4>1
    <3>2. \A x \in H :
            /\ x \in b[x]
            /\ b[x] = {x} \cup Below(b, s.kid[x]["left"]) \cup Below(b, s.kid[x]["right"])
      BY SMTT(30), Family
    <3>3. Below(b, n) = b[n]
      BY <1>2 DEF Below
    <3> QED BY <1>1, <3>1, <3>2, <3>3 DEF Dirs
  <2> QED BY <2>1, <1>5
<1> QED BY <1>1, <1>2, <1>5, <1>6, <1>7, <1>8 DEF ChildOf

-----------------------------------------------------------------------------
(****************************************************************************)
(* Rotation, removal, linking and substitution keep the shape.             *)
(****************************************************************************)
\* A rotation of p under its child x on side d, whose inner child y changes sides.
Rotated(s, s2, p, x, y, d) ==
  /\ x = s.kid[p][d] /\ y = s.kid[x][Opp(d)]
  /\ \A n \in Nodes, e \in Dirs :
       s2.kid[n][e] = IF n = p /\ e = d THEN y
                      ELSE IF n = x /\ e = Opp(d) THEN p
                      ELSE IF n = s.par[p] /\ s.kid[n][e] = p THEN x
                      ELSE s.kid[n][e]
  /\ \A n \in Nodes :
       s2.par[n] = IF n = p THEN x ELSE IF n = x THEN s.par[p]
                   ELSE IF n = y THEN p ELSE s.par[n]
  /\ s2.root = IF s.root = p THEN x ELSE s.root

\* What is below each node after a rotation.
BelowRotated(s, b, p, x, y, d) ==
  [n \in Nodes |-> IF n = p THEN {p} \cup Below(b, y) \cup Below(b, s.kid[p][Opp(d)])
                   ELSE IF n = x THEN b[p]
                   ELSE b[n]]

\* A rotation, at any node and in either direction, keeps the nodes and their order.
LEMMA RotationKeepsShape ==
  ASSUME NEW s \in Trees, NEW s2 \in Trees, NEW H \in SUBSET Nodes,
         NEW b \in [Nodes -> SUBSET Nodes], Shape(s, H, b),
         NEW p \in H, NEW x, NEW y, NEW d \in Dirs, x # NULL, Rotated(s, s2, p, x, y, d)
  PROVE  /\ BelowRotated(s, b, p, x, y, d) \in [Nodes -> SUBSET Nodes]
         /\ Shape(s2, H, BelowRotated(s, b, p, x, y, d))
<1> DEFINE z == s.kid[p][Opp(d)]
           w == s.kid[x][d]
           c == BelowRotated(s, b, p, x, y, d)
<1>1. Opp(d) \in Dirs /\ Opp(Opp(d)) = d /\ Opp(d) # d /\ \A e \in Dirs : e = d \/ e = Opp(d)
  BY DEF Dirs, Opp
<1>2. x = s.kid[p][d] /\ y = s.kid[x][Opp(d)]
  BY DEF Rotated
<1>3. /\ x \in H /\ x \in b[x] /\ x # p /\ s.par[x] = p /\ b[x] \subseteq b[p]
      /\ p \notin b[x] /\ x # s.root /\ x # z /\ s.par[p] # x
      /\ \A u \in Below(b, z) : u \notin b[x]
  <2>1. ChildOf(s, H, b, p, d, x)
    BY <1>2, ChildIs
  <2> QED BY <2>1 DEF ChildOf
<1>4. y # NULL => /\ y \in H /\ y \in b[y] /\ y # x /\ s.par[y] = x /\ b[y] \subseteq b[x]
                  /\ x \notin b[y] /\ y # s.root /\ y # w
                  /\ \A u \in Below(b, w) : u \notin b[y]
  <2>1. ChildOf(s, H, b, x, Opp(d), y)
    BY <1>1, <1>2, <1>3, ChildIs
  <2> QED BY <2>1, <1>1 DEF ChildOf
<1>5. z # NULL => /\ z \in H /\ z \in b[z] /\ z # p /\ s.par[z] = p /\ b[z] \subseteq b[p]
                  /\ p \notin b[z] /\ z # s.root
                  /\ \A u \in b[x] : u \notin b[z]
  <2>1. ChildOf(s, H, b, p, Opp(d), z)
    BY <1>1, ChildIs
  <2>2. Below(b, x) = b[x]
    BY DEF Below
  <2> QED BY <2>1, <2>2, <1>1, <1>2 DEF ChildOf
<1>6. H \subseteq Nodes /\ NULL \notin Nodes /\ \A n \in H : b[n] \subseteq Nodes
  BY NodesAssumption
<1>7. /\ c \in [Nodes -> SUBSET Nodes] /\ c[p] = {p} \cup Below(b, y) \cup Below(b, z)
      /\ c[x] = b[p] /\ \A n \in Nodes : n # p /\ n # x => c[n] = b[n]
  <2>1. Below(b, y) \subseteq Nodes /\ Below(b, z) \subseteq Nodes
    BY <1>4, <1>5, <1>6 DEF Below
  <2> QED BY <1>3, <1>6, <2>1 DEF BelowRotated
<1>8. w # NULL => w \in H /\ s.par[w] = x /\ w # p /\ w # x /\ w # s.root
  <2>1. ChildOf(s, H, b, x, d, w)
    BY <1>3, ChildIs
  <2> QED BY <2>1, <1>3 DEF ChildOf
<1> HIDE DEF z, w, c
<1>9. /\ s2.kid[p][d] = y /\ s2.kid[p][Opp(d)] = z /\ s2.kid[x][Opp(d)] = p /\ s2.kid[x][d] = w
      /\ s2.par[p] = x /\ s2.par[x] = s.par[p] /\ (y # NULL => s2.par[y] = p)
      /\ \A n \in H : n # p /\ n # x /\ n # y => s2.par[n] = s.par[n]
  <2>1. z # p /\ w # p
    BY <1>3, <1>5, <1>6, <1>8
  <2>2. w = s.kid[x][d] /\ z = s.kid[p][Opp(d)]
    BY SMTT(30) DEF w, z
  <2>3. /\ s2.kid[p][d] = y /\ s2.kid[x][Opp(d)] = p /\ s2.par[p] = x /\ s2.par[x] = s.par[p]
        /\ (y # NULL => s2.par[y] = p)
        /\ \A n \in H : n # p /\ n # x /\ n # y => s2.par[n] = s.par[n]
    BY <1>1, <1>2, <1>3, <1>4, <1>6 DEF Rotated
  <2>4. s2.kid[p][Opp(d)] = z /\ s2.kid[x][d] = w
    <3>1. ASSUME NEW n \in Nodes, NEW e \in Dirs
          PROVE  s2.kid[n][e] = IF n = p /\ e = d THEN y
                                ELSE IF n = x /\ e = Opp(d) THEN p
                                ELSE IF n = s.par[p] /\ s.kid[n][e] = p THEN x
                                ELSE s.kid[n][e]
      BY DEF Rotated
    <3>2. p \in Nodes /\ x \in Nodes /\ p # x
      BY <1>3, <1>6
    <3> QED BY <1>1, <2>1, <2>2, <3>1, <3>2
  <2> QED BY <2>3, <2>4
<1>10. ASSUME NEW n \in H, n # p, n # x, NEW e \in Dirs
       PROVE  /\ s2.kid[n][e] = IF s.kid[n][e] = p THEN x ELSE s.kid[n][e]
              /\ s.kid[n][e] # x
              /\ Below(c, s2.kid[n][e]) = Below(b, s.kid[n][e])
  <2>1. s.kid[n][e] # NULL => s.kid[n][e] \in H /\ s.par[s.kid[n][e]] = n
    BY DEF Shape, Paired
  <2>2. s2.kid[n][e] = IF s.kid[n][e] = p THEN x ELSE s.kid[n][e]
    BY <1>6, <1>10, <2>1 DEF Rotated
  <2>3. s.kid[n][e] # x
    BY <1>3, <1>10, <2>1
  <2>4. CASE s.kid[n][e] = p
    BY <1>3, <1>6, <1>7, <2>2, <2>4 DEF Below
  <2>5. CASE s.kid[n][e] # p
    BY <1>6, <1>7, <2>1, <2>2, <2>3, <2>5 DEF Below
  <2> QED BY <2>2, <2>3, <2>4, <2>5
<1>11. Below(c, y) = Below(b, y) /\ Below(c, z) = Below(b, z) /\ Below(c, w) = Below(b, w)
  BY <1>3, <1>4, <1>5, <1>6, <1>7, <1>8 DEF Below
<1>12. Rooted(s2, H, c)
  <2>1. s.root \in H \cup {NULL} /\ H = Below(b, s.root) /\ (s.root # NULL => s.par[s.root] = NULL)
    BY DEF Shape, Rooted
  <2>2. s2.root = IF s.root = p THEN x ELSE s.root
    BY DEF Rotated
  <2>3. CASE s.root = p
    BY <1>3, <1>6, <1>7, <1>9, <2>1, <2>2, <2>3 DEF Rooted, Below
  <2>4. CASE s.root # p
    BY <1>3, <1>4, <1>6, <1>7, <1>9, <2>1, <2>2, <2>4 DEF Rooted, Below
  <2> QED BY <2>3, <2>4
<1>13. Paired(s2, H)
  <2> DEFINE g == s.par[p]
  <2>1. s2.root = IF s.root = p THEN x ELSE s.root
    BY DEF Rotated
  <2>2. \A n \in H :
          /\ \A e \in Dirs : s.kid[n][e] # NULL => s.kid[n][e] \in H /\ s.par[s.kid[n][e]] = n
          /\ s.par[n] = NULL => n = s.root
          /\ s.par[n] # NULL => s.par[n] \in H /\ \E e \in Dirs : s.kid[s.par[n]][e] = n
    BY DEF Shape, Paired
  <2>3. g # p /\ (z # NULL => z # y) /\ (w # NULL => w # y)
    <3>1. z # p
      BY SMTT(30), <1>3, <1>5, <1>6
    <3>2. g # p
      BY <1>1, <1>2, <1>3, <1>6, <2>2, <3>1 DEF z
    <3> QED BY <1>4, <1>5, <3>2
  <2>4. ASSUME NEW n \in H, NEW e \in Dirs, s2.kid[n][e] # NULL
        PROVE  s2.kid[n][e] \in H /\ s2.par[s2.kid[n][e]] = n
    <3>1. CASE n = p
      BY <1>1, <1>3, <1>4, <1>5, <1>9, <2>3, <2>4, <3>1
    <3>2. CASE n = x
      BY <1>1, <1>3, <1>4, <1>8, <1>9, <2>3, <2>4, <3>2
    <3>3. CASE n # p /\ n # x
      BY <1>3, <1>4, <1>9, <1>10, <2>2, <2>4, <3>3
    <3> QED BY <3>1, <3>2, <3>3
  <2>5. ASSUME NEW n \in H, s2.par[n] = NULL
        PROVE  n = s2.root
    BY <1>3, <1>4, <1>6, <1>9, <2>1, <2>2, <2>5
  <2>6. ASSUME NEW n \in H, s2.par[n] # NULL
        PROVE  s2.par[n] \in H /\ \E e \in Dirs : s2.kid[s2.par[n]][e] = n
    <3>1. CASE n = p
      BY <1>1, <1>3, <1>9, <3>1
    <3>2. CASE n = x
      <4>1. PICK e \in Dirs : s.kid[g][e] = p
        BY <1>3, <1>9, <2>2, <2>6, <3>2
      <4>2. g \in H /\ g # p /\ g # x
        BY <1>3, <1>9, <2>2, <2>3, <2>6, <3>2
      <4>3. s2.kid[g][e] = x
        BY <1>10, <4>1, <4>2
      <4> QED BY <1>9, <3>2, <4>2, <4>3
    <3>3. CASE n = y
      BY <1>6, <1>9, <3>3
    <3>4. CASE n # p /\ n # x /\ n # y
      <4> DEFINE q == s.par[n]
      <4>1. s2.par[n] = q /\ q \in H
        BY <1>9, <2>2, <2>6, <3>4
      <4>2. PICK e \in Dirs : s.kid[q][e] = n
        BY SMTT(30), <2>2, <2>6, <4>1
      <4> HIDE DEF q
      <4>3. CASE q = p
        BY SMTT(30), <1>1, <1>2, <1>9, <3>4, <4>1, <4>2, <4>3 DEF z
      <4>4. CASE q = x
        BY <1>1, <1>2, <1>9, <3>4, <4>1, <4>2, <4>4 DEF w
      <4>5. CASE q # p /\ q # x
        BY <1>10, <3>4, <4>1, <4>2, <4>5
      <4> QED BY <4>3, <4>4, <4>5
    <3> QED BY <3>1, <3>2, <3>3, <3>4
  <2> QED BY <2>4, <2>5, <2>6 DEF Paired
<1>14. Sorted(s2, H, c)
  <2>1. \A n \in H :
          /\ b[n] = {n} \cup Below(b, s.kid[n]["left"]) \cup Below(b, s.kid[n]["right"])
          /\ \A m \in Below(b, s.kid[n]["left"]) : m < n
          /\ \A m \in Below(b, s.kid[n]["right"]) : m > n
    BY DEF Shape, Sorted
  <2>2. H \subseteq Nat /\ \A n \in H : b[n] \subseteq Nat
    BY <1>6, NodesAssumption
  <2>3. Below(b, x) = b[x] /\ Below(c, p) = c[p]
    BY <1>3, <1>6 DEF Below
  <2>4. ASSUME NEW n \in H
        PROVE  /\ c[n] = {n} \cup Below(c, s2.kid[n]["left"]) \cup Below(c, s2.kid[n]["right"])
               /\ \A m \in Below(c, s2.kid[n]["left"]) : m < n
               /\ \A m \in Below(c, s2.kid[n]["right"]) : m > n
    <3>0. /\ Below(b, s.kid[p][d]) = b[x] /\ Below(b, s.kid[p][Opp(d)]) = Below(b, z)
          /\ Below(b, s.kid[x][d]) = Below(b, w) /\ Below(b, s.kid[x][Opp(d)]) = Below(b, y)
      BY <1>2, <2>3 DEF z, w
    <3>1. CASE n = p
      <4>1. /\ Below(c, s2.kid[p][d]) = Below(b, y)
            /\ Below(c, s2.kid[p][Opp(d)]) = Below(b, z)
        BY <1>9, <1>11
      <4>2. Below(b, y) \subseteq b[x]
        BY <1>4 DEF Below
      <4>3. CASE d = "left"
        <5>1. Opp(d) = "right"
          BY <4>3 DEF Opp
        <5> QED BY <1>7, <2>1, <3>0, <3>1, <4>1, <4>2, <4>3, <5>1
      <4>4. CASE d = "right"
        <5>1. Opp(d) = "left"
          BY <4>4 DEF Opp
        <5> QED BY <1>7, <2>1, <3>0, <3>1, <4>1, <4>2, <4>4, <5>1
      <4> QED BY <4>3, <4>4 DEF Dirs
    <3>2. CASE n = x
      <4>1. Below(c, s2.kid[x][d]) = Below(b, w) /\ Below(c, s2.kid[x][Opp(d)]) = c[p]
        BY <1>9, <1>11, <2>3
      <4>2. p \in Nat /\ x \in Nat /\ c[p] \subseteq Nat
        BY <1>3, <1>7, <2>2, <1>6, NodesAssumption
      <4>3. CASE d = "left"
        <5>1. Opp(d) = "right"
          BY <4>3 DEF Opp
        <5>2. /\ b[p] = {p} \cup b[x] \cup Below(b, z) /\ b[x] = {x} \cup Below(b, w) \cup Below(b, y)
              /\ \A m \in b[x] : m < p
              /\ \A m \in Below(b, z) : p < m
              /\ \A m \in Below(b, w) : m < x
              /\ \A m \in Below(b, y) : m > x
          BY <1>3, <2>1, <3>0, <4>3, <5>1
        <5>3. \A m \in c[p] : x < m
          <6>1. x < p
            BY <1>3, <5>2
          <6> QED BY <1>7, <5>2, <4>2, <6>1
        <5>4. c[x] = {x} \cup Below(b, w) \cup c[p]
          BY <1>7, <5>2
        <5> QED BY <3>2, <4>1, <4>2, <4>3, <5>1, <5>2, <5>3, <5>4
      <4>4. CASE d = "right"
        <5>1. Opp(d) = "left"
          BY <4>4 DEF Opp
        <5>2. /\ b[p] = {p} \cup b[x] \cup Below(b, z) /\ b[x] = {x} \cup Below(b, w) \cup Below(b, y)
              /\ \A m \in b[x] : m > p
              /\ \A m \in Below(b, z) : m < p
              /\ \A m \in Below(b, w) : m > x
              /\ \A m \in Below(b, y) : m < x
          BY <1>3, <2>1, <3>0, <4>4, <5>1
        <5>3. \A m \in c[p] : m < x
          <6>1. p < x
            BY <1>3, <4>2, <5>2
          <6> QED BY <1>7, <5>2, <4>2, <6>1
        <5>4. c[x] = {x} \cup Below(b, w) \cup c[p]
          BY <1>7, <5>2
        <5> QED BY <3>2, <4>1, <4>2, <4>4, <5>1, <5>2, <5>3, <5>4
      <4> QED BY <4>3, <4>4 DEF Dirs
    <3>3. CASE n # p /\ n # x
      <4>1. \A e \in Dirs : Below(c, s2.kid[n][e]) = Below(b, s.kid[n][e])
        BY <1>10, <3>3
      <4>2. c[n] = b[n]
        BY <1>6, <1>7, <3>3
      <4> QED BY <2>1, <4>1, <4>2 DEF Dirs
    <3> QED BY <3>1, <3>2, <3>3
  <2> QED BY <2>4 DEF Sorted
<1>15. Closed(s2, H, c)
  <2>1. \A n \in H :
          /\ b[n] \subseteq H
          /\ \A m \in b[n] : b[m] \subseteq b[n] /\ (m # n => s.par[m] \in b[n])
    BY DEF Shape, Closed
  <2>2. Below(b, y) \subseteq b[x] /\ Below(b, z) \subseteq b[p] /\ c[p] \subseteq b[p]
    <3>1. Below(b, y) \subseteq b[x] /\ Below(b, z) \subseteq b[p]
      BY <1>4, <1>5 DEF Below
    <3>2. p \in b[p]
      BY Family
    <3> QED BY <1>3, <1>7, <3>1, <3>2
  <2>3. p \notin Below(b, z) /\ x \notin Below(b, z) /\ p \notin Below(b, y) /\ x \notin Below(b, y)
    BY <1>3, <1>4, <1>5, <2>2 DEF Below
  <2>4. ASSUME NEW n \in H, n # p, n # x
        PROVE  /\ c[n] \subseteq H
               /\ \A m \in c[n] : c[m] \subseteq c[n] /\ (m # n => s2.par[m] \in c[n])
    <3>1. c[n] = b[n]
      BY <1>6, <1>7, <2>4
    <3>2. x \in b[n] => p \in b[n]
      BY <1>3, <2>1, <2>4
    <3>3. ASSUME NEW m \in b[n]
          PROVE  c[m] \subseteq b[n]
      BY <1>3, <1>6, <1>7, <2>1, <2>2, <3>2
    <3>4. ASSUME NEW m \in b[n], m # n
          PROVE  s2.par[m] \in b[n]
      <4>1. m \in H /\ s.par[m] \in b[n]
        BY <2>1, <3>4
      <4>2. CASE m = p
        BY <1>3, <1>9, <2>1, <4>2
      <4>3. CASE m = x
        BY <1>9, <2>1, <2>4, <3>2, <4>3
      <4>4. CASE m = y
        BY <1>4, <1>9, <1>6, <2>4, <3>2, <4>1, <4>4
      <4>5. CASE m # p /\ m # x /\ m # y
        BY <1>9, <4>1, <4>5
      <4> QED BY <4>2, <4>3, <4>4, <4>5
    <3> QED BY <2>1, <3>1, <3>3, <3>4
  <2>5. /\ c[x] \subseteq H
        /\ \A m \in c[x] : c[m] \subseteq c[x] /\ (m # x => s2.par[m] \in c[x])
    <3>1. c[x] = b[p]
      BY <1>7
    <3>2. ASSUME NEW m \in b[p]
          PROVE  c[m] \subseteq b[p]
      BY <1>6, <1>7, <2>1, <2>2
    <3>3. ASSUME NEW m \in b[p], m # x
          PROVE  s2.par[m] \in b[p]
      <4>1. m \in H /\ x \in b[p] /\ p \in b[p]
        BY <1>3, <2>1, Family
      <4>2. CASE m = p \/ m = y
        BY <1>6, <1>9, <4>1, <4>2
      <4>3. CASE m # p /\ m # y
        BY <1>9, <2>1, <3>3, <4>1, <4>3
      <4> QED BY <4>2, <4>3
    <3> QED BY <2>1, <3>1, <3>2, <3>3
  <2>6. /\ c[p] \subseteq H
        /\ \A m \in c[p] : c[m] \subseteq c[p] /\ (m # p => s2.par[m] \in c[p])
    <3>1. ASSUME NEW u, u \in {y, z}, u # NULL
          PROVE  \A m \in b[u] : /\ m \in H /\ c[m] \subseteq b[u]
                                 /\ (m # u => s2.par[m] \in b[u])
      <4>1. u \in H /\ p \notin b[u] /\ x \notin b[u] /\ (u = z => y \notin b[u] \/ y = NULL)
        BY <1>3, <1>4, <1>5, <3>1
      <4>2. y # u => y \notin b[u] \/ y = NULL
        BY <3>1, <4>1
      <4>3. ASSUME NEW m \in b[u]
            PROVE  /\ m \in H /\ c[m] \subseteq b[u] /\ (m # u => s2.par[m] \in b[u])
        <5>1. m \in H /\ m # p /\ m # x /\ c[m] = b[m]
          BY <1>6, <1>7, <2>1, <4>1
        <5>2. m # u => m # y
          BY <1>6, <4>2, <5>1
        <5> QED BY <1>9, <2>1, <4>1, <5>1, <5>2
      <4> QED BY <4>3
    <3>2. c[p] = {p} \cup Below(b, y) \cup Below(b, z)
      BY <1>7
    <3>3. ASSUME NEW m \in c[p], m # p
          PROVE  \E u \in {y, z} : u # NULL /\ m \in b[u] /\ b[u] \subseteq c[p]
      BY <3>2, <3>3 DEF Below
    <3>4. ASSUME NEW m \in c[p], m # p
          PROVE  m \in H /\ c[m] \subseteq c[p] /\ s2.par[m] \in c[p]
      <4>1. PICK u \in {y, z} : u # NULL /\ m \in b[u] /\ b[u] \subseteq c[p]
        BY <3>3, <3>4
      <4>2. m \in H /\ c[m] \subseteq b[u] /\ (m # u => s2.par[m] \in b[u])
        BY <3>1, <4>1
      <4>3. m = u => s2.par[m] = p
        <5>1. z # NULL => z # x /\ z # p /\ z \in H
          BY <1>3, <1>5
        <5> QED BY <1>5, <1>9, <4>1, <5>1
      <4> QED BY <3>2, <4>1, <4>2, <4>3
    <3> QED BY <3>2, <3>4
  <2> QED BY <2>4, <2>5, <2>6 DEF Closed
<1> QED BY <1>7, <1>12, <1>13, <1>14, <1>15 DEF Shape, c

-----------------------------------------------------------------------------
\* The node n, which has no child but m, is taken out.
Removed(s, s2, n, m) ==
  /\ \E d \in Dirs : s.kid[n][d] = m /\ s.kid[n][Opp(d)] = NULL
  /\ \A k \in Nodes \ {n}, e \in Dirs :
       s2.kid[k][e] = IF k = s.par[n] /\ s.kid[k][e] = n THEN m ELSE s.kid[k][e]
  /\ \A k \in Nodes \ {n} : s2.par[k] = IF k = m THEN s.par[n] ELSE s.par[k]
  /\ s2.root = IF s.root = n THEN m ELSE s.root

\* What is below each node when n is gone.
Without(b, n) == [k \in Nodes |-> b[k] \ {n}]

\* Taking out a node that has at most one child leaves the others in order.
LEMMA RemovalKeepsShape ==
  ASSUME NEW s \in Trees, NEW s2 \in Trees, NEW H \in SUBSET Nodes,
         NEW b \in [Nodes -> SUBSET Nodes], Shape(s, H, b),
         NEW n \in H, NEW m, Removed(s, s2, n, m)
  PROVE  /\ Without(b, n) \in [Nodes -> SUBSET Nodes]
         /\ Shape(s2, H \ {n}, Without(b, n))
<1> DEFINE c == Without(b, n)
           g == s.par[n]
<1>1. PICK d \in Dirs : s.kid[n][d] = m /\ s.kid[n][Opp(d)] = NULL
  BY DEF Removed
<1>2. Opp(d) \in Dirs /\ \A e \in Dirs : e = d \/ e = Opp(d)
  BY DEF Dirs, Opp
<1>3. m # NULL => /\ m \in H /\ m # n /\ s.par[m] = n /\ n \notin b[m] /\ m # s.root /\ g # m
  <2>1. ChildOf(s, H, b, n, d, m)
    BY <1>1, ChildIs
  <2> QED BY <2>1 DEF ChildOf
<1>4. H \subseteq Nodes /\ NULL \notin Nodes
  BY NodesAssumption
<1>5. c \in [Nodes -> SUBSET Nodes] /\ \A k \in Nodes : c[k] = b[k] \ {n}
  BY DEF Without
<1>6. \A k \in H :
        /\ \A e \in Dirs : s.kid[k][e] # NULL => s.kid[k][e] \in H /\ s.par[s.kid[k][e]] = k
        /\ s.par[k] = NULL => k = s.root
        /\ s.par[k] # NULL => s.par[k] \in H /\ \E e \in Dirs : s.kid[s.par[k]][e] = k
  BY DEF Shape, Paired
<1>7. \A k \in H :
        /\ b[k] = {k} \cup Below(b, s.kid[k]["left"]) \cup Below(b, s.kid[k]["right"])
        /\ \A j \in Below(b, s.kid[k]["left"]) : j < k
        /\ \A j \in Below(b, s.kid[k]["right"]) : j > k
  BY DEF Shape, Sorted
<1>8. \A k \in H :
        /\ b[k] \subseteq H
        /\ \A j \in b[k] : b[j] \subseteq b[k] /\ (j # k => s.par[j] \in b[k])
  BY DEF Shape, Closed
<1>9. n \notin Below(b, m) /\ b[n] = {n} \cup Below(b, m) /\ n \in b[n]
  <2>1. Below(b, NULL) = {}
    BY DEF Below
  <2>2. n \notin Below(b, m)
    BY <1>3 DEF Below
  <2>3. CASE d = "left"
    BY <1>1, <1>7, <2>1, <2>2, <2>3 DEF Opp
  <2>4. CASE d = "right"
    BY <1>1, <1>7, <2>1, <2>2, <2>4 DEF Opp
  <2> QED BY <2>3, <2>4 DEF Dirs
<1> HIDE DEF c
<1>10. /\ \A k \in H \ {n}, e \in Dirs :
            s2.kid[k][e] = IF k = g /\ s.kid[k][e] = n THEN m ELSE s.kid[k][e]
       /\ \A k \in H \ {n} : s2.par[k] = IF k = m THEN g ELSE s.par[k]
       /\ s2.root = IF s.root = n THEN m ELSE s.root
  BY <1>4 DEF Removed
<1>11. g # n
  BY <1>1, <1>2, <1>3, <1>4, <1>6
<1> HIDE DEF g
<1>12. g # NULL => g \in H /\ \E e \in Dirs : s.kid[g][e] = n
  BY <1>6 DEF g
<1>13. g = NULL <=> n = s.root
  BY <1>4, <1>6 DEF g, Shape, Rooted
<1>14. \A k \in H \ {n}, e \in Dirs : s.kid[k][e] = n => k = g
  BY <1>4, <1>6 DEF g
<1>m. Below(c, m) = Below(b, m)
  <2>1. CASE m = NULL
    BY <2>1 DEF Below
  <2>2. CASE m # NULL
    <3>1. c[m] = b[m] \ {n} /\ n \notin b[m]
      BY <1>3, <1>4, <1>5, <2>2
    <3>2. c[m] = b[m]
      BY <3>1
    <3> QED BY <2>2, <3>2 DEF Below
  <2> QED BY <2>1, <2>2
<1>15. ASSUME NEW k \in H \ {n}, NEW e \in Dirs
       PROVE  Below(c, s2.kid[k][e]) = Below(b, s.kid[k][e]) \ {n}
  <2>1. s.kid[k][e] # NULL => s.kid[k][e] \in Nodes
    BY <1>4, <1>6
  <2>2. CASE s.kid[k][e] = n
    <3>1. s2.kid[k][e] = m
      BY <1>10, <1>14, <2>2
    <3>2. Below(b, n) = b[n]
      BY <1>4 DEF Below
    <3> QED BY <1>9, <1>m, <2>2, <3>1, <3>2
  <2>3. CASE s.kid[k][e] # n
    BY <1>5, <1>10, <2>1, <2>3 DEF Below
  <2> QED BY <2>2, <2>3
<1>16. Rooted(s2, H \ {n}, c)
  <2>1. s.root \in H \cup {NULL} /\ H = Below(b, s.root) /\ (s.root # NULL => s.par[s.root] = NULL)
    BY DEF Shape, Rooted
  <2>2. CASE s.root = n
    <3>1. s2.root = m /\ H = b[n] /\ g = NULL
      BY <1>4, <1>10, <1>13, <2>1, <2>2 DEF Below
    <3> QED BY <1>3, <1>9, <1>10, <1>m, <3>1 DEF Rooted
  <2>3. CASE s.root # n
    <3>1. s2.root = s.root
      BY <1>10, <2>3
    <3>2. s.root # NULL => s2.par[s.root] = NULL
      BY <1>3, <1>4, <1>10, <2>1, <2>3
    <3>3. Below(c, s.root) = H \ {n}
      BY <1>4, <1>5, <2>1 DEF Below
    <3> QED BY <2>1, <2>3, <3>1, <3>2, <3>3 DEF Rooted
  <2> QED BY <2>2, <2>3
<1>17. Paired(s2, H \ {n})
  <2>1. ASSUME NEW k \in H \ {n}, NEW e \in Dirs, s2.kid[k][e] # NULL
        PROVE  s2.kid[k][e] \in H \ {n} /\ s2.par[s2.kid[k][e]] = k
    <3>1. CASE s.kid[k][e] = n
      BY <1>3, <1>10, <1>14, <2>1, <3>1
    <3>2. CASE s.kid[k][e] # n
      BY <1>3, <1>6, <1>10, <2>1, <3>2
    <3> QED BY <3>1, <3>2
  <2>2. ASSUME NEW k \in H \ {n}, s2.par[k] = NULL
        PROVE  k = s2.root
    BY <1>6, <1>10, <1>13, <2>2
  <2>3. ASSUME NEW k \in H \ {n}, s2.par[k] # NULL
        PROVE  s2.par[k] \in H \ {n} /\ \E e \in Dirs : s2.kid[s2.par[k]][e] = k
    <3>1. CASE k = m
      BY <1>10, <1>11, <1>12, <2>3, <3>1
    <3>2. CASE k # m
      <4>1. s2.par[k] = s.par[k] /\ s.par[k] \in H
        BY <1>6, <1>10, <2>3, <3>2
      <4>2. PICK e \in Dirs : s.kid[s.par[k]][e] = k
        BY <1>6, <2>3, <4>1
      <4>3. s.par[k] # n
        BY <1>1, <1>2, <1>4, <3>2, <4>2
      <4> QED BY <1>10, <4>1, <4>2, <4>3
    <3> QED BY <3>1, <3>2
  <2> QED BY <2>1, <2>2, <2>3 DEF Paired
<1>18. Sorted(s2, H \ {n}, c)
  <2>1. ASSUME NEW k \in H \ {n}
        PROVE  /\ c[k] = {k} \cup Below(c, s2.kid[k]["left"]) \cup Below(c, s2.kid[k]["right"])
               /\ \A j \in Below(c, s2.kid[k]["left"]) : j < k
               /\ \A j \in Below(c, s2.kid[k]["right"]) : j > k
    <3>1. /\ Below(c, s2.kid[k]["left"]) = Below(b, s.kid[k]["left"]) \ {n}
          /\ Below(c, s2.kid[k]["right"]) = Below(b, s.kid[k]["right"]) \ {n}
      BY <1>15 DEF Dirs
    <3>2. c[k] = b[k] \ {n}
      BY <1>4, <1>5
    <3> QED BY <1>7, <3>1, <3>2
  <2> QED BY <2>1 DEF Sorted
<1>19. Closed(s2, H \ {n}, c)
  <2>1. ASSUME NEW k \in H \ {n}
        PROVE  /\ c[k] \subseteq H \ {n}
               /\ \A j \in c[k] : c[j] \subseteq c[k] /\ (j # k => s2.par[j] \in c[k])
    <3>1. c[k] = b[k] \ {n} /\ \A j \in b[k] : c[j] = b[j] \ {n}
      BY <1>4, <1>5, <1>8
    <3>2. ASSUME NEW j \in b[k] \ {n}, j # k
          PROVE  s2.par[j] \in b[k] \ {n}
      <4>1. j \in H \ {n} /\ s.par[j] \in b[k]
        BY <1>8, <3>2
      <4>2. CASE j = m
        BY <1>3, <1>4, <1>8, <1>10, <1>11, <4>1, <4>2 DEF g
      <4>3. CASE j # m
        <5>1. s.par[j] # n
          <6>1. s.par[j] \in H /\ s.par[j] # NULL
            BY <1>4, <1>8, <4>1
          <6> QED BY <1>1, <1>2, <1>4, <1>6, <4>1, <4>3, <6>1
        <5> QED BY <1>10, <4>1, <4>3, <5>1
      <4> QED BY <4>2, <4>3
    <3> QED BY <1>8, <3>1, <3>2
  <2> QED BY <2>1 DEF Closed
<1> QED BY <1>5, <1>16, <1>17, <1>18, <1>19 DEF Shape, c

-----------------------------------------------------------------------------
\* The place of n in the order of the nodes above g, and of g.
Between(b, H, n, g) ==
  \A m \in H : g \in b[m] => n # m /\ (m # g => (g < m <=> n < m))

\* The new node n becomes the child of g on side e, or the root.
Hung(s, s2, n, g, e) ==
  /\ \A d \in Dirs : s2.kid[n][d] = NULL
  /\ s2.par[n] = g
  /\ \A k \in Nodes \ {n}, d \in Dirs :
       s2.kid[k][d] = IF k = g /\ d = e THEN n ELSE s.kid[k][d]
  /\ \A k \in Nodes \ {n} : s2.par[k] = s.par[k]
  /\ IF g = NULL THEN s.root = NULL /\ s2.root = n
     ELSE s.kid[g][e] = NULL /\ s2.root = s.root

\* What is below each node when n hangs below g.
With(H, b, n, g) ==
  [k \in Nodes |-> IF k = n THEN {n} ELSE IF k \in H /\ g \in b[k] THEN b[k] \cup {n} ELSE b[k]]

\* A leaf linked at the place its key has is in order with the others.
LEMMA LinkKeepsShape ==
  ASSUME NEW s \in Trees, NEW s2 \in Trees, NEW H \in SUBSET Nodes,
         NEW b \in [Nodes -> SUBSET Nodes], Shape(s, H, b),
         NEW n \in Nodes \ H, NEW g \in H \cup {NULL}, NEW e \in Dirs, Hung(s, s2, n, g, e),
         g # NULL => e = (IF n < g THEN "left" ELSE "right"), Between(b, H, n, g)
  PROVE  /\ With(H, b, n, g) \in [Nodes -> SUBSET Nodes]
         /\ Shape(s2, H \cup {n}, With(H, b, n, g))
<1> DEFINE c == With(H, b, n, g)
<1>1. H \subseteq Nodes /\ NULL \notin Nodes /\ Nodes \subseteq Nat /\ \A k \in H : b[k] \subseteq Nodes
  BY NodesAssumption
<1>2. \A k \in H :
        /\ \A d \in Dirs : s.kid[k][d] # NULL => s.kid[k][d] \in H /\ s.par[s.kid[k][d]] = k
        /\ s.par[k] = NULL => k = s.root
        /\ s.par[k] # NULL => s.par[k] \in H /\ \E d \in Dirs : s.kid[s.par[k]][d] = k
  BY DEF Shape, Paired
<1>3. \A k \in H :
        /\ b[k] = {k} \cup Below(b, s.kid[k]["left"]) \cup Below(b, s.kid[k]["right"])
        /\ \A j \in Below(b, s.kid[k]["left"]) : j < k
        /\ \A j \in Below(b, s.kid[k]["right"]) : j > k
  BY DEF Shape, Sorted
<1>4. \A k \in H :
        /\ b[k] \subseteq H
        /\ \A j \in b[k] : b[j] \subseteq b[k] /\ (j # k => s.par[j] \in b[k])
  BY DEF Shape, Closed
<1>5. s.root \in H \cup {NULL} /\ H = Below(b, s.root) /\ (s.root # NULL => s.par[s.root] = NULL)
  BY DEF Shape, Rooted
<1>6. /\ c \in [Nodes -> SUBSET Nodes] /\ c[n] = {n}
      /\ \A k \in H : c[k] = IF g \in b[k] THEN b[k] \cup {n} ELSE b[k]
  BY <1>1 DEF With
<1> HIDE DEF c
<1>7. /\ \A d \in Dirs : s2.kid[n][d] = NULL
      /\ s2.par[n] = g
      /\ \A k \in H, d \in Dirs : s2.kid[k][d] = IF k = g /\ d = e THEN n ELSE s.kid[k][d]
      /\ \A k \in H : s2.par[k] = s.par[k]
      /\ g = NULL => s.root = NULL /\ s2.root = n
      /\ g # NULL => s.kid[g][e] = NULL /\ s2.root = s.root
  BY DEF Hung
<1>8. g = NULL => H = {}
  BY <1>5, <1>7 DEF Below
<1>9. g # NULL => g \in H /\ g \in b[g] /\ b[g] \subseteq b[s.root] /\ s.root # NULL /\ H = b[s.root]
  BY <1>3, <1>4, <1>5 DEF Below
<1>10. Rooted(s2, H \cup {n}, c)
  <2>1. CASE g = NULL
    BY <1>1, <1>6, <1>7, <1>8, <2>1 DEF Rooted, Below
  <2>2. CASE g # NULL
    <3>1. c[s.root] = H \cup {n}
      BY <1>5, <1>6, <1>9, <2>2
    <3> QED BY <1>5, <1>7, <1>9, <2>2, <3>1 DEF Rooted, Below
  <2> QED BY <2>1, <2>2
<1>11. Paired(s2, H \cup {n})
  <2>1. ASSUME NEW k \in H \cup {n}, NEW d \in Dirs, s2.kid[k][d] # NULL
        PROVE  s2.kid[k][d] \in H \cup {n} /\ s2.par[s2.kid[k][d]] = k
    BY <1>2, <1>7, <2>1
  <2>2. ASSUME NEW k \in H \cup {n}, s2.par[k] = NULL
        PROVE  k = s2.root
    BY <1>2, <1>7, <1>8, <2>2
  <2>3. ASSUME NEW k \in H \cup {n}, s2.par[k] # NULL
        PROVE  s2.par[k] \in H \cup {n} /\ \E d \in Dirs : s2.kid[s2.par[k]][d] = k
    <3>1. CASE k = n
      BY <1>7, <2>3, <3>1
    <3>2. CASE k \in H
      <4>1. PICK d \in Dirs : s.kid[s.par[k]][d] = k
        BY <1>2, <1>7, <2>3, <3>2
      <4>2. s.par[k] \in H /\ k # NULL /\ s2.par[k] = s.par[k]
        BY <1>1, <1>2, <1>7, <2>3, <3>2
      <4>3. s2.kid[s.par[k]][d] = k
        <5>1. ~(s.par[k] = g /\ d = e)
          BY <1>1, <1>7, <4>1, <4>2
        <5> QED BY <1>7, <4>1, <4>2, <5>1
      <4> QED BY <4>2, <4>3
    <3> QED BY <3>1, <3>2
  <2> QED BY <2>1, <2>2, <2>3 DEF Paired
<1>12. ASSUME NEW k \in H, NEW d \in Dirs
       PROVE  Below(c, s2.kid[k][d]) =
                IF g \in Below(b, s.kid[k][d]) \/ (k = g /\ d = e)
                THEN Below(b, s.kid[k][d]) \cup {n} ELSE Below(b, s.kid[k][d])
  <2>1. CASE k = g /\ d = e
    BY <1>1, <1>6, <1>7, <2>1 DEF Below
  <2>2. CASE ~(k = g /\ d = e)
    <3>1. s2.kid[k][d] = s.kid[k][d]
      BY <1>7, <2>2
    <3>2. CASE s.kid[k][d] = NULL
      BY <2>2, <3>1, <3>2 DEF Below
    <3>3. CASE s.kid[k][d] # NULL
      <4>1. s.kid[k][d] \in H
        BY <1>2, <3>3
      <4> QED BY <1>6, <2>2, <3>1, <3>3, <4>1 DEF Below
    <3> QED BY <3>2, <3>3
  <2> QED BY <2>1, <2>2
<1>13. Sorted(s2, H \cup {n}, c)
  <2>1. c[n] = {n} \cup Below(c, s2.kid[n]["left"]) \cup Below(c, s2.kid[n]["right"])
        /\ Below(c, s2.kid[n]["left"]) = {} /\ Below(c, s2.kid[n]["right"]) = {}
    BY <1>6, <1>7 DEF Dirs, Below
  <2>2. ASSUME NEW k \in H
        PROVE  /\ c[k] = {k} \cup Below(c, s2.kid[k]["left"]) \cup Below(c, s2.kid[k]["right"])
               /\ \A j \in Below(c, s2.kid[k]["left"]) : j < k
               /\ \A j \in Below(c, s2.kid[k]["right"]) : j > k
    <3>1. CASE k = g
      <4>1. n # g /\ g \in Nat /\ n \in Nat /\ e = (IF n < g THEN "left" ELSE "right")
        BY <1>1, <1>3, <3>1 DEF Between
      <4>2. g \notin Below(b, s.kid[g]["left"]) /\ g \notin Below(b, s.kid[g]["right"])
        BY <1>3, <3>1, <4>1
      <4>3. c[g] = b[g] \cup {n}
        BY <1>3, <1>6, <3>1
      <4>4. /\ Below(c, s2.kid[g]["left"]) = IF e = "left" THEN Below(b, s.kid[g]["left"]) \cup {n}
                                             ELSE Below(b, s.kid[g]["left"])
            /\ Below(c, s2.kid[g]["right"]) = IF e = "right" THEN Below(b, s.kid[g]["right"]) \cup {n}
                                              ELSE Below(b, s.kid[g]["right"])
        BY <1>12, <3>1, <4>2 DEF Dirs
      <4>5. /\ b[g] = {g} \cup Below(b, s.kid[g]["left"]) \cup Below(b, s.kid[g]["right"])
            /\ \A j \in Below(b, s.kid[g]["left"]) : j < g
            /\ \A j \in Below(b, s.kid[g]["right"]) : j > g
        BY <1>3, <3>1
      <4>6. CASE n < g
        BY <3>1, <4>1, <4>3, <4>4, <4>5, <4>6
      <4>7. CASE ~(n < g)
        BY <3>1, <4>1, <4>3, <4>4, <4>5, <4>7
      <4> QED BY <4>6, <4>7
    <3>2. CASE k # g /\ g \in b[k]
      <4>1. n # k /\ (g < k <=> n < k) /\ k \in Nat /\ n \in Nat /\ g \in Nat
        BY <1>1, <1>4, <3>2 DEF Between
      <4>2. c[k] = b[k] \cup {n}
        BY <1>6, <3>2
      <4>3. /\ Below(c, s2.kid[k]["left"]) = IF g \in Below(b, s.kid[k]["left"])
                                             THEN Below(b, s.kid[k]["left"]) \cup {n}
                                             ELSE Below(b, s.kid[k]["left"])
            /\ Below(c, s2.kid[k]["right"]) = IF g \in Below(b, s.kid[k]["right"])
                                              THEN Below(b, s.kid[k]["right"]) \cup {n}
                                              ELSE Below(b, s.kid[k]["right"])
        BY <1>12, <3>2 DEF Dirs
      <4>4. /\ b[k] = {k} \cup Below(b, s.kid[k]["left"]) \cup Below(b, s.kid[k]["right"])
            /\ \A j \in Below(b, s.kid[k]["left"]) : j < k
            /\ \A j \in Below(b, s.kid[k]["right"]) : j > k
        BY <1>3
      <4>5. g \in Below(b, s.kid[k]["left"]) \/ g \in Below(b, s.kid[k]["right"])
        BY <3>2, <4>4
      <4>6. CASE g < k
        BY <4>1, <4>2, <4>3, <4>4, <4>5, <4>6
      <4>7. CASE ~(g < k)
        BY <4>1, <4>2, <4>3, <4>4, <4>5, <4>7
      <4> QED BY <4>6, <4>7
    <3>3. CASE g \notin b[k]
      <4>1. c[k] = b[k]
        BY <1>6, <3>3
      <4>2. /\ Below(c, s2.kid[k]["left"]) = Below(b, s.kid[k]["left"])
            /\ Below(c, s2.kid[k]["right"]) = Below(b, s.kid[k]["right"])
        BY <1>3, <1>12, <3>3 DEF Dirs
      <4> QED BY <1>3, <4>1, <4>2
    <3> QED BY <3>1, <3>2, <3>3, <1>3
  <2> QED BY <2>1, <2>2 DEF Sorted
<1>14. Closed(s2, H \cup {n}, c)
  <2>1. ASSUME NEW k \in H
        PROVE  /\ c[k] \subseteq H \cup {n}
               /\ \A j \in c[k] : c[j] \subseteq c[k] /\ (j # k => s2.par[j] \in c[k])
    <3>1. c[k] = IF g \in b[k] THEN b[k] \cup {n} ELSE b[k]
      BY <1>6
    <3>2. ASSUME NEW j \in b[k]
          PROVE  c[j] \subseteq c[k] /\ (j # k => s2.par[j] \in c[k])
      <4>1. j \in H /\ b[j] \subseteq b[k]
        BY <1>4
      <4>2. c[j] = IF g \in b[j] THEN b[j] \cup {n} ELSE b[j]
        BY <1>6, <4>1
      <4> QED BY <1>4, <1>7, <3>1, <4>1, <4>2
    <3>3. n \in c[k] => c[n] \subseteq c[k] /\ s2.par[n] \in c[k]
      <4>1. n \notin b[k]
        BY <1>4
      <4> QED BY <1>6, <1>7, <3>1, <4>1
    <3> QED BY <1>4, <3>1, <3>2, <3>3
  <2>2. /\ c[n] \subseteq H \cup {n}
        /\ \A j \in c[n] : c[j] \subseteq c[n] /\ (j # n => s2.par[j] \in c[n])
    <3>1. \A j \in c[n] : j = n
      BY <1>6
    <3> QED BY <1>6, <3>1
  <2> QED BY <2>1, <2>2 DEF Closed
<1> QED BY <1>6, <1>10, <1>11, <1>13, <1>14 DEF Shape, c

-----------------------------------------------------------------------------
\* The node x takes the place of n.
Substituted(s, s2, H, n, x) ==
  /\ \A e \in Dirs : s2.kid[x][e] = s.kid[n][e]
  /\ s2.par[x] = s.par[n]
  /\ \A k \in H \ {n}, e \in Dirs :
       s2.kid[k][e] = IF s.kid[k][e] = n THEN x ELSE s.kid[k][e]
  /\ \A k \in H \ {n} : s2.par[k] = IF s.par[k] = n THEN x ELSE s.par[k]
  /\ s2.root = IF s.root = n THEN x ELSE s.root

\* The set S with x instead of n.
InPlace(S, n, x) == IF n \in S THEN (S \ {n}) \cup {x} ELSE S

\* What is below each node when x is where n was.
Renamed(H, b, n, x) ==
  [k \in Nodes |-> IF k = x THEN InPlace(b[n], n, x)
                   ELSE IF k \in H THEN InPlace(b[k], n, x) ELSE b[k]]

\* x compares as n does to what is above and below n.
Alike(b, H, n, x) ==
  \A m \in H \ {n} : n \in b[m] \/ m \in b[n] => (n < m <=> x < m)

\* Putting x in the place of n keeps the order, if x compares as n does.
LEMMA SubstitutionKeepsShape ==
  ASSUME NEW s \in Trees, NEW s2 \in Trees, NEW H \in SUBSET Nodes,
         NEW b \in [Nodes -> SUBSET Nodes], Shape(s, H, b),
         NEW n \in H, NEW x \in Nodes \ H, Substituted(s, s2, H, n, x), Alike(b, H, n, x)
  PROVE  /\ Renamed(H, b, n, x) \in [Nodes -> SUBSET Nodes]
         /\ Shape(s2, (H \ {n}) \cup {x}, Renamed(H, b, n, x))
<1> DEFINE c == Renamed(H, b, n, x)
           G == (H \ {n}) \cup {x}
           r(S) == InPlace(S, n, x)
<1>1. H \subseteq Nodes /\ NULL \notin Nodes /\ Nodes \subseteq Nat /\ \A k \in H : b[k] \subseteq Nodes
  BY NodesAssumption
<1>2. \A k \in H :
        /\ \A d \in Dirs : s.kid[k][d] # NULL => s.kid[k][d] \in H /\ s.par[s.kid[k][d]] = k
        /\ s.par[k] = NULL => k = s.root
        /\ s.par[k] # NULL => s.par[k] \in H /\ \E d \in Dirs : s.kid[s.par[k]][d] = k
  BY DEF Shape, Paired
<1>3. \A k \in H :
        /\ b[k] = {k} \cup Below(b, s.kid[k]["left"]) \cup Below(b, s.kid[k]["right"])
        /\ \A j \in Below(b, s.kid[k]["left"]) : j < k
        /\ \A j \in Below(b, s.kid[k]["right"]) : j > k
  BY DEF Shape, Sorted
<1>4. \A k \in H :
        /\ b[k] \subseteq H
        /\ \A j \in b[k] : b[j] \subseteq b[k] /\ (j # k => s.par[j] \in b[k])
  BY DEF Shape, Closed
<1>5. s.root \in H \cup {NULL} /\ H = Below(b, s.root) /\ (s.root # NULL => s.par[s.root] = NULL)
  BY DEF Shape, Rooted
<1>6. c \in [Nodes -> SUBSET Nodes] /\ c[x] = r(b[n]) /\ \A k \in H : c[k] = r(b[k])
  BY <1>1 DEF Renamed, InPlace
<1> HIDE DEF c
<1>7. /\ \A d \in Dirs : s2.kid[x][d] = s.kid[n][d]
      /\ s2.par[x] = s.par[n]
      /\ \A k \in H \ {n}, e \in Dirs :
           s2.kid[k][e] = IF s.kid[k][e] = n THEN x ELSE s.kid[k][e]
      /\ \A k \in H \ {n} : s2.par[k] = IF s.par[k] = n THEN x ELSE s.par[k]
      /\ s2.root = IF s.root = n THEN x ELSE s.root
  BY DEF Substituted
<1>8. n \in b[n] /\ \A d \in Dirs : s.kid[n][d] # n
  <2>1. ASSUME NEW d \in Dirs, s.kid[n][d] = n
        PROVE  FALSE
    <3>1. n # NULL /\ n \in Nat
      BY <1>1
    <3>2. n \in b[n]
      BY <1>3
    <3>3. n \in Below(b, s.kid[n][d])
      BY <2>1, <3>1, <3>2 DEF Below
    <3> QED BY <1>3, <3>1, <3>3 DEF Dirs
  <2> QED BY <1>3, <2>1
<1>9. s.par[n] # n
  BY <1>1, <1>2, <1>8
<1>10. r(H) = G
  BY DEF InPlace
<1>11. ASSUME NEW u, u \in H \/ u = NULL
       PROVE  Below(c, IF u = n THEN x ELSE u) = r(Below(b, u))
  BY <1>1, <1>6, <1>11 DEF Below, InPlace
<1>12. Rooted(s2, G, c)
  <2>1. Below(c, s2.root) = G
    BY <1>5, <1>7, <1>10, <1>11
  <2>2. s2.root \in G \cup {NULL}
    BY <1>5, <1>7
  <2>3. s2.root # NULL => s2.par[s2.root] = NULL
    <3>1. CASE s.root = n
      <4>1. s2.root = x /\ s2.par[x] = s.par[n]
        BY <1>7, <3>1
      <4>2. n # NULL => s.par[n] = NULL
        BY <1>5, <3>1
      <4> QED BY <1>1, <4>1, <4>2
    <3>2. CASE s.root # n
      <4>1. s2.root = s.root
        BY <1>7, <3>2
      <4>2. s.root # NULL => s.root \in H \ {n} /\ s.par[s.root] = NULL /\ s.par[s.root] # n
        BY <1>1, <1>5, <3>2
      <4> QED BY <1>7, <4>1, <4>2
    <3> QED BY <3>1, <3>2
  <2> QED BY <2>1, <2>2, <2>3 DEF Rooted
<1>13. Paired(s2, G)
  <2>1. ASSUME NEW k \in G, NEW d \in Dirs, s2.kid[k][d] # NULL
        PROVE  s2.kid[k][d] \in G /\ s2.par[s2.kid[k][d]] = k
    <3>1. CASE k = x
      BY <1>2, <1>7, <1>8, <2>1, <3>1
    <3>2. CASE k # x
      <4>1. k \in H \ {n} /\ s2.kid[k][d] = IF s.kid[k][d] = n THEN x ELSE s.kid[k][d]
        BY <1>7, <3>2
      <4>2. s.kid[k][d] # NULL /\ s.kid[k][d] \in H /\ s.par[s.kid[k][d]] = k
        BY <1>1, <1>2, <2>1, <4>1
      <4>3. CASE s.kid[k][d] = n
        BY <1>7, <4>1, <4>2, <4>3
      <4>4. CASE s.kid[k][d] # n
        BY <1>7, <4>1, <4>2, <4>4
      <4> QED BY <4>3, <4>4
    <3> QED BY <3>1, <3>2
  <2>2. ASSUME NEW k \in G, s2.par[k] = NULL
        PROVE  k = s2.root
    BY <1>1, <1>2, <1>7, <2>2
  <2>3. ASSUME NEW k \in G, s2.par[k] # NULL
        PROVE  s2.par[k] \in G /\ \E d \in Dirs : s2.kid[s2.par[k]][d] = k
    <3>1. CASE k = x
      <4>1. s2.par[k] = s.par[n] /\ s.par[n] \in H \ {n}
        BY <1>2, <1>7, <1>9, <2>3, <3>1
      <4>2. PICK d \in Dirs : s.kid[s.par[n]][d] = n
        BY <1>2, <2>3, <4>1
      <4>3. s2.kid[s.par[n]][d] = x
        BY <1>7, <4>1, <4>2
      <4> QED BY <3>1, <4>1, <4>3
    <3>2. CASE k # x
      <4>1. s.par[k] # NULL /\ k \in H \ {n}
        BY <1>1, <1>7, <2>3, <3>2
      <4>2. PICK d \in Dirs : s.kid[s.par[k]][d] = k
        BY <1>2, <4>1
      <4>3. s.par[k] \in H
        BY <1>2, <4>1
      <4>4. CASE s.par[k] = n
        BY <1>7, <4>1, <4>2, <4>4
      <4>5. CASE s.par[k] # n
        BY <1>7, <4>1, <4>2, <4>3, <4>5
      <4> QED BY <4>4, <4>5
    <3> QED BY <3>1, <3>2
  <2> QED BY <2>1, <2>2, <2>3 DEF Paired
<1>14. Sorted(s2, G, c)
  <2>1. ASSUME NEW k \in G
        PROVE  /\ c[k] = {k} \cup Below(c, s2.kid[k]["left"]) \cup Below(c, s2.kid[k]["right"])
               /\ \A j \in Below(c, s2.kid[k]["left"]) : j < k
               /\ \A j \in Below(c, s2.kid[k]["right"]) : j > k
    <3>1. CASE k = x
      <4>1. /\ Below(c, s2.kid[x]["left"]) = Below(b, s.kid[n]["left"])
            /\ Below(c, s2.kid[x]["right"]) = Below(b, s.kid[n]["right"])
        <5>1. \A d \in Dirs : /\ s2.kid[x][d] = s.kid[n][d] /\ s.kid[n][d] # n
                              /\ s.kid[n][d] \in H \/ s.kid[n][d] = NULL
          BY <1>2, <1>7, <1>8
        <5>2. \A d \in Dirs : Below(c, s2.kid[x][d]) = r(Below(b, s.kid[n][d]))
          BY <1>11, <5>1
        <5>3. n \notin Below(b, s.kid[n]["left"]) /\ n \notin Below(b, s.kid[n]["right"])
          BY <1>1, <1>3
        <5> QED BY <5>2, <5>3 DEF Dirs, InPlace
      <4>2. c[x] = (b[n] \ {n}) \cup {x}
        BY <1>6, <1>8 DEF InPlace
      <4>3. n \in Nat /\ x \in Nat /\ b[n] \subseteq H /\ H \subseteq Nat
        BY <1>1, <1>4
      <4>4. \A m \in b[n] \ {n} : (n < m <=> x < m) /\ x # m
        BY <4>3 DEF Alike
      <4>5. /\ b[n] = {n} \cup Below(b, s.kid[n]["left"]) \cup Below(b, s.kid[n]["right"])
            /\ \A j \in Below(b, s.kid[n]["left"]) : j < n
            /\ \A j \in Below(b, s.kid[n]["right"]) : j > n
        BY <1>3
      <4>6. ASSUME NEW j \in Below(b, s.kid[n]["left"])
            PROVE  j < x
        <5>1. j < n /\ j \in b[n] /\ j \in Nat
          BY <4>3, <4>5
        <5>2. (n < j <=> x < j) /\ x # j
          BY <4>3, <4>4, <5>1
        <5> QED BY <4>3, <5>1, <5>2
      <4>7. ASSUME NEW j \in Below(b, s.kid[n]["right"])
            PROVE  j > x
        <5>1. j > n /\ j \in b[n] /\ j \in Nat
          BY <4>3, <4>5
        <5>2. (n < j <=> x < j) /\ x # j
          BY <4>3, <4>4, <5>1
        <5> QED BY <4>3, <5>1, <5>2
      <4>8. c[x] = {x} \cup Below(b, s.kid[n]["left"]) \cup Below(b, s.kid[n]["right"])
        BY <4>2, <4>3, <4>5
      <4> QED BY <3>1, <4>1, <4>6, <4>7, <4>8
    <3>2. CASE k # x
      <4>1. k \in H /\ k # n /\ k \in Nat /\ x \in Nat /\ x # k
        BY <1>1, <3>2
      <4>2. /\ Below(c, s2.kid[k]["left"]) = r(Below(b, s.kid[k]["left"]))
            /\ Below(c, s2.kid[k]["right"]) = r(Below(b, s.kid[k]["right"]))
        <5>1. \A d \in Dirs : /\ s2.kid[k][d] = IF s.kid[k][d] = n THEN x ELSE s.kid[k][d]
                              /\ s.kid[k][d] \in H \/ s.kid[k][d] = NULL
          BY <1>2, <1>7, <4>1
        <5>2. \A d \in Dirs : Below(c, s2.kid[k][d]) = r(Below(b, s.kid[k][d]))
          BY <1>11, <5>1
        <5> QED BY <5>2 DEF Dirs
      <4>3. c[k] = r(b[k])
        BY <1>6, <4>1
      <4>4. /\ b[k] = {k} \cup Below(b, s.kid[k]["left"]) \cup Below(b, s.kid[k]["right"])
            /\ \A j \in Below(b, s.kid[k]["left"]) : j < k
            /\ \A j \in Below(b, s.kid[k]["right"]) : j > k
        BY <1>3, <4>1
      <4>5. n \in b[k] => (n < k <=> x < k)
        BY <4>1 DEF Alike
      <4>6. c[k] = {k} \cup r(Below(b, s.kid[k]["left"])) \cup r(Below(b, s.kid[k]["right"]))
        <5>1. \A S, T : n # k => r({k} \cup S \cup T) = {k} \cup r(S) \cup r(T)
          BY DEF InPlace
        <5> HIDE DEF r
        <5> QED BY <4>1, <4>3, <4>4, <5>1
      <4>7. \A j \in r(Below(b, s.kid[k]["left"])) : j < k
        BY <4>1, <4>4, <4>5 DEF InPlace
      <4>8. \A j \in r(Below(b, s.kid[k]["right"])) : j > k
        <5>1. n \in Below(b, s.kid[k]["right"]) => n > k /\ n \in Nat /\ n \in b[k]
          BY <1>1, <4>4
        <5> QED BY <4>1, <4>4, <4>5, <5>1 DEF InPlace
      <4> QED BY <4>2, <4>6, <4>7, <4>8
    <3> QED BY <3>1, <3>2
  <2> QED BY <2>1 DEF Sorted
<1>15. Closed(s2, G, c)
  <2>1. ASSUME NEW u \in H, NEW k \in G, k = IF u = n THEN x ELSE u
        PROVE  /\ c[k] \subseteq G
               /\ \A j \in c[k] : c[j] \subseteq c[k] /\ (j # k => s2.par[j] \in c[k])
    <3>1. c[k] = r(b[u])
      BY <1>6, <2>1
    <3>2. c[k] \subseteq G
      BY <1>4, <3>1 DEF InPlace
    <3>3. ASSUME NEW j \in c[k]
          PROVE  c[j] \subseteq c[k] /\ (j # k => s2.par[j] \in c[k])
      <4>1. PICK v \in b[u] : j = IF v = n THEN x ELSE v
        BY <3>1, <3>3 DEF InPlace
      <4>2. v \in H /\ b[v] \subseteq b[u] /\ (v # u => s.par[v] \in b[u])
        BY <1>4, <4>1
      <4>3. c[j] = r(b[v])
        BY <1>6, <4>1, <4>2
      <4>4. c[j] \subseteq c[k]
        BY <3>1, <4>2, <4>3 DEF InPlace
      <4>5. j # k => v # u
        BY <2>1, <4>1
      <4>6. s2.par[j] = IF s.par[v] = n THEN x ELSE s.par[v]
        BY <1>7, <1>9, <4>1, <4>2
      <4> QED BY <3>1, <4>2, <4>4, <4>5, <4>6 DEF InPlace
    <3> QED BY <3>2, <3>3
  <2>2. \A k \in G : \E u \in H : k = IF u = n THEN x ELSE u
    OBVIOUS
  <2> QED BY <2>1, <2>2 DEF Closed
<1> QED BY <1>6, <1>12, <1>13, <1>14, <1>15 DEF Shape, c

-----------------------------------------------------------------------------
(***************************************************************************)
(* What the stores do to a tree.                                           *)
(***************************************************************************)
KidIs(r, s, n, d, m) ==
  /\ r \in Trees /\ r.par = s.par /\ r.col = s.col /\ r.root = s.root
  /\ \A k \in Nodes, e \in Dirs :
       r.kid[k][e] = IF k = n /\ e = d THEN m ELSE s.kid[k][e]

\* SetKid stores one child pointer.
LEMMA SetKidIs ==
  ASSUME NEW s \in Trees, NEW n \in Nodes, NEW d \in Dirs, NEW m \in Maybe
  PROVE  KidIs(SetKid(s, n, d, m), s, n, d, m)
BY DEF KidIs, SetKid, Trees

\* In r the parent of n is p, and all else is as in s.
ParentIs(r, s, n, p) ==
  /\ r \in Trees /\ r.kid = s.kid /\ r.col = s.col /\ r.root = s.root
  /\ \A k \in Nodes : r.par[k] = IF k = n THEN p ELSE s.par[k]

\* SetParent stores one parent pointer.
LEMMA SetParentIs ==
  ASSUME NEW s \in Trees, NEW n \in Nodes, NEW p \in Maybe
  PROVE  ParentIs(SetParent(s, n, p), s, n, p)
BY DEF ParentIs, SetParent, Trees

\* In r the parent of n is p and its color c, and all else is as in s.
ParentColorIs(r, s, n, p, c) ==
  /\ r \in Trees /\ r.kid = s.kid /\ r.root = s.root
  /\ \A k \in Nodes : /\ r.par[k] = IF k = n THEN p ELSE s.par[k]
                      /\ r.col[k] = IF k = n THEN c ELSE s.col[k]

\* SetParentColor stores the parent and the color of one node.
LEMMA SetParentColorIs ==
  ASSUME NEW s \in Trees, NEW n \in Nodes, NEW p \in Maybe, NEW c \in {"red", "black"}
  PROVE  ParentColorIs(SetParentColor(s, n, p, c), s, n, p, c)
BY DEF ParentColorIs, SetParentColor, Trees

\* AdoptBlack does so for a node that may be missing.
LEMMA AdoptBlackIs ==
  ASSUME NEW s \in Trees, NEW n \in Maybe, NEW p \in Maybe
  PROVE  ParentColorIs(AdoptBlack(s, n, p), s, n, p, "black")
<1>1. NULL \notin Nodes
  BY NodesAssumption
<1>2. CASE n = NULL
  BY <1>1, <1>2 DEF AdoptBlack, ParentColorIs
<1>3. CASE n # NULL
  BY <1>3, SetParentColorIs DEF AdoptBlack, Maybe
<1> QED BY <1>2, <1>3

\* The child old of p, or the root.
HangsBelow(s, old, p) ==
  p # NULL => s.kid[p]["left"] # s.kid[p]["right"] /\ \E d \in Dirs : s.kid[p][d] = old

\* In r the pointer of p, or of the root, to old leads to by, and all else is as in s.
ChildIsChanged(r, s, old, by, p) ==
  /\ r \in Trees /\ r.par = s.par /\ r.col = s.col
  /\ r.root = IF p = NULL THEN by ELSE s.root
  /\ \A k \in Nodes, e \in Dirs :
       r.kid[k][e] = IF k = p /\ s.kid[k][e] = old THEN by ELSE s.kid[k][e]

\* ChangeChild leads the one pointer to old, from its parent or the root, to by.
LEMMA ChangeChildIs ==
  ASSUME NEW s \in Trees, NEW old \in Nodes, NEW by \in Maybe, NEW p \in Maybe,
         HangsBelow(s, old, p)
  PROVE  ChildIsChanged(ChangeChild(s, old, by, p), s, old, by, p)
<1>1. NULL \notin Nodes
  BY NodesAssumption
<1>2. CASE p = NULL
  <2> DEFINE r == [s EXCEPT !.root = by]
  <2>1. r \in Trees /\ r.par = s.par /\ r.col = s.col /\ r.kid = s.kid /\ r.root = by
    BY DEF Trees
  <2>2. ChangeChild(s, old, by, p) = r
    BY <1>2 DEF ChangeChild
  <2> HIDE DEF r
  <2> QED BY <1>1, <1>2, <2>1, <2>2 DEF ChildIsChanged
<1>3. CASE p # NULL
  <2>1. p \in Nodes /\ "left" \in Dirs /\ "right" \in Dirs
    BY <1>3 DEF Maybe, Dirs
  <2>2. PICK d \in Dirs : s.kid[p][d] = old
    BY <1>3 DEF HangsBelow
  <2>3. ChangeChild(s, old, by, p) = SetKid(s, p, d, by)
    BY <1>3, <2>2 DEF ChangeChild, HangsBelow, Dirs
  <2>4. KidIs(SetKid(s, p, d, by), s, p, d, by)
    BY <2>1, SetKidIs
  <2>5. \A e \in Dirs : s.kid[p][e] = old <=> e = d
    BY <1>3, <2>2 DEF HangsBelow, Dirs
  <2> QED BY <1>3, <2>3, <2>4, <2>5 DEF KidIs, ChildIsChanged
<1> QED BY <1>2, <1>3

\* by takes the parent and the color of old, which becomes its child.
ParentsAreRotated(r, s, old, by, c) ==
  /\ r \in Trees
  /\ r.root = IF s.par[old] = NULL THEN by ELSE s.root
  /\ \A k \in Nodes, e \in Dirs :
       r.kid[k][e] = IF k = s.par[old] /\ s.kid[k][e] = old THEN by ELSE s.kid[k][e]
  /\ \A k \in Nodes :
       /\ r.par[k] = IF k = old THEN by ELSE IF k = by THEN s.par[old] ELSE s.par[k]
       /\ r.col[k] = IF k = old THEN c ELSE IF k = by THEN s.col[old] ELSE s.col[k]

\* RotateSetParents gives by the parent, the place and the color of old.
LEMMA RotateSetParentsIs ==
  ASSUME NEW s \in Trees, NEW old \in Nodes, NEW by \in Nodes, NEW c \in {"red", "black"},
         HangsBelow(s, old, s.par[old])
  PROVE  ParentsAreRotated(RotateSetParents(s, old, by, c), s, old, by, c)
<1> DEFINE p == s.par[old]
           s1 == [s EXCEPT !.par[by] = s.par[old], !.col[by] = s.col[old]]
           s2 == SetParentColor(s1, old, by, c)
           r  == ChangeChild(s2, old, by, p)
<1>1. p \in Maybe /\ by \in Maybe /\ s.col[old] \in {"red", "black"}
  BY DEF Trees, Maybe
<1>2. s1 \in Trees /\ s1.kid = s.kid /\ s1.root = s.root
  BY <1>1 DEF Trees
<1>3. \A k \in Nodes : /\ s1.par[k] = IF k = by THEN p ELSE s.par[k]
                       /\ s1.col[k] = IF k = by THEN s.col[old] ELSE s.col[k]
  BY DEF Trees
<1>4. RotateSetParents(s, old, by, c) = r
  BY DEF RotateSetParents
<1> HIDE DEF s1
<1>5. ParentColorIs(s2, s1, old, by, c)
  BY <1>1, <1>2, SetParentColorIs
<1> HIDE DEF s2
<1>6. s2.kid = s.kid /\ s2.root = s.root /\ s2 \in Trees
  BY <1>2, <1>5 DEF ParentColorIs
<1>7. HangsBelow(s2, old, p)
  BY <1>6 DEF HangsBelow
<1>8. ChildIsChanged(r, s2, old, by, p)
  <2> HIDE DEF p
  <2> QED BY <1>1, <1>6, <1>7, ChangeChildIs
<1> HIDE DEF r
<1>9. /\ r \in Trees /\ r.par = s2.par /\ r.col = s2.col
      /\ r.root = IF p = NULL THEN by ELSE s.root
      /\ \A k \in Nodes, e \in Dirs :
           r.kid[k][e] = IF k = p /\ s.kid[k][e] = old THEN by ELSE s.kid[k][e]
  BY <1>6, <1>8 DEF ChildIsChanged
<1>10. \A k \in Nodes :
       /\ r.par[k] = IF k = old THEN by ELSE IF k = by THEN p ELSE s.par[k]
       /\ r.col[k] = IF k = old THEN c ELSE IF k = by THEN s.col[old] ELSE s.col[k]
  BY <1>3, <1>5, <1>9 DEF ParentColorIs
<1> QED BY <1>4, <1>9, <1>10 DEF ParentsAreRotated

-----------------------------------------------------------------------------
(***************************************************************************)
(* The rotations of both loops.                                            *)
(***************************************************************************)
LEMMA OppIs ==
  /\ "left" \in Dirs /\ "right" \in Dirs
  /\ \A d \in Dirs : /\ Opp(d) \in Dirs /\ Opp(Opp(d)) = d /\ Opp(d) # d
                     /\ \A e \in Dirs : e = d \/ e = Opp(d)
BY DEF Dirs, Opp

\* A member of a tree hangs below its parent.
LEMMA Hangs ==
  ASSUME NEW s \in Trees, NEW H \in SUBSET Nodes, NEW b \in [Nodes -> SUBSET Nodes],
         Shape(s, H, b), NEW n \in H
  PROVE  /\ HangsBelow(s, n, s.par[n]) /\ s.par[n] # n
         /\ s.par[n] = NULL <=> s.root = n
<1>1. s.par[n] # NULL => s.par[n] \in H /\ \E d \in Dirs : s.kid[s.par[n]][d] = n
  BY DEF Shape, Paired
<1>2. n # NULL
  BY NodesAssumption
<1>3. ASSUME s.par[n] # NULL
      PROVE  /\ s.kid[s.par[n]]["left"] # s.kid[s.par[n]]["right"]
             /\ s.par[n] # n
  <2>1. PICK d \in Dirs : s.kid[s.par[n]][d] = n
    BY <1>1, <1>3
  <2>2. ChildOf(s, H, b, s.par[n], d, n)
    BY <1>1, <1>3, <2>1, ChildIs
  <2> QED BY <1>2, <2>1, <2>2 DEF ChildOf, Dirs, Opp
<1>4. s.par[n] = NULL <=> s.root = n
  BY <1>2 DEF Shape, Paired, Rooted
<1> QED BY <1>1, <1>2, <1>3, <1>4 DEF HangsBelow

\* What a rotation of p below x does to the colors.
Repainted(r, s, p, x, c) ==
  \A k \in Nodes : r.col[k] = IF k = p THEN c ELSE IF k = x THEN s.col[p] ELSE s.col[k]

\* A rotation of p below x is half done: what is below p has been stored.
Undercut(s, s1, p, x, y, d) ==
  /\ x = s.kid[p][d] /\ x # NULL /\ y = s.kid[x][Opp(d)]
  /\ \A k \in Nodes, e \in Dirs :
       s1.kid[k][e] = IF k = p /\ e = d THEN y
                      ELSE IF k = x /\ e = Opp(d) THEN p ELSE s.kid[k][e]
  /\ \A k \in Nodes : s1.par[k] = IF k = y THEN p ELSE s.par[k]
  /\ s1.root = s.root

\* r is s with a rotation done and the colors of the two nodes swapped or set.
Turned(r, s, s1, p, x, y, d, c) ==
  r \in Trees /\ Rotated(s, r, p, x, y, d) /\ Repainted(r, s1, p, x, c)

\* RotateSetParents completes a rotation whose lower half is stored.
LEMMA RotationIs ==
  ASSUME NEW s \in Trees, NEW s1 \in Trees, NEW H \in SUBSET Nodes,
         NEW b \in [Nodes -> SUBSET Nodes], Shape(s, H, b),
         NEW p \in H, NEW d \in Dirs, NEW x, NEW y, Undercut(s, s1, p, x, y, d),
         NEW c \in {"red", "black"}
  PROVE  Turned(RotateSetParents(s1, p, x, c), s, s1, p, x, y, d, c)
<1> DEFINE r == RotateSetParents(s1, p, x, c)
           q == s.par[p]
<1>0. x = s.kid[p][d] /\ x # NULL /\ y = s.kid[x][Opp(d)]
  BY DEF Undercut
<1>1. ChildOf(s, H, b, p, d, x) /\ x \in H /\ x # p /\ q # x
  <2>1. ChildOf(s, H, b, p, d, x)
    BY <1>0, ChildIs
  <2> QED BY <1>0, <2>1 DEF ChildOf
<1>2. y # NULL => y \in H /\ y # x /\ y # p /\ s.par[p] # y
  <2>1. ChildOf(s, H, b, x, Opp(d), y)
    BY <1>0, <1>1, OppIs, ChildIs
  <2>2. ASSUME y # NULL, s.par[p] = y
        PROVE  FALSE
    <3>1. PICK e \in Dirs : s.kid[y][e] = p
      BY <2>1, <2>2 DEF ChildOf, Shape, Paired
    <3>2. y \in H /\ ChildOf(s, H, b, y, e, p)
      <4>1. y \in H
        BY <2>1, <2>2 DEF ChildOf
      <4> QED BY <3>1, <4>1, ChildIs
    <3>3. \A u \in H : u # NULL /\ u \in b[u]
      BY SMTT(30), NodesAssumption DEF Shape, Sorted
    <3> QED BY Zenon, <1>0, <1>1, <2>1, <2>2, <3>2, <3>3 DEF ChildOf
  <2>3. y # NULL => y # p
    <3>1. p \in b[p]
      BY Family
    <3>2. y # NULL => y \in b[y] /\ b[y] \subseteq b[x]
      BY <2>1 DEF ChildOf
    <3> QED BY <1>0, <1>1, <3>1, <3>2 DEF ChildOf
  <2> QED BY <2>1, <2>2, <2>3 DEF ChildOf
<1>u. /\ \A k \in Nodes, e \in Dirs :
            s1.kid[k][e] = IF k = p /\ e = d THEN y
                           ELSE IF k = x /\ e = Opp(d) THEN p ELSE s.kid[k][e]
      /\ \A k \in Nodes : s1.par[k] = IF k = y THEN p ELSE s.par[k]
      /\ s1.root = s.root
  BY DEF Undercut
<1>3. H \subseteq Nodes /\ NULL \notin Nodes /\ q \in Maybe
  BY NodesAssumption DEF Trees, Maybe
<1>4. HangsBelow(s, p, q) /\ q # p /\ (q = NULL <=> s.root = p)
  BY Hangs
<1>5. s1.par[p] = q
  BY <1>2, <1>3, <1>u
<1>6. q # NULL => q \in Nodes /\ \A e \in Dirs : s1.kid[q][e] = s.kid[q][e]
  BY <1>1, <1>3, <1>4, <1>u DEF Maybe
<1>7. HangsBelow(s1, p, q)
  BY <1>4, <1>6, OppIs DEF HangsBelow
<1>8. ParentsAreRotated(r, s1, p, x, c)
  BY SMTT(30), <1>1, <1>3, <1>5, <1>7, RotateSetParentsIs
<1> HIDE DEF r, q
<1>9. Rotated(s, r, p, x, y, d)
  <2>1. ASSUME NEW n \in Nodes, NEW e \in Dirs
        PROVE  r.kid[n][e] = IF n = p /\ e = d THEN y
                             ELSE IF n = x /\ e = Opp(d) THEN p
                             ELSE IF n = q /\ s.kid[n][e] = p THEN x
                             ELSE s.kid[n][e]
    <3>1. r.kid[n][e] = IF n = q /\ s1.kid[n][e] = p THEN x ELSE s1.kid[n][e]
      BY <1>5, <1>8 DEF ParentsAreRotated
    <3>2. CASE n = q
      BY <1>1, <1>3, <1>4, <1>6, <3>1, <3>2
    <3>3. CASE n # q
      BY <1>u, <3>1, <3>3
    <3> QED BY <3>2, <3>3
  <2>2. ASSUME NEW n \in Nodes
        PROVE  r.par[n] = IF n = p THEN x ELSE IF n = x THEN q
                          ELSE IF n = y THEN p ELSE s.par[n]
    BY <1>1, <1>2, <1>5, <1>8, <1>u DEF ParentsAreRotated
  <2>3. r.root = IF s.root = p THEN x ELSE s.root
    BY <1>4, <1>5, <1>8, <1>u DEF ParentsAreRotated
  <2> QED BY <1>0, <2>1, <2>2, <2>3 DEF Rotated, q
<1>10. r \in Trees /\ Repainted(r, s1, p, x, c)
  BY SMTT(30), <1>1, <1>3, <1>8 DEF ParentsAreRotated, Repainted
<1> QED BY <1>9, <1>10 DEF r, Turned

\* The last rotation of an insert is a rotation of g below p, and g turns red.
LEMMA RotateAtGrandparentIs ==
  ASSUME NEW s \in Trees, NEW H \in SUBSET Nodes,
         NEW b \in [Nodes -> SUBSET Nodes], Shape(s, H, b),
         NEW g \in H, NEW d \in Dirs, NEW p, NEW y,
         p = s.kid[g][d], p # NULL, y = s.kid[p][Opp(d)], ~IsRed(s, y)
  PROVE  LET r == RotateAtGrandparent(s, g, p, d)
         IN Turned(r, s, s, g, p, y, d, "red")
<1> DEFINE s0 == SetKid(s, g, d, y)
           s1 == SetKid(s0, p, Opp(d), g)
           s2 == AdoptBlack(s1, y, g)
<1>1. p \in H /\ p \in Nodes /\ g \in Nodes /\ y \in Maybe /\ g \in Maybe /\ p # g
  <2>1. ChildOf(s, H, b, g, d, p)
    BY ChildIs
  <2>2. p \in H /\ p # g
    BY <2>1 DEF ChildOf
  <2> QED BY <2>2, OppIs DEF Trees, Maybe
<1>2. KidIs(s0, s, g, d, y)
  BY <1>1, SetKidIs
<1> HIDE DEF s0
<1>a. s0 \in Trees /\ Opp(d) \in Dirs
  BY <1>2, OppIs DEF KidIs
<1>3. KidIs(s1, s0, p, Opp(d), g)
  BY <1>1, <1>a, SetKidIs
<1> HIDE DEF s1
<1>4. ParentColorIs(s2, s1, y, g, "black")
  BY <1>1, <1>3, AdoptBlackIs DEF KidIs
<1>5. RotateAtGrandparent(s, g, p, d) = RotateSetParents(s2, g, p, "red")
  BY DEF RotateAtGrandparent, s0, s1
<1> HIDE DEF s2
<1>6. \A k \in Nodes, e \in Dirs :
        s2.kid[k][e] = IF k = g /\ e = d THEN y
                       ELSE IF k = p /\ e = Opp(d) THEN g ELSE s.kid[k][e]
  BY <1>1, <1>2, <1>3, <1>4 DEF KidIs, ParentColorIs
<1>7. /\ s2 \in Trees /\ s2.root = s.root
      /\ \A k \in Nodes : s2.par[k] = IF k = y THEN g ELSE s.par[k]
  BY <1>2, <1>3, <1>4 DEF KidIs, ParentColorIs
<1>8. \A k \in Nodes : s2.col[k] = s.col[k]
  <2>1. \A k \in Nodes : s2.col[k] = IF k = y THEN "black" ELSE s.col[k]
    BY <1>2, <1>3, <1>4 DEF KidIs, ParentColorIs
  <2>2. y \in Nodes => s.col[y] = "black"
    BY NodesAssumption DEF Trees, IsRed
  <2> QED BY <2>1, <2>2
<1>9. Undercut(s, s2, g, p, y, d)
  BY <1>6, <1>7 DEF Undercut
<1>10. Turned(RotateSetParents(s2, g, p, "red"), s, s2, g, p, y, d, "red")
  BY SMTT(30), <1>7, <1>9, RotationIs
<1> QED BY <1>1, <1>5, <1>8, <1>10 DEF Turned, Repainted

\* The first rotation of the repair is one of p below its sibling-side child x.
LEMMA LowerParentIs ==
  ASSUME NEW s \in Trees, NEW H \in SUBSET Nodes,
         NEW b \in [Nodes -> SUBSET Nodes], Shape(s, H, b),
         NEW p \in H, NEW d \in Dirs, NEW x, NEW y,
         x = s.kid[p][Opp(d)], x # NULL, y = s.kid[x][d], y # NULL, ~IsRed(s, y)
  PROVE  LET r == LowerParent(s, p, x, d)
         IN Turned(r, s, s, p, x, y, Opp(d), "red")
<1> DEFINE s0 == SetKid(s, p, Opp(d), y)
           s1 == SetKid(s0, x, d, p)
           s2 == SetParentColor(s1, y, p, "black")
<1>1. x \in H /\ x \in Nodes /\ p \in Nodes /\ y \in Nodes /\ y \in Maybe /\ p \in Maybe /\ x # p
  <2>1. ChildOf(s, H, b, p, Opp(d), x)
    BY OppIs, ChildIs
  <2>2. x \in H /\ x # p
    BY <2>1 DEF ChildOf
  <2>3. y \in Maybe
    BY <2>2, OppIs DEF Trees, Maybe
  <2> QED BY <2>2, <2>3 DEF Maybe
<1>2. KidIs(s0, s, p, Opp(d), y)
  BY <1>1, OppIs, SetKidIs
<1> HIDE DEF s0
<1>a. s0 \in Trees
  BY <1>2 DEF KidIs
<1>3. KidIs(s1, s0, x, d, p)
  BY <1>1, <1>a, SetKidIs
<1> HIDE DEF s1
<1>4. ParentColorIs(s2, s1, y, p, "black")
  BY <1>1, <1>3, SetParentColorIs DEF KidIs
<1>5. LowerParent(s, p, x, d) = RotateSetParents(s2, p, x, "red")
  BY DEF LowerParent, s0, s1
<1> HIDE DEF s2
<1>6. \A k \in Nodes, e \in Dirs :
        s2.kid[k][e] = IF k = p /\ e = Opp(d) THEN y
                       ELSE IF k = x /\ e = Opp(Opp(d)) THEN p ELSE s.kid[k][e]
  BY <1>1, <1>2, <1>3, <1>4, OppIs DEF KidIs, ParentColorIs
<1>7. /\ s2 \in Trees /\ s2.root = s.root
      /\ \A k \in Nodes : s2.par[k] = IF k = y THEN p ELSE s.par[k]
  BY <1>2, <1>3, <1>4 DEF KidIs, ParentColorIs
<1>8. \A k \in Nodes : s2.col[k] = s.col[k]
  <2>1. \A k \in Nodes : s2.col[k] = IF k = y THEN "black" ELSE s.col[k]
    BY <1>2, <1>3, <1>4 DEF KidIs, ParentColorIs
  <2>2. y \in Nodes => s.col[y] = "black"
    BY NodesAssumption DEF Trees, IsRed
  <2> QED BY <2>1, <2>2
<1>9. y = s.kid[x][Opp(Opp(d))] /\ Opp(d) \in Dirs
  BY OppIs
<1>10. Undercut(s, s2, p, x, y, Opp(d))
  BY <1>6, <1>7, <1>9 DEF Undercut
<1>11. Turned(RotateSetParents(s2, p, x, "red"), s, s2, p, x, y, Opp(d), "red")
  BY <1>7, <1>9, <1>10, RotationIs
<1> QED BY <1>1, <1>5, <1>8, <1>11 DEF Turned, Repainted

\* The nodes of S turn black, and x has the color that p had.
Darkened(r, s, S, p, x) ==
  \A k \in Nodes : r.col[k] = IF k \in S THEN "black"
                              ELSE IF k = x THEN s.col[p] ELSE s.col[k]

\* The repair is over: the sibling x goes up and its far child turns black.
LEMMA RaiseSiblingIs ==
  ASSUME NEW s \in Trees, NEW H \in SUBSET Nodes,
         NEW b \in [Nodes -> SUBSET Nodes], Shape(s, H, b),
         NEW p \in H, NEW d \in Dirs, NEW x, NEW y, NEW far,
         x = s.kid[p][Opp(d)], x # NULL, y = s.kid[x][d],
         far = s.kid[x][Opp(d)], far # NULL
  PROVE  LET r == RaiseSibling(s, p, x, far, d)
         IN r \in Trees /\ Rotated(s, r, p, x, y, Opp(d)) /\ Darkened(r, s, {p, far}, p, x)
<1> DEFINE s0 == SetKid(s, p, Opp(d), y)
           s1 == SetKid(s0, x, d, p)
           s2 == SetParentColor(s1, far, x, "black")
           s3 == IF y = NULL THEN s2 ELSE SetParent(s2, y, p)
<1>1. /\ x \in H /\ x \in Nodes /\ p \in Nodes /\ y \in Maybe /\ p \in Maybe /\ x \in Maybe /\ x # p
      /\ far \in Nodes /\ s.par[far] = x /\ far # y /\ far # x /\ far # p
  <2>1. ChildOf(s, H, b, p, Opp(d), x)
    BY OppIs, ChildIs
  <2>2. x \in H /\ x # p
    BY <2>1 DEF ChildOf
  <2>3. y \in Maybe
    BY <2>2, OppIs DEF Trees, Maybe
  <2>4. ChildOf(s, H, b, x, Opp(d), far)
    BY <2>2, OppIs, ChildIs
  <2>5. far \in H /\ s.par[far] = x /\ far # s.kid[x][Opp(Opp(d))] /\ far # x
    BY Zenon, <2>4 DEF ChildOf
  <2>6. far # p
    <3>1. p \in b[p] /\ far \in b[far]
      <4>1. \A u \in H : u \in b[u]
        BY Family
      <4> QED BY <2>5, <4>1
    <3> QED BY Zenon, <2>1, <2>4, <3>1 DEF ChildOf
  <2> QED BY <2>2, <2>3, <2>5, <2>6, OppIs DEF Maybe
<1>2. KidIs(s0, s, p, Opp(d), y)
  BY <1>1, OppIs, SetKidIs
<1> HIDE DEF s0
<1>a. s0 \in Trees
  BY <1>2 DEF KidIs
<1>3. KidIs(s1, s0, x, d, p)
  BY SMTT(30), <1>1, <1>a, SetKidIs
<1> HIDE DEF s1
<1>4. ParentColorIs(s2, s1, far, x, "black")
  BY <1>1, <1>3, SetParentColorIs DEF KidIs
<1>5. RaiseSibling(s, p, x, far, d) = RotateSetParents(s3, p, x, "black")
  BY DEF RaiseSibling, s0, s1, s2
<1> HIDE DEF s2
<1>6. ParentIs(s3, s2, y, p)
  <2>1. CASE y = NULL
    BY SMTT(30), <1>4, <2>1, NodesAssumption DEF ParentColorIs, ParentIs
  <2>2. CASE y # NULL
    BY <1>1, <1>4, <2>2, SetParentIs DEF ParentColorIs, Maybe
  <2> QED BY <2>1, <2>2
<1> HIDE DEF s3
<1>7. ASSUME NEW k \in Nodes, NEW e \in Dirs
      PROVE  s3.kid[k][e] = IF k = p /\ e = Opp(d) THEN y
                            ELSE IF k = x /\ e = Opp(Opp(d)) THEN p ELSE s.kid[k][e]
  <2>1. s3.kid = s1.kid
    BY <1>4, <1>6 DEF ParentColorIs, ParentIs
  <2>2. s0.kid[k][e] = IF k = p /\ e = Opp(d) THEN y ELSE s.kid[k][e]
    BY <1>2 DEF KidIs
  <2>3. s1.kid[k][e] = IF k = x /\ e = d THEN p ELSE s0.kid[k][e]
    BY <1>3 DEF KidIs
  <2>4. Opp(Opp(d)) = d /\ x # p
    BY <1>1, OppIs
  <2> QED BY <2>1, <2>2, <2>3, <2>4
<1>8. /\ s3 \in Trees /\ s3.root = s.root
      /\ \A k \in Nodes : s3.par[k] = IF k = y THEN p ELSE s.par[k]
      /\ \A k \in Nodes : s3.col[k] = IF k = far THEN "black" ELSE s.col[k]
  <2>1. s1.par = s.par /\ s1.col = s.col /\ s1.root = s.root
    BY <1>2, <1>3 DEF KidIs
  <2>2. s3 \in Trees /\ s3.root = s2.root /\ s3.col = s2.col /\ s2.root = s1.root
    BY SMTT(30), <1>4, <1>6 DEF ParentIs, ParentColorIs
  <2>3. \A k \in Nodes : s2.par[k] = s.par[k]
    BY <1>1, <1>4, <2>1 DEF ParentColorIs
  <2>4. \A k \in Nodes : s3.par[k] = IF k = y THEN p ELSE s.par[k]
    BY <1>6, <2>3 DEF ParentIs
  <2>5. \A k \in Nodes : s3.col[k] = IF k = far THEN "black" ELSE s.col[k]
    BY <1>4, <2>1, <2>2 DEF ParentColorIs
  <2> QED BY <2>1, <2>2, <2>4, <2>5
<1>9. y = s.kid[x][Opp(Opp(d))] /\ Opp(d) \in Dirs
  BY OppIs
<1>10. Undercut(s, s3, p, x, y, Opp(d))
  BY <1>7, <1>8, <1>9 DEF Undercut
<1>11. Turned(RotateSetParents(s3, p, x, "black"), s, s3, p, x, y, Opp(d), "black")
  BY <1>8, <1>9, <1>10, RotationIs
<1> QED BY ZenonT(40), <1>1, <1>5, <1>8, <1>11 DEF Turned, Repainted, Darkened

-----------------------------------------------------------------------------
\* A rotation of x below its inner child n, and one of g, the parent of x, below n.
DoublyRotated(s, r, g, x, n, d) ==
  LET u == s.kid[n][d]
      v == s.kid[n][Opp(d)]
  IN /\ x = s.kid[g][d] /\ n = s.kid[x][Opp(d)]
     /\ \A k \in Nodes, e \in Dirs :
          r.kid[k][e] = IF k = g /\ e = d THEN v
                        ELSE IF k = x /\ e = Opp(d) THEN u
                        ELSE IF k = n THEN IF e = d THEN x ELSE g
                        ELSE IF k = s.par[g] /\ s.kid[k][e] = g THEN n
                        ELSE s.kid[k][e]
     /\ \A k \in Nodes :
          r.par[k] = IF k = g \/ k = x THEN n ELSE IF k = n THEN s.par[g]
                     ELSE IF k = u THEN x ELSE IF k = v THEN g ELSE s.par[k]
     /\ r.root = IF s.root = g THEN n ELSE s.root

\* The nodes that takes part are different.
Apart(s, H, g, x, n, d) ==
  LET u == s.kid[n][d]
      v == s.kid[n][Opp(d)]
  IN /\ {g, x, n} \subseteq H /\ g # x /\ g # n /\ x # n
     /\ s.par[x] = g /\ s.par[n] = x /\ s.par[g] \notin {g, x, n} /\ s.root \notin {x, n}
     /\ u # NULL => u \in H /\ u \notin {g, x, n, v} /\ s.par[u] = n /\ s.par[g] # u
     /\ v # NULL => v \in H /\ v \notin {g, x, n, u} /\ s.par[v] = n /\ s.par[g] # v
     /\ s.kid[g][Opp(d)] \notin {x, n, g} /\ s.kid[x][d] \notin {n, g, x}

\* A node, its child on side d and the inner child of that are in such a position.
LEMMA InnerChild ==
  ASSUME NEW s \in Trees, NEW H \in SUBSET Nodes,
         NEW b \in [Nodes -> SUBSET Nodes], Shape(s, H, b),
         NEW g \in H, NEW d \in Dirs, NEW x, NEW n,
         x = s.kid[g][d], x # NULL, n = s.kid[x][Opp(d)], n # NULL
  PROVE  Apart(s, H, g, x, n, d)
<1> DEFINE u == s.kid[n][d]
           v == s.kid[n][Opp(d)]
           q == s.par[g]
<1>1. \A k \in H : k \in b[k] /\ k # NULL
  BY NodesAssumption DEF Shape, Sorted
<1>2. /\ x \in H /\ x # g /\ s.par[x] = g /\ b[x] \subseteq b[g] /\ g \notin b[x] /\ x # s.root
      /\ x # s.kid[g][Opp(d)] /\ q # x
      /\ \A k \in Below(b, s.kid[g][Opp(d)]) : k \notin b[x]
  <2>1. ChildOf(s, H, b, g, d, x)
    BY ChildIs
  <2> QED BY <2>1 DEF ChildOf
<1>3. /\ n \in H /\ n # x /\ s.par[n] = x /\ b[n] \subseteq b[x] /\ x \notin b[n] /\ n # s.root
      /\ n # s.kid[x][d] /\ \A k \in Below(b, s.kid[x][d]) : k \notin b[n]
  <2>1. ChildOf(s, H, b, x, Opp(d), n)
    BY Zenon, <1>2, OppIs, ChildIs
  <2> QED BY Zenon, <2>1, OppIs DEF ChildOf
<1>4. u # NULL => /\ u \in H /\ s.par[u] = n /\ u # n /\ b[u] \subseteq b[n] /\ n \notin b[u]
                  /\ u # v
  <2>1. ChildOf(s, H, b, n, d, u)
    BY Zenon, <1>3, ChildIs
  <2> QED BY Zenon, <2>1 DEF ChildOf
<1>5. v # NULL => /\ v \in H /\ s.par[v] = n /\ v # n /\ b[v] \subseteq b[n] /\ n \notin b[v]
  <2>1. ChildOf(s, H, b, n, Opp(d), v)
    BY Zenon, <1>3, OppIs, ChildIs
  <2> QED BY Zenon, <2>1 DEF ChildOf
<1>6. q # NULL => q \in H /\ b[g] \subseteq b[q] /\ q # g
  <2>1. q # NULL => q \in H /\ \E e \in Dirs : s.kid[q][e] = g
    BY DEF Shape, Paired
  <2>2. ASSUME q # NULL
        PROVE  b[g] \subseteq b[q] /\ q # g
    <3>1. PICK e \in Dirs : s.kid[q][e] = g
      BY <2>1, <2>2
    <3>2. ChildOf(s, H, b, q, e, g)
      BY <2>1, <2>2, <3>1, ChildIs
    <3> QED BY <1>1, <3>2 DEF ChildOf
  <2> QED BY <2>1, <2>2
<1>7. s.kid[g][Opp(d)] \notin {x, n, g}
  <2> DEFINE z == s.kid[g][Opp(d)]
  <2>1. ChildOf(s, H, b, g, Opp(d), z)
    BY OppIs, ChildIs
  <2>2. z # g /\ z # x
    BY <1>1, <1>2, <2>1 DEF ChildOf
  <2>3. z # n
    <3>1. z = n => n \in Below(b, z)
      BY Zenon, <1>1, <1>3 DEF Below
    <3> QED BY Zenon, <1>1, <1>2, <1>3, <3>1
  <2> QED BY <2>2, <2>3
<1>8. s.kid[x][d] \notin {n, g, x}
  <2> DEFINE w == s.kid[x][d]
  <2>1. ChildOf(s, H, b, x, d, w)
    BY Zenon, <1>2, ChildIs
  <2>2. w # x /\ w # n
    BY Zenon, <1>1, <1>2, <1>3, <2>1 DEF ChildOf
  <2>3. w = g => b[g] \subseteq b[x]
    BY <1>1, <2>1 DEF ChildOf
  <2>4. w # g
    BY <1>1, <1>2, <2>3
  <2> QED BY <2>2, <2>4
<1>9. q \notin {g, x, n} /\ g # n
  <2>1. g \in b[g] /\ g \notin b[n]
    BY Zenon, <1>1, <1>2, <1>3
  <2>2. q \in {x, n} => q # NULL
    BY Zenon, <1>1, <1>2, <1>3
  <2>3. q \in {g} => q # NULL
    BY <1>1
  <2> QED BY Zenon, <1>1, <1>2, <1>3, <1>6, <2>1, <2>2, <2>3
<1>10. u # NULL => u \notin {g, x} /\ q # u
  <2>1. ASSUME u # NULL
        PROVE  g \notin b[u] /\ x \notin b[u] /\ u \in b[u]
    BY Zenon, <1>1, <1>2, <1>3, <1>4, <2>1
  <2> QED BY Zenon, <1>1, <1>6, <2>1
<1>11. v # NULL => v \notin {g, x} /\ q # v
  <2>1. ASSUME v # NULL
        PROVE  g \notin b[v] /\ x \notin b[v] /\ v \in b[v]
    BY Zenon, <1>1, <1>2, <1>3, <1>5, <2>1
  <2> QED BY Zenon, <1>1, <1>6, <2>1
<1>12. v # u \/ v = NULL
  BY Zenon, <1>4
<1> HIDE DEF u, v
<1>13. /\ {g, x, n} \subseteq H /\ g # x /\ g # n /\ x # n
       /\ s.par[x] = g /\ s.par[n] = x /\ s.par[g] \notin {g, x, n} /\ s.root \notin {x, n}
  BY Zenon, <1>2, <1>3, <1>9
<1>14. u # NULL => u \in H /\ u \notin {g, x, n, v} /\ s.par[u] = n /\ s.par[g] # u
  BY <1>4, <1>10
<1>15. v # NULL => v \in H /\ v \notin {g, x, n, u} /\ s.par[v] = n /\ s.par[g] # v
  BY <1>5, <1>11, <1>12
<1> QED BY Zenon, <1>7, <1>8, <1>13, <1>14, <1>15 DEF Apart, u, v

\* Any rotation can be done.
LEMMA RotationExists ==
  ASSUME NEW s \in Trees, NEW p \in Nodes, NEW x \in Nodes, NEW y \in Maybe, NEW d \in Dirs,
         x = s.kid[p][d], y = s.kid[x][Opp(d)]
  PROVE  \E r \in Trees : Rotated(s, r, p, x, y, d)
<1> DEFINE K(k, e) == IF k = p /\ e = d THEN y
                      ELSE IF k = x /\ e = Opp(d) THEN p
                      ELSE IF k = s.par[p] /\ s.kid[k][e] = p THEN x
                      ELSE s.kid[k][e]
           P(k) == IF k = p THEN x ELSE IF k = x THEN s.par[p]
                   ELSE IF k = y THEN p ELSE s.par[k]
           r == [kid |-> [k \in Nodes |-> [e \in Dirs |-> K(k, e)]],
                 par |-> [k \in Nodes |-> P(k)], col |-> s.col,
                 root |-> IF s.root = p THEN x ELSE s.root]
<1>1. \A k \in Nodes : P(k) \in Maybe /\ \A e \in Dirs : K(k, e) \in Maybe
  BY DEF Trees, Maybe
<1> HIDE DEF K, P
<1>2. r \in Trees
  <2>1. r.root \in Maybe /\ r.col \in [Nodes -> {"red", "black"}]
    BY DEF Trees, Maybe
  <2>2. r.par \in [Nodes -> Maybe] /\ r.kid \in [Nodes -> [Dirs -> Maybe]]
    BY <1>1
  <2> QED BY <2>1, <2>2 DEF Trees
<1>3. /\ \A k \in Nodes, e \in Dirs : r.kid[k][e] = K(k, e)
      /\ \A k \in Nodes : r.par[k] = P(k)
      /\ r.root = IF s.root = p THEN x ELSE s.root
  OBVIOUS
<1> HIDE DEF r
<1>4. Rotated(s, r, p, x, y, d)
  BY <1>3 DEF Rotated, K, P
<1> QED BY <1>2, <1>4

\* A double rotation keeps the nodes and their order.
LEMMA DoubleRotationKeepsShape ==
  ASSUME NEW s \in Trees, NEW r \in Trees, NEW H \in SUBSET Nodes,
         NEW b \in [Nodes -> SUBSET Nodes], Shape(s, H, b),
         NEW g \in H, NEW d \in Dirs, NEW x, NEW n, x # NULL, n # NULL,
         DoublyRotated(s, r, g, x, n, d)
  PROVE  \E c \in [Nodes -> SUBSET Nodes] : Shape(r, H, c)
<1> DEFINE u == s.kid[n][d]
           v == s.kid[n][Opp(d)]
           q == s.par[g]
<1>1. x = s.kid[g][d] /\ n = s.kid[x][Opp(d)]
  BY DEF DoublyRotated
<1>2. Apart(s, H, g, x, n, d)
  BY <1>1, InnerChild
<1>3. /\ {g, x, n} \subseteq H /\ g # x /\ g # n /\ x # n
      /\ s.par[x] = g /\ s.par[n] = x /\ q \notin {g, x, n} /\ s.root \notin {x, n}
      /\ u # NULL => u \in H /\ u \notin {g, x, n, v} /\ s.par[u] = n /\ q # u
      /\ v # NULL => v \in H /\ v \notin {g, x, n, u} /\ s.par[v] = n /\ q # v
      /\ s.kid[g][Opp(d)] \notin {x, n, g} /\ s.kid[x][d] \notin {n, g, x}
  BY <1>2 DEF Apart
<1>4. {g, x, n} \subseteq Nodes /\ NULL \notin Nodes /\ Opp(d) \in Dirs /\ Opp(Opp(d)) = d
      /\ Opp(d) # d /\ \A e \in Dirs : e = d \/ e = Opp(d)
  BY <1>3, NodesAssumption, OppIs
<1>5. PICK s1 \in Trees : Rotated(s, s1, x, n, u, Opp(d))
  <2>1. u \in Maybe /\ u = s.kid[n][Opp(Opp(d))] /\ n = s.kid[x][Opp(d)]
    BY <1>1, <1>4 DEF Trees
  <2> QED BY <1>3, <1>4, <2>1, RotationExists
<1>6. PICK b1 \in [Nodes -> SUBSET Nodes] : Shape(s1, H, b1)
  <2> DEFINE b1 == BelowRotated(s, b, x, n, u, Opp(d))
  <2>1. b1 \in [Nodes -> SUBSET Nodes] /\ Shape(s1, H, b1)
    BY <1>3, <1>4, <1>5, RotationKeepsShape
  <2> QED BY <2>1
<1> HIDE DEF u, v, q
<1>7. \A k \in Nodes, e \in Dirs :
        s1.kid[k][e] = IF k = x /\ e = Opp(d) THEN u
                       ELSE IF k = n /\ e = d THEN x
                       ELSE IF k = g /\ s.kid[k][e] = x THEN n
                       ELSE s.kid[k][e]
  BY <1>3, <1>4, <1>5 DEF Rotated
<1>8. /\ \A k \in Nodes : s1.par[k] = IF k = x THEN n ELSE IF k = n THEN g
                                      ELSE IF k = u THEN x ELSE s.par[k]
      /\ s1.root = s.root
  BY <1>3, <1>5 DEF Rotated
<1>9. s1.kid[g][d] = n /\ s1.kid[n][Opp(d)] = v /\ s1.par[g] = q
  <2>1. s1.kid[g][d] = n
    BY <1>1, <1>3, <1>4, <1>7
  <2>2. s1.kid[n][Opp(d)] = s.kid[n][Opp(d)]
    BY <1>3, <1>4, <1>7
  <2>3. s1.par[g] = s.par[g]
    BY <1>3, <1>4, <1>8
  <2> QED BY SMTT(30), <2>1, <2>2, <2>3 DEF v, q
<1>10. Rotated(s1, r, g, n, v, d)
  <2>1. ASSUME NEW k \in Nodes, NEW e \in Dirs
        PROVE  r.kid[k][e] = IF k = g /\ e = d THEN v
                             ELSE IF k = n /\ e = Opp(d) THEN g
                             ELSE IF k = q /\ s1.kid[k][e] = g THEN n
                             ELSE s1.kid[k][e]
    <3>1. r.kid[k][e] = IF k = g /\ e = d THEN v
                        ELSE IF k = x /\ e = Opp(d) THEN u
                        ELSE IF k = n THEN IF e = d THEN x ELSE g
                        ELSE IF k = q /\ s.kid[k][e] = g THEN n
                        ELSE s.kid[k][e]
      BY DEF DoublyRotated, u, v, q
    <3>2. s1.kid[k][e] = IF k = x /\ e = Opp(d) THEN u
                         ELSE IF k = n /\ e = d THEN x
                         ELSE IF k = g /\ s.kid[k][e] = x THEN n
                         ELSE s.kid[k][e]
      BY <1>7
    <3> QED BY SMTT(30), <1>1, <1>3, <1>4, <3>1, <3>2
  <2>2. ASSUME NEW k \in Nodes
        PROVE  r.par[k] = IF k = g THEN n ELSE IF k = n THEN s1.par[g]
                          ELSE IF k = v THEN g ELSE s1.par[k]
    <3>1. r.par[k] = IF k = g \/ k = x THEN n ELSE IF k = n THEN q
                     ELSE IF k = u THEN x ELSE IF k = v THEN g ELSE s.par[k]
      BY SMTT(30) DEF DoublyRotated, u, v, q
    <3> QED BY SMTT(30), <1>3, <1>4, <1>8, <1>9, <3>1
  <2>3. r.root = IF s1.root = g THEN n ELSE s1.root
    BY <1>8 DEF DoublyRotated
  <2> QED BY SMTT(30), <1>9, <2>1, <2>2, <2>3 DEF Rotated
<1>11. n # NULL /\ g \in H
  BY <1>3, <1>4
<1> QED BY <1>6, <1>10, <1>11, RotationKeepsShape

\* Such a double rotation is half done: what is below g has been stored.
UndercutTwice(s, s1, g, x, n, d) ==
  LET u == s.kid[n][d]
      v == s.kid[n][Opp(d)]
  IN /\ x = s.kid[g][d] /\ x # NULL /\ n = s.kid[x][Opp(d)] /\ n # NULL
     /\ \A k \in Nodes, e \in Dirs :
          s1.kid[k][e] = IF k = g /\ e = d THEN v
                         ELSE IF k = x /\ e = Opp(d) THEN u
                         ELSE IF k = n THEN IF e = d THEN x ELSE g
                         ELSE s.kid[k][e]
     /\ \A k \in Nodes \ {n} :
          s1.par[k] = IF k = x THEN n ELSE IF k = u THEN x ELSE IF k = v THEN g ELSE s.par[k]
     /\ s1.root = s.root

\* r is s with a double rotation done and the colors of the outer nodes set.
TurnedTwice(r, s, s1, g, x, n, d, c) ==
  r \in Trees /\ DoublyRotated(s, r, g, x, n, d) /\ Repainted(r, s1, g, n, c)

\* RotateSetParents completes a double rotation whose lower half is stored.
LEMMA DoubleRotationIs ==
  ASSUME NEW s \in Trees, NEW s1 \in Trees, NEW H \in SUBSET Nodes,
         NEW b \in [Nodes -> SUBSET Nodes], Shape(s, H, b),
         NEW g \in H, NEW d \in Dirs, NEW x, NEW n, UndercutTwice(s, s1, g, x, n, d),
         NEW c \in {"red", "black"}
  PROVE  TurnedTwice(RotateSetParents(s1, g, n, c), s, s1, g, x, n, d, c)
<1> DEFINE r == RotateSetParents(s1, g, n, c)
           u == s.kid[n][d]
           v == s.kid[n][Opp(d)]
           q == s.par[g]
<1>1. x = s.kid[g][d] /\ x # NULL /\ n = s.kid[x][Opp(d)] /\ n # NULL
  BY DEF UndercutTwice
<1>2. Apart(s, H, g, x, n, d)
  BY <1>1, InnerChild
<1>3. /\ {g, x, n} \subseteq H /\ g # x /\ g # n /\ x # n
      /\ s.par[x] = g /\ s.par[n] = x /\ q \notin {g, x, n} /\ s.root \notin {x, n}
      /\ u # NULL => u \in H /\ u \notin {g, x, n, v} /\ s.par[u] = n /\ q # u
      /\ v # NULL => v \in H /\ v \notin {g, x, n, u} /\ s.par[v] = n /\ q # v
      /\ s.kid[g][Opp(d)] \notin {x, n, g} /\ s.kid[x][d] \notin {n, g, x}
  BY <1>2 DEF Apart
<1>4. {g, x, n} \subseteq Nodes /\ NULL \notin Nodes /\ Opp(d) \in Dirs
      /\ Opp(d) # d /\ \A e \in Dirs : e = d \/ e = Opp(d)
  BY <1>3, NodesAssumption, OppIs
<1>5. HangsBelow(s, g, q) /\ (q = NULL <=> s.root = g) /\ q \in Maybe
  BY <1>4, Hangs DEF Trees, Maybe
<1> HIDE DEF u, v, q
<1>6. /\ \A k \in Nodes, e \in Dirs :
           s1.kid[k][e] = IF k = g /\ e = d THEN v
                          ELSE IF k = x /\ e = Opp(d) THEN u
                          ELSE IF k = n THEN IF e = d THEN x ELSE g
                          ELSE s.kid[k][e]
      /\ \A k \in Nodes \ {n} :
           s1.par[k] = IF k = x THEN n ELSE IF k = u THEN x ELSE IF k = v THEN g ELSE s.par[k]
      /\ s1.root = s.root
  BY DEF UndercutTwice, u, v
<1>7. s1.par[g] = q
  <2>1. g \in Nodes \ {n} /\ g # x /\ g # u /\ g # v
    BY <1>3, <1>4
  <2> QED BY <1>6, <2>1 DEF q
<1>8. q # NULL => q \in Nodes /\ \A e \in Dirs : s1.kid[q][e] = s.kid[q][e]
  BY <1>3, <1>4, <1>5, <1>6 DEF Maybe
<1>9. HangsBelow(s1, g, q)
  BY <1>5, <1>8, OppIs DEF HangsBelow
<1>10. ParentsAreRotated(r, s1, g, n, c)
  BY <1>4, <1>7, <1>9, RotateSetParentsIs
<1> HIDE DEF r
<1>11. ASSUME NEW k \in Nodes, NEW e \in Dirs
       PROVE  r.kid[k][e] = IF k = g /\ e = d THEN v
                            ELSE IF k = x /\ e = Opp(d) THEN u
                            ELSE IF k = n THEN IF e = d THEN x ELSE g
                            ELSE IF k = q /\ s.kid[k][e] = g THEN n
                            ELSE s.kid[k][e]
  <2>1. r.kid[k][e] = IF k = q /\ s1.kid[k][e] = g THEN n ELSE s1.kid[k][e]
    BY <1>7, <1>10 DEF ParentsAreRotated
  <2>2. CASE k = q
    BY <1>3, <1>4, <1>8, <2>1, <2>2
  <2>3. CASE k # q
    BY <1>6, <2>1, <2>3
  <2> QED BY <2>2, <2>3
<1>12. ASSUME NEW k \in Nodes
       PROVE  r.par[k] = IF k = g \/ k = x THEN n ELSE IF k = n THEN q
                         ELSE IF k = u THEN x ELSE IF k = v THEN g ELSE s.par[k]
  <2>1. r.par[k] = IF k = g THEN n ELSE IF k = n THEN q ELSE s1.par[k]
    BY <1>7, <1>10 DEF ParentsAreRotated
  <2> QED BY <1>3, <1>4, <1>6, <2>1
<1>13. r.root = IF s.root = g THEN n ELSE s.root
  BY <1>5, <1>6, <1>7, <1>10 DEF ParentsAreRotated
<1>14. DoublyRotated(s, r, g, x, n, d)
  BY Zenon, <1>1, <1>11, <1>12, <1>13 DEF DoublyRotated, u, v, q
<1>15. r \in Trees /\ Repainted(r, s1, g, n, c)
  BY <1>4, <1>10 DEF ParentsAreRotated, Repainted
<1> QED BY SMTT(30), <1>14, <1>15 DEF r, TurnedTwice

\* The two rotations of the insert loop.
LEMMA RotateTwiceIs ==
  ASSUME NEW s \in Trees, NEW H \in SUBSET Nodes,
         NEW b \in [Nodes -> SUBSET Nodes], Shape(s, H, b),
         NEW g \in H, NEW d \in Dirs, NEW p, NEW n,
         p = s.kid[g][d], p # NULL, n = s.kid[p][Opp(d)], n # NULL,
         IsRed(s, p), ~IsRed(s, s.kid[n][d]), ~IsRed(s, s.kid[n][Opp(d)])
  PROVE  LET r == RotateAtGrandparent(RotateAtParent(s, p, n, d), g, n, d)
         IN TurnedTwice(r, s, s, g, p, n, d, "red")
<1> DEFINE u  == s.kid[n][d]
           v  == s.kid[n][Opp(d)]
           a0 == SetKid(s, p, Opp(d), u)
           a1 == SetKid(a0, n, d, p)
           a2 == AdoptBlack(a1, u, p)
           a3 == SetParentColor(a2, p, n, "red")
           b0 == SetKid(a3, g, d, v)
           b1 == SetKid(b0, n, Opp(d), g)
           b2 == AdoptBlack(b1, v, g)
<1>1. Apart(s, H, g, p, n, d)
  BY InnerChild
<1>2. /\ {g, p, n} \subseteq H /\ g # p /\ g # n /\ p # n
      /\ s.par[p] = g /\ s.par[n] = p
      /\ u # NULL => u \in H /\ u \notin {g, p, n, v}
      /\ v # NULL => v \in H /\ v \notin {g, p, n, u}
  BY Zenon, <1>1 DEF Apart
<1>3. /\ g \in Nodes /\ p \in Nodes /\ n \in Nodes /\ NULL \notin Nodes
      /\ Opp(d) \in Dirs /\ Opp(d) # d /\ \A e \in Dirs : e = d \/ e = Opp(d)
      /\ g \in Maybe /\ p \in Maybe /\ n \in Maybe
  BY Zenon, <1>2, NodesAssumption, OppIs DEF Maybe
<1>4. u \in Maybe /\ v \in Maybe
  BY <1>3 DEF Trees
<1>5. RotateAtParent(s, p, n, d) = a3
  BY DEF RotateAtParent
<1> HIDE DEF u, v
<1>6. KidIs(a0, s, p, Opp(d), u)
  BY <1>3, <1>4, SetKidIs
<1> HIDE DEF a0
<1>7. a0 \in Trees
  BY <1>6 DEF KidIs
<1>8. KidIs(a1, a0, n, d, p)
  BY SMTT(30), <1>3, <1>7, SetKidIs
<1> HIDE DEF a1
<1>9. a1 \in Trees
  BY <1>8 DEF KidIs
<1>10. ParentColorIs(a2, a1, u, p, "black")
  BY <1>3, <1>4, <1>9, AdoptBlackIs
<1> HIDE DEF a2
<1>11. a2 \in Trees
  BY <1>10 DEF ParentColorIs
<1>12. ParentColorIs(a3, a2, p, n, "red")
  BY SMTT(30), <1>3, <1>11, SetParentColorIs
<1> HIDE DEF a3
<1>13. a3 \in Trees
  BY SMTT(30), <1>12 DEF ParentColorIs
<1>14. ASSUME NEW k \in Nodes, NEW e \in Dirs
       PROVE  a3.kid[k][e] = IF k = p /\ e = Opp(d) THEN u
                             ELSE IF k = n /\ e = d THEN p ELSE s.kid[k][e]
  <2>1. a3.kid = a1.kid
    BY <1>10, <1>12 DEF ParentColorIs
  <2>2. a0.kid[k][e] = IF k = p /\ e = Opp(d) THEN u ELSE s.kid[k][e]
    BY SMTT(30), <1>6 DEF KidIs
  <2>3. a1.kid[k][e] = IF k = n /\ e = d THEN p ELSE a0.kid[k][e]
    BY SMTT(30), <1>8 DEF KidIs
  <2> QED BY SMTT(30), <1>2, <2>1, <2>2, <2>3
<1>15. /\ a3.root = s.root
       /\ \A k \in Nodes : a3.par[k] = IF k = p THEN n ELSE IF k = u THEN p ELSE s.par[k]
       /\ \A k \in Nodes : a3.col[k] = IF k = p THEN "red" ELSE IF k = u THEN "black" ELSE s.col[k]
  <2>1. a1.root = s.root /\ a1.par = s.par /\ a1.col = s.col
    BY SMTT(30), <1>6, <1>8 DEF KidIs
  <2>2. a3.root = s.root
    BY <1>10, <1>12, <2>1 DEF ParentColorIs
  <2>3. ASSUME NEW k \in Nodes
        PROVE  /\ a3.par[k] = IF k = p THEN n ELSE IF k = u THEN p ELSE s.par[k]
               /\ a3.col[k] = IF k = p THEN "red" ELSE IF k = u THEN "black" ELSE s.col[k]
    <3>1. /\ a2.par[k] = IF k = u THEN p ELSE s.par[k]
          /\ a2.col[k] = IF k = u THEN "black" ELSE s.col[k]
      BY SMTT(30), <1>10, <2>1 DEF ParentColorIs
    <3>2. /\ a3.par[k] = IF k = p THEN n ELSE a2.par[k]
          /\ a3.col[k] = IF k = p THEN "red" ELSE a2.col[k]
      BY <1>12 DEF ParentColorIs
    <3> QED BY <3>1, <3>2
  <2> QED BY SMTT(30), <2>2, <2>3
<1>16. a3.kid[n][Opp(d)] = v
  BY Zenon, <1>2, <1>3, <1>14 DEF v
<1>17. RotateAtGrandparent(a3, g, n, d) = RotateSetParents(b2, g, n, "red")
  BY <1>16 DEF RotateAtGrandparent
<1>18. KidIs(b0, a3, g, d, v)
  BY <1>3, <1>4, <1>13, SetKidIs
<1> HIDE DEF b0
<1>19. b0 \in Trees
  BY <1>18 DEF KidIs
<1>20. KidIs(b1, b0, n, Opp(d), g)
  BY SMTT(30), <1>3, <1>19, SetKidIs
<1> HIDE DEF b1
<1>21. b1 \in Trees
  BY <1>20 DEF KidIs
<1>22. ParentColorIs(b2, b1, v, g, "black")
  BY SMTT(30), <1>3, <1>4, <1>21, AdoptBlackIs
<1> HIDE DEF b2
<1>23. ASSUME NEW k \in Nodes, NEW e \in Dirs
       PROVE  b2.kid[k][e] = IF k = g /\ e = d THEN v
                             ELSE IF k = n /\ e = Opp(d) THEN g ELSE a3.kid[k][e]
  <2>1. b2.kid = b1.kid
    BY <1>22 DEF ParentColorIs
  <2>2. b0.kid[k][e] = IF k = g /\ e = d THEN v ELSE a3.kid[k][e]
    BY SMTT(30), <1>18 DEF KidIs
  <2>3. b1.kid[k][e] = IF k = n /\ e = Opp(d) THEN g ELSE b0.kid[k][e]
    BY SMTT(30), <1>20 DEF KidIs
  <2> QED BY <1>2, <2>1, <2>2, <2>3
<1>24. /\ b2 \in Trees /\ b2.root = s.root
       /\ \A k \in Nodes : b2.par[k] = IF k = v THEN g ELSE a3.par[k]
       /\ \A k \in Nodes : b2.col[k] = IF k = v THEN "black" ELSE a3.col[k]
  <2>1. b1.root = a3.root /\ b1.par = a3.par /\ b1.col = a3.col
    BY SMTT(30), <1>18, <1>20 DEF KidIs
  <2> QED BY SMTT(30), <1>15, <1>22, <2>1 DEF ParentColorIs
<1>25. \A k \in Nodes, e \in Dirs :
         b2.kid[k][e] = IF k = g /\ e = d THEN v
                        ELSE IF k = p /\ e = Opp(d) THEN u
                        ELSE IF k = n THEN IF e = d THEN p ELSE g
                        ELSE s.kid[k][e]
  <2> SUFFICES ASSUME NEW k \in Nodes, NEW e \in Dirs
               PROVE  b2.kid[k][e] = IF k = g /\ e = d THEN v
                                     ELSE IF k = p /\ e = Opp(d) THEN u
                                     ELSE IF k = n THEN IF e = d THEN p ELSE g
                                     ELSE s.kid[k][e]
    BY SMTT(30)
  <2>1. a3.kid[k][e] = IF k = p /\ e = Opp(d) THEN u
                       ELSE IF k = n /\ e = d THEN p ELSE s.kid[k][e]
    BY SMTT(30), <1>14
  <2>2. b2.kid[k][e] = IF k = g /\ e = d THEN v
                       ELSE IF k = n /\ e = Opp(d) THEN g ELSE a3.kid[k][e]
    BY <1>23
  <2> QED BY SMTT(30), <1>2, <1>3, <2>1, <2>2
<1>26. \A k \in Nodes \ {n} :
         b2.par[k] = IF k = p THEN n ELSE IF k = u THEN p ELSE IF k = v THEN g ELSE s.par[k]
  <2> SUFFICES ASSUME NEW k \in Nodes \ {n}
               PROVE  b2.par[k] = IF k = p THEN n ELSE IF k = u THEN p
                                  ELSE IF k = v THEN g ELSE s.par[k]
    BY SMTT(30)
  <2>1. k = v => k # p /\ k # u
    BY <1>2, <1>3
  <2>2. b2.par[k] = IF k = v THEN g ELSE a3.par[k]
    BY SMTT(30), <1>24
  <2>3. a3.par[k] = IF k = p THEN n ELSE IF k = u THEN p ELSE s.par[k]
    BY <1>15
  <2> QED BY SMTT(30), <2>1, <2>2, <2>3
<1>27. UndercutTwice(s, b2, g, p, n, d)
  BY Zenon, <1>24, <1>25, <1>26 DEF UndercutTwice, u, v
<1>28. TurnedTwice(RotateSetParents(b2, g, n, "red"), s, b2, g, p, n, d, "red")
  BY SMTT(30), <1>24, <1>27, DoubleRotationIs
<1>29. \A k \in Nodes : b2.col[k] = s.col[k]
  <2>1. s.col[p] = "red" /\ (u \in Nodes => s.col[u] = "black") /\ (v \in Nodes => s.col[v] = "black")
    BY Zenon, <1>3 DEF IsRed, Trees, u, v
  <2> QED BY <1>15, <1>24, <2>1
<1> QED BY ZenonT(40), <1>2, <1>3, <1>5, <1>17, <1>28, <1>29 DEF TurnedTwice, Repainted

\* And those of the erase loop, of which the first leaves some pointers to the second.
LEMMA RaiseTwiceIs ==
  ASSUME NEW s \in Trees, NEW H \in SUBSET Nodes,
         NEW b \in [Nodes -> SUBSET Nodes], Shape(s, H, b),
         NEW g \in H, NEW d \in Dirs, NEW x, NEW n,
         x = s.kid[g][Opp(d)], x # NULL, n = s.kid[x][d], n # NULL,
         ~IsRed(s, s.kid[n][Opp(d)])
  PROVE  LET r == RaiseSibling(RotateAtSibling(s, g, x, n, d), g, n, x, d)
         IN r \in Trees /\ DoublyRotated(s, r, g, x, n, Opp(d)) /\ Darkened(r, s, {g, x}, g, n)
<1> DEFINE u  == s.kid[n][Opp(d)]
           v  == s.kid[n][d]
           a0 == SetKid(s, x, d, u)
           a1 == SetKid(a0, n, Opp(d), x)
           a2 == SetKid(a1, g, Opp(d), n)
           a3 == AdoptBlack(a2, u, x)
           b0 == SetKid(a3, g, Opp(d), v)
           b1 == SetKid(b0, n, d, g)
           b2 == SetParentColor(b1, x, n, "black")
           b3 == IF v = NULL THEN b2 ELSE SetParent(b2, v, g)
<1>0. Opp(d) \in Dirs /\ Opp(Opp(d)) = d /\ Opp(d) # d /\ \A e \in Dirs : e = d \/ e = Opp(d)
  BY OppIs
<1>1. Apart(s, H, g, x, n, Opp(d))
  BY <1>0, InnerChild
<1>2. /\ {g, x, n} \subseteq H /\ g # x /\ g # n /\ x # n
      /\ s.par[x] = g /\ s.par[n] = x
      /\ u # NULL => u \in H /\ u \notin {g, x, n, v}
      /\ v # NULL => v \in H /\ v \notin {g, x, n, u}
  BY Zenon, <1>0, <1>1 DEF Apart
<1>3. /\ g \in Nodes /\ x \in Nodes /\ n \in Nodes /\ NULL \notin Nodes
      /\ g \in Maybe /\ x \in Maybe /\ n \in Maybe
  BY Zenon, <1>2, NodesAssumption DEF Maybe
<1>4. u \in Maybe /\ v \in Maybe
  BY <1>0, <1>3 DEF Trees
<1>5. RotateAtSibling(s, g, x, n, d) = a3
  BY DEF RotateAtSibling
<1> HIDE DEF u, v
<1>6. KidIs(a0, s, x, d, u)
  BY <1>3, <1>4, SetKidIs
<1> HIDE DEF a0
<1>7. a0 \in Trees
  BY <1>6 DEF KidIs
<1>8. KidIs(a1, a0, n, Opp(d), x)
  BY SMTT(30), <1>0, <1>3, <1>7, SetKidIs
<1> HIDE DEF a1
<1>9. a1 \in Trees
  BY <1>8 DEF KidIs
<1>10. KidIs(a2, a1, g, Opp(d), n)
  BY SMTT(30), <1>0, <1>3, <1>9, SetKidIs
<1> HIDE DEF a2
<1>11. a2 \in Trees
  BY <1>10 DEF KidIs
<1>12. ParentColorIs(a3, a2, u, x, "black")
  BY <1>3, <1>4, <1>11, AdoptBlackIs
<1> HIDE DEF a3
<1>13. a3 \in Trees
  BY <1>12 DEF ParentColorIs
<1>14. ASSUME NEW k \in Nodes, NEW e \in Dirs
       PROVE  a3.kid[k][e] = IF k = g /\ e = Opp(d) THEN n
                             ELSE IF k = n /\ e = Opp(d) THEN x
                             ELSE IF k = x /\ e = d THEN u ELSE s.kid[k][e]
  <2>1. a3.kid = a2.kid
    BY <1>12 DEF ParentColorIs
  <2>2. a0.kid[k][e] = IF k = x /\ e = d THEN u ELSE s.kid[k][e]
    BY SMTT(30), <1>6 DEF KidIs
  <2>3. a1.kid[k][e] = IF k = n /\ e = Opp(d) THEN x ELSE a0.kid[k][e]
    BY <1>8 DEF KidIs
  <2>4. a2.kid[k][e] = IF k = g /\ e = Opp(d) THEN n ELSE a1.kid[k][e]
    BY <1>10 DEF KidIs
  <2> QED BY <2>1, <2>2, <2>3, <2>4
<1>15. /\ a3.root = s.root
       /\ \A k \in Nodes : a3.par[k] = IF k = u THEN x ELSE s.par[k]
       /\ \A k \in Nodes : a3.col[k] = IF k = u THEN "black" ELSE s.col[k]
  <2>1. a2.root = s.root /\ a2.par = s.par /\ a2.col = s.col
    BY <1>6, <1>8, <1>10 DEF KidIs
  <2> QED BY SMTT(30), <1>12, <2>1 DEF ParentColorIs
<1>16. a3.kid[n][d] = v
  BY Zenon, <1>0, <1>2, <1>3, <1>14 DEF v
<1>17. RaiseSibling(a3, g, n, x, d) = RotateSetParents(b3, g, n, "black")
  BY <1>16 DEF RaiseSibling
<1>18. KidIs(b0, a3, g, Opp(d), v)
  BY <1>0, <1>3, <1>4, <1>13, SetKidIs
<1> HIDE DEF b0
<1>19. b0 \in Trees
  BY <1>18 DEF KidIs
<1>20. KidIs(b1, b0, n, d, g)
  BY SMTT(30), <1>3, <1>19, SetKidIs
<1> HIDE DEF b1
<1>21. b1 \in Trees
  BY <1>20 DEF KidIs
<1>22. ParentColorIs(b2, b1, x, n, "black")
  BY SMTT(30), <1>3, <1>21, SetParentColorIs
<1> HIDE DEF b2
<1>23. b2 \in Trees
  BY <1>22 DEF ParentColorIs
<1>24. ParentIs(b3, b2, v, g)
  <2>1. CASE v = NULL
    BY <1>3, <1>23, <2>1 DEF ParentIs
  <2>2. CASE v # NULL
    <3>1. v \in Nodes
      BY SMTT(30), <1>4, <2>2 DEF Maybe
    <3> QED BY <1>3, <1>23, <2>2, <3>1, SetParentIs
  <2> QED BY <2>1, <2>2
<1> HIDE DEF b3
<1>25. ASSUME NEW k \in Nodes, NEW e \in Dirs
       PROVE  b3.kid[k][e] = IF k = g /\ e = Opp(d) THEN v
                             ELSE IF k = x /\ e = Opp(Opp(d)) THEN u
                             ELSE IF k = n THEN IF e = Opp(d) THEN x ELSE g
                             ELSE s.kid[k][e]
  <2>1. b3.kid = b1.kid
    BY <1>22, <1>24 DEF ParentColorIs, ParentIs
  <2>2. b0.kid[k][e] = IF k = g /\ e = Opp(d) THEN v ELSE a3.kid[k][e]
    BY SMTT(30), <1>18 DEF KidIs
  <2>3. b1.kid[k][e] = IF k = n /\ e = d THEN g ELSE b0.kid[k][e]
    BY SMTT(30), <1>20 DEF KidIs
  <2>4. a3.kid[k][e] = IF k = g /\ e = Opp(d) THEN n
                       ELSE IF k = n /\ e = Opp(d) THEN x
                       ELSE IF k = x /\ e = d THEN u ELSE s.kid[k][e]
    BY SMTT(30), <1>14
  <2> QED BY SMTT(30), <1>0, <1>2, <2>1, <2>2, <2>3, <2>4
<1>26. /\ b3 \in Trees /\ b3.root = s.root
       /\ \A k \in Nodes : b3.par[k] = IF k = v THEN g ELSE IF k = x THEN n ELSE a3.par[k]
       /\ \A k \in Nodes : b3.col[k] = IF k = x THEN "black" ELSE a3.col[k]
  <2>1. b1.root = a3.root /\ b1.par = a3.par /\ b1.col = a3.col
    BY SMTT(30), <1>18, <1>20 DEF KidIs
  <2>2. b3 \in Trees /\ b3.root = b2.root /\ b3.col = b2.col /\ b2.root = b1.root
    BY SMTT(30), <1>22, <1>24 DEF ParentIs, ParentColorIs
  <2>3. \A k \in Nodes : b2.par[k] = IF k = x THEN n ELSE a3.par[k]
    BY SMTT(30), <1>22, <2>1 DEF ParentColorIs
  <2>4. \A k \in Nodes : b3.par[k] = IF k = v THEN g ELSE IF k = x THEN n ELSE a3.par[k]
    BY SMTT(30), <1>24, <2>3 DEF ParentIs
  <2>5. \A k \in Nodes : b3.col[k] = IF k = x THEN "black" ELSE a3.col[k]
    BY <1>22, <2>1, <2>2 DEF ParentColorIs
  <2> QED BY SMTT(30), <1>15, <2>1, <2>2, <2>4, <2>5
<1>27. \A k \in Nodes \ {n} :
         b3.par[k] = IF k = x THEN n ELSE IF k = u THEN x ELSE IF k = v THEN g ELSE s.par[k]
  <2> SUFFICES ASSUME NEW k \in Nodes \ {n}
               PROVE  b3.par[k] = IF k = x THEN n ELSE IF k = u THEN x
                                  ELSE IF k = v THEN g ELSE s.par[k]
    OBVIOUS
  <2>1. k = v => k # x /\ k # u
    BY SMTT(30), <1>2, <1>3
  <2>2. b3.par[k] = IF k = v THEN g ELSE IF k = x THEN n ELSE a3.par[k]
    BY <1>26
  <2>3. a3.par[k] = IF k = u THEN x ELSE s.par[k]
    BY <1>15
  <2> QED BY SMTT(30), <2>1, <2>2, <2>3
<1>28. u = s.kid[n][Opp(d)] /\ v = s.kid[n][Opp(Opp(d))] /\ n = s.kid[x][Opp(Opp(d))]
  BY <1>0 DEF u, v
<1>29. UndercutTwice(s, b3, g, x, n, Opp(d))
  <2>1. x = s.kid[g][Opp(d)] /\ x # NULL /\ n # NULL /\ b3.root = s.root
    BY SMTT(30), <1>1, <1>3, <1>26
  <2> HIDE DEF u, v
  <2> QED BY ZenonT(40), <1>25, <1>27, <1>28, <2>1 DEF UndercutTwice
<1>30. TurnedTwice(RotateSetParents(b3, g, n, "black"), s, b3, g, x, n, Opp(d), "black")
  BY SMTT(30), <1>0, <1>26, <1>29, DoubleRotationIs
<1>31. \A k \in Nodes : b3.col[k] = IF k = x THEN "black" ELSE s.col[k]
  <2>0. s.col \in [Nodes -> {"red", "black"}]
    BY SMTT(30) DEF Trees
  <2>1. u \in Nodes => s.col[u] = "black"
    BY <1>3, <2>0 DEF IsRed, u
  <2> QED BY <1>15, <1>26, <2>1
<1> QED BY ZenonT(40), <1>2, <1>3, <1>5, <1>17, <1>30, <1>31 DEF TurnedTwice, Repainted, Darkened

-----------------------------------------------------------------------------
(***************************************************************************)
(* Black heights and colors around a change.                               *)
(***************************************************************************)
\* Only the nodes of S have other children, and x is where p was.
Touched(s, s2, H, S, p, x) ==
  /\ S \subseteq H /\ p \in S /\ x \in S
  /\ s2.root = (IF s.root = p THEN x ELSE s.root) /\ s.root \notin S \ {p}
  /\ \A k \in H \ S, e \in Dirs :
       /\ s2.kid[k][e] = IF s.kid[k][e] = p THEN x ELSE s.kid[k][e]
       /\ s.kid[k][e] \notin S \ {p}

\* A rotation moves the two nodes it turns, and no other.
LEMMA RotatedMoves ==
  ASSUME NEW s \in Trees, NEW s2 \in Trees, NEW H \in SUBSET Nodes,
         NEW b \in [Nodes -> SUBSET Nodes], Shape(s, H, b),
         NEW p \in H, NEW x, NEW y, NEW d \in Dirs, x # NULL, Rotated(s, s2, p, x, y, d)
  PROVE  Touched(s, s2, H, {p, x}, p, x)
<1>1. x = s.kid[p][d]
  BY DEF Rotated
<1>2. x \in H /\ x # p /\ s.par[x] = p /\ x # s.root
  <2>1. ChildOf(s, H, b, p, d, x)
    BY <1>1, ChildIs
  <2> QED BY <2>1 DEF ChildOf
<1>3. \A k \in H, e \in Dirs : s.kid[k][e] # NULL => s.par[s.kid[k][e]] = k
  BY DEF Shape, Paired
<1>4. p # NULL /\ H \subseteq Nodes
  BY NodesAssumption
<1>5. ASSUME NEW k \in H \ {p, x}, NEW e \in Dirs
      PROVE  /\ s2.kid[k][e] = IF s.kid[k][e] = p THEN x ELSE s.kid[k][e]
             /\ s.kid[k][e] # x
  <2>1. s.kid[k][e] = p => k = s.par[p]
    BY <1>3, <1>4
  <2>2. s.kid[k][e] # x
    BY <1>2, <1>3
  <2> QED BY <1>4, <2>1, <2>2 DEF Rotated
<1>6. s2.root = IF s.root = p THEN x ELSE s.root
  BY DEF Rotated
<1> QED BY <1>2, <1>5, <1>6 DEF Touched

\* A double rotation moves the three nodes it turns, and no other.
LEMMA DoublyRotatedMoves ==
  ASSUME NEW s \in Trees, NEW s2 \in Trees, NEW H \in SUBSET Nodes,
         NEW b \in [Nodes -> SUBSET Nodes], Shape(s, H, b),
         NEW g \in H, NEW d \in Dirs, NEW x, NEW n, x # NULL, n # NULL,
         DoublyRotated(s, s2, g, x, n, d)
  PROVE  Touched(s, s2, H, {g, x, n}, g, n)
<1>1. x = s.kid[g][d] /\ n = s.kid[x][Opp(d)]
  BY DEF DoublyRotated
<1>2. /\ {g, x, n} \subseteq H /\ g # x /\ g # n /\ x # n
      /\ s.par[x] = g /\ s.par[n] = x /\ s.root \notin {x, n}
  <2>1. Apart(s, H, g, x, n, d)
    BY <1>1, InnerChild
  <2> QED BY <2>1 DEF Apart
<1>3. \A k \in H, e \in Dirs : s.kid[k][e] # NULL => s.par[s.kid[k][e]] = k
  BY DEF Shape, Paired
<1>4. g # NULL /\ H \subseteq Nodes
  BY SMTT(30), NodesAssumption
<1>5. ASSUME NEW k \in H \ {g, x, n}, NEW e \in Dirs
      PROVE  /\ s2.kid[k][e] = IF s.kid[k][e] = g THEN n ELSE s.kid[k][e]
             /\ s.kid[k][e] # x /\ s.kid[k][e] # n
  <2>1. s.kid[k][e] = g => k = s.par[g]
    BY <1>3, <1>4
  <2>2. s.kid[k][e] # x /\ s.kid[k][e] # n
    BY SMTT(30), <1>2, <1>3
  <2> QED BY <1>4, <2>1, <2>2 DEF DoublyRotated
<1>6. s2.root = IF s.root = g THEN n ELSE s.root
  BY DEF DoublyRotated
<1> QED BY <1>2, <1>5, <1>6 DEF Touched

\* The type of the black counts h.
Heights == [Nodes -> Nat]

\* The count of black nodes below n on side e, and the one that lacks on side f of m.
Counted(s, h, n, e, m, f) ==
  h[n] = Weight(s, h, s.kid[n][e]) + (IF n = m /\ e = f THEN 1 ELSE 0)

\* Where black counts agree below the moved nodes, they agree all over the tree.
LEMMA MovedLevels ==
  ASSUME NEW s \in Trees, NEW s2 \in Trees, NEW H \in SUBSET Nodes,
         NEW b \in [Nodes -> SUBSET Nodes], Shape(s, H, b),
         NEW S, NEW p, NEW x, Touched(s, s2, H, S, p, x),
         NEW h \in Heights, NEW g \in Heights, NEW m, NEW f, NEW m2, NEW f2,
         Level(s, H, h, m, f), m \in S \cup {NULL}, m2 \in S \cup {NULL},
         \A k \in H \ S : g[k] = h[k],
         \A k \in H \ S : s.par[k] \notin S => s2.col[k] = s.col[k],
         Weight(s2, g, x) = Weight(s, h, p),
         \A n \in S, e \in Dirs : Counted(s2, g, n, e, m2, f2)
  PROVE  Level(s2, H, g, m2, f2)
<1>1. S \subseteq H /\ p \in S /\ x \in S /\ NULL \notin H
  BY NodesAssumption DEF Touched
<1>2. ASSUME NEW n \in H \ S, NEW e \in Dirs
      PROVE  Counted(s2, g, n, e, m2, f2)
  <2>1. h[n] = Weight(s, h, s.kid[n][e]) + 0
    <3>1. n # m
      BY <1>1, <1>2
    <3> QED BY <3>1 DEF Level
  <2>2. s.kid[n][e] # NULL => s.kid[n][e] \in H /\ s.par[s.kid[n][e]] = n
    BY DEF Shape, Paired
  <2>3. /\ s2.kid[n][e] = IF s.kid[n][e] = p THEN x ELSE s.kid[n][e]
        /\ s.kid[n][e] \notin S \ {p}
    BY DEF Touched
  <2>4. Weight(s2, g, s2.kid[n][e]) = Weight(s, h, s.kid[n][e])
    <3>1. CASE s.kid[n][e] = p
      BY <2>3, <3>1
    <3>2. CASE s.kid[n][e] = NULL
      BY <1>1, <2>3, <3>2 DEF Weight
    <3>3. CASE s.kid[n][e] # p /\ s.kid[n][e] # NULL
      <4>1. s2.kid[n][e] = s.kid[n][e] /\ s.kid[n][e] \in H \ S /\ s.par[s.kid[n][e]] \notin S
        BY <1>2, <2>2, <2>3, <3>3
      <4>2. s2.col[s.kid[n][e]] = s.col[s.kid[n][e]] /\ g[s.kid[n][e]] = h[s.kid[n][e]]
        BY <4>1
      <4> QED BY <4>1, <4>2 DEF Weight
    <3> QED BY <3>1, <3>2, <3>3
  <2>5. g[n] = h[n] /\ n # m2
    BY <1>1, <1>2
  <2> QED BY <2>1, <2>4, <2>5 DEF Counted
<1>3. \A n \in H, e \in Dirs : Counted(s2, g, n, e, m2, f2)
  BY <1>2
<1> QED BY <1>3 DEF Level, Counted

\* A move brings no red node below a red one outside the moved nodes.
LEMMA MovedCalm ==
  ASSUME NEW s \in Trees, NEW s2 \in Trees, NEW H \in SUBSET Nodes,
         Paired(s, H), NEW S, NEW p, NEW x, Touched(s, s2, H, S, p, x),
         \A k \in H \ S : s2.col[k] \in {s.col[k], "black"},
         s2.col[x] \in {s.col[p], "black"},
         \A n \in S : Calm(s2, n)
  PROVE  /\ \A n \in H \ S : Calm(s, n) => Calm(s2, n)
         /\ ~IsRed(s, s.root) /\ s.root \in H \cup {NULL} => ~IsRed(s2, s2.root)
<1>1. S \subseteq H /\ p \in S /\ x \in S /\ NULL \notin H
  BY NodesAssumption DEF Touched
<1>2. ASSUME NEW k, NEW k2, k2 = (IF k = p THEN x ELSE k), k \notin S \ {p}, ~IsRed(s, k),
             k \in H \cup {NULL}
      PROVE  ~IsRed(s2, k2)
  BY <1>1, <1>2 DEF IsRed
<1>3. s2.root = (IF s.root = p THEN x ELSE s.root) /\ s.root \notin S \ {p}
  BY DEF Touched
<1>4. ASSUME NEW n \in H \ S, Calm(s, n), IsRed(s2, n), NEW e \in Dirs
      PROVE  ~IsRed(s2, s2.kid[n][e])
  <2>1. IsRed(s, n)
    BY <1>1, <1>4 DEF IsRed
  <2>2. ~IsRed(s, s.kid[n][e])
    BY <1>4, <2>1 DEF Calm
  <2>3. /\ s2.kid[n][e] = IF s.kid[n][e] = p THEN x ELSE s.kid[n][e]
        /\ s.kid[n][e] \notin S \ {p}
    BY DEF Touched
  <2>4. s.kid[n][e] \in H \cup {NULL}
    BY DEF Paired
  <2> QED BY <1>2, <2>2, <2>3, <2>4
<1> QED BY <1>2, <1>3, <1>4 DEF Calm

\* Neither colors nor nodes outside matter to the shape.
LEMMA SameLinks ==
  ASSUME NEW s \in Trees, NEW s2 \in Trees, NEW H \in SUBSET Nodes,
         NEW b \in [Nodes -> SUBSET Nodes], Shape(s, H, b), s2.root = s.root,
         \A k \in H : s2.par[k] = s.par[k] /\ \A e \in Dirs : s2.kid[k][e] = s.kid[k][e]
  PROVE  Shape(s2, H, b)
<1>1. Rooted(s2, H, b)
  BY DEF Shape, Rooted
<1>2. \A k \in H :
        /\ \A e \in Dirs : s.kid[k][e] # NULL => s.kid[k][e] \in H /\ s.par[s.kid[k][e]] = k
        /\ s.par[k] = NULL => k = s.root
        /\ s.par[k] # NULL => s.par[k] \in H /\ \E e \in Dirs : s.kid[s.par[k]][e] = k
  BY DEF Shape, Paired
<1>3. Paired(s2, H)
  BY <1>2 DEF Paired
<1>4. Sorted(s2, H, b)
  <2>1. \A k \in H :
          /\ b[k] = {k} \cup Below(b, s.kid[k]["left"]) \cup Below(b, s.kid[k]["right"])
          /\ \A j \in Below(b, s.kid[k]["left"]) : j < k
          /\ \A j \in Below(b, s.kid[k]["right"]) : j > k
    BY DEF Shape, Sorted
  <2> QED BY <2>1, OppIs DEF Sorted
<1>5. Closed(s2, H, b)
  BY DEF Shape, Closed
<1> QED BY <1>1, <1>3, <1>4, <1>5 DEF Shape

\* What is below a node that is below n is on the same side of n.
LEMMA SameSide ==
  ASSUME NEW s \in Trees, NEW H \in SUBSET Nodes,
         NEW b \in [Nodes -> SUBSET Nodes], Shape(s, H, b),
         NEW n \in H, NEW x \in b[n], x # n, NEW y \in b[x]
  PROVE  y # n /\ (x < n <=> y < n) /\ y \in b[n]
<1>1. PICK d \in Dirs : x \in Below(b, s.kid[n][d])
  BY OppIs DEF Shape, Sorted
<1> DEFINE m == s.kid[n][d]
<1>2. m \in H /\ x \in b[m] /\ Below(b, m) = b[m]
  <2>1. m # NULL
    BY <1>1 DEF Below
  <2> QED BY <1>1, <2>1 DEF Below, Shape, Paired
<1>3. y \in b[m]
  BY <1>2 DEF Shape, Closed
<1>4. /\ \A j \in Below(b, s.kid[n]["left"]) : j < n
      /\ \A j \in Below(b, s.kid[n]["right"]) : j > n
  BY DEF Shape, Sorted
<1>5. n \in Nat /\ x \in Nat /\ y \in Nat
  <2>1. b[n] \subseteq H /\ b[m] \subseteq H
    BY <1>2 DEF Shape, Closed
  <2> QED BY <2>1, <1>3, NodesAssumption
<1>6. y \in b[n]
  BY DEF Shape, Closed
<1>7. CASE d = "left"
  <2>1. x < n /\ y < n
    BY <1>1, <1>2, <1>3, <1>4, <1>7
  <2> QED BY <1>5, <1>6, <2>1
<1>8. CASE d = "right"
  <2>1. x > n /\ y > n
    BY <1>1, <1>2, <1>3, <1>4, <1>8
  <2> QED BY <1>5, <1>6, <2>1
<1> QED BY <1>7, <1>8 DEF Dirs

-----------------------------------------------------------------------------
(***************************************************************************)
(* The insert.                                                             *)
(***************************************************************************)
\* The type of the sets b.
Families == [Nodes -> SUBSET Nodes]

\* The inductive invariant.
IInv == \E b \in Families, h \in Heights : Inv(b, h)

\* The tree is one that holds what it should, whatever the operation under way.
LEMMA HeldIsShaped ==
  ASSUME NEW b \in Families, NEW h \in Heights, Inv(b, h)
  PROVE  /\ Held \in SUBSET Nodes /\ t \in Trees /\ Shape(t, Held, b) /\ NULL \notin Nodes
         /\ b \in [Nodes -> SUBSET Nodes]
BY NodesAssumption DEF Inv, Locals, Held, Families

\* An empty tree satisfies the invariant.
LEMMA InitHolds == Init => IInv
<1> SUFFICES ASSUME Init PROVE IInv
  OBVIOUS
<1> DEFINE b == [n \in Nodes |-> {}]
           h == [n \in Nodes |-> 0]
<1>1. b \in Families /\ h \in Heights
  BY DEF Families, Heights
<1>2. t \in Trees
  BY DEF Init, Trees, Maybe, NoKids
<1>3. Held = {} /\ t.root = NULL /\ pc = "idle" /\ members = {}
  BY DEF Init, Held
<1>4. Shape(t, Held, b)
  BY <1>3 DEF Shape, Rooted, Paired, Sorted, Closed, Below
<1>5. Level(t, Held, h, ShortAt, ShortSide)
  BY <1>3 DEF Level
<1>6. Spare
  BY DEF Init, Spare, NoKids
<1>7. Colors /\ Locals(b)
  BY <1>3, <1>6 DEF Colors, Locals, IsRed
<1> QED BY <1>1, <1>2, <1>4, <1>5, <1>7 DEF IInv, Inv

\* Take does not touch the tree.
LEMMA TakeHolds == IInv /\ Take => IInv'
<1> SUFFICES ASSUME NEW b \in Families, NEW h \in Heights, Inv(b, h), Take PROVE Inv(b, h)'
  BY DEF IInv
<1> QED BY DEF Inv, Take, locals, Held, ShortAt, ShortSide, Colors, Locals, Spare

\* An insert starts its search at the root, where the new key belongs.
LEMMA CallInsertHolds ==
  ASSUME NEW n \in Nodes, IInv, CallInsert(n)
  PROVE  IInv'
<1> SUFFICES ASSUME NEW b \in Families, NEW h \in Heights, Inv(b, h) PROVE Inv(b, h)'
  BY DEF IInv
<1>1. pc = "idle" /\ pc' = "descend" /\ Held = members /\ Held' = members /\ t' = t
  BY DEF CallInsert, Held
<1>2. Placed(b)'
  <2>1. t.root \in members \cup {NULL} /\ members = Below(b, t.root)
    BY <1>1 DEF Inv, Shape, Rooted
  <2> QED BY <1>1, <2>1 DEF CallInsert, Placed
<1>3. Spare'
  BY <1>1, NodesAssumption DEF CallInsert, Inv, Locals, Spare
<1>4. Locals(b)'
  BY <1>1, <1>2, <1>3 DEF Inv, CallInsert, Locals
<1>5. Colors' /\ ShortAt' = NULL /\ Level(t, Held, h, NULL, ShortSide)
  BY <1>1 DEF Inv, Colors, ShortAt
<1>6. ShortSide' = ShortSide
  BY <1>1 DEF ShortSide
<1> QED BY <1>1, <1>4, <1>5, <1>6 DEF Inv

\* The search goes on to the side where the new key belongs.
LEMMA DescendHolds == IInv /\ Descend => IInv'
<1> SUFFICES ASSUME NEW b \in Families, NEW h \in Heights, Inv(b, h), Descend PROVE Inv(b, h)'
  BY DEF IInv
<1>1. pc = "descend" /\ node # NULL /\ Held = members /\ Placed(b) /\ t' = t /\ members' = members
  BY DEF Descend, Held, Inv, Locals
<1>2. CASE new # node /\ parent' = node /\ pc' = pc /\ new' = new
           /\ node' = t.kid[node][IF new < node THEN "left" ELSE "right"]
  <2> DEFINE d == IF new < node THEN "left" ELSE "right"
  <2>1. /\ t \in Trees /\ Shape(t, members, b) /\ members \in SUBSET Nodes /\ d \in Dirs
        /\ b \in [Nodes -> SUBSET Nodes] /\ node \in members /\ NULL \notin Nodes
    BY <1>1, HeldIsShaped, OppIs DEF Placed
  <2>2. node' \in members \cup {NULL}
    BY <1>2, <2>1 DEF Shape, Paired
  <2>3. new \in Nat /\ node \in Nat
    BY <1>1, <2>1, NodesAssumption DEF Placed
  <2>4. /\ b[node] = {node} \cup Below(b, t.kid[node]["left"]) \cup Below(b, t.kid[node]["right"])
        /\ \A j \in Below(b, t.kid[node]["left"]) : j < node
        /\ \A j \in Below(b, t.kid[node]["right"]) : j > node
    BY <2>1 DEF Shape, Sorted
  <2>5. new \in members => new \in Below(b, node')
    <3>1. new \in members => new \in b[node]
      BY <1>1 DEF Placed, Below
    <3> QED BY <1>2, <2>3, <2>4, <3>1
  <2>6. ASSUME NEW m \in members, node \in b[m], m # node
        PROVE  new # m /\ (node < m <=> new < m)
    <3>1. t.par[node] \in b[m] /\ b[m] \subseteq members
      BY <2>1, <2>6 DEF Shape, Closed
    <3>2. parent # NULL
      <4>1. parent = NULL => node = t.root
        BY <1>1 DEF Placed
      <4>2. node = t.root => t.par[node] = NULL
        BY <1>1, <2>1 DEF Shape, Rooted
      <4> QED BY <2>1, <3>1, <4>1, <4>2
    <3> DEFINE e == IF new < parent THEN "left" ELSE "right"
    <3>3. parent \in members /\ new # parent /\ node = t.kid[parent][e] /\ e \in Dirs
      BY <1>1, <3>2, OppIs DEF Placed
    <3>4. t.par[node] = parent /\ node \in b[node] /\ node \in Below(b, t.kid[parent][e])
      <4>1. node \in b[node]
        BY <2>4
      <4> QED BY <1>1, <2>1, <3>3, <4>1 DEF Shape, Paired, Below
    <3>5. CASE m = parent
      <4>1. /\ \A j \in Below(b, t.kid[parent]["left"]) : j < parent
            /\ \A j \in Below(b, t.kid[parent]["right"]) : j > parent
        BY <2>1, <3>3 DEF Shape, Sorted
      <4>2. parent \in Nat
        BY <2>1, <3>3, NodesAssumption
      <4> QED BY <2>3, <3>3, <3>4, <3>5, <4>1, <4>2
    <3>6. CASE m # parent
      <4>1. new # m /\ (parent < m <=> new < m)
        BY <1>1, <3>1, <3>2, <3>4, <3>6 DEF Placed
      <4>2. node \in b[parent]
        BY <2>1, <3>3, <3>4, OppIs DEF Shape, Sorted, Dirs
      <4>3. parent < m <=> node < m
        BY <2>1, <3>1, <3>4, <3>6, <4>2, SameSide
      <4> QED BY <4>1, <4>3
    <3> QED BY <3>5, <3>6
  <2>7. Placed(b)'
    <3>1. parent' # NULL
      BY <1>1, <1>2
    <3>2. new \in Nodes
      BY <1>1 DEF Placed
    <3>3. /\ new' \in Nodes /\ node' \in members' \cup {NULL} /\ parent' \in members' \cup {NULL}
          /\ new' # parent' /\ node' = t'.kid[parent'][IF new' < parent' THEN "left" ELSE "right"]
      BY <1>1, <1>2, <2>1, <2>2, <3>2
    <3>4. new' \in members' => new' \in Below(b, node')
      BY <1>1, <1>2, <2>5
    <3>5. \A m \in members' : parent' # NULL /\ parent' \in b[m] /\ m # parent'
            => new' # m /\ (parent' < m <=> new' < m)
      BY <1>1, <1>2, <2>6
    <3> QED BY <3>1, <3>3, <3>4, <3>5 DEF Placed
  <2>8. Spare'
    BY <1>1, <1>2 DEF Inv, Held, Locals, Spare
  <2> QED BY <1>1, <1>2, <2>7, <2>8 DEF Inv, Held, ShortAt, ShortSide, Colors, Locals
<1>3. CASE new = node /\ Return(node)
  <2>1. Spare'
    BY <1>1, <1>3 DEF Inv, Held, Locals, Spare, Return, Placed
  <2> QED BY <1>1, <1>3, <2>1 DEF Return, Inv, Held, ShortAt, ShortSide, Colors, Locals
<1> QED BY <1>2, <1>3 DEF Descend

\* The node n is initialised as rb_link_node does it.
LEMMA LeafIs ==
  ASSUME NEW s \in Trees, NEW n \in Nodes, NEW p \in Maybe
  PROVE  LET leaf == [s EXCEPT !.kid[n] = NoKids, !.par[n] = p, !.col[n] = "red"]
         IN /\ leaf \in Trees /\ leaf.root = s.root
            /\ \A m \in Nodes : /\ leaf.kid[m] = IF m = n THEN NoKids ELSE s.kid[m]
                                /\ leaf.par[m] = IF m = n THEN p ELSE s.par[m]
                                /\ leaf.col[m] = IF m = n THEN "red" ELSE s.col[m]
<1> DEFINE bare == [s EXCEPT !.kid[n] = NoKids]
           leaf == [s EXCEPT !.kid[n] = NoKids, !.par[n] = p, !.col[n] = "red"]
<1>1. NoKids \in [Dirs -> Maybe]
  BY DEF NoKids, Maybe
<1>2. /\ bare \in Trees /\ bare.root = s.root /\ bare.par = s.par /\ bare.col = s.col
      /\ \A m \in Nodes : bare.kid[m] = IF m = n THEN NoKids ELSE s.kid[m]
  BY <1>1 DEF Trees
<1>3. leaf = SetParentColor(bare, n, p, "red")
  BY DEF SetParentColor
<1> HIDE DEF bare, leaf
<1>4. ParentColorIs(leaf, bare, n, p, "red")
  BY <1>2, <1>3, SetParentColorIs
<1>5. /\ leaf \in Trees /\ leaf.root = s.root
      /\ \A m \in Nodes : /\ leaf.kid[m] = IF m = n THEN NoKids ELSE s.kid[m]
                          /\ leaf.par[m] = IF m = n THEN p ELSE s.par[m]
                          /\ leaf.col[m] = IF m = n THEN "red" ELSE s.col[m]
  BY <1>2, <1>4 DEF ParentColorIs
<1> QED BY <1>5 DEF leaf

\* The new node is linked in order, and is the only one that may be red below red.
LEMMA LinkHolds == IInv /\ Link => IInv'
<1> SUFFICES ASSUME NEW b \in Families, NEW h \in Heights, Inv(b, h), Link PROVE IInv'
  BY DEF IInv
<1> DEFINE e == IF new < parent THEN "left" ELSE "right"
           leaf == [t EXCEPT !.kid[new] = NoKids, !.par[new] = parent, !.col[new] = "red"]
<1>1. pc = "descend" /\ node = NULL /\ Held = members /\ Placed(b)
  BY DEF Link, Held, Inv, Locals
<1>2. /\ t \in Trees /\ Shape(t, members, b) /\ members \in SUBSET Nodes /\ e \in Dirs
      /\ b \in [Nodes -> SUBSET Nodes] /\ NULL \notin Nodes
  BY <1>1, HeldIsShaped, OppIs
<1>3. /\ new \in Nodes \ members /\ parent \in members \cup {NULL}
      /\ IF parent = NULL THEN t.root = NULL ELSE t.kid[parent][e] = NULL
  BY <1>1 DEF Placed, Below
<1>4. /\ leaf \in Trees /\ leaf.root = t.root
      /\ \A m \in Nodes : /\ leaf.kid[m] = IF m = new THEN NoKids ELSE t.kid[m]
                          /\ leaf.par[m] = IF m = new THEN parent ELSE t.par[m]
                          /\ leaf.col[m] = IF m = new THEN "red" ELSE t.col[m]
  <2>1. new \in Nodes /\ parent \in Maybe /\ t \in Trees
    BY <1>2, <1>3 DEF Maybe
  <2> QED BY Zenon, <2>1, LeafIs
<1>5. t' = IF parent = NULL THEN [leaf EXCEPT !.root = new] ELSE SetKid(leaf, parent, e, new)
  BY DEF Link
<1>6. /\ pc' = "fixinsert" /\ node' = new /\ new' = new /\ parent' = parent /\ members' = members
      /\ Held' = members \cup {new}
  BY DEF Link, Held
<1> HIDE DEF leaf, e
<1>7. /\ t' \in Trees /\ t'.root = (IF parent = NULL THEN new ELSE t.root)
      /\ \A m \in Nodes : /\ t'.par[m] = IF m = new THEN parent ELSE t.par[m]
                          /\ t'.col[m] = IF m = new THEN "red" ELSE t.col[m]
      /\ \A d \in Dirs : t'.kid[new][d] = NULL
      /\ \A m \in Nodes \ {new}, d \in Dirs :
           t'.kid[m][d] = IF m = parent /\ d = e THEN new ELSE t.kid[m][d]
  <2>1. CASE parent = NULL
    <3>1. /\ t' \in Trees /\ t'.root = new /\ t'.par = leaf.par /\ t'.col = leaf.col
          /\ t'.kid = leaf.kid
      BY <1>3, <1>4, <1>5, <2>1 DEF Trees, Maybe
    <3> QED BY <1>2, <1>3, <1>4, <2>1, <3>1 DEF NoKids
  <2>2. CASE parent # NULL
    <3>1. KidIs(t', leaf, parent, e, new)
      BY <1>2, <1>3, <1>4, <1>5, <2>2, SetKidIs DEF Maybe
    <3> QED BY <1>2, <1>3, <1>4, <2>2, <3>1 DEF KidIs, NoKids
  <2> QED BY <2>1, <2>2
<1>8. Hung(t, t', new, parent, e)
  BY <1>3, <1>7 DEF Hung
<1>9. Between(b, members, new, parent)
  <2>1. \A m \in members : parent \in b[m] => parent # NULL
    BY <1>2
  <2> QED BY <1>1, <1>3, <2>1 DEF Between, Placed
<1>10. PICK c \in Families : Shape(t', Held', c)
  <2> DEFINE c == With(members, b, new, parent)
  <2>1. c \in [Nodes -> SUBSET Nodes] /\ Shape(t', members \cup {new}, c)
    BY <1>2, <1>3, <1>7, <1>8, <1>9, LinkKeepsShape DEF e
  <2> HIDE DEF c
  <2> QED BY <1>6, <2>1 DEF Families
<1>11. PICK k \in Heights : Level(t', Held', k, ShortAt', ShortSide')
  <2> DEFINE k == [h EXCEPT ![new] = 0]
  <2>1. k \in Heights /\ \A m \in Nodes : k[m] = IF m = new THEN 0 ELSE h[m]
    BY <1>3 DEF Heights
  <2>2. \A n \in members, d \in Dirs : h[n] = Weight(t, h, t.kid[n][d]) + 0
    BY <1>1, <1>2 DEF Inv, Level, ShortAt
  <2>3. \A n \in members, d \in Dirs : t.kid[n][d] \in members \cup {NULL}
    BY <1>2 DEF Shape, Paired
  <2>4. ASSUME NEW n \in Held', NEW d \in Dirs
        PROVE  k[n] = Weight(t', k, t'.kid[n][d]) + 0
    <3>1. CASE n = new
      BY <1>3, <1>7, <2>1, <3>1 DEF Weight
    <3>2. CASE n \in members
      <4>1. n \in Nodes \ {new} /\ k[n] = h[n]
        BY <1>2, <1>3, <2>1, <3>2
      <4>2. CASE n = parent /\ d = e
        <5>1. t'.kid[n][d] = new /\ t.kid[n][d] = NULL
          BY <1>2, <1>3, <1>7, <4>1, <4>2
        <5>2. Weight(t, h, t.kid[n][d]) = 0 /\ Weight(t', k, t'.kid[n][d]) = 0
          BY <1>2, <1>3, <1>7, <2>1, <5>1 DEF Weight
        <5> QED BY <2>2, <3>2, <4>1, <5>2
      <4>3. CASE ~(n = parent /\ d = e)
        <5>1. t'.kid[n][d] = t.kid[n][d]
          BY <1>7, <4>1, <4>3
        <5>2. t.kid[n][d] = NULL \/ t.kid[n][d] \in Nodes \ {new}
          BY <1>2, <1>3, <2>3, <3>2
        <5>3. Weight(t', k, t'.kid[n][d]) = Weight(t, h, t.kid[n][d])
          BY <1>7, <2>1, <5>1, <5>2 DEF Weight
        <5> QED BY <2>2, <3>2, <4>1, <5>3
      <4> QED BY <4>2, <4>3
    <3> QED BY <1>6, <3>1, <3>2
  <2>5. ShortAt' = NULL
    BY <1>6 DEF ShortAt
  <2> HIDE DEF k
  <2> QED BY <1>2, <1>3, <1>6, <2>1, <2>4, <2>5 DEF Level
<1>12. Colors'
  <2>1. ~IsRed(t, t.root) /\ \A n \in members : Calm(t, n)
    BY <1>1 DEF Inv, Colors
  <2>2. \A n \in members, d \in Dirs : t.kid[n][d] \in members \cup {NULL}
    BY <1>2 DEF Shape, Paired
  <2>3. ASSUME NEW n \in members, IsRed(t', n), NEW d \in Dirs, t'.kid[n][d] # new
        PROVE  ~IsRed(t', t'.kid[n][d])
    <3>1. n \in Nodes \ {new} /\ IsRed(t, n) /\ t'.kid[n][d] = t.kid[n][d]
      BY <1>2, <1>3, <1>7, <2>3 DEF IsRed
    <3>2. ~IsRed(t, t.kid[n][d])
      BY <2>1, <3>1 DEF Calm
    <3> QED BY <1>2, <1>7, <2>2, <2>3, <3>1, <3>2 DEF IsRed
  <2>4. IsRed(t', new)
    BY <1>2, <1>3, <1>7 DEF IsRed
  <2>5. \A n \in Held' \ {parent} : Calm(t', n)
    <3>1. Calm(t', new)
      BY <1>7 DEF Calm, IsRed
    <3>2. ASSUME NEW n \in members, n # parent, NEW d \in Dirs
          PROVE  t'.kid[n][d] # new
      BY <1>2, <1>3, <1>7, <2>2, <3>2
    <3> QED BY <1>6, <2>3, <3>1, <3>2 DEF Calm
  <2>6. IsRed(t', t'.root) => new = t'.root
    BY <1>2, <1>7, <2>1 DEF IsRed, Shape, Rooted
  <2>7. IsRed(t', parent) => \A d \in Dirs : t'.kid[parent][d] # new
                               => ~IsRed(t', t'.kid[parent][d])
    BY <1>3, <2>3 DEF IsRed
  <2> QED BY <1>6, <2>4, <2>5, <2>6, <2>7 DEF Colors
<1>13. Locals(c)'
  <2>1. Spare'
    <3>1. \A n \in Nodes \ (members \cup {new}) :
            t.par[n] = NULL /\ \A d \in Dirs : t.kid[n][d] = NULL
      BY <1>1 DEF Inv, Locals, Spare
    <3>2. parent # NULL => parent \in members
      BY <1>3
    <3> QED BY <1>2, <1>6, <1>7, <3>1, <3>2 DEF Spare
  <2> QED BY <1>2, <1>3, <1>6, <1>7, <2>1 DEF Locals
<1>14. Inv(c, k)'
  BY <1>7, <1>10, <1>11, <1>12, <1>13 DEF Inv
<1> QED BY <1>14 DEF IInv

\* Below a black parent, or as a root that turns black, the new node disturbs nothing.
LEMMA InsertDoneHolds == IInv /\ InsertDone => IInv'
<1> SUFFICES ASSUME NEW b \in Families, NEW h \in Heights, Inv(b, h), InsertDone
             PROVE  Inv(b, h)'
  BY DEF IInv
<1>1. /\ pc = "fixinsert" /\ Held = members \cup {new} /\ ~IsRed(t, parent)
      /\ pc' = "returned" /\ members' = members \cup {new} /\ Held' = Held
  BY DEF InsertDone, Held, Return, Black, Red, IsRed
<1>2. /\ t \in Trees /\ Shape(t, Held, b) /\ Held \in SUBSET Nodes
      /\ b \in [Nodes -> SUBSET Nodes] /\ NULL \notin Nodes
  BY HeldIsShaped
<1>3. /\ node \in Held /\ parent = t.par[node] /\ IsRed(t, node)
      /\ \A n \in Held : Calm(t, n)
      /\ IsRed(t, t.root) => node = t.root
  BY <1>1 DEF Inv, Locals, Colors, Calm
<1>4. t.par[node] = NULL <=> t.root = node
  BY <1>2, <1>3, Hangs
<1>5. /\ t' \in Trees /\ t'.kid = t.kid /\ t'.root = t.root
      /\ \A k \in Nodes :
           /\ t'.par[k] = t.par[k]
           /\ t'.col[k] = IF k = t.root /\ parent = NULL THEN "black" ELSE t.col[k]
  <2>1. CASE parent = NULL
    <3>1. ParentColorIs(t', t, node, NULL, "black")
      <4>1. NULL \in Maybe /\ node \in Nodes /\ t' = SetParentColor(t, node, NULL, "black")
        BY <1>2, <1>3, <2>1 DEF InsertDone, Maybe
      <4> QED BY <1>2, <4>1, SetParentColorIs
    <3> QED BY <1>3, <1>4, <2>1, <3>1 DEF ParentColorIs
  <2>2. CASE parent # NULL
    BY <1>2, <2>2 DEF InsertDone
  <2> QED BY <2>1, <2>2
<1>6. Shape(t', Held', b)
  BY <1>1, <1>2, <1>5, SameLinks
<1>7. \A n \in Held, d \in Dirs : t.kid[n][d] # NULL => t.kid[n][d] \in Nodes /\ t.kid[n][d] # t.root
  BY <1>2 DEF Shape, Paired, Rooted
<1>8. Level(t', Held', h, ShortAt', ShortSide')
  <2>1. ASSUME NEW n \in Held, NEW d \in Dirs
        PROVE  Weight(t', h, t'.kid[n][d]) = Weight(t, h, t.kid[n][d])
    BY <1>5, <1>7 DEF Weight
  <2>2. \A n \in Held, d \in Dirs : h[n] = Weight(t, h, t.kid[n][d]) + 0
    BY <1>1, <1>2 DEF Inv, Level, ShortAt
  <2>3. ShortAt' = NULL
    BY <1>1 DEF ShortAt
  <2> QED BY <1>1, <1>2, <2>1, <2>2, <2>3 DEF Level
<1>9. Colors'
  <2>1. ~IsRed(t', t'.root)
    <3>1. parent # NULL => ~IsRed(t, t.root)
      BY <1>3, <1>4
    <3>2. t.root \in Nodes \cup {NULL}
      BY <1>2 DEF Shape, Rooted
    <3> QED BY <1>2, <1>5, <3>1, <3>2 DEF IsRed
  <2>2. ASSUME NEW n \in Held, IsRed(t', n), NEW d \in Dirs
        PROVE  ~IsRed(t', t'.kid[n][d])
    <3>1. IsRed(t, n)
      BY <1>2, <1>5, <2>2 DEF IsRed
    <3>2. ~IsRed(t, t.kid[n][d])
      BY <1>3, <3>1 DEF Calm
    <3> QED BY <1>2, <1>5, <1>7, <3>2 DEF IsRed
  <2> QED BY <1>1, <2>1, <2>2 DEF Colors, Calm
<1>10. Locals(b)'
  <2>1. Spare'
    BY SMTT(30), <1>1, <1>5 DEF Inv, Locals, Spare, InsertDone, Return
  <2> QED BY <1>1, <1>2, <2>1 DEF Locals
<1> QED BY <1>5, <1>6, <1>8, <1>9, <1>10 DEF Inv

\* Where the insert loop is at work: below g, which is black, is the red parent on side d.
InsertScene(g, d) ==
  /\ g \in Held /\ g = t.par[parent] /\ parent \in Held /\ node \in Held /\ d \in Dirs
  /\ parent = t.kid[g][d] /\ d = Side(g, parent)
  /\ IsRed(t, parent) /\ IsRed(t, node) /\ ~IsRed(t, g) /\ ~IsRed(t, t.root)
  /\ g # parent /\ node # parent /\ node # g
  /\ \E e \in Dirs : t.kid[parent][e] = node
  /\ \A n \in Held \ {parent} : Calm(t, n)
  /\ \A e \in Dirs : t.kid[parent][e] # node => ~IsRed(t, t.kid[parent][e])

\* A red parent has a parent: both are where the insert loop takes them to be.
LEMMA InsertSceneIs ==
  ASSUME NEW b \in Families, NEW h \in Heights, Inv(b, h), pc = "fixinsert", Red(parent)
  PROVE  InsertScene(Grandparent, Side(Grandparent, parent)) /\ NULL \notin Nodes
<1> DEFINE g == t.par[parent]
           d == Side(g, parent)
<1>1. /\ t \in Trees /\ Shape(t, Held, b) /\ Held \in SUBSET Nodes
      /\ b \in [Nodes -> SUBSET Nodes] /\ NULL \notin Nodes
  BY HeldIsShaped
<1>2. /\ node \in Held /\ parent = t.par[node] /\ IsRed(t, node)
      /\ IsRed(t, t.root) => node = t.root
      /\ \A n \in Held \ {parent} : Calm(t, n)
      /\ IsRed(t, parent) => \A e \in Dirs : t.kid[parent][e] # node
                               => ~IsRed(t, t.kid[parent][e])
  BY DEF Inv, Locals, Colors
<1>3. IsRed(t, parent) /\ parent # NULL
  BY DEF Red, IsRed
<1>4. \A n \in Held :
        /\ \A e \in Dirs : t.kid[n][e] # NULL => t.kid[n][e] \in Held /\ t.par[t.kid[n][e]] = n
        /\ t.par[n] = NULL => n = t.root
        /\ t.par[n] # NULL => t.par[n] \in Held /\ \E e \in Dirs : t.kid[t.par[n]][e] = n
  BY <1>1 DEF Shape, Paired
<1>5. parent \in Held /\ \E e \in Dirs : t.kid[parent][e] = node
  BY <1>2, <1>3, <1>4
<1>6. (t.par[node] = NULL <=> t.root = node) /\ t.par[node] # node
  BY <1>1, <1>2, Hangs
<1>7. ~IsRed(t, t.root) /\ node # parent
  BY <1>2, <1>3, <1>6
<1>8. g \in Held /\ \E e \in Dirs : t.kid[g][e] = parent
  <2>1. parent # t.root
    BY <1>3, <1>7
  <2> QED BY <1>4, <1>5, <2>1
<1>9. g # parent
  BY <1>1, <1>5, Hangs
<1>10. parent = t.kid[g][d] /\ d \in Dirs
  BY <1>8 DEF Side, Dirs
<1>11. ~IsRed(t, g)
  BY <1>2, <1>3, <1>8, <1>9, <1>10 DEF Calm
<1>12. node # g
  BY <1>2, <1>11
<1> QED BY <1>1, <1>2, <1>3, <1>5, <1>7, <1>8, <1>9, <1>10, <1>11, <1>12
        DEF InsertScene, Grandparent

\* Turning g red and its children black keeps every count and leads the loop to g.
LEMMA InsertFlipHolds == IInv /\ InsertFlip => IInv'
<1> SUFFICES ASSUME NEW b \in Families, NEW h \in Heights, Inv(b, h), InsertFlip
             PROVE  IInv'
  BY DEF IInv
<1> DEFINE g == Grandparent
           d == Side(g, parent)
           u == t.kid[g][Opp(d)]
<1>1. /\ pc = "fixinsert" /\ Red(parent) /\ Red(u) /\ pc' = pc /\ new' = new /\ members' = members
      /\ Held = members \cup {new} /\ Held' = Held /\ node' = g /\ parent' = t.par[g]
      /\ t' = Flip(t, g, parent, u)
  BY DEF InsertFlip, Held, Uncle
<1>2. /\ t \in Trees /\ Shape(t, Held, b) /\ Held \in SUBSET Nodes
      /\ b \in [Nodes -> SUBSET Nodes] /\ NULL \notin Nodes
  BY HeldIsShaped
<1>3. InsertScene(g, d)
  BY <1>1, InsertSceneIs
<1>4. /\ g \in Held /\ parent \in Held /\ d \in Dirs /\ parent = t.kid[g][d] /\ g # parent
      /\ IsRed(t, parent) /\ ~IsRed(t, g) /\ ~IsRed(t, t.root) /\ g = t.par[parent]
      /\ \A n \in Held \ {parent} : Calm(t, n)
  BY <1>3 DEF InsertScene
<1> HIDE DEF g, d, u
<1>5. \A n \in Held, e \in Dirs :
        t.kid[n][e] # NULL => t.kid[n][e] \in Held /\ t.par[t.kid[n][e]] = n
  BY <1>2 DEF Shape, Paired
<1>6. u \in Held /\ t.par[u] = g /\ u # g /\ IsRed(t, u) /\ u # parent /\ u = t.kid[g][Opp(d)]
  <2>1. u # NULL /\ IsRed(t, u)
    BY <1>1 DEF Red, IsRed
  <2>2. ChildOf(t, Held, b, g, Opp(d), u)
    BY Zenon, <1>2, <1>4, OppIs, ChildIs DEF u
  <2> QED BY Zenon, <1>4, <2>1, <2>2, OppIs DEF ChildOf, u
<1>7. /\ t' \in Trees /\ t'.kid = t.kid /\ t'.root = t.root
      /\ \A k \in Nodes : /\ t'.par[k] = t.par[k]
                          /\ t'.col[k] = IF k = g THEN "red" ELSE IF k \in {parent, u} THEN "black"
                                         ELSE t.col[k]
  <2> DEFINE s1 == SetParentColor(t, u, g, "black")
             s2 == SetParentColor(s1, parent, g, "black")
  <2>1. g \in Maybe /\ u \in Nodes /\ parent \in Nodes /\ g \in Nodes /\ t.par[g] \in Maybe
    BY Zenon, <1>2, <1>4, <1>6 DEF Maybe, Trees
  <2>2. t' = SetParentColor(s2, g, t.par[g], "red")
    <3>1. s2.par[g] = t.par[g]
      <4>1. ParentColorIs(s1, t, u, g, "black")
        BY <1>2, <2>1, SetParentColorIs
      <4>2. s1 \in Trees
        BY <4>1 DEF ParentColorIs
      <4> HIDE DEF s1
      <4>3. ParentColorIs(s2, s1, parent, g, "black")
        BY <2>1, <4>2, SetParentColorIs
      <4> HIDE DEF s2
      <4> QED BY Zenon, <1>4, <1>6, <2>1, <4>1, <4>3 DEF ParentColorIs
    <3> QED BY <1>1, <3>1 DEF Flip
  <2>3. ParentColorIs(s1, t, u, g, "black")
    BY <1>2, <2>1, SetParentColorIs
  <2> HIDE DEF s1
  <2>4. s1 \in Trees
    BY <2>3 DEF ParentColorIs
  <2>5. ParentColorIs(s2, s1, parent, g, "black")
    BY <2>1, <2>4, SetParentColorIs
  <2> HIDE DEF s2
  <2>6. s2 \in Trees
    BY <2>5 DEF ParentColorIs
  <2>7. ParentColorIs(t', s2, g, t.par[g], "red")
    BY <2>1, <2>2, <2>6, SetParentColorIs
  <2>8. t' \in Trees /\ t'.kid = t.kid /\ t'.root = t.root
    BY <2>3, <2>5, <2>7 DEF ParentColorIs
  <2>9. \A k \in Nodes : t'.par[k] = t.par[k]
    <3>1. ASSUME NEW k \in Nodes
          PROVE  /\ s1.par[k] = IF k = u THEN g ELSE t.par[k]
                 /\ s2.par[k] = IF k = parent THEN g ELSE s1.par[k]
                 /\ t'.par[k] = IF k = g THEN t.par[g] ELSE s2.par[k]
      BY <2>3, <2>5, <2>7 DEF ParentColorIs
    <3>2. t.par[u] = g /\ t.par[parent] = g
      BY Zenon, <1>4, <1>6
    <3> QED BY <3>1, <3>2
  <2>10. \A k \in Nodes : t'.col[k] = IF k = g THEN "red" ELSE IF k \in {parent, u} THEN "black"
                                      ELSE t.col[k]
    <3>1. ASSUME NEW k \in Nodes
          PROVE  /\ s1.col[k] = IF k = u THEN "black" ELSE t.col[k]
                 /\ s2.col[k] = IF k = parent THEN "black" ELSE s1.col[k]
                 /\ t'.col[k] = IF k = g THEN "red" ELSE s2.col[k]
      BY <2>3, <2>5, <2>7 DEF ParentColorIs
    <3> QED BY <3>1
  <2> QED BY <2>8, <2>9, <2>10
<1>8. Shape(t', Held', b)
  BY <1>1, <1>2, <1>7, SameLinks
<1>9. PICK k \in Heights : Level(t', Held', k, ShortAt', ShortSide')
  <2> DEFINE k == [h EXCEPT ![g] = h[g] + 1]
  <2>3. h \in [Nodes -> Nat] /\ g \in Nodes
    BY Zenon, <1>2, <1>4 DEF Heights
  <2>1. k \in Heights /\ \A m \in Nodes : k[m] = IF m = g THEN h[g] + 1 ELSE h[m]
    <3>1. h[g] + 1 \in Nat
      BY <2>3
    <3> QED BY <2>3, <3>1 DEF Heights
  <2>2. \A n \in Held, e \in Dirs : h[n] = Weight(t, h, t.kid[n][e]) + 0
    BY <1>1, <1>2 DEF Inv, Level, ShortAt
  <2> HIDE DEF k
  <2>4. ASSUME NEW n \in Held, NEW e \in Dirs
        PROVE  k[n] = Weight(t', k, t'.kid[n][e]) + 0
    <3> DEFINE m == t.kid[n][e]
    <3>1. m # NULL => m \in Held /\ t.par[m] = n /\ m \in Nodes
      BY <1>2, <1>5
    <3>2. h[n] = Weight(t, h, m) + 0 /\ t'.kid[n][e] = m
      BY <1>7, <2>2
    <3>3. n = g => m \in {parent, u}
      BY Zenon, <1>4, <1>6, OppIs
    <3> HIDE DEF m
    <3>4. CASE m = NULL
      <4>1. n # g
        BY Zenon, <1>2, <1>4, <1>6, <3>3, <3>4
      <4> QED BY <1>2, <2>1, <3>2, <3>4, <4>1 DEF Weight
    <3>5. CASE m = g
      <4>1. n # g
        BY Zenon, <1>4, <1>6, <3>3, <3>5
      <4>2. g # NULL /\ t.col[g] = "black" /\ t'.col[g] = "red"
        <5>1. g # NULL /\ t.col[g] # "red"
          BY Zenon, <1>2, <1>4 DEF IsRed
        <5>2. t.col[g] \in {"red", "black"}
          BY <1>2, <2>3 DEF Trees
        <5>3. t'.col[g] = "red"
          BY <1>7, <2>3
        <5> QED BY <5>1, <5>2, <5>3
      <4>3. Weight(t, h, g) = h[g] + 1 /\ Weight(t', k, g) = k[g]
        BY <4>2 DEF Weight
      <4> QED BY Zenon, <1>2, <1>4, <2>1, <2>3, <3>2, <3>5, <4>1, <4>3
    <3>6. CASE m \in {parent, u}
      <4>1. n = g
        BY Zenon, <1>2, <1>4, <1>6, <3>1, <3>6
      <4>2. Weight(t, h, m) = h[m] /\ Weight(t', k, m) = k[m] + 1
        BY Zenon, <1>2, <1>4, <1>6, <1>7, <3>6 DEF Weight, IsRed
      <4>3. k[m] = h[m] /\ k[n] = h[n] + 1 /\ h[m] \in Nat /\ h[n] \in Nat
        BY Zenon, <1>2, <1>4, <1>6, <2>1, <2>3, <3>6, <4>1
      <4> QED BY <3>2, <4>2, <4>3
    <3>7. CASE m # NULL /\ m # g /\ m \notin {parent, u}
      <4>1. n # g
        BY <3>3, <3>7
      <4>2. Weight(t', k, m) = Weight(t, h, m)
        BY <1>7, <2>1, <3>1, <3>7 DEF Weight
      <4> QED BY <1>2, <2>1, <3>2, <4>1, <4>2
    <3> QED BY <3>4, <3>5, <3>6, <3>7
  <2>5. ShortAt' = NULL
    BY <1>1 DEF ShortAt
  <2> QED BY <1>1, <1>2, <2>1, <2>4, <2>5 DEF Level
<1>10. Colors'
  <2>1. IsRed(t', g)
    BY Zenon, <1>2, <1>4, <1>7 DEF IsRed
  <2>2. ASSUME NEW n \in Held, n # g, IsRed(t', n), NEW e \in Dirs, t.kid[n][e] # g
        PROVE  ~IsRed(t', t'.kid[n][e])
    <3>1. IsRed(t, n) /\ n \notin {parent, u}
      BY <1>2, <1>7, <2>2 DEF IsRed
    <3>2. ~IsRed(t, t.kid[n][e])
      BY Zenon, <1>4, <3>1 DEF Calm
    <3>3. t.kid[n][e] # NULL => t.kid[n][e] \in Nodes
      BY <1>2, <1>5
    <3> QED BY <1>7, <2>2, <3>2, <3>3 DEF IsRed
  <2>3. \A n \in Held' \ {parent'} : Calm(t', n)
    <3>1. Calm(t', g)
      <4>1. \A e \in Dirs : t'.kid[g][e] \in {parent, u}
        <5>1. t'.kid = t.kid
          BY <1>7
        <5>2. \A e \in Dirs : t.kid[g][e] \in {parent, u}
          BY Zenon, <1>4, <1>6, OppIs
        <5> QED BY <5>1, <5>2
      <4>2. ~IsRed(t', parent) /\ ~IsRed(t', u)
        BY Zenon, <1>2, <1>4, <1>6, <1>7 DEF IsRed
      <4> QED BY <4>1, <4>2 DEF Calm
    <3>2. ASSUME NEW n \in Held, n # t.par[g], NEW e \in Dirs
          PROVE  t.kid[n][e] # g
      <4>1. g # NULL
        BY Zenon, <1>2, <1>4
      <4>2. t.kid[n][e] = g => t.par[g] = n
        BY <4>1, <1>5
      <4> QED BY <3>2, <4>2
    <3>3. ASSUME NEW n \in Held, n # t.par[g], n # g
          PROVE  Calm(t', n)
      <4>1. ASSUME IsRed(t', n), NEW e \in Dirs
            PROVE  ~IsRed(t', t'.kid[n][e])
        <5>1. t.kid[n][e] # g
          BY <3>2, <3>3
        <5> QED BY <2>2, <3>3, <4>1, <5>1
      <4> QED BY <4>1 DEF Calm
    <3> QED BY <1>1, <3>1, <3>3
  <2>4. IsRed(t', t'.root) => g = t'.root
    <3>1. t.root \in Held \cup {NULL}
      BY <1>2 DEF Shape, Rooted
    <3> QED BY Zenon, <1>2, <1>4, <1>7, <3>1 DEF IsRed
  <2>5. IsRed(t', t.par[g]) => \A e \in Dirs : t'.kid[t.par[g]][e] # g
                                 => ~IsRed(t', t'.kid[t.par[g]][e])
    <3>1. t.par[g] # g /\ (t.par[g] # NULL => t.par[g] \in Held)
      <4>1. t.par[g] # g
        BY Zenon, <1>2, <1>4, Hangs
      <4> QED BY Zenon, <1>2, <1>4, <4>1 DEF Shape, Paired
    <3>2. ASSUME IsRed(t', t.par[g])
          PROVE  t.par[g] \in Held
      BY <3>1, <3>2 DEF IsRed
    <3> QED BY <1>7, <2>2, <3>1, <3>2
  <2> QED BY <1>1, <2>1, <2>3, <2>4, <2>5 DEF Colors
<1>11. Locals(b)'
  <2>1. Spare'
    BY <1>1, <1>7 DEF Inv, Locals, Spare
  <2> QED BY Zenon, <1>1, <1>2, <1>4, <1>7, <2>1 DEF Inv, Locals
<1>12. Inv(b, k)'
  BY <1>7, <1>8, <1>9, <1>10, <1>11 DEF Inv
<1> QED BY <1>12 DEF IInv

\* Nothing changes outside H.
Outside(s, s2, H) ==
  \A k \in Nodes \ H : s2.par[k] = s.par[k] /\ \A d \in Dirs : s2.kid[k][d] = s.kid[k][d]

\* A rotation touches no node outside the tree.
LEMMA RotatedOutside ==
  ASSUME NEW s \in Trees, NEW s2 \in Trees, NEW H \in SUBSET Nodes,
         NEW b \in [Nodes -> SUBSET Nodes], Shape(s, H, b),
         NEW p \in H, NEW x, NEW y, NEW d \in Dirs, x # NULL, Rotated(s, s2, p, x, y, d)
  PROVE  Outside(s, s2, H)
<1>1. x = s.kid[p][d] /\ y = s.kid[x][Opp(d)] /\ Opp(d) \in Dirs
  BY OppIs DEF Rotated
<1>2. NULL \notin Nodes
  BY NodesAssumption
<1>3. x \in H /\ y \in H \cup {NULL} /\ s.par[p] \in H \cup {NULL}
  <2>1. \A k \in H : /\ s.par[k] # NULL => s.par[k] \in H
                     /\ \A e \in Dirs : s.kid[k][e] # NULL => s.kid[k][e] \in H
    BY DEF Shape, Paired
  <2> QED BY <1>1, <2>1
<1>4. ASSUME NEW k \in Nodes \ H
      PROVE  s2.par[k] = s.par[k] /\ \A e \in Dirs : s2.kid[k][e] = s.kid[k][e]
  <2>1. k # p /\ k # x /\ k # y /\ k # s.par[p]
    BY <1>2, <1>3
  <2> QED BY <2>1 DEF Rotated
<1> QED BY <1>4 DEF Outside

\* Nor does a double rotation.
LEMMA DoublyRotatedOutside ==
  ASSUME NEW s \in Trees, NEW s2 \in Trees, NEW H \in SUBSET Nodes,
         NEW b \in [Nodes -> SUBSET Nodes], Shape(s, H, b),
         NEW g \in H, NEW d \in Dirs, NEW x, NEW n, x # NULL, n # NULL,
         DoublyRotated(s, s2, g, x, n, d)
  PROVE  Outside(s, s2, H)
<1> DEFINE u == s.kid[n][d]
           v == s.kid[n][Opp(d)]
<1>1. x = s.kid[g][d] /\ n = s.kid[x][Opp(d)] /\ Opp(d) \in Dirs
  BY OppIs DEF DoublyRotated
<1>2. NULL \notin Nodes
  BY SMTT(30), NodesAssumption
<1>3. x \in H /\ n \in H /\ {u, v} \subseteq H \cup {NULL} /\ s.par[g] \in H \cup {NULL}
  <2>1. \A k \in H : /\ s.par[k] # NULL => s.par[k] \in H
                     /\ \A e \in Dirs : s.kid[k][e] # NULL => s.kid[k][e] \in H
    BY DEF Shape, Paired
  <2>2. x \in H /\ n \in H
    BY <1>1, <2>1
  <2> QED BY <1>1, <2>1, <2>2
<1>4. ASSUME NEW k \in Nodes \ H
      PROVE  s2.par[k] = s.par[k] /\ \A e \in Dirs : s2.kid[k][e] = s.kid[k][e]
  <2>1. k \notin {g, x, n, u, v, s.par[g]}
    BY SMTT(30), <1>2, <1>3
  <2> HIDE DEF u, v
  <2>2. /\ \A e \in Dirs :
             s2.kid[k][e] = IF k = g /\ e = d THEN v
                            ELSE IF k = x /\ e = Opp(d) THEN u
                            ELSE IF k = n THEN IF e = d THEN x ELSE g
                            ELSE IF k = s.par[g] /\ s.kid[k][e] = g THEN n
                            ELSE s.kid[k][e]
        /\ s2.par[k] = IF k = g \/ k = x THEN n ELSE IF k = n THEN s.par[g]
                       ELSE IF k = u THEN x ELSE IF k = v THEN g ELSE s.par[k]
    BY DEF DoublyRotated, u, v
  <2> QED BY <2>1, <2>2
<1> QED BY SMTT(30), <1>4 DEF Outside

\* The rotations that end the insert: x takes the place and the black of g, which turns
\* red, and S are the nodes that get other children.
InsertTurned(s2, g, x, S) ==
  /\ Touched(t, s2, Held, S, g, x) /\ Outside(t, s2, Held) /\ parent \in S
  /\ \A k \in Nodes : s2.col[k] = IF k = g THEN "red" ELSE IF k = x THEN t.col[g] ELSE t.col[k]
  /\ \A n \in S : Calm(s2, n)

\* Any rotation of that kind ends the insert with a red-black tree.
LEMMA InsertTurnedHolds ==
  ASSUME NEW b \in Families, NEW h \in Heights, Inv(b, h), InsertRotate,
         NEW c \in Families, Shape(t', Held, c), t' \in Trees,
         NEW S, NEW x, InsertTurned(t', Grandparent, x, S), x # Grandparent,
         Weight(t', h, x) = Weight(t, h, Grandparent),
         \A n \in S, e \in Dirs : Counted(t', h, n, e, NULL, "left")
  PROVE  IInv'
<1> DEFINE g == Grandparent
<1>1. /\ pc = "fixinsert" /\ Red(parent) /\ pc' = "returned" /\ new' = NULL
      /\ members' = members \cup {new} /\ Held = members \cup {new} /\ Held' = Held
  BY DEF InsertRotate, Held, Return
<1>2. /\ t \in Trees /\ Shape(t, Held, b) /\ Held \in SUBSET Nodes
      /\ b \in [Nodes -> SUBSET Nodes] /\ NULL \notin Nodes
  BY HeldIsShaped
<1>3. /\ g \in Held /\ ~IsRed(t, g) /\ ~IsRed(t, t.root)
      /\ \A n \in Held \ {parent} : Calm(t, n)
  BY <1>1, InsertSceneIs DEF InsertScene
<1> HIDE DEF g
<1>4. /\ Touched(t, t', Held, S, g, x) /\ Outside(t, t', Held) /\ parent \in S
      /\ \A k \in Nodes : t'.col[k] = IF k = g THEN "red" ELSE IF k = x THEN t.col[g] ELSE t.col[k]
      /\ \A n \in S : Calm(t', n)
  BY DEF InsertTurned, g
<1>5. g \in S /\ x \in S /\ S \subseteq Held /\ x # g /\ x \in Nodes /\ g \in Nodes
  BY <1>2, <1>4 DEF Touched, g
<1>6. Level(t', Held', h, ShortAt', ShortSide')
  <2>1. Level(t, Held, h, NULL, ShortSide)
    BY <1>1 DEF Inv, ShortAt
  <2>2. \A k \in Held \ S : t'.col[k] = t.col[k]
    BY <1>2, <1>4, <1>5
  <2>3. Weight(t', h, x) = Weight(t, h, g)
    BY DEF g
  <2>4. Level(t', Held, h, NULL, "left")
    BY <1>2, <1>4, <2>1, <2>2, <2>3, MovedLevels
  <2>5. ShortAt' = NULL /\ ShortSide' = "left"
    BY <1>1 DEF ShortAt, ShortSide
  <2> QED BY <1>1, <2>4, <2>5
<1>7. Colors'
  <2>1. Paired(t, Held) /\ t.root \in Held \cup {NULL}
    BY <1>2 DEF Shape, Rooted
  <2>2. \A k \in Held \ S : t'.col[k] \in {t.col[k], "black"}
    BY <1>2, <1>4, <1>5
  <2>3. t'.col[x] \in {t.col[g], "black"}
    BY <1>4, <1>5
  <2>4. /\ \A n \in Held \ S : Calm(t, n) => Calm(t', n)
        /\ ~IsRed(t, t.root) /\ t.root \in Held \cup {NULL} => ~IsRed(t', t'.root)
    BY <1>2, <1>4, <2>1, <2>2, <2>3, MovedCalm
  <2>5. \A n \in Held : Calm(t', n)
    BY <1>3, <1>4, <2>4
  <2> QED BY <1>1, <1>3, <2>1, <2>4, <2>5 DEF Colors
<1>8. Locals(c)'
  <2>1. Spare'
    BY <1>1, <1>4 DEF Inv, Locals, Spare, Outside
  <2> QED BY <1>1, <1>2, <2>1 DEF Locals
<1>9. Inv(c, h)'
  BY <1>1, <1>6, <1>7, <1>8 DEF Inv
<1> QED BY <1>9 DEF IInv

\* The single and the double rotation of an insert are of that kind.
LEMMA InsertRotateHolds == IInv /\ InsertRotate => IInv'
<1> SUFFICES ASSUME NEW b \in Families, NEW h \in Heights, Inv(b, h), InsertRotate
             PROVE  IInv'
  BY DEF IInv
<1> DEFINE g == Grandparent
           d == Side(g, parent)
           u == t.kid[g][Opp(d)]
           n == t.kid[parent][Opp(d)]
           w == t.kid[parent][d]
<1>1. /\ pc = "fixinsert" /\ Red(parent) /\ ~IsRed(t, u)
      /\ t' = IF node = n THEN RotateAtGrandparent(RotateAtParent(t, parent, node, d), g, node, d)
              ELSE RotateAtGrandparent(t, g, parent, d)
  BY DEF InsertRotate, Uncle, Red, IsRed
<1>2. /\ t \in Trees /\ Shape(t, Held, b) /\ Held \in SUBSET Nodes
      /\ b \in [Nodes -> SUBSET Nodes] /\ NULL \notin Nodes
  BY HeldIsShaped
<1>3. InsertScene(g, d)
  BY <1>1, InsertSceneIs
<1>4. /\ g \in Held /\ parent \in Held /\ node \in Held /\ d \in Dirs /\ parent = t.kid[g][d]
      /\ IsRed(t, parent) /\ IsRed(t, node) /\ ~IsRed(t, g)
      /\ g # parent /\ node # parent /\ node # g
      /\ \E e \in Dirs : t.kid[parent][e] = node
      /\ \A k \in Held \ {parent} : Calm(t, k)
      /\ \A e \in Dirs : t.kid[parent][e] # node => ~IsRed(t, t.kid[parent][e])
  BY <1>3 DEF InsertScene
<1>5. \A k \in Held, e \in Dirs : h[k] = Weight(t, h, t.kid[k][e]) + 0
  BY <1>1, <1>2 DEF Inv, Level, ShortAt
<1>6. h \in [Nodes -> Nat] /\ g \in Nodes /\ parent \in Nodes /\ node \in Nodes /\ parent # NULL
      /\ Opp(d) \in Dirs /\ Opp(d) # d /\ \A e \in Dirs : e = d \/ e = Opp(d)
  BY <1>2, <1>4, OppIs DEF Heights
<1>7. h[g] = h[parent] /\ t.col[g] = "black" /\ Weight(t, h, g) = h[g] + 1
  <2>1. Weight(t, h, parent) = h[parent]
    BY <1>4, <1>6 DEF Weight, IsRed
  <2>2. t.col[g] = "black"
    BY <1>2, <1>4, <1>6 DEF IsRed, Trees
  <2>3. Weight(t, h, g) = h[g] + 1
    BY <1>2, <1>6, <2>2 DEF Weight
  <2> QED BY <1>4, <1>5, <1>6, <2>1, <2>2, <2>3
<1>8. /\ u # parent /\ u # g /\ (u = NULL \/ u \in Nodes)
      /\ w # n \/ w = NULL
      /\ w # parent /\ w # g /\ (w = NULL \/ w \in Nodes)
      /\ n # parent /\ n # g /\ (n = NULL \/ n \in Nodes)
  <2>1. /\ ChildOf(t, Held, b, g, Opp(d), u)
        /\ ChildOf(t, Held, b, parent, d, w) /\ ChildOf(t, Held, b, parent, Opp(d), n)
    BY <1>2, <1>4, <1>6, ChildIs
  <2>2. t.par[parent] = g
    BY <1>3 DEF InsertScene
  <2> QED BY <1>2, <1>4, <1>6, <2>1, <2>2, OppIs DEF ChildOf
<1> HIDE DEF g, d, u, n, w
<1>9. CASE node # n
  <2>1. node = w /\ ~IsRed(t, n)
    BY <1>4, <1>6, <1>9 DEF n, w
  <2>2. Turned(t', t, t, g, parent, n, d, "red")
    BY <1>1, <1>2, <1>4, <1>6, <1>9, <2>1, RotateAtGrandparentIs DEF n
  <2>3. /\ t' \in Trees /\ Rotated(t, t', g, parent, n, d)
        /\ \A k \in Nodes : t'.col[k] = IF k = g THEN "red" ELSE IF k = parent THEN t.col[g] ELSE t.col[k]
    BY <2>2 DEF Turned, Repainted
  <2>4. PICK c \in Families : Shape(t', Held, c)
    <3> DEFINE c == BelowRotated(t, b, g, parent, n, d)
    <3>1. c \in [Nodes -> SUBSET Nodes] /\ Shape(t', Held, c)
      BY <1>2, <1>4, <1>6, <2>3, RotationKeepsShape
    <3> HIDE DEF c
    <3> QED BY <3>1 DEF Families
  <2>5. Touched(t, t', Held, {g, parent}, g, parent) /\ Outside(t, t', Held)
    BY <1>2, <1>4, <1>6, <2>3, RotatedMoves, RotatedOutside
  <2>6. /\ t'.kid[g][d] = n /\ t'.kid[g][Opp(d)] = u
        /\ t'.kid[parent][d] = w /\ t'.kid[parent][Opp(d)] = g
    <3>1. \A k \in Nodes, e \in Dirs :
            t'.kid[k][e] = IF k = g /\ e = d THEN n
                           ELSE IF k = parent /\ e = Opp(d) THEN g
                           ELSE IF k = t.par[g] /\ t.kid[k][e] = g THEN parent
                           ELSE t.kid[k][e]
      BY <2>3 DEF Rotated
    <3> QED BY <1>4, <1>6, <1>8, <3>1 DEF u, w
  <2>7. /\ \A k \in {n, u, w} : Weight(t', h, k) = Weight(t, h, k)
        /\ Weight(t', h, g) = h[g] /\ Weight(t', h, parent) = h[g] + 1
    BY <1>2, <1>4, <1>6, <1>7, <1>8, <2>3 DEF Weight
  <2>8. /\ h[g] = Weight(t, h, u) + 0 /\ h[parent] = Weight(t, h, n) + 0
        /\ h[parent] = Weight(t, h, w) + 0
    BY <1>4, <1>5, <1>6 DEF u, n, w
  <2>9. h[g] \in Nat
    BY <1>6
  <2>10. ASSUME NEW k \in {g, parent}, NEW e \in Dirs
         PROVE  Counted(t', h, k, e, NULL, "left")
    <3>1. k # NULL
      BY <1>2, <1>6
    <3>2. h[k] = Weight(t', h, t'.kid[k][e]) + 0
      <4>1. /\ h[g] + 0 = h[g] /\ h[g] = Weight(t', h, n) + 0 /\ h[g] = Weight(t', h, u) + 0
            /\ h[parent] = Weight(t', h, w) + 0 /\ h[parent] = Weight(t', h, g) + 0
        <5>1. /\ Weight(t', h, n) = Weight(t, h, n) /\ Weight(t', h, u) = Weight(t, h, u)
              /\ Weight(t', h, w) = Weight(t, h, w)
          BY <2>7
        <5>2. h[parent] = h[g] + 0
          BY <1>7, <2>9
        <5> QED BY <1>7, <2>7, <2>8, <5>1, <5>2
      <4>2. CASE k = g
        BY <1>6, <2>6, <4>1, <4>2
      <4>3. CASE k = parent
        BY <1>6, <2>6, <4>1, <4>3
      <4> QED BY <4>2, <4>3
    <3> QED BY <3>1, <3>2 DEF Counted
  <2>11. \A k \in {g, parent} : Calm(t', k)
    <3>1. ~IsRed(t', parent) /\ ~IsRed(t', n) /\ ~IsRed(t', u)
      BY <1>1, <1>4, <1>6, <1>7, <1>8, <2>1, <2>3 DEF IsRed
    <3>2. Calm(t', g)
      BY <1>6, <2>6, <3>1 DEF Calm
    <3>3. Calm(t', parent)
      BY <3>1 DEF Calm
    <3> QED BY SMTT(30), <3>2, <3>3
  <2>12. InsertTurned(t', g, parent, {g, parent})
    BY <2>3, <2>5, <2>11 DEF InsertTurned
  <2>13. Weight(t', h, parent) = Weight(t, h, g)
    BY <1>7, <2>7
  <2> QED BY <1>4, <2>3, <2>4, <2>10, <2>12, <2>13, InsertTurnedHolds DEF g
<1>10. CASE node = n
  <2> DEFINE y == t.kid[node][d]
             v == t.kid[node][Opp(d)]
  <2>1. ~IsRed(t, y) /\ ~IsRed(t, v)
    BY <1>4, <1>6 DEF Calm
  <2>2. TurnedTwice(t', t, t, g, parent, node, d, "red")
    BY Zenon, <1>1, <1>2, <1>4, <1>6, <1>10, <2>1, RotateTwiceIs DEF n
  <2>3. /\ t' \in Trees /\ DoublyRotated(t, t', g, parent, node, d)
        /\ \A k \in Nodes : t'.col[k] = IF k = g THEN "red" ELSE IF k = node THEN t.col[g] ELSE t.col[k]
    BY <2>2 DEF TurnedTwice, Repainted
  <2>4. PICK c \in Families : Shape(t', Held, c)
    BY <1>2, <1>4, <1>6, <2>3, DoubleRotationKeepsShape DEF Families
  <2>5. Touched(t, t', Held, {g, parent, node}, g, node) /\ Outside(t, t', Held)
    BY SMTT(30), <1>2, <1>4, <1>6, <2>3, DoublyRotatedMoves, DoublyRotatedOutside
  <2>6. Apart(t, Held, g, parent, node, d)
    BY SMTT(30), <1>2, <1>4, <1>6, <1>10, InnerChild DEF n
  <2>7. /\ (y = NULL \/ y \in Nodes \ {g, parent, node}) /\ (v = NULL \/ v \in Nodes \ {g, parent, node})
        /\ t.par[g] \notin {g, parent, node} /\ u \notin {parent, node, g} /\ w \notin {node, g, parent}
    BY <1>2, <2>6 DEF Apart, u, w
  <2>8. /\ t'.kid[g][d] = v /\ t'.kid[g][Opp(d)] = u
        /\ t'.kid[parent][d] = w /\ t'.kid[parent][Opp(d)] = y
        /\ t'.kid[node][d] = parent /\ t'.kid[node][Opp(d)] = g
    <3>1. \A k \in Nodes, e \in Dirs :
          t'.kid[k][e] = IF k = g /\ e = d THEN v
                        ELSE IF k = parent /\ e = Opp(d) THEN y
                        ELSE IF k = node THEN IF e = d THEN parent ELSE g
                        ELSE IF k = t.par[g] /\ t.kid[k][e] = g THEN node
                        ELSE t.kid[k][e]
      BY SMTT(30), <2>3 DEF DoublyRotated
    <3> HIDE DEF y, v
    <3> QED BY SMTT(30), <1>4, <1>6, <2>7, <3>1 DEF u, w
  <2>9. /\ h[g] = Weight(t, h, u) + 0 /\ h[parent] = Weight(t, h, w) + 0
        /\ h[parent] = Weight(t, h, node) + 0
        /\ h[node] = Weight(t, h, y) + 0 /\ h[node] = Weight(t, h, v) + 0
    BY <1>4, <1>5, <1>6, <1>10 DEF u, w, n
  <2> HIDE DEF y, v
  <2>10. Weight(t, h, node) = h[node]
    BY <1>2, <1>4, <1>6 DEF Weight, IsRed
  <2>11. h[g] \in Nat /\ h[node] \in Nat /\ h[parent] = h[node] /\ h[g] = h[node]
    <3>1. h[g] \in Nat /\ h[node] \in Nat /\ h[parent] \in Nat
      BY <1>6
    <3>2. h[parent] = h[node] + 0
      BY <2>9, <2>10
    <3> QED BY <1>7, <3>1, <3>2
  <2>12. /\ \A k \in {y, v, u, w} : Weight(t', h, k) = Weight(t, h, k)
         /\ Weight(t', h, g) = h[g] /\ Weight(t', h, node) = h[node] + 1
         /\ Weight(t', h, parent) = h[parent]
    <3>1. t'.col[g] = "red" /\ t'.col[node] = "black" /\ t'.col[parent] = "red"
      BY <1>4, <1>6, <1>7, <2>3 DEF IsRed
    <3>2. \A k \in {y, v, u, w} : k = NULL \/ (k \in Nodes /\ t'.col[k] = t.col[k])
      BY <1>8, <2>3, <2>7
    <3> QED BY <1>2, <1>4, <1>6, <3>1, <3>2 DEF Weight
  <2>13. ASSUME NEW k \in {g, parent, node}, NEW e \in Dirs
         PROVE  Counted(t', h, k, e, NULL, "left")
    <3>1. k # NULL
      BY <1>2, <1>6
    <3>2. h[k] = Weight(t', h, t'.kid[k][e]) + 0
      <4>1. /\ h[g] = Weight(t', h, v) + 0 /\ h[g] = Weight(t', h, u) + 0
            /\ h[parent] = Weight(t', h, w) + 0 /\ h[parent] = Weight(t', h, y) + 0
            /\ h[node] = Weight(t', h, parent) + 0 /\ h[node] = Weight(t', h, g) + 0
        BY <2>9, <2>11, <2>12
      <4>2. CASE k = g
        BY <1>6, <2>8, <4>1, <4>2
      <4>3. CASE k = parent
        BY <1>6, <2>8, <4>1, <4>3
      <4>4. CASE k = node
        BY <1>6, <2>8, <4>1, <4>4
      <4> QED BY <4>2, <4>3, <4>4
    <3> QED BY <3>1, <3>2 DEF Counted
  <2>14. \A k \in {g, parent, node} : Calm(t', k)
    <3>1. ~IsRed(t', node) /\ ~IsRed(t', y) /\ ~IsRed(t', v) /\ ~IsRed(t', u) /\ ~IsRed(t', w)
      <4>1. ~IsRed(t, w)
        BY <1>4, <1>6, <2>7 DEF w
      <4> QED BY <1>1, <1>4, <1>6, <1>7, <1>8, <2>1, <2>3, <2>7, <4>1 DEF IsRed, y, v
    <3>2. Calm(t', g) /\ Calm(t', parent)
      BY <1>6, <2>8, <3>1 DEF Calm
    <3>3. Calm(t', node)
      BY <3>1 DEF Calm
    <3> QED BY SMTT(30), <3>2, <3>3
  <2>15. InsertTurned(t', g, node, {g, parent, node})
    BY <2>3, <2>5, <2>14 DEF InsertTurned
  <2>16. Weight(t', h, node) = Weight(t, h, g)
    BY <1>7, <2>11, <2>12
  <2> QED BY <1>4, <2>3, <2>4, <2>13, <2>15, <2>16, InsertTurnedHolds DEF g
<1> QED BY <1>9, <1>10

-----------------------------------------------------------------------------
(***************************************************************************)
(* The erase.                                                              *)
(***************************************************************************)
\* A red-black tree of the nodes H, but that paths on side e of p lack a black node.
Whole(s, H, b, h, p, e) ==
  /\ s \in Trees /\ Shape(s, H, b) /\ Level(s, H, h, p, e)
  /\ ~IsRed(s, s.root) /\ \A n \in H : Calm(s, n)

\* What matters of a tree is its root and, of its nodes, links and colors.
LEMMA SameWhole ==
  ASSUME NEW s \in Trees, NEW s2 \in Trees, NEW H \in SUBSET Nodes, NEW b \in Families,
         NEW h, NEW p, NEW e, Whole(s, H, b, h, p, e), s2.root = s.root,
         \A k \in H : /\ s2.par[k] = s.par[k] /\ s2.col[k] = s.col[k]
                      /\ \A d \in Dirs : s2.kid[k][d] = s.kid[k][d]
  PROVE  Whole(s2, H, b, h, p, e)
<1>1. Shape(s, H, b) /\ b \in [Nodes -> SUBSET Nodes]
  BY DEF Whole, Families
<1>2. Shape(s2, H, b)
  BY <1>1, SameLinks
<1>3. \A n \in H, d \in Dirs : s.kid[n][d] # NULL => s.kid[n][d] \in H
  BY <1>1 DEF Shape, Paired
<1>4. Level(s2, H, h, p, e)
  <2>1. \A n \in H, d \in Dirs : Weight(s2, h, s2.kid[n][d]) = Weight(s, h, s.kid[n][d])
    BY <1>3 DEF Weight
  <2>2. \A n \in H, d \in Dirs :
          h[n] = Weight(s, h, s.kid[n][d]) + (IF n = p /\ d = e THEN 1 ELSE 0)
    BY DEF Whole, Level
  <2> QED BY <2>1, <2>2 DEF Level
<1>5. ~IsRed(s2, s2.root)
  <2>1. s.root \in H \cup {NULL}
    BY <1>1 DEF Shape, Rooted
  <2>2. ~IsRed(s, s.root)
    BY DEF Whole
  <2> QED BY <2>1, <2>2 DEF IsRed
<1>6. ASSUME NEW n \in H
      PROVE  Calm(s2, n)
  <2>1. Calm(s, n)
    BY DEF Whole
  <2> QED BY <1>3, <2>1 DEF Calm, IsRed
<1> QED BY <1>2, <1>4, <1>5, <1>6 DEF Whole

\* Freed forgets the links of n.
FreedFrom(r, s, n) ==
  /\ r \in Trees /\ r.root = s.root
  /\ r.par[n] = NULL /\ \A d \in Dirs : r.kid[n][d] = NULL
  /\ \A k \in Nodes \ {n} : /\ r.par[k] = s.par[k] /\ r.col[k] = s.col[k]
                            /\ \A d \in Dirs : r.kid[k][d] = s.kid[k][d]

\* Freed clears one node.
LEMMA FreedIs ==
  ASSUME NEW s \in Trees, NEW n \in Nodes
  PROVE  FreedFrom(Freed(s, n), s, n)
<1> DEFINE r == Freed(s, n)
<1>1. NoKids \in [Dirs -> Maybe] /\ \A d \in Dirs : NoKids[d] = NULL
  BY DEF NoKids, Maybe
<1>2. /\ r \in Trees /\ r.root = s.root /\ r.kid[n] = NoKids /\ r.par[n] = NULL
      /\ \A k \in Nodes \ {n} : /\ r.par[k] = s.par[k] /\ r.col[k] = s.col[k]
                                /\ r.kid[k] = s.kid[k]
  BY <1>1 DEF Freed, Trees, Maybe
<1> HIDE DEF r
<1>3. FreedFrom(r, s, n)
  BY <1>1, <1>2 DEF FreedFrom
<1> QED BY <1>3 DEF r

\* The nodes outside H have no links.
Bare(s, H) ==
  \A k \in Nodes \ H : s.par[k] = NULL /\ \A d \in Dirs : s.kid[k][d] = NULL

\* The end of an erase: what is left is whole, and n is freed.
LEMMA FreedHolds ==
  ASSUME NEW s \in Trees, NEW n \in members, members \subseteq Nodes, NEW b \in Families,
         NEW h \in Heights, NEW e, Whole(s, members \ {n}, b, h, NULL, e), Bare(s, members),
         t' = Freed(s, n), members' = members \ {n}, pc' = "returned", new' = NULL
  PROVE  IInv'
<1> DEFINE H == members \ {n}
<1>1. n \in Nodes /\ H \in SUBSET Nodes /\ NULL \notin Nodes /\ Held' = H
  BY NodesAssumption DEF Held
<1>2. FreedFrom(t', s, n)
  BY <1>1, FreedIs
<1>3. t' \in Trees
  BY <1>2 DEF FreedFrom
<1>4. Whole(t', H, b, h, NULL, e)
  <2>1. /\ t'.root = s.root
        /\ \A k \in H : /\ t'.par[k] = s.par[k] /\ t'.col[k] = s.col[k]
                        /\ \A d \in Dirs : t'.kid[k][d] = s.kid[k][d]
    BY <1>1, <1>2 DEF FreedFrom
  <2> QED BY <1>1, <1>3, <2>1, SameWhole
<1>5. Level(t', H, h, NULL, "left")
  BY <1>1, <1>4 DEF Whole, Level
<1>6. Spare'
  BY <1>1, <1>2 DEF Spare, FreedFrom, Bare
<1> HIDE DEF H
<1>7. ShortAt' = NULL /\ ShortSide' = "left"
  BY DEF ShortAt, ShortSide
<1>8. Inv(b, h)'
  <2>1. t' \in Trees /\ Shape(t', H, b) /\ Level(t', H, h, NULL, "left")
    BY <1>4, <1>5 DEF Whole
  <2>2. Colors'
    BY <1>1, <1>4 DEF Whole, Colors
  <2>3. Locals(b)'
    BY <1>1, <1>6 DEF Locals, H
  <2> QED BY <1>1, <1>7, <2>1, <2>2, <2>3 DEF Inv
<1> QED BY <1>8 DEF IInv

\* On which side of p the child m is.
LEMMA SideIs ==
  ASSUME NEW p, NEW m, NEW e \in Dirs, t.kid[p][e] = m, t.kid[p][Opp(e)] # m
  PROVE  Side(p, m) = e
BY DEF Side, Opp, Dirs

\* Once n is out, the erase is over or the repair starts where a count is short.
LEMMA UnlinkedHolds ==
  ASSUME NEW n \in members, members \subseteq Nodes, NEW s \in Trees,
         NEW b \in Families, NEW h \in Heights, NEW p, NEW e \in Dirs,
         Whole(s, members \ {n}, b, h, p, e), Bare(s, members),
         p # NULL => p \in members \ {n} /\ s.kid[p][e] = NULL,
         Unlinked(s, p, n)
  PROVE  IInv'
<1> DEFINE H == members \ {n}
<1>1. CASE p = NULL
  BY <1>1, FreedHolds DEF Unlinked, Return
<1>2. CASE p # NULL
  <2>1. /\ t' = s /\ pc' = "fixerase" /\ node' = NULL /\ parent' = p /\ new' = n
        /\ members' = members
    BY <1>2 DEF Unlinked
  <2>2. Held' = H /\ H \in SUBSET Nodes /\ NULL \notin Nodes /\ p \in H /\ s.kid[p][e] = NULL
    BY <1>2, <2>1, NodesAssumption DEF Held
  <2>3. s.kid[p][Opp(e)] # NULL
    <3>1. h[p] = Weight(s, h, s.kid[p][e]) + 1 /\ h[p] = Weight(s, h, s.kid[p][Opp(e)]) + 0
      BY <2>2, OppIs DEF Whole, Level
    <3>2. Weight(s, h, NULL) = 0
      BY DEF Weight
    <3> QED BY <2>2, <3>1, <3>2
  <2>4. ShortAt' = p /\ ShortSide' = e
    <3>1. t'.kid[p]["right"] # NULL <=> e = "left"
      BY <2>1, <2>2, <2>3 DEF Dirs, Opp
    <3> QED BY <2>1, <3>1 DEF ShortAt, ShortSide, Side, Dirs
  <2>5. Colors'
    BY <2>1, <2>2 DEF Whole, Colors, IsRed
  <2>6. Spare'
    BY <2>1, <2>2 DEF Spare, Bare
  <2>7. Locals(b)'
    <3>1. t'.kid[parent'][Side(parent, node)'] = node'
      BY <2>1, <2>2, <2>4 DEF ShortSide
    <3> QED BY <2>1, <2>2, <2>6, <3>1 DEF Locals
  <2>8. t' \in Trees /\ Shape(t', H, b) /\ Level(t', H, h, p, e)
    BY <2>1 DEF Whole
  <2>9. Inv(b, h)'
    BY <2>2, <2>4, <2>5, <2>7, <2>8 DEF Inv
  <2> QED BY <2>9 DEF IInv
<1> QED BY <1>1, <1>2

\* The heights of a node that hangs in a tree where nothing is short.
LEMMA Even ==
  ASSUME NEW s, NEW H, NEW b, NEW h \in Heights, NEW e, Whole(s, H, b, h, NULL, e),
         H \in SUBSET Nodes, NEW n \in H, NEW d \in Dirs
  PROVE  h[n] = Weight(s, h, s.kid[n][d]) /\ h[n] \in Nat
<1>1. h[n] = Weight(s, h, s.kid[n][d]) + 0 /\ h[n] \in Nat /\ n # NULL
  BY NodesAssumption DEF Whole, Level, Heights
<1>2. \A m \in Maybe : Weight(s, h, m) \in Nat
  BY DEF Weight, Maybe, Heights
<1>3. s.kid[n][d] \in Maybe
  BY DEF Whole, Trees
<1> QED BY <1>1, <1>2, <1>3

\* A node that has one child is black, and the child is red.
LEMMA OneChild ==
  ASSUME NEW s, NEW H \in SUBSET Nodes, NEW b \in Families, NEW h \in Heights, NEW e,
         Whole(s, H, b, h, NULL, e), NEW n \in H, NEW d \in Dirs,
         s.kid[n][d] # NULL, s.kid[n][Opp(d)] = NULL
  PROVE  s.col[n] = "black" /\ s.col[s.kid[n][d]] = "red" /\ h[n] = 0
<1> DEFINE m == s.kid[n][d]
<1>1. Weight(s, h, s.kid[n][Opp(d)]) = 0
  BY DEF Weight
<1>2. h[n] = 0
  BY <1>1, OppIs, Even
<1>3. Weight(s, h, m) = 0
  BY <1>2, Even
<1>4. m \in H
  BY DEF Whole, Shape, Paired
<1>5. m \in Nodes /\ h[m] \in Nat /\ s.col[m] \in {"red", "black"} /\ s.col[n] \in {"red", "black"}
  BY <1>4 DEF Heights, Whole, Trees
<1>6. s.col[m] = "red"
  BY <1>3, <1>5 DEF Weight
<1>7. s.col[n] = "black"
  <2>1. IsRed(s, n) => ~IsRed(s, m)
    BY DEF Whole, Calm
  <2>2. n # NULL
    BY NodesAssumption
  <2> QED BY <1>5, <1>6, <2>1, <2>2 DEF IsRed
<1> QED BY <1>2, <1>6, <1>7

\* Where the count lacks one when n is gone: n was black and had no child to turn black.
Lacking(s, n, m) == IF m = NULL /\ s.col[n] = "black" THEN s.par[n] ELSE NULL

\* Taking out a node with at most one child leaves a red-black tree, short there at most.
LEMMA RemovalKeepsWhole ==
  ASSUME NEW s \in Trees, NEW s2 \in Trees, NEW H \in SUBSET Nodes, NEW b \in Families,
         NEW h \in Heights, NEW f, Whole(s, H, b, h, NULL, f),
         NEW n \in H, NEW m, Removed(s, s2, n, m), NEW e \in Dirs,
         s.par[n] # NULL => s.kid[s.par[n]][e] = n,
         \A k \in H \ {n} : s2.col[k] = IF k = m THEN "black" ELSE s.col[k]
  PROVE  /\ Without(b, n) \in Families
         /\ Whole(s2, H \ {n}, Without(b, n), h, Lacking(s, n, m), e)
<1> DEFINE q == s.par[n]
           c == Without(b, n)
           G == H \ {n}
<1>1. Shape(s, H, b) /\ b \in [Nodes -> SUBSET Nodes] /\ NULL \notin Nodes
  BY NodesAssumption DEF Whole, Families
<1>2. c \in Families /\ Shape(s2, G, c)
  BY <1>1, RemovalKeepsShape DEF Families
<1>3. PICK d \in Dirs : s.kid[n][d] = m /\ s.kid[n][Opp(d)] = NULL
  BY DEF Removed
<1>4. \A k \in H : /\ \A j \in Dirs : s.kid[k][j] # NULL => s.kid[k][j] \in H /\ s.par[s.kid[k][j]] = k
                   /\ s.par[k] # NULL => s.par[k] \in H
  BY <1>1 DEF Shape, Paired
<1>5. m # NULL => m \in G /\ s.par[m] = n
  <2>1. ChildOf(s, H, b, n, d, m)
    BY <1>1, <1>3, ChildIs
  <2> QED BY <2>1 DEF ChildOf
<1>6. q # NULL => q \in G /\ q \in Nodes
  BY <1>1, <1>4, Hangs
<1>7. m # NULL => s.col[n] = "black" /\ s.col[m] = "red" /\ h[n] = 0
  BY <1>3, OneChild
<1>8. m = NULL => h[n] = 0
  <2>1. m = NULL => Weight(s, h, s.kid[n][d]) = 0
    BY <1>3 DEF Weight
  <2> QED BY <2>1, Even
<1>9. Weight(s, h, n) = IF s.col[n] = "black" THEN 1 ELSE 0
  BY <1>1, <1>7, <1>8 DEF Weight
<1>10. Weight(s2, h, m) = IF m # NULL THEN 1 ELSE 0
  <2>1. m # NULL => h[m] = 0
    <3>1. m # NULL => Weight(s, h, m) = h[n]
      BY SMTT(30), <1>3, Even
    <3> QED BY <1>7, <3>1 DEF Weight
  <2> QED BY <1>5, <2>1 DEF Weight
<1>11. ASSUME NEW k \in G, NEW j \in Dirs
       PROVE  s2.kid[k][j] = IF k = q /\ s.kid[k][j] = n THEN m ELSE s.kid[k][j]
  BY <1>11 DEF Removed
<1>12. ASSUME NEW k \in G, NEW j \in Dirs, s.kid[k][j] # n
       PROVE  s2.kid[k][j] = s.kid[k][j] /\ (s.kid[k][j] # NULL => s.kid[k][j] \in G \ {m})
  <2>1. s.kid[k][j] # NULL => s.kid[k][j] # m
    BY <1>4, <1>5, <1>12
  <2> QED BY <1>4, <1>11, <1>12, <2>1
<1>13. ASSUME NEW k \in G, NEW j \in Dirs, s.kid[k][j] = n
       PROVE  s2.kid[k][j] = m /\ k = q /\ q # NULL /\ j = e
  <2>1. k = q
    BY <1>1, <1>4, <1>13
  <2>2. k # NULL /\ s.kid[q][e] = n
    BY <1>1, <2>1
  <2>3. s.kid[q]["left"] # s.kid[q]["right"]
    BY <1>1, <2>1, <2>2, Hangs DEF HangsBelow
  <2> QED BY <1>11, <1>13, <2>1, <2>2, <2>3 DEF Dirs
<1> DEFINE p == Lacking(s, n, m)
<1>14. ASSUME NEW k \in G, NEW j \in Dirs
       PROVE  h[k] = Weight(s2, h, s2.kid[k][j]) + (IF k = p /\ j = e THEN 1 ELSE 0)
  <2>1. h[k] = Weight(s, h, s.kid[k][j]) /\ h[k] \in Nat /\ k # NULL
    BY SMTT(30), <1>1, Even
  <2>2. CASE s.kid[k][j] = n
    BY <1>7, <1>9, <1>10, <1>13, <2>1, <2>2 DEF Lacking
  <2>3. CASE s.kid[k][j] # n
    <3>1. Weight(s2, h, s2.kid[k][j]) = Weight(s, h, s.kid[k][j])
      BY <1>12, <2>3 DEF Weight
    <3>2. ~(k = p /\ j = e)
      <4>1. k = p => k = q
        BY <2>1 DEF Lacking
      <4> QED BY <2>1, <2>3, <4>1
    <3> QED BY <2>1, <3>1, <3>2
  <2> QED BY <2>2, <2>3
<1>15. ~IsRed(s2, m)
  BY <1>5 DEF IsRed
<1>16. ~IsRed(s2, s2.root)
  <2>1. s2.root = (IF s.root = n THEN m ELSE s.root) /\ s.root \in H \cup {NULL} /\ ~IsRed(s, s.root)
    BY <1>1 DEF Removed, Whole, Shape, Rooted
  <2> QED BY <1>1, <1>15, <2>1 DEF IsRed
<1>17. ASSUME NEW k \in G
       PROVE  Calm(s2, k)
  <2>1. ASSUME IsRed(s2, k), NEW j \in Dirs
        PROVE  ~IsRed(s2, s2.kid[k][j])
    <3>1. IsRed(s, k)
      BY <2>1 DEF IsRed
    <3>2. ~IsRed(s, s.kid[k][j])
      BY <3>1 DEF Whole, Calm
    <3> QED BY <1>12, <1>13, <1>15, <3>2 DEF IsRed
  <2> QED BY <2>1 DEF Calm
<1> HIDE DEF p, c
<1>18. Level(s2, G, h, p, e)
  BY <1>14 DEF Level
<1>19. Whole(s2, G, c, h, p, e)
  BY <1>2, <1>16, <1>17, <1>18 DEF Whole
<1> QED BY <1>2, <1>19 DEF c, p

\* Between operations the tree is whole.
LEMMA IdleIsWhole ==
  ASSUME NEW b \in Families, NEW h \in Heights, Inv(b, h), pc = "idle"
  PROVE  /\ Whole(t, members, b, h, NULL, ShortSide) /\ Bare(t, members)
         /\ t \in Trees /\ members \in SUBSET Nodes /\ NULL \notin Nodes
         /\ b \in [Nodes -> SUBSET Nodes] /\ Shape(t, members, b)
<1>1. Held = members /\ members \in SUBSET Nodes /\ NULL \notin Nodes /\ new = NULL
  BY NodesAssumption DEF Held, Inv, Locals, Spare
<1>2. Whole(t, members, b, h, NULL, ShortSide)
  BY <1>1 DEF Inv, Whole, Colors, ShortAt
<1>3. Bare(t, members)
  BY <1>1 DEF Inv, Locals, Spare, Bare
<1> QED BY <1>1, <1>2, <1>3 DEF Whole, Families

\* What an erase that unlinks n itself, whose child is m, leaves.
Bypassed(s, s2, n, m) ==
  /\ s2 \in Trees
  /\ \A k \in Nodes, e \in Dirs :
       s2.kid[k][e] = IF k = s.par[n] /\ s.kid[k][e] = n THEN m ELSE s.kid[k][e]
  /\ \A k \in Nodes : s2.par[k] = IF k = m THEN s.par[n] ELSE s.par[k]
  /\ \A k \in Nodes : s2.col[k] = IF k = m THEN s.col[n] ELSE s.col[k]
  /\ s2.root = IF s.root = n THEN m ELSE s.root

\* An erase whose node has at most one child keeps the invariant.
LEMMA BypassHolds ==
  ASSUME NEW b \in Families, NEW h \in Heights, Inv(b, h), pc = "idle", NEW n \in members,
         NEW s, NEW m, NEW d \in Dirs, m = t.kid[n][d], t.kid[n][Opp(d)] = NULL,
         Bypassed(t, s, n, m), Unlinked(s, Lacking(t, n, m), n)
  PROVE  IInv'
<1> DEFINE H == members
           c == Without(b, n)
           q == t.par[n]
<1>1. /\ Whole(t, H, b, h, NULL, ShortSide) /\ Bare(t, H)
      /\ t \in Trees /\ H \in SUBSET Nodes /\ NULL \notin Nodes
      /\ b \in [Nodes -> SUBSET Nodes] /\ Shape(t, H, b)
  BY IdleIsWhole
<1>2. s \in Trees /\ Removed(t, s, n, m)
  BY DEF Bypassed, Removed
<1>3. \A k \in H \ {n} : s.col[k] = IF k = m THEN "black" ELSE t.col[k]
  <2>1. m # NULL => t.col[n] = "black"
    BY <1>1, OneChild
  <2>2. \A k \in H \ {n} : k # NULL
    BY <1>1
  <2> QED BY <1>1, <2>1, <2>2 DEF Bypassed
<1>4. PICK e \in Dirs : q # NULL => t.kid[q][e] = n
  BY <1>1, OppIs DEF Shape, Paired
<1>5. c \in Families /\ Whole(s, H \ {n}, c, h, Lacking(t, n, m), e)
  BY <1>1, <1>2, <1>3, <1>4, RemovalKeepsWhole
<1>6. /\ m # NULL => m \in H
      /\ q # NULL => q \in H /\ q # n /\ s.kid[q][e] = m
  <2>1. /\ m # NULL => m \in H
        /\ q # NULL => q \in H
    BY <1>1 DEF Shape, Paired
  <2>2. q # n
    BY <1>1, Hangs
  <2> QED BY <1>1, <1>4, <2>1, <2>2 DEF Bypassed
<1>7. Bare(s, H)
  <2>1. ASSUME NEW k \in Nodes \ H
        PROVE  k # m /\ k # q
    BY <1>1, <1>6
  <2> QED BY <1>1, <2>1 DEF Bare, Bypassed
<1>8. Lacking(t, n, m) # NULL => Lacking(t, n, m) = q /\ m = NULL
  BY DEF Lacking
<1> HIDE DEF c, q
<1>9. Lacking(t, n, m) # NULL => Lacking(t, n, m) \in H \ {n} /\ s.kid[Lacking(t, n, m)][e] = NULL
  BY <1>6, <1>8
<1> QED BY <1>1, <1>2, <1>5, <1>7, <1>9, UnlinkedHolds

\* Case 1, with a right child or none.
LEMMA EraseNoLeftHolds ==
  ASSUME NEW n \in Nodes, IInv, EraseNoLeft(n)
  PROVE  IInv'
<1> SUFFICES ASSUME NEW b \in Families, NEW h \in Heights, Inv(b, h) PROVE IInv'
  BY DEF IInv
<1> DEFINE m == t.kid[n]["right"]
           p == t.par[n]
           s1 == ChangeChild(t, n, m, p)
           s == IF m # NULL THEN SetParentColor(s1, m, p, t.col[n]) ELSE s1
<1>1. /\ pc = "idle" /\ n \in members /\ t.kid[n][Opp("right")] = NULL
      /\ Unlinked(s, Lacking(t, n, m), n)
  <2>1. /\ pc = "idle" /\ n \in members /\ t.kid[n]["left"] = NULL
        /\ IF m # NULL THEN Unlinked(SetParentColor(s1, m, p, t.col[n]), NULL, n)
           ELSE Unlinked(s1, Repair(n, p), n)
    BY DEF EraseNoLeft
  <2>2. n # NULL /\ t.col[n] \in {"red", "black"}
    BY <2>1, IdleIsWhole DEF Trees
  <2>3. Lacking(t, n, m) = IF m # NULL THEN NULL ELSE Repair(n, p)
    BY <2>2 DEF Lacking, Repair, Black, Red
  <2> HIDE DEF m, p, s1
  <2> QED BY <2>1, <2>3 DEF Opp
<1>2. /\ t \in Trees /\ n \in Nodes /\ NULL \notin Nodes /\ HangsBelow(t, n, p)
      /\ (p = NULL <=> t.root = n)
      /\ m \in Maybe /\ p \in Maybe /\ t.col[n] \in {"red", "black"} /\ "right" \in Dirs
  <2>1. /\ n \in members /\ t \in Trees /\ members \in SUBSET Nodes /\ NULL \notin Nodes
        /\ b \in [Nodes -> SUBSET Nodes] /\ Shape(t, members, b)
    BY <1>1, IdleIsWhole
  <2>2. HangsBelow(t, n, p) /\ (p = NULL <=> t.root = n)
    BY <2>1, Hangs
  <2> QED BY <2>1, <2>2, OppIs DEF Trees
<1>3. ChildIsChanged(s1, t, n, m, p)
  BY <1>2, ChangeChildIs
<1> HIDE DEF s1
<1>4. s1 \in Trees
  BY <1>3 DEF ChildIsChanged
<1>5. m # NULL => ParentColorIs(s, s1, m, p, t.col[n])
  BY <1>2, <1>4, SetParentColorIs DEF Maybe
<1>6. Bypassed(t, s, n, m)
  <2>1. CASE m = NULL
    BY <1>2, <1>3, <2>1 DEF ChildIsChanged, Bypassed
  <2>2. CASE m # NULL
    <3> HIDE DEF s
    <3> QED BY <1>2, <1>3, <1>5, <2>2 DEF ChildIsChanged, ParentColorIs, Bypassed
  <2> QED BY <2>1, <2>2
<1> HIDE DEF s
<1> QED BY <1>1, <1>2, <1>6, BypassHolds

\* Case 1, with a left child only.
LEMMA EraseNoRightHolds ==
  ASSUME NEW n \in Nodes, IInv, EraseNoRight(n)
  PROVE  IInv'
<1> SUFFICES ASSUME NEW b \in Families, NEW h \in Heights, Inv(b, h) PROVE IInv'
  BY DEF IInv
<1> DEFINE m == t.kid[n]["left"]
           p == t.par[n]
           s1 == SetParentColor(t, m, p, t.col[n])
           s == ChangeChild(s1, n, m, p)
<1>1. /\ pc = "idle" /\ n \in members /\ m # NULL /\ t.kid[n][Opp("left")] = NULL
      /\ Unlinked(s, Lacking(t, n, m), n)
  BY DEF EraseNoRight, Lacking, Opp
<1>2. /\ t \in Trees /\ n \in Nodes /\ NULL \notin Nodes /\ HangsBelow(t, n, p)
      /\ (p = NULL <=> t.root = n)
      /\ m \in Maybe /\ p \in Maybe /\ t.col[n] \in {"red", "black"} /\ "left" \in Dirs
  BY <1>1, IdleIsWhole, Hangs, OppIs DEF Trees
<1>3. ParentColorIs(s1, t, m, p, t.col[n])
  BY <1>1, <1>2, SetParentColorIs DEF Maybe
<1> HIDE DEF s1
<1>4. s1 \in Trees /\ HangsBelow(s1, n, p)
  BY <1>2, <1>3 DEF ParentColorIs, HangsBelow
<1>5. ChildIsChanged(s, s1, n, m, p)
  BY <1>2, <1>4, ChangeChildIs
<1> HIDE DEF s
<1>6. Bypassed(t, s, n, m)
  BY <1>2, <1>3, <1>5 DEF ChildIsChanged, ParentColorIs, Bypassed
<1> QED BY <1>1, <1>2, <1>6, BypassHolds

\* The tree is whole with some sets and counts.
SomehowWhole(s, H, p, e) ==
  \E b \in Families, h \in Heights : Whole(s, H, b, h, p, e)

\* Putting x in the place of n, with its color, keeps a tree whole.
LEMMA SubstitutionKeepsWhole ==
  ASSUME NEW s \in Trees, NEW s2 \in Trees, NEW H \in SUBSET Nodes, NEW b \in Families,
         NEW h \in Heights, NEW p \in H \cup {NULL}, NEW e, Whole(s, H, b, h, p, e),
         NEW n \in H, NEW x \in Nodes \ H, Substituted(s, s2, H, n, x), Alike(b, H, n, x),
         s2.col[x] = s.col[n], \A k \in H \ {n} : s2.col[k] = s.col[k]
  PROVE  SomehowWhole(s2, (H \ {n}) \cup {x}, IF p = n THEN x ELSE p, e)
<1> DEFINE c == Renamed(H, b, n, x)
           G == (H \ {n}) \cup {x}
           g == [h EXCEPT ![x] = h[n]]
           p2 == IF p = n THEN x ELSE p
           To(k) == IF k = n THEN x ELSE k
<1>1. Shape(s, H, b) /\ b \in [Nodes -> SUBSET Nodes] /\ NULL \notin Nodes
  BY NodesAssumption DEF Whole, Families
<1>2. c \in Families /\ Shape(s2, G, c)
  BY <1>1, SubstitutionKeepsShape DEF Families
<1>3. g \in Heights /\ g[x] = h[n] /\ \A k \in H : g[k] = h[k]
  BY <1>1 DEF Heights
<1> HIDE DEF c, g
<1>4. ASSUME NEW k \in H, NEW j \in Dirs
      PROVE  /\ s2.kid[To(k)][j] = To(s.kid[k][j]) /\ s.kid[k][j] \in H \cup {NULL}
             /\ g[To(k)] = h[k]
  <2>1. s.kid[k][j] \in H \cup {NULL}
    BY <1>1 DEF Shape, Paired
  <2>2. CASE k = n
    <3>1. s.kid[n][j] # n
      <4>1. ChildOf(s, H, b, n, j, s.kid[n][j])
        BY <1>1, ChildIs
      <4> QED BY <1>1, <4>1 DEF ChildOf
    <3> QED BY <1>3, <2>1, <2>2, <3>1 DEF Substituted
  <2>3. CASE k # n
    BY <1>3, <2>1, <2>3 DEF Substituted
  <2> QED BY <2>2, <2>3
<1>5. ASSUME NEW k \in H \cup {NULL}
      PROVE  /\ Weight(s2, g, To(k)) = Weight(s, h, k)
             /\ IsRed(s2, To(k)) <=> IsRed(s, k)
  BY <1>1, <1>3 DEF Weight, IsRed
<1>6. \A k \in G : \E l \in H : k = To(l)
  <2>1. x = To(n) /\ \A k \in H \ {n} : k = To(k)
    OBVIOUS
  <2> QED BY <2>1
<1>7. ASSUME NEW k \in H, NEW j \in Dirs
      PROVE  /\ g[To(k)] = Weight(s2, g, s2.kid[To(k)][j]) + (IF To(k) = p2 /\ j = e THEN 1 ELSE 0)
  <2>1. h[k] = Weight(s, h, s.kid[k][j]) + (IF k = p /\ j = e THEN 1 ELSE 0)
    BY DEF Whole, Level
  <2>2. Weight(s2, g, s2.kid[To(k)][j]) = Weight(s, h, s.kid[k][j]) /\ g[To(k)] = h[k]
    BY <1>4, <1>5
  <2>3. To(k) = p2 <=> k = p
    BY <1>1
  <2> HIDE DEF To, p2
  <2> QED BY <2>1, <2>2, <2>3
<1>8. ASSUME NEW k \in H
      PROVE  Calm(s2, To(k))
  <2>1. ASSUME IsRed(s2, To(k)), NEW j \in Dirs
        PROVE  ~IsRed(s2, s2.kid[To(k)][j])
    <3>1. IsRed(s, k)
      BY <1>5, <2>1
    <3>2. ~IsRed(s, s.kid[k][j])
      BY <3>1 DEF Whole, Calm
    <3> QED BY <1>4, <1>5, <3>2
  <2> QED BY <2>1 DEF Calm
<1>9. ~IsRed(s2, s2.root)
  <2>1. s2.root = To(s.root) /\ s.root \in H \cup {NULL} /\ ~IsRed(s, s.root)
    BY <1>1 DEF Substituted, Whole, Shape, Rooted
  <2> QED BY <1>5, <2>1
<1> HIDE DEF To, p2
<1>10. Level(s2, G, g, p2, e) /\ \A k \in G : Calm(s2, k)
  <2>1. ASSUME NEW k \in G
        PROVE  /\ Calm(s2, k)
               /\ \A j \in Dirs : g[k] = Weight(s2, g, s2.kid[k][j])
                                         + (IF k = p2 /\ j = e THEN 1 ELSE 0)
    BY <1>6, <1>7, <1>8
  <2> QED BY <2>1 DEF Level
<1>11. Whole(s2, G, c, g, p2, e)
  BY <1>2, <1>9, <1>10 DEF Whole
<1> QED BY <1>2, <1>3, <1>11 DEF p2, SomehowWhole

\* There is a tree from which n has been taken out, the intermediate one of cases 2 and 3.
LEMMA RemovalExists ==
  ASSUME NEW s \in Trees, NEW n \in Nodes, NEW m \in Maybe,
         \E d \in Dirs : s.kid[n][d] = m /\ s.kid[n][Opp(d)] = NULL
  PROVE  \E r \in Trees :
           /\ Removed(s, r, n, m)
           /\ \A k \in Nodes \ {n} : r.col[k] = IF k = m THEN "black" ELSE s.col[k]
<1> DEFINE K(k, e) == IF k = s.par[n] /\ s.kid[k][e] = n THEN m ELSE s.kid[k][e]
           P(k) == IF k = m THEN s.par[n] ELSE s.par[k]
           C(k) == IF k = m THEN "black" ELSE s.col[k]
           R == IF s.root = n THEN m ELSE s.root
           r == [kid |-> [k \in Nodes |-> [e \in Dirs |-> K(k, e)]],
                 par |-> [k \in Nodes |-> P(k)], col |-> [k \in Nodes |-> C(k)], root |-> R]
<1>1. /\ \A k \in Nodes : P(k) \in Maybe /\ C(k) \in {"red", "black"}
                          /\ \A e \in Dirs : K(k, e) \in Maybe
      /\ R \in Maybe
  BY DEF Trees
<1>2. r \in Trees
  <2> HIDE DEF K, P, C, R
  <2> QED BY <1>1 DEF Trees
<1>3. /\ \A k \in Nodes : r.par[k] = P(k) /\ r.col[k] = C(k) /\ \A e \in Dirs : r.kid[k][e] = K(k, e)
      /\ r.root = R
  OBVIOUS
<1> HIDE DEF r
<1>4. Removed(s, r, n, m)
  BY <1>3 DEF Removed
<1> QED BY <1>2, <1>3, <1>4

-----------------------------------------------------------------------------
(***************************************************************************)
(* The way down to the least key.                                          *)
(***************************************************************************)
\* A set of numbers that is not empty has a least one.
LEMMA LeastNatural ==
  ASSUME NEW T \in SUBSET Nat, T # {}
  PROVE  \E n \in T : \A m \in T : n <= m
<1>1. PICK n \in T : \A m \in T : <<m, n>> \notin OpToRel(<, Nat)
  BY Zenon, NatLessThanWellFounded, WFMin
<1>2. \A m \in T : ~(m < n)
  BY <1>1 DEF OpToRel
<1> QED BY <1>2

\* The least number of T.
Least(T) == CHOOSE n \in T : \A m \in T : n <= m

\* Least is the least number of a set.
LEMMA LeastIs ==
  ASSUME NEW T \in SUBSET Nat, NEW n \in T, \A m \in T : n <= m
  PROVE  Least(T) = n
<1>1. \A k \in T : (\A m \in T : k <= m) => k = n
  OBVIOUS
<1> QED BY <1>1 DEF Least

\* The least key below n is that below its left child, if it has one.
LEMMA LeastBelow ==
  ASSUME NEW H \in SUBSET Nodes, NEW b \in [Nodes -> SUBSET Nodes], Shape(t, H, b), NEW n \in H
  PROVE  /\ b[n] \subseteq Nat /\ Least(b[n]) \in b[n] /\ \A m \in b[n] : Least(b[n]) <= m
         /\ LET k == t.kid[n]["left"]
            IN Least(b[n]) = IF k = NULL THEN n ELSE Least(b[k])
<1> DEFINE k == t.kid[n]["left"]
<1>1. \A m \in H : b[m] \subseteq Nat /\ m \in b[m] /\ m \in Nat
  BY NodesAssumption DEF Shape, Closed, Sorted
<1>2. \A m \in H : Least(b[m]) \in b[m] /\ \A j \in b[m] : Least(b[m]) <= j
  <2>1. ASSUME NEW m \in H
        PROVE  Least(b[m]) \in b[m] /\ \A j \in b[m] : Least(b[m]) <= j
    <3>1. PICK i \in b[m] : \A j \in b[m] : i <= j
      BY <1>1, LeastNatural
    <3> QED BY <1>1, <3>1, LeastIs
  <2> QED BY <2>1
<1>3. /\ b[n] = {n} \cup Below(b, k) \cup Below(b, t.kid[n]["right"])
      /\ \A m \in Below(b, k) : m < n
      /\ \A m \in Below(b, t.kid[n]["right"]) : m > n
  BY DEF Shape, Sorted
<1>4. k # NULL => k \in H
  BY OppIs DEF Shape, Paired
<1> HIDE DEF k
<1>5. CASE k = NULL
  <2>1. \A m \in b[n] : n <= m
    BY <1>1, <1>3, <1>5 DEF Below
  <2>2. Least(b[n]) = n
    BY <1>1, <2>1, LeastIs
  <2> QED BY <1>1, <1>2, <1>5, <2>2 DEF k
<1>6. CASE k # NULL
  <2> DEFINE l == Least(b[k])
  <2>1. l \in b[k] /\ (\A j \in b[k] : l <= j) /\ b[k] \subseteq Nat /\ Below(b, k) = b[k]
    BY <1>1, <1>2, <1>4, <1>6 DEF Below
  <2> HIDE DEF l
  <2>2. l \in b[n] /\ b[n] \subseteq Nat /\ n \in Nat
    BY <1>1, <1>3, <2>1
  <2>3. l < n
    BY <1>3, <2>1
  <2>4. ASSUME NEW m \in b[n]
        PROVE  l <= m
    BY <1>3, <2>1, <2>2, <2>3
  <2>5. Least(b[n]) = l
    BY <2>2, <2>4, LeastIs
  <2> QED BY <1>1, <1>2, <1>6, <2>5 DEF k, l
<1> QED BY <1>5, <1>6

\* Going left as far as one can leads to the least key below n.
LEMMA DeepestIs ==
  ASSUME NEW H \in SUBSET Nodes, NEW b \in [Nodes -> SUBSET Nodes], t \in Trees, Shape(t, H, b),
         Bare(t, H), NEW n \in H
  PROVE  LET y == Deepest(n, "left")
         IN y \in b[n] /\ t.kid[y]["left"] = NULL /\ \A m \in b[n] : y <= m
<1> DEFINE Walk(f) == f = [m \in Nodes |-> IF t.kid[m]["left"] = NULL THEN m
                                           ELSE f[t.kid[m]["left"]]]
           D == CHOOSE f : Walk(f)
           F == [m \in Nodes |-> IF m \in H THEN Least(b[m]) ELSE m]
<1>1. Deepest(n, "left") = D[n]
  BY DEF Deepest
<1>2. \A m \in H : t.kid[m]["left"] # NULL => t.kid[m]["left"] \in H
  BY OppIs DEF Shape, Paired
<1>3. \A m \in Nodes \ H : t.kid[m]["left"] = NULL
  BY OppIs DEF Bare
<1>4. Walk(F)
  <2>1. ASSUME NEW m \in Nodes
        PROVE  F[m] = IF t.kid[m]["left"] = NULL THEN m ELSE F[t.kid[m]["left"]]
    <3>1. CASE m \in H
      <4>1. F[m] = IF t.kid[m]["left"] = NULL THEN m ELSE Least(b[t.kid[m]["left"]])
        BY <3>1, LeastBelow
      <4> QED BY <1>2, <3>1, <4>1
    <3>2. CASE m \notin H
      BY <1>3, <3>2
    <3> QED BY <3>1, <3>2
  <2> QED BY <2>1
<1>5. Walk(D)
  <2> HIDE DEF F, Walk
  <2> QED BY <1>4
<1>6. \A m \in Nodes : D[m] = IF t.kid[m]["left"] = NULL THEN m ELSE D[t.kid[m]["left"]]
  <2> HIDE DEF D
  <2> QED BY <1>5
<1> HIDE DEF D, F, Walk
<1>7. \A m \in H : D[m] = Least(b[m])
  <2> DEFINE T == {m \in H : D[m] # Least(b[m])}
  <2> SUFFICES ASSUME T # {}
               PROVE  FALSE
    OBVIOUS
  <2>1. H \subseteq Nat
    BY NodesAssumption
  <2>2. PICK m \in T : \A j \in T : m <= j
    BY <2>1, LeastNatural
  <2> DEFINE k == t.kid[m]["left"]
  <2>3. Least(b[m]) = IF k = NULL THEN m ELSE Least(b[k])
    BY <2>2, LeastBelow
  <2>4. k # NULL => k \in H /\ k < m
    <3>1. k # NULL => k \in H /\ k \in b[k]
      BY <1>2, <2>2 DEF Shape, Sorted
    <3>2. \A j \in Below(b, k) : j < m
      BY <2>2 DEF Shape, Sorted
    <3> HIDE DEF k
    <3> QED BY <3>1, <3>2 DEF Below
  <2>5. k # NULL => D[k] = Least(b[k])
    <3> HIDE DEF k
    <3>1. k # NULL => k \notin T
      <4>1. m \in Nat /\ (k # NULL => k \in Nat)
        BY <2>1, <2>2, <2>4
      <4> HIDE DEF T
      <4> QED BY <2>2, <2>4, <4>1
    <3> QED BY <2>4, <3>1
  <2> QED BY <1>6, <2>2, <2>3, <2>5
<1> DEFINE y == Least(b[n])
<1>8. y \in b[n] /\ (\A m \in b[n] : y <= m) /\ b[n] \subseteq Nat
  BY LeastBelow
<1> HIDE DEF y
<1>9. t.kid[y]["left"] = NULL
  <2> SUFFICES ASSUME t.kid[y]["left"] # NULL PROVE FALSE
    OBVIOUS
  <2> DEFINE k == t.kid[y]["left"]
  <2>1. y \in H /\ b[y] \subseteq b[n]
    BY <1>8 DEF Shape, Closed
  <2>2. k \in H /\ k \in b[k] /\ Below(b, k) = b[k]
    BY <1>2, <2>1 DEF Shape, Sorted, Below
  <2>3. k \in b[y] /\ k < y
    BY <2>1, <2>2 DEF Shape, Sorted
  <2> QED BY <1>8, <2>1, <2>3
<1>10. Deepest(n, "left") = y
  BY <1>1, <1>7 DEF y
<1> QED BY <1>8, <1>9, <1>10

\* The node n with two children l and c, its successor y below c, and what is around.
Succession(H, b, n, y) ==
  LET l == t.kid[n]["left"]
      c == t.kid[n]["right"]
      m == t.kid[y]["right"]
      q == t.par[y]
      g == t.par[n]
  IN /\ y \in H /\ y # n /\ y \in b[c] /\ t.kid[y]["left"] = NULL /\ n < y
     /\ \A k \in b[c] : y <= k
     /\ l \in H /\ c \in H /\ l # c /\ l # y /\ l # n /\ c # n /\ t.par[l] = n /\ t.par[c] = n
     /\ m # NULL => m \in H /\ m \notin {n, l, c, y} /\ t.par[m] = y
     /\ g # NULL => g \in H /\ g \notin {n, l, c, y, m, q}
     /\ IF y = c THEN q = n
        ELSE q \in H /\ q \notin {n, y, l} /\ t.kid[q]["left"] = y /\ t.kid[q]["right"] # y
     /\ y # t.root /\ y \in b[n] /\ (m # NULL => q # m)

\* Going right once and then left leads to the successor of n.
LEMMA SuccessionIs ==
  ASSUME NEW H \in SUBSET Nodes, NEW b \in [Nodes -> SUBSET Nodes], t \in Trees, Shape(t, H, b),
         Bare(t, H), NEW n \in H, t.kid[n]["left"] # NULL, t.kid[n]["right"] # NULL
  PROVE  Succession(H, b, n, Deepest(t.kid[n]["right"], "left"))
<1> DEFINE l == t.kid[n]["left"]
           c == t.kid[n]["right"]
           y == Deepest(c, "left")
           m == t.kid[y]["right"]
           q == t.par[y]
           g == t.par[n]
<1>1. /\ l \in H /\ l \in b[l] /\ l # n /\ t.par[l] = n /\ b[l] \subseteq b[n] /\ n \notin b[l]
      /\ l # t.root /\ g # l
  <2>1. ChildOf(t, H, b, n, "left", l)
    BY OppIs, ChildIs
  <2> QED BY <2>1 DEF ChildOf
<1>2. /\ c \in H /\ c \in b[c] /\ c # n /\ t.par[c] = n /\ b[c] \subseteq b[n] /\ n \notin b[c]
      /\ c # t.root /\ c # l /\ g # c /\ \A x \in b[l] : x \notin b[c]
  <2>1. ChildOf(t, H, b, n, "right", c)
    BY OppIs, ChildIs
  <2>2. Opp("right") = "left" /\ Below(b, l) = b[l]
    BY DEF Opp, Below
  <2> QED BY <2>1, <2>2 DEF ChildOf
<1>3. y \in b[c] /\ t.kid[y]["left"] = NULL /\ \A k \in b[c] : y <= k
  BY <1>2, DeepestIs
<1> HIDE DEF y
<1>4. NULL \notin Nodes /\ \A k \in H : /\ k \in Nat /\ b[k] \subseteq H /\ k # NULL
                                        /\ \A x \in b[k] : b[x] \subseteq b[k] /\ (x # k => t.par[x] \in b[k])
  BY NodesAssumption DEF Shape, Closed
<1>5. y \in H /\ y # n /\ y # l /\ y \in b[n] /\ b[y] \subseteq b[c] /\ y \in Nodes
  BY <1>1, <1>2, <1>3, <1>4
<1>6. n < y
  <2>1. c > n
    <3>1. c \in Below(b, c)
      BY <1>2 DEF Below
    <3> QED BY <3>1 DEF Shape, Sorted
  <2>2. \A k \in Below(b, c) : k > n
    BY DEF Shape, Sorted
  <2>3. Below(b, c) = b[c]
    BY DEF Below
  <2> QED BY <1>3, <1>4, <1>5, <2>2, <2>3
<1>7. m # NULL => m \in H /\ m \in b[y] /\ t.par[m] = y /\ m # y /\ q # m
  <2>1. ChildOf(t, H, b, y, "right", m)
    BY <1>5, OppIs, ChildIs
  <2> QED BY <2>1 DEF ChildOf
<1>8. m # NULL => m \notin {n, l, c, y}
  BY <1>1, <1>2, <1>5, <1>7
<1>9. y # c => /\ q \in H /\ q \in b[c] /\ q \notin {n, y, l}
               /\ t.kid[q]["left"] = y /\ t.kid[q]["right"] # y
  <2> SUFFICES ASSUME y # c
               PROVE  /\ q \in H /\ q \in b[c] /\ q \notin {n, y, l}
                      /\ t.kid[q]["left"] = y /\ t.kid[q]["right"] # y
    OBVIOUS
  <2>1. q \in b[c] /\ q \in H
    BY <1>2, <1>3, <1>4
  <2>2. q # y
    BY <1>5, Hangs
  <2>3. \E e \in Dirs : t.kid[q][e] = y
    BY <1>4, <1>5, <2>1 DEF Shape, Paired
  <2>4. t.kid[q]["right"] # y
    <3>1. \A k \in Below(b, t.kid[q]["right"]) : k > q
      BY <2>1 DEF Shape, Sorted
    <3>2. y \in Below(b, y)
      BY <1>4, <1>5 DEF Below, Shape, Sorted
    <3>3. ~(y > q)
      BY <1>3, <1>4, <1>5, <2>1
    <3> QED BY <3>1, <3>2, <3>3
  <2> QED BY <1>1, <1>2, <2>1, <2>2, <2>3, <2>4 DEF Dirs
<1>10. g # NULL => g \in H /\ g \notin b[n]
  <2>1. g # NULL => g \in H /\ \E e \in Dirs : t.kid[g][e] = n
    BY DEF Shape, Paired
  <2>2. ASSUME g # NULL, NEW e \in Dirs, t.kid[g][e] = n
        PROVE  g \notin b[n]
    <3>1. ChildOf(t, H, b, g, e, n)
      BY <2>1, <2>2, ChildIs
    <3> QED BY <1>4, <3>1 DEF ChildOf
  <2> QED BY <2>1, <2>2
<1>11. y = c => q = n
  BY <1>2
<1>12. g # NULL => g \notin {n, l, c, y, m, q}
  <2>1. /\ n \in b[n] /\ l \in b[n] /\ c \in b[n] /\ y \in b[n]
        /\ (m # NULL => m \in b[n]) /\ q \in b[n]
    <3>1. n \in b[n]
      BY DEF Shape, Sorted
    <3> QED BY <1>1, <1>2, <1>5, <1>7, <1>9, <1>11, <3>1
  <2> HIDE DEF q
  <2> QED BY <1>10, <2>1
<1>13. y # t.root
  <2>1. q # NULL
    BY SMTT(30), <1>4, <1>9, <1>11
  <2> QED BY <1>5, <2>1, Hangs
<1>14. Succession(H, b, n, y)
  BY <1>1, <1>2, <1>3, <1>5, <1>6, <1>7, <1>8, <1>9, <1>10, <1>11, <1>12, <1>13 DEF Succession
<1> QED BY <1>14 DEF y

\* What an erase that puts the successor y in the place of n leaves.
Succeeded(s, s2, n, y) ==
  LET l == s.kid[n]["left"]
      c == s.kid[n]["right"]
      m == s.kid[y]["right"]
      q == s.par[y]
      g == s.par[n]
  IN /\ s2 \in Trees
     /\ s2.root = IF g = NULL THEN y ELSE s.root
     /\ \A k \in Nodes, e \in Dirs :
          s2.kid[k][e] = IF k = y THEN IF e = "left" THEN l ELSE IF y = c THEN m ELSE c
                         ELSE IF y # c /\ k = q /\ e = "left" THEN m
                         ELSE IF k = g /\ s.kid[k][e] = n THEN y ELSE s.kid[k][e]
     /\ \A k \in Nodes :
          s2.par[k] = IF k = y THEN g ELSE IF k = l \/ k = c THEN y
                      ELSE IF k = m THEN IF y = c THEN y ELSE q ELSE s.par[k]
     /\ \A k \in Nodes :
          s2.col[k] = IF k = y THEN s.col[n] ELSE IF k = m THEN "black" ELSE s.col[k]

\* The successor y gives up its right child m to its parent q.
Lifted(s, s1, n, y) ==
  LET c == s.kid[n]["right"]
      m == s.kid[y]["right"]
      q == s.par[y]
  IN /\ s1 \in Trees /\ s1.root = s.root /\ s1.col = s.col
     /\ \A k \in Nodes, e \in Dirs :
          s1.kid[k][e] = IF y # c /\ k = q /\ e = "left" THEN m
                         ELSE IF y # c /\ k = y /\ e = "right" THEN c ELSE s.kid[k][e]
     /\ \A k \in Nodes : s1.par[k] = IF y # c /\ k = c THEN y ELSE s.par[k]

\* The stores of case 3, up to Replace, lift the successor out of its place.
LEMMA LiftedIs ==
  ASSUME NEW H \in SUBSET Nodes, NEW b, t \in Trees, NEW n \in H, NEW y, Succession(H, b, n, y)
  PROVE  LET c == t.kid[n]["right"]
             q == t.par[y]
             m == t.kid[y]["right"]
         IN Lifted(t, IF y = c THEN t
                      ELSE SetParent(SetKid(SetKid(t, q, "left", m), y, "right", c), c, y), n, y)
<1> DEFINE c == t.kid[n]["right"]
           q == t.par[y]
           m == t.kid[y]["right"]
           a1 == SetKid(t, q, "left", m)
           a2 == SetKid(a1, y, "right", c)
           a3 == SetParent(a2, c, y)
<1>1. /\ y \in Nodes /\ c \in Nodes /\ m \in Maybe /\ y \in Maybe /\ c \in Maybe
      /\ "left" \in Dirs /\ "right" \in Dirs /\ (y # c => q \in Nodes /\ q # y)
  <2>1. y \in H /\ c \in H /\ (y # c => q \in H /\ q # y)
    BY DEF Succession
  <2> QED BY <2>1, OppIs DEF Maybe, Trees
<1>2. CASE y = c
  BY <1>2 DEF Lifted
<1>3. CASE y # c
  <2> HIDE DEF c, q, m
  <2>1. KidIs(a1, t, q, "left", m)
    BY <1>1, <1>3, SetKidIs
  <2> HIDE DEF a1
  <2>2. a1 \in Trees
    BY <2>1 DEF KidIs
  <2>3. KidIs(a2, a1, y, "right", c)
    BY <1>1, <2>2, SetKidIs
  <2> HIDE DEF a2
  <2>4. a2 \in Trees
    BY <2>3 DEF KidIs
  <2>5. ParentIs(a3, a2, c, y)
    BY <1>1, <2>4, SetParentIs
  <2> HIDE DEF a3
  <2>6. a3 \in Trees /\ a3.root = t.root /\ a3.col = t.col
    BY <2>1, <2>3, <2>5 DEF KidIs, ParentIs
  <2>7. ASSUME NEW k \in Nodes
        PROVE  a3.par[k] = IF k = c THEN y ELSE t.par[k]
    BY <2>1, <2>3, <2>5 DEF KidIs, ParentIs
  <2>8. ASSUME NEW k \in Nodes, NEW e \in Dirs
        PROVE  a3.kid[k][e] = IF k = q /\ e = "left" THEN m
                              ELSE IF k = y /\ e = "right" THEN c ELSE t.kid[k][e]
    <3>1. /\ a3.kid[k][e] = a2.kid[k][e]
          /\ a2.kid[k][e] = IF k = y /\ e = "right" THEN c ELSE a1.kid[k][e]
          /\ a1.kid[k][e] = IF k = q /\ e = "left" THEN m ELSE t.kid[k][e]
      BY <2>1, <2>3, <2>5 DEF KidIs, ParentIs
    <3> QED BY <1>1, <1>3, <3>1
  <2>9. Lifted(t, a3, n, y)
    BY <1>3, <2>6, <2>7, <2>8 DEF Lifted, c, q, m
  <2> QED BY <1>3, <2>9 DEF a1, a2, a3, c, q, m
<1> QED BY <1>2, <1>3

\* Replace puts the lifted successor in the place of n.
LEMMA SucceededIs ==
  ASSUME NEW H \in SUBSET Nodes, NEW b \in [Nodes -> SUBSET Nodes], t \in Trees, Shape(t, H, b),
         NEW n \in H, NEW y, Succession(H, b, n, y), NEW s1, Lifted(t, s1, n, y)
  PROVE  LET c == t.kid[n]["right"]
             m == t.kid[y]["right"]
             p == IF y = c THEN y ELSE t.par[y]
             s2 == Replace(s1, n, y)
         IN Succeeded(t, IF m # NULL THEN SetParentColor(s2, m, p, "black") ELSE s2, n, y)
<1> DEFINE l == t.kid[n]["left"]
           c == t.kid[n]["right"]
           m == t.kid[y]["right"]
           q == t.par[y]
           g == t.par[n]
           p == IF y = c THEN y ELSE q
           x == t.col[n]
           r1 == SetKid(s1, y, "left", l)
           r2 == SetParent(r1, l, y)
           r3 == ChangeChild(r2, n, y, g)
           r4 == SetParentColor(r3, y, g, x)
           r == IF m # NULL THEN SetParentColor(r4, m, p, "black") ELSE r4
<1>1. /\ y \in H /\ y # n /\ t.kid[y]["left"] = NULL
      /\ l \in H /\ c \in H /\ l # c /\ l # y /\ l # n /\ c # n
      /\ m # NULL => m \in H /\ m \notin {n, l, c, y}
      /\ g # NULL => g \in H /\ g \notin {n, l, c, y, m, q}
      /\ IF y = c THEN q = n ELSE q \in H /\ q \notin {n, y, l}
  BY DEF Succession
<1>2. NULL \notin Nodes /\ "left" \in Dirs /\ "right" \in Dirs /\ \A e \in Dirs : e \in {"left", "right"}
  BY NodesAssumption, OppIs DEF Dirs
<1>3. /\ y \in Nodes /\ l \in Nodes /\ c \in Nodes /\ n \in Nodes /\ y \in Maybe /\ l \in Maybe
      /\ g \in Maybe /\ m \in Maybe /\ p \in Maybe /\ x \in {"red", "black"}
  BY <1>1 DEF Maybe, Trees
<1>4. HangsBelow(t, n, g)
  BY Hangs
<1> HIDE DEF l, c, m, q, g, x, p
<1>5. /\ s1 \in Trees /\ s1.root = t.root /\ s1.col = t.col
      /\ \A k \in Nodes, e \in Dirs :
           s1.kid[k][e] = IF y # c /\ k = q /\ e = "left" THEN m
                          ELSE IF y # c /\ k = y /\ e = "right" THEN c ELSE t.kid[k][e]
      /\ \A k \in Nodes : s1.par[k] = IF y # c /\ k = c THEN y ELSE t.par[k]
  BY DEF Lifted, c, m, q
<1>6. s1.kid[n]["left"] = l /\ s1.par[n] = g /\ s1.col[n] = x
  BY <1>1, <1>2, <1>3, <1>5 DEF l, g, x
<1>7. KidIs(r1, s1, y, "left", l)
  BY <1>2, <1>3, <1>5, SetKidIs
<1> HIDE DEF r1
<1>8. r1 \in Trees /\ r1.par = s1.par /\ r1.col = s1.col
  BY <1>7 DEF KidIs
<1>9. ParentIs(r2, r1, l, y)
  BY <1>3, <1>8, SetParentIs
<1> HIDE DEF r2
<1>10. /\ r2 \in Trees /\ r2.root = t.root
       /\ \A k \in Nodes : /\ r2.par[k] = IF k = l THEN y ELSE s1.par[k]
                           /\ r2.col[k] = t.col[k]
       /\ \A k \in Nodes, e \in Dirs :
            r2.kid[k][e] = IF k = y /\ e = "left" THEN l ELSE s1.kid[k][e]
  <2>1. /\ r2 \in Trees /\ r2.root = t.root /\ r2.kid = r1.kid
        /\ \A k \in Nodes : /\ r2.par[k] = IF k = l THEN y ELSE s1.par[k]
                            /\ r2.col[k] = t.col[k]
    BY <1>5, <1>7, <1>8, <1>9 DEF KidIs, ParentIs
  <2> QED BY <1>7, <2>1 DEF KidIs
<1>11. r2.par[n] = g /\ r2.col[n] = x
  BY <1>1, <1>3, <1>6, <1>10 DEF x
<1>12. HangsBelow(r2, n, g)
  <2>1. ASSUME g # NULL
        PROVE  \A e \in Dirs : r2.kid[g][e] = t.kid[g][e]
    BY <1>1, <1>3, <1>5, <1>10, <2>1
  <2> QED BY <1>2, <1>4, <2>1 DEF HangsBelow
<1>13. ChildIsChanged(r3, r2, n, y, g)
  BY <1>3, <1>10, <1>12, ChangeChildIs
<1> HIDE DEF r3
<1>14. r3 \in Trees /\ r3.par = r2.par /\ r3.col = r2.col
  BY <1>13 DEF ChildIsChanged
<1>15. ParentColorIs(r4, r3, y, g, x)
  BY <1>3, <1>14, SetParentColorIs
<1> HIDE DEF r4
<1>16. r4 \in Trees
  BY <1>15 DEF ParentColorIs
<1>17. /\ r \in Trees /\ r.kid = r4.kid /\ r.root = r4.root
       /\ \A k \in Nodes : /\ r.par[k] = IF k = m THEN p ELSE r4.par[k]
                           /\ r.col[k] = IF k = m THEN "black" ELSE r4.col[k]
  <2>1. CASE m = NULL
    BY <1>2, <1>16, <2>1
  <2>2. CASE m # NULL
    <3>1. ParentColorIs(SetParentColor(r4, m, p, "black"), r4, m, p, "black")
      BY <1>3, <1>16, <2>2, SetParentColorIs DEF Maybe
    <3>2. r = SetParentColor(r4, m, p, "black")
      BY <2>2
    <3> HIDE DEF r
    <3> QED BY <3>1, <3>2 DEF ParentColorIs
  <2> QED BY <2>1, <2>2
<1>18. r = IF m # NULL THEN SetParentColor(Replace(s1, n, y), m, p, "black") ELSE Replace(s1, n, y)
  BY <1>6, <1>11, <1>14 DEF Replace, r4, r3, r2, r1
<1> HIDE DEF r
<1>19. r.root = IF g = NULL THEN y ELSE t.root
  BY <1>10, <1>13, <1>15, <1>17 DEF ChildIsChanged, ParentColorIs
<1>20. ASSUME NEW k \in Nodes, NEW e \in Dirs
       PROVE  r.kid[k][e] = IF k = y THEN IF e = "left" THEN l ELSE IF y = c THEN m ELSE c
                            ELSE IF y # c /\ k = q /\ e = "left" THEN m
                            ELSE IF k = g /\ t.kid[k][e] = n THEN y ELSE t.kid[k][e]
  <2>1. r.kid[k][e] = IF k = g /\ r2.kid[k][e] = n THEN y ELSE r2.kid[k][e]
    BY <1>13, <1>15, <1>17 DEF ChildIsChanged, ParentColorIs
  <2>2. r2.kid[k][e] = IF k = y /\ e = "left" THEN l ELSE s1.kid[k][e]
    BY <1>10
  <2>3. s1.kid[k][e] = IF y # c /\ k = q /\ e = "left" THEN m
                       ELSE IF y # c /\ k = y /\ e = "right" THEN c ELSE t.kid[k][e]
    BY <1>5
  <2>4. k = g => k # y /\ k # q
    BY <1>1, <1>2
  <2>5. e # "left" => e = "right"
    BY <1>2
  <2>6. CASE k = y
    <3>1. t.kid[y]["right"] = m
      BY DEF m
    <3> QED BY <1>1, <2>1, <2>2, <2>3, <2>4, <2>5, <2>6, <3>1
  <2>7. CASE k # y
    BY <2>1, <2>2, <2>3, <2>4, <2>7
  <2> QED BY <2>6, <2>7
<1>21. ASSUME NEW k \in Nodes
       PROVE  /\ r.par[k] = IF k = y THEN g ELSE IF k = l \/ k = c THEN y
                            ELSE IF k = m THEN IF y = c THEN y ELSE q ELSE t.par[k]
              /\ r.col[k] = IF k = y THEN x ELSE IF k = m THEN "black" ELSE t.col[k]
  <2>1. /\ r.par[k] = IF k = m THEN p ELSE r4.par[k]
        /\ r.col[k] = IF k = m THEN "black" ELSE r4.col[k]
    BY <1>17
  <2>2. /\ r4.par[k] = IF k = y THEN g ELSE r3.par[k]
        /\ r4.col[k] = IF k = y THEN x ELSE r3.col[k]
    BY <1>15 DEF ParentColorIs
  <2>3. r3.par[k] = (IF k = l THEN y ELSE s1.par[k]) /\ r3.col[k] = t.col[k]
    BY <1>10, <1>14
  <2>4. s1.par[k] = IF y # c /\ k = c THEN y ELSE t.par[k]
    BY <1>5
  <2>5. k = m => k \notin {n, l, c, y}
    BY <1>1, <1>2
  <2>6. p = IF y = c THEN y ELSE q
    BY DEF p
  <2> QED BY <1>1, <2>1, <2>2, <2>3, <2>4, <2>5, <2>6
<1>22. Succeeded(t, r, n, y)
  BY <1>17, <1>19, <1>20, <1>21 DEF Succeeded, l, c, m, q, g, x
<1> QED BY <1>18, <1>22 DEF p, m, c, q

\* Unlinking y and putting it in the place of n are two steps that Succeeded takes at once.
LEMMA SucceededIsSubstituted ==
  ASSUME NEW H \in SUBSET Nodes, NEW b \in [Nodes -> SUBSET Nodes], t \in Trees, Shape(t, H, b),
         NEW n \in H, NEW y, Succession(H, b, n, y), NEW s, Succeeded(t, s, n, y),
         NEW u \in Trees, Removed(t, u, y, t.kid[y]["right"])
  PROVE  Substituted(u, s, H \ {y}, n, y)
<1> DEFINE l == t.kid[n]["left"]
           c == t.kid[n]["right"]
           m == t.kid[y]["right"]
           q == t.par[y]
           g == t.par[n]
<1>1. /\ y \in H /\ y # n /\ t.kid[y]["left"] = NULL
      /\ l \in H /\ c \in H /\ l # c /\ l # y /\ l # n /\ c # n
      /\ m # NULL => m \in H /\ m \notin {n, l, c, y} /\ t.par[m] = y
      /\ g # NULL => g \in H /\ g \notin {n, l, c, y, m, q}
      /\ IF y = c THEN q = n
         ELSE q \in H /\ q \notin {n, y, l} /\ t.kid[q]["left"] = y /\ t.kid[q]["right"] # y
      /\ y # t.root
  BY DEF Succession
<1>2. NULL \notin Nodes /\ "left" \in Dirs /\ "right" \in Dirs /\ \A e \in Dirs : e \in {"left", "right"}
  BY NodesAssumption, OppIs DEF Dirs
<1>3. \A k \in H :
        /\ \A e \in Dirs : t.kid[k][e] # NULL => t.kid[k][e] \in H /\ t.par[t.kid[k][e]] = k
        /\ t.par[k] # NULL => t.par[k] \in H /\ \E e \in Dirs : t.kid[t.par[k]][e] = k
  BY DEF Shape, Paired
<1>4. g = NULL <=> t.root = n
  BY Hangs
<1>5. t.kid[n]["left"] = l /\ t.kid[n]["right"] = c /\ t.kid[y]["right"] = m /\ t.par[n] = g
  OBVIOUS
<1> HIDE DEF l, c, m, q, g
<1>6. /\ \A k \in Nodes \ {y}, e \in Dirs :
           u.kid[k][e] = IF k = q /\ t.kid[k][e] = y THEN m ELSE t.kid[k][e]
      /\ \A k \in Nodes \ {y} : u.par[k] = IF k = m THEN q ELSE t.par[k]
      /\ u.root = IF t.root = y THEN m ELSE t.root
  BY DEF Removed, m, q
<1>7. /\ s.root = IF g = NULL THEN y ELSE t.root
      /\ \A k \in Nodes, e \in Dirs :
           s.kid[k][e] = IF k = y THEN IF e = "left" THEN l ELSE IF y = c THEN m ELSE c
                         ELSE IF y # c /\ k = q /\ e = "left" THEN m
                         ELSE IF k = g /\ t.kid[k][e] = n THEN y ELSE t.kid[k][e]
      /\ \A k \in Nodes :
           s.par[k] = IF k = y THEN g ELSE IF k = l \/ k = c THEN y
                      ELSE IF k = m THEN IF y = c THEN y ELSE q ELSE t.par[k]
  BY DEF Succeeded, l, c, m, q, g
<1>8. ASSUME NEW e \in Dirs
      PROVE  s.kid[y][e] = u.kid[n][e]
  <2>1. s.kid[y][e] = IF e = "left" THEN l ELSE IF y = c THEN m ELSE c
    BY <1>1, <1>7
  <2>2. u.kid[n][e] = IF n = q /\ t.kid[n][e] = y THEN m ELSE t.kid[n][e]
    BY <1>1, <1>6
  <2>3. e = "left" \/ e = "right"
    BY <1>2
  <2> QED BY <1>1, <1>5, <2>1, <2>2, <2>3
<1>9. s.par[y] = u.par[n]
  <2>1. n # m
    BY <1>1, <1>2
  <2> QED BY <1>1, <1>5, <1>6, <1>7, <2>1
<1>10. ASSUME NEW k \in H \ {n, y}, NEW e \in Dirs
       PROVE  s.kid[k][e] = IF u.kid[k][e] = n THEN y ELSE u.kid[k][e]
  <2>1. u.kid[k][e] = IF k = q /\ t.kid[k][e] = y THEN m ELSE t.kid[k][e]
    BY <1>6
  <2>2. s.kid[k][e] = IF y # c /\ k = q /\ e = "left" THEN m
                      ELSE IF k = g /\ t.kid[k][e] = n THEN y ELSE t.kid[k][e]
    BY <1>7
  <2>3. t.kid[k][e] = n => k = g
    BY <1>2, <1>3, <1>5
  <2>4. m # n
    BY <1>1, <1>2
  <2>5. k = q => y # c /\ (t.kid[k][e] = y <=> e = "left")
    BY <1>1, <1>2
  <2> QED BY <1>1, <1>2, <2>1, <2>2, <2>3, <2>4, <2>5
<1>11. ASSUME NEW k \in H \ {n, y}
       PROVE  s.par[k] = IF u.par[k] = n THEN y ELSE u.par[k]
  <2>1. u.par[k] = IF k = m THEN q ELSE t.par[k]
    BY <1>6
  <2>2. s.par[k] = IF k = l \/ k = c THEN y
                   ELSE IF k = m THEN IF y = c THEN y ELSE q ELSE t.par[k]
    BY <1>7
  <2>3. t.par[k] = n <=> k = l \/ k = c
    <3>1. t.par[k] = n => k = l \/ k = c
      <4>1. t.par[k] = n => \E e \in Dirs : t.kid[n][e] = k
        BY <1>2, <1>3
      <4> QED BY <1>2, <1>5, <4>1
    <3>2. t.par[l] = n /\ t.par[c] = n
      <4>1. l # NULL /\ c # NULL
        BY <1>1, <1>2
      <4> QED BY <1>2, <1>3, <1>5, <4>1
    <3> QED BY <3>1, <3>2
  <2>4. k = m => k \notin {l, c}
    BY <1>1, <1>2
  <2>5. q = n <=> y = c
    BY <1>1
  <2> QED BY <2>1, <2>2, <2>3, <2>4, <2>5
<1>12. s.root = IF u.root = n THEN y ELSE u.root
  BY <1>1, <1>4, <1>6, <1>7
<1> QED BY <1>8, <1>9, <1>10, <1>11, <1>12 DEF Substituted

\* The successor of n is between n and what else is below its right child.
LEMMA SuccessorIsAlike ==
  ASSUME NEW H \in SUBSET Nodes, NEW b \in [Nodes -> SUBSET Nodes], t \in Trees, Shape(t, H, b),
         NEW n \in H, NEW y, Succession(H, b, n, y)
  PROVE  Alike(Without(b, y), H \ {y}, n, y)
<1> DEFINE l == t.kid[n]["left"]
           c == t.kid[n]["right"]
<1>1. /\ y \in H /\ y # n /\ n < y /\ y \in b[n]
      /\ \A k \in b[c] : y <= k
      /\ l \in H /\ c \in H
  BY DEF Succession
<1>2. H \subseteq Nat /\ H \subseteq Nodes /\ NULL \notin Nodes
  BY NodesAssumption
<1>3. /\ b[n] = {n} \cup Below(b, l) \cup Below(b, c)
      /\ \A k \in Below(b, l) : k < n
      /\ Below(b, c) = b[c]
  BY <1>1, <1>2 DEF Shape, Sorted, Below
<1> HIDE DEF l, c
<1>4. ASSUME NEW k \in H \ {y}, k # n, n \in b[k]
      PROVE  n < k <=> y < k
  BY <1>1, <1>2, <1>4, SameSide
<1>5. ASSUME NEW k \in H \ {y}, k # n, k \in b[n]
      PROVE  n < k <=> y < k
  <2>1. k \in Nat /\ n \in Nat /\ y \in Nat
    BY <1>1, <1>2
  <2>2. CASE k \in Below(b, l)
    BY <1>1, <1>3, <2>1, <2>2
  <2>3. CASE k \in b[c]
    BY <1>1, <2>1, <2>3
  <2> QED BY <1>3, <1>5, <2>2, <2>3
<1>6. \A k \in Nodes : Without(b, y)[k] = b[k] \ {y}
  BY DEF Without
<1> QED BY <1>2, <1>4, <1>5, <1>6 DEF Alike

\* Cases 2 and 3: taking the successor out and putting it in the place of n.
LEMMA EraseTwoHolds ==
  ASSUME NEW n \in Nodes, IInv, EraseTwo(n)
  PROVE  IInv'
<1> SUFFICES ASSUME NEW b \in Families, NEW h \in Heights, Inv(b, h) PROVE IInv'
  BY DEF IInv
<1> DEFINE H == members
           l == t.kid[n]["left"]
           c == t.kid[n]["right"]
           y == Deepest(c, "left")
           m == t.kid[y]["right"]
           q == t.par[y]
           p == IF y = c THEN y ELSE q
           s1 == IF y = c THEN t
                 ELSE SetParent(SetKid(SetKid(t, q, "left", m), y, "right", c), c, y)
           s2 == Replace(s1, n, y)
           s == IF m # NULL THEN SetParentColor(s2, m, p, "black") ELSE s2
           e == IF y = c THEN "right" ELSE "left"
           a == Lacking(t, y, m)
           r == IF a = n THEN y ELSE a
<1>1. pc = "idle" /\ n \in H /\ l # NULL /\ c # NULL
  BY DEF EraseTwo
<1>2. /\ Whole(t, H, b, h, NULL, ShortSide) /\ Bare(t, H)
      /\ t \in Trees /\ H \in SUBSET Nodes /\ NULL \notin Nodes
      /\ b \in [Nodes -> SUBSET Nodes] /\ Shape(t, H, b)
  BY <1>1, IdleIsWhole
<1>3. Succession(H, b, n, y)
  BY <1>1, <1>2, SuccessionIs
<1>4. IF m # NULL THEN Unlinked(SetParentColor(s2, m, IF y = c THEN y ELSE q, "black"), NULL, n)
      ELSE Unlinked(s2, Repair(y, IF y = c THEN y ELSE q), n)
  <2>1. LET p0 == IF y = c THEN y ELSE t.par[y]
            a1 == IF y = c THEN t
                  ELSE SetParent(SetKid(SetKid(t, p0, "left", m), y, "right", c), c, y)
            a2 == Replace(a1, n, y)
        IN IF m # NULL THEN Unlinked(SetParentColor(a2, m, p0, "black"), NULL, n)
           ELSE Unlinked(a2, Repair(y, p0), n)
    BY DEF EraseTwo
  <2>2. y # c => (IF y = c THEN y ELSE t.par[y]) = q
    OBVIOUS
  <2> HIDE DEF y
  <2> QED BY <2>1, <2>2
<1> HIDE DEF y
<1>5. Succeeded(t, s, n, y)
  <2>1. Lifted(t, s1, n, y)
    BY <1>1, <1>2, <1>3, LiftedIs
  <2> HIDE DEF s1
  <2> QED BY <1>1, <1>2, <1>3, <2>1, SucceededIs
<1>6. /\ y \in H /\ y # n /\ y \in Nodes /\ t.kid[y]["left"] = NULL
      /\ l \in H /\ c \in H /\ l # c /\ l # y
      /\ m # NULL => m \in H /\ m # n
      /\ IF y = c THEN q = n
         ELSE q \in H /\ q \notin {n, y} /\ t.kid[q]["left"] = y
  BY <1>2, <1>3 DEF Succession
<1> HIDE DEF s
<1>7. Unlinked(s, r, n)
  <2>1. t.col[y] \in {"red", "black"} /\ y # NULL
    BY <1>2, <1>6 DEF Trees
  <2>2. a # NULL => a = q
    BY DEF Lacking
  <2>3. Repair(y, IF y = c THEN y ELSE q) = IF m = NULL THEN r ELSE Repair(y, IF y = c THEN y ELSE q)
    <3>1. Repair(y, p) = IF t.col[y] = "black" THEN p ELSE NULL
      BY <2>1 DEF Repair, Black, Red
    <3>2. m = NULL => a = IF t.col[y] = "black" THEN q ELSE NULL
      BY DEF Lacking
    <3>3. n # NULL
      BY <1>1, <1>2
    <3> QED BY <1>6, <3>1, <3>2, <3>3
  <2>4. m # NULL => r = NULL
    BY <1>1, <1>2 DEF Lacking
  <2> HIDE DEF m, q, r, s1, s2
  <2> QED BY <1>4, <2>3, <2>4 DEF s
<1>8. PICK u \in Trees :
        /\ Removed(t, u, y, m)
        /\ \A k \in Nodes \ {y} : u.col[k] = IF k = m THEN "black" ELSE t.col[k]
  <2>1. m \in Maybe /\ \E d \in Dirs : t.kid[y][d] = m /\ t.kid[y][Opp(d)] = NULL
    <3>1. Opp("right") = "left" /\ "right" \in Dirs
      BY DEF Opp, Dirs
    <3> QED BY <1>2, <1>6, <3>1 DEF Trees
  <2> HIDE DEF m
  <2> QED BY <1>2, <1>6, <2>1, RemovalExists
<1>9. Whole(u, H \ {y}, Without(b, y), h, a, e) /\ Without(b, y) \in Families
  <2>1. e \in Dirs /\ t.kid[t.par[y]][e] = y
    BY <1>6 DEF Dirs
  <2>2. \A k \in H \ {y} : u.col[k] = IF k = m THEN "black" ELSE t.col[k]
    BY <1>2, <1>8
  <2>3. /\ u \in Trees /\ Removed(t, u, y, m) /\ t \in Trees /\ H \in SUBSET Nodes /\ y \in H
        /\ b \in Families /\ Whole(t, H, b, h, NULL, ShortSide)
    BY <1>2, <1>6, <1>8 DEF Families
  <2> HIDE DEF m, e, H
  <2> QED BY <2>1, <2>2, <2>3, RemovalKeepsWhole
<1>10. Substituted(u, s, H \ {y}, n, y) /\ Alike(Without(b, y), H \ {y}, n, y)
  BY <1>1, <1>2, <1>3, <1>5, <1>8, SucceededIsSubstituted, SuccessorIsAlike
<1>11. PICK c2 \in Families, g2 \in Heights : Whole(s, H \ {n}, c2, g2, r, e)
  <2>1. s \in Trees /\ s.col[y] = t.col[n] /\ \A k \in Nodes : k # y /\ k # m => s.col[k] = t.col[k]
    BY <1>5, <1>6 DEF Succeeded
  <2>2. m # NULL => s.col[m] = "black"
    <3>1. m # NULL => m # y /\ m \in Nodes
      BY <1>2, <1>3 DEF Succession
    <3> QED BY <1>5, <3>1 DEF Succeeded
  <2>3. s.col[y] = u.col[n]
    BY <1>1, <1>2, <1>6, <1>8, <2>1
  <2>4. \A k \in (H \ {y}) \ {n} : s.col[k] = u.col[k]
    BY <1>2, <1>6, <1>8, <2>1, <2>2
  <2>5. a \in (H \ {y}) \cup {NULL} /\ n \in H \ {y} /\ y \in Nodes \ (H \ {y})
    BY <1>1, <1>6 DEF Lacking
  <2>6. ((H \ {y}) \ {n}) \cup {y} = H \ {n}
    BY <1>6
  <2> HIDE DEF H, a, e
  <2>7. SomehowWhole(s, ((H \ {y}) \ {n}) \cup {y}, IF a = n THEN y ELSE a, e)
    <3> DEFINE G == H \ {y}
               w == Without(b, y)
    <3>1. /\ G \in SUBSET Nodes /\ u \in Trees /\ w \in Families /\ s \in Trees
          /\ a \in G \cup {NULL} /\ n \in G /\ y \in Nodes \ G
      BY <1>2, <1>8, <1>9, <2>1, <2>5
    <3>2. /\ Whole(u, G, w, h, a, e) /\ Substituted(u, s, G, n, y) /\ Alike(w, G, n, y)
          /\ s.col[y] = u.col[n] /\ \A k \in G \ {n} : s.col[k] = u.col[k]
      BY <1>9, <1>10, <2>3, <2>4
    <3> HIDE DEF G, w
    <3>3. SomehowWhole(s, (G \ {n}) \cup {y}, IF a = n THEN y ELSE a, e)
      BY <3>1, <3>2, SubstitutionKeepsWhole
    <3> QED BY <3>3 DEF G
  <2> QED BY <2>6, <2>7 DEF SomehowWhole
<1>12. Bare(s, H)
  <2>1. ASSUME NEW k \in Nodes \ H
        PROVE  s.par[k] = NULL /\ \A d \in Dirs : s.kid[k][d] = NULL
    <3>1. t.par[n] = NULL \/ t.par[n] \in H
      BY <1>1, <1>2 DEF Shape, Paired
    <3>2. k # y /\ k # l /\ k # c /\ k # m /\ k # t.par[n] /\ (y # c => k # q)
      BY <1>2, <1>6, <3>1
    <3>3. s.par[k] = t.par[k] /\ \A d \in Dirs : s.kid[k][d] = t.kid[k][d]
      BY <1>5, <3>2 DEF Succeeded
    <3> QED BY <1>2, <3>3 DEF Bare
  <2> QED BY <2>1 DEF Bare
<1>13. r # NULL => r \in H \ {n} /\ s.kid[r][e] = NULL
  <2> SUFFICES ASSUME r # NULL
               PROVE  r \in H \ {n} /\ s.kid[r][e] = NULL
    OBVIOUS
  <2>1. m = NULL /\ a = q
    BY <1>2, <1>6 DEF Lacking
  <2>2. CASE y = c
    <3>1. r = y /\ e = "right"
      BY <1>6, <2>1, <2>2
    <3>2. s.kid[y]["right"] = m
      BY <1>5, <1>6, <2>2, OppIs DEF Succeeded
    <3> QED BY <1>6, <2>1, <3>1, <3>2
  <2>3. CASE y # c
    <3>1. r = q /\ e = "left" /\ q \in H /\ q # n /\ q # y
      BY <1>6, <2>1, <2>3
    <3>2. s.kid[q]["left"] = m
      BY <1>2, <1>5, <2>3, <3>1, OppIs DEF Succeeded
    <3> QED BY <2>1, <3>1, <3>2
  <2> QED BY <2>2, <2>3
<1>14. s \in Trees /\ e \in Dirs
  BY <1>5 DEF Succeeded, Dirs
<1> HIDE DEF r, e
<1> QED BY <1>1, <1>2, <1>7, <1>11, <1>12, <1>13, <1>14, UnlinkedHolds

-----------------------------------------------------------------------------
(***************************************************************************)
(* The repair after an erase.                                              *)
(***************************************************************************)
\* Where the erase loop is at work: paths on side d of p, where node is, lack a black
\* node that paths through the sibling x have.
EraseScene(h, p, d, x) ==
  /\ p \in Held /\ d \in Dirs /\ t.kid[p][d] = node /\ t.kid[p][Opp(d)] = x
  /\ x \in Held /\ x # p /\ x # node /\ node # p /\ t.par[x] = p
  /\ node # NULL => node \in Held /\ t.par[node] = p
  /\ h[p] = Weight(t, h, node) + 1 /\ h[p] = Weight(t, h, x)
  /\ Weight(t, h, node) \in Nat
  /\ \A n \in Held \ {p}, e \in Dirs : h[n] = Weight(t, h, t.kid[n][e])
  /\ ~IsRed(t, t.root) /\ ~IsRed(t, node) /\ \A n \in Held : Calm(t, n)
  /\ Bare(t, members) /\ new \in members /\ Held = members \ {new}

\* The erase loop is where it takes itself to be.
LEMMA EraseSceneIs ==
  ASSUME NEW b \in Families, NEW h \in Heights, Inv(b, h), pc = "fixerase"
  PROVE  EraseScene(h, parent, Side(parent, node), Sibling)
<1> DEFINE p == parent
           d == Side(parent, node)
           x == t.kid[p][Opp(d)]
<1>1. /\ t \in Trees /\ Shape(t, Held, b) /\ Held \in SUBSET Nodes
      /\ b \in [Nodes -> SUBSET Nodes] /\ NULL \notin Nodes
  BY HeldIsShaped
<1>2. /\ Held = members \ {new} /\ new \in members /\ p \in Held /\ t.kid[p][d] = node
      /\ node \in Held \cup {NULL} /\ Spare
  BY DEF Inv, Locals, Held
<1>3. d \in Dirs /\ Opp(d) \in Dirs /\ Opp(d) # d /\ Opp(Opp(d)) = d
  BY OppIs DEF Side, Dirs
<1>4. ~IsRed(t, t.root) /\ ~IsRed(t, node) /\ \A n \in Held : Calm(t, n)
  BY DEF Inv, Colors
<1>5. \A n \in Held, e \in Dirs :
        h[n] = Weight(t, h, t.kid[n][e]) + (IF n = p /\ e = d THEN 1 ELSE 0)
  BY DEF Inv, Level, ShortAt, ShortSide
<1>6. \A n \in Held, e \in Dirs : t.kid[n][e] \in Held \cup {NULL}
  BY <1>1 DEF Shape, Paired
<1>7. \A m \in Held \cup {NULL} : Weight(t, h, m) \in Nat
  BY <1>1 DEF Weight, Heights
<1> HIDE DEF d, x
<1>8. h[p] = Weight(t, h, node) + 1 /\ h[p] = Weight(t, h, x) + 0 /\ x \in Held \cup {NULL}
  BY <1>2, <1>3, <1>5, <1>6 DEF x
<1>9. Weight(t, h, node) \in Nat /\ Weight(t, h, x) \in Nat /\ h[p] = Weight(t, h, x)
  BY <1>2, <1>7, <1>8
<1>10. x # NULL
  <2>1. Weight(t, h, NULL) = 0
    BY DEF Weight
  <2> QED BY <1>8, <1>9, <2>1
<1>11. \A n \in Held \ {p}, e \in Dirs : h[n] = Weight(t, h, t.kid[n][e])
  BY <1>5, <1>6, <1>7
<1>12. x \in Held /\ x # p /\ x # node /\ t.par[x] = p
  <2>1. ChildOf(t, Held, b, p, Opp(d), x)
    BY <1>1, <1>2, <1>3, ChildIs DEF x
  <2> QED BY <1>2, <1>3, <1>10, <2>1 DEF ChildOf
<1>13. node # p /\ (node # NULL => t.par[node] = p)
  <2>1. ChildOf(t, Held, b, p, d, node)
    BY <1>1, <1>2, <1>3, ChildIs
  <2> QED BY <1>1, <1>2, <2>1 DEF ChildOf
<1>14. Bare(t, members)
  BY <1>2 DEF Spare, Bare
<1>15. EraseScene(h, p, d, x)
  BY <1>2, <1>3, <1>4, <1>8, <1>9, <1>11, <1>12, <1>13, <1>14 DEF EraseScene, x
<1> QED BY <1>15 DEF Sibling, x, d

\* Rotating a red sibling up leaves the count short at the same place, below a red parent.
LEMMA EraseRotateHolds == IInv /\ EraseRotate => IInv'
<1> SUFFICES ASSUME NEW b \in Families, NEW h \in Heights, Inv(b, h), EraseRotate
             PROVE  IInv'
  BY DEF IInv
<1> DEFINE p == parent
           d == Side(p, node)
           x == Sibling
           y == t.kid[x][d]
           z == t.kid[x][Opp(d)]
<1>1. /\ pc = "fixerase" /\ Red(x) /\ t' = LowerParent(t, p, x, d)
      /\ pc' = pc /\ node' = node /\ parent' = parent /\ new' = new /\ members' = members
      /\ Held' = Held
  BY DEF EraseRotate, locals, Held
<1>2. /\ t \in Trees /\ Shape(t, Held, b) /\ Held \in SUBSET Nodes
      /\ b \in [Nodes -> SUBSET Nodes] /\ NULL \notin Nodes
  BY HeldIsShaped
<1>3. EraseScene(h, p, d, x)
  BY <1>1, EraseSceneIs
<1>4. /\ p \in Held /\ d \in Dirs /\ t.kid[p][d] = node /\ t.kid[p][Opp(d)] = x
      /\ x \in Held /\ x # p /\ x # node /\ node # p /\ t.par[x] = p
      /\ node # NULL => node \in Held /\ t.par[node] = p
      /\ h[p] = Weight(t, h, node) + 1 /\ h[p] = Weight(t, h, x)
      /\ Weight(t, h, node) \in Nat
      /\ \A n \in Held \ {p}, e \in Dirs : h[n] = Weight(t, h, t.kid[n][e])
      /\ ~IsRed(t, t.root) /\ ~IsRed(t, node) /\ \A n \in Held : Calm(t, n)
      /\ Bare(t, members) /\ new \in members /\ Held = members \ {new}
  BY <1>3 DEF EraseScene
<1>5. IsRed(t, x) /\ t.col[x] = "red" /\ x # NULL /\ p # NULL /\ p \in Nodes /\ x \in Nodes
  BY <1>1, <1>2, <1>4 DEF Red, IsRed
<1> HIDE DEF x, d
<1>6. Opp(d) \in Dirs /\ Opp(d) # d /\ Opp(Opp(d)) = d /\ \A e \in Dirs : e = d \/ e = Opp(d)
  BY <1>4, OppIs
<1>7. h[x] = h[p] /\ h[x] = Weight(t, h, y) /\ h[x] = Weight(t, h, z) /\ h[x] \in Nat /\ h[x] # 0
  <2>1. Weight(t, h, x) = h[x]
    BY <1>5 DEF Weight
  <2> QED BY <1>4, <1>6, <2>1
<1>8. y # NULL /\ z # NULL
  BY <1>7 DEF Weight
<1>9. ~IsRed(t, y) /\ ~IsRed(t, z)
  BY <1>4, <1>5, <1>6 DEF Calm
<1>10. t.col[p] = "black"
  <2>1. ~IsRed(t, p)
    BY <1>4, <1>5, <1>6 DEF Calm
  <2> QED BY <1>2, <1>5, <2>1 DEF IsRed, Trees
<1>11. /\ y \in Nodes /\ z \in Nodes /\ y \notin {p, x, node} /\ z \notin {p, x, node}
  <2>1. ChildOf(t, Held, b, x, d, y) /\ ChildOf(t, Held, b, x, Opp(d), z)
    BY <1>2, <1>4, <1>6, ChildIs
  <2> QED BY <1>2, <1>4, <1>8, <2>1 DEF ChildOf
<1>12. Turned(t', t, t, p, x, y, Opp(d), "red")
  BY <1>1, <1>2, <1>4, <1>5, <1>8, <1>9, LowerParentIs
<1> HIDE DEF y, z
<1>13. /\ t' \in Trees /\ Rotated(t, t', p, x, y, Opp(d))
       /\ \A k \in Nodes : t'.col[k] = IF k = p THEN "red" ELSE IF k = x THEN t.col[p] ELSE t.col[k]
  BY <1>12 DEF Turned, Repainted
<1>14. PICK c \in Families : Shape(t', Held, c)
  <2> DEFINE c == BelowRotated(t, b, p, x, y, Opp(d))
  <2>1. c \in [Nodes -> SUBSET Nodes] /\ Shape(t', Held, c)
    BY <1>2, <1>4, <1>5, <1>6, <1>13, RotationKeepsShape
  <2> HIDE DEF c
  <2> QED BY <2>1 DEF Families
<1>15. Touched(t, t', Held, {p, x}, p, x) /\ Outside(t, t', Held)
  BY <1>2, <1>4, <1>5, <1>6, <1>13, RotatedMoves, RotatedOutside
<1>16. t'.kid[p][d] = node /\ t'.kid[p][Opp(d)] = y /\ t'.kid[x][d] = p /\ t'.kid[x][Opp(d)] = z
  <2>1. \A k \in Nodes, e \in Dirs :
          t'.kid[k][e] = IF k = p /\ e = Opp(d) THEN y
                         ELSE IF k = x /\ e = Opp(Opp(d)) THEN p
                         ELSE IF k = t.par[p] /\ t.kid[k][e] = p THEN x
                         ELSE t.kid[k][e]
    BY <1>13 DEF Rotated
  <2>2. z # p /\ node # p /\ t.kid[x][Opp(d)] = z
    BY <1>4, <1>11 DEF z
  <2> QED BY <1>4, <1>5, <1>6, <2>1, <2>2
<1>17. /\ Weight(t', h, y) = Weight(t, h, y) /\ Weight(t', h, z) = Weight(t, h, z)
       /\ Weight(t', h, node) = Weight(t, h, node)
       /\ Weight(t', h, p) = h[p] /\ Weight(t', h, x) = Weight(t, h, p)
  <2>1. t'.col[p] = "red" /\ t'.col[x] = "black"
    BY <1>4, <1>5, <1>10, <1>13
  <2>2. t'.col[y] = t.col[y] /\ t'.col[z] = t.col[z] /\ (node # NULL => t'.col[node] = t.col[node])
    BY <1>2, <1>4, <1>11, <1>13
  <2> QED BY <1>5, <1>7, <1>8, <1>10, <2>1, <2>2 DEF Weight
<1>18. Side(p, node)' = d /\ ShortSide' = d /\ ShortAt' = p /\ ShortSide = d /\ ShortAt = p
  <2>1. Side(p, node)' = d
    <3>1. t'.kid[p]["right"] # node <=> d = "left"
      BY <1>4, <1>6, <1>11, <1>16 DEF Dirs
    <3> QED BY <1>1, <1>4, <3>1 DEF Side, Dirs
  <2> QED BY <1>1, <2>1 DEF ShortSide, ShortAt, d
<1>19. Level(t', Held, h, p, d)
  <2>1. Level(t, Held, h, p, d)
    BY <1>18 DEF Inv
  <2>2. ASSUME NEW n \in {p, x}, NEW e \in Dirs
        PROVE  Counted(t', h, n, e, p, d)
    <3>1. /\ h[p] = Weight(t', h, node) + 1 /\ h[p] = Weight(t', h, y) + 0
          /\ h[x] = Weight(t', h, p) + 0 /\ h[x] = Weight(t', h, z) + 0
      <4>1. h[x] + 0 = h[x] /\ Weight(t', h, y) = h[x] /\ Weight(t', h, z) = h[x]
        <5>1. h[x] \in Nat
          BY <1>7
        <5>2. Weight(t', h, y) = h[x]
          BY <1>7, <1>17
        <5>3. Weight(t', h, z) = h[x]
          BY <1>7, <1>17
        <5> QED BY <5>1, <5>2, <5>3
      <4>2. Weight(t', h, p) = h[x]
        BY <1>7, <1>17
      <4>3. h[p] = Weight(t', h, node) + 1
        BY <1>4, <1>17
      <4> HIDE DEF p
      <4> QED BY <1>7, <4>1, <4>2, <4>3
    <3>2. CASE n = p
      BY <1>6, <1>16, <3>1, <3>2 DEF Counted
    <3>3. CASE n = x
      BY <1>4, <1>6, <1>16, <3>1, <3>3 DEF Counted
    <3> QED BY <3>2, <3>3
  <2>3. \A k \in Held \ {p, x} : t'.col[k] = t.col[k]
    BY <1>2, <1>13
  <2> QED BY <1>2, <1>13, <1>15, <1>17, <2>1, <2>2, <2>3, MovedLevels
<1>20. Colors'
  <2>1. ~IsRed(t', node) /\ ~IsRed(t', y) /\ ~IsRed(t', x)
    BY <1>2, <1>4, <1>5, <1>9, <1>10, <1>11, <1>13 DEF IsRed
  <2>2. \A n \in {p, x} : Calm(t', n)
    BY <1>6, <1>16, <2>1 DEF Calm
  <2>3. Paired(t, Held) /\ t.root \in Held \cup {NULL}
    BY <1>2 DEF Shape, Rooted
  <2>4. \A k \in Held \ {p, x} : t'.col[k] \in {t.col[k], "black"}
    BY <1>2, <1>13
  <2>5. t'.col[x] \in {t.col[p], "black"}
    BY <1>4, <1>5, <1>13
  <2>6. /\ \A n \in Held \ {p, x} : Calm(t, n) => Calm(t', n)
        /\ ~IsRed(t, t.root) /\ t.root \in Held \cup {NULL} => ~IsRed(t', t'.root)
    <3>1. t' \in Trees
      BY <1>13
    <3> QED BY <1>2, <1>15, <2>2, <2>3, <2>4, <2>5, <3>1, MovedCalm
  <2> QED BY <1>1, <1>4, <2>1, <2>2, <2>3, <2>6 DEF Colors
<1>21. Locals(c)'
  <2>1. Spare'
    BY <1>1, <1>4, <1>15 DEF Inv, Locals, Spare, Outside
  <2>2. node' \in Held' \cup {NULL} /\ parent' \in Held' /\ new' \in members' /\ members' \subseteq Nodes
    BY <1>1, <1>4 DEF Inv, Locals
  <2>3. t'.kid[parent'][Side(parent, node)'] = node'
    BY <1>1, <1>16, <1>18
  <2> QED BY <1>1, <2>1, <2>2, <2>3 DEF Locals
<1>22. Inv(c, h)'
  BY <1>1, <1>13, <1>14, <1>18, <1>19, <1>20, <1>21 DEF Inv
<1> QED BY <1>22 DEF IInv

\* The sibling turned red and the parent black.
Reddened(s, p, x) ==
  /\ s \in Trees /\ s.kid = t.kid /\ s.root = t.root
  /\ \A k \in Nodes : /\ s.par[k] = t.par[k]
                      /\ s.col[k] = IF k = x THEN "red" ELSE IF k = p THEN "black" ELSE t.col[k]

\* A red sibling makes both sides of p short; a red p that turns black makes up for it.
LEMMA ReddenedIsWhole ==
  ASSUME NEW b \in Families, NEW h \in Heights, Inv(b, h), pc = "fixerase",
         NEW d, NEW p, NEW x, EraseScene(h, p, d, x), ~IsRed(t, x),
         \A e \in Dirs : ~IsRed(t, t.kid[x][e]),
         NEW s, Reddened(s, p, x), NEW j \in Dirs, t.par[p] # NULL => t.kid[t.par[p]][j] = p
  PROVE  \E k \in Heights : Whole(s, Held, b, k, IF IsRed(t, p) THEN NULL ELSE t.par[p], j)
<1> DEFINE q == t.par[p]
           r == IF IsRed(t, p) THEN NULL ELSE q
           k == [h EXCEPT ![p] = h[p] - 1]
<1>1. /\ t \in Trees /\ Shape(t, Held, b) /\ Held \in SUBSET Nodes
      /\ b \in [Nodes -> SUBSET Nodes] /\ NULL \notin Nodes
  BY HeldIsShaped
<1>2. /\ p \in Held /\ d \in Dirs /\ t.kid[p][d] = node /\ t.kid[p][Opp(d)] = x
      /\ x \in Held /\ x # p /\ x # node /\ node # p /\ t.par[x] = p
      /\ node # NULL => node \in Held /\ t.par[node] = p
      /\ h[p] = Weight(t, h, node) + 1 /\ h[p] = Weight(t, h, x)
      /\ Weight(t, h, node) \in Nat
      /\ \A n \in Held \ {p}, e \in Dirs : h[n] = Weight(t, h, t.kid[n][e])
      /\ ~IsRed(t, t.root) /\ ~IsRed(t, node) /\ \A n \in Held : Calm(t, n)
  BY DEF EraseScene
<1>3. /\ s \in Trees /\ s.kid = t.kid /\ s.root = t.root
      /\ \A n \in Nodes : /\ s.par[n] = t.par[n]
                          /\ s.col[n] = IF n = x THEN "red" ELSE IF n = p THEN "black" ELSE t.col[n]
  BY DEF Reddened
<1>4. p \in Nodes /\ x \in Nodes /\ t.col[x] = "black" /\ h \in [Nodes -> Nat] /\ h[p] \in Nat
      /\ Opp(d) \in Dirs /\ Opp(d) # d /\ (\A e \in Dirs : e = d \/ e = Opp(d)) /\ p # NULL /\ x # NULL
  BY <1>1, <1>2, OppIs DEF IsRed, Trees, Heights
<1>5. h[p] - 1 = Weight(t, h, node) /\ h[x] = h[p] - 1 /\ h[x] \in Nat
  <2>1. Weight(t, h, x) = h[x] + 1
    BY <1>4 DEF Weight
  <2>2. h[x] \in Nat
    BY <1>4
  <2> QED BY <1>2, <1>4, <2>1, <2>2
<1>6. k \in Heights /\ \A n \in Nodes : k[n] = IF n = p THEN h[x] ELSE h[n]
  BY <1>4, <1>5 DEF Heights
<1> HIDE DEF k
<1>7. \A n \in Held : /\ \A e \in Dirs : t.kid[n][e] # NULL => t.kid[n][e] \in Held /\ t.par[t.kid[n][e]] = n
                      /\ t.par[n] # NULL => t.par[n] \in Held
  BY <1>1 DEF Shape, Paired
<1>8. q # p /\ q # x /\ (q # NULL => q \in Held) /\ p # t.kid[p][d]
      /\ (q # NULL => t.kid[q]["left"] # t.kid[q]["right"])
  <2>1. q # p /\ HangsBelow(t, p, q)
    BY <1>1, <1>2, Hangs
  <2>2. ChildOf(t, Held, b, p, Opp(d), x)
    BY <1>1, <1>2, <1>4, ChildIs
  <2> QED BY <1>2, <1>4, <1>7, <2>1, <2>2 DEF ChildOf, HangsBelow
<1>9. x # t.root
  BY <1>1, <1>2, <1>4, Hangs
<1> DEFINE One(n, e) == IF n = r /\ e = j THEN 1 ELSE 0
<1>10. ASSUME NEW n \in Held, NEW e \in Dirs
       PROVE  k[n] = Weight(s, k, t.kid[n][e]) + One(n, e)
  <2>0. h[n] \in Nat
    BY <1>1, <1>4
  <2>1. CASE n = p
    <3>1. One(n, e) = 0
      BY <1>4, <1>8, <2>1
    <3>2. Weight(s, k, x) = h[x]
      BY <1>2, <1>3, <1>4, <1>6 DEF Weight
    <3>3. Weight(s, k, node) = Weight(t, h, node)
      <4>1. node # NULL => node \in Nodes /\ node # x /\ node # p
        BY <1>1, <1>2
      <4> QED BY <1>3, <1>6, <4>1 DEF Weight
    <3>4. k[n] = h[x]
      BY <1>4, <1>6, <2>1
    <3> HIDE DEF One
    <3>5. t.kid[n][e] = node \/ t.kid[n][e] = x
      BY <1>2, <1>4, <2>1
    <3> QED BY <1>5, <3>1, <3>2, <3>3, <3>4, <3>5
  <2>2. CASE n # p
    <3>1. h[n] = Weight(t, h, t.kid[n][e]) /\ k[n] = h[n]
      BY <1>1, <1>2, <1>6, <2>2
    <3>2. CASE t.kid[n][e] = p
      <4>1. n = q /\ q # NULL /\ e = j
        <5>1. n = q
          BY <1>4, <1>7, <3>2
        <5>2. t.kid[q][j] = p /\ q # NULL
          BY <1>1, <5>1
        <5>3. e = j
          BY <1>8, <3>2, <5>1, <5>2 DEF Dirs
        <5> QED BY <5>1, <5>2, <5>3
      <4>2. Weight(s, k, p) = h[x] + 1 /\ h[x] + 1 = h[p]
        BY <1>2, <1>3, <1>4, <1>5, <1>6 DEF Weight
      <4>3. Weight(t, h, p) = IF IsRed(t, p) THEN h[p] ELSE h[p] + 1
        BY <1>1, <1>4 DEF Weight, IsRed, Trees
      <4>4. One(n, e) = IF IsRed(t, p) THEN 0 ELSE 1
        BY <4>1
      <4> HIDE DEF One
      <4> QED BY <1>4, <3>1, <3>2, <4>2, <4>3, <4>4
    <3>3. CASE t.kid[n][e] # p
      <4>1. One(n, e) = 0
        <5>1. n = q => q # NULL /\ e # j
          BY <1>1, <3>3
        <5>2. r = q \/ r = NULL
          OBVIOUS
        <5> HIDE DEF r, q
        <5> QED BY <1>1, <5>1, <5>2
      <4>2. Weight(s, k, t.kid[n][e]) = Weight(t, h, t.kid[n][e])
        <5>1. t.kid[n][e] = NULL \/ (t.kid[n][e] \in Nodes /\ t.kid[n][e] # x)
          BY <1>1, <1>2, <1>4, <1>7, <2>2
        <5> QED BY <1>3, <1>6, <3>3, <5>1 DEF Weight
      <4> HIDE DEF One
      <4> QED BY <2>0, <3>1, <4>1, <4>2
    <3> QED BY <3>2, <3>3
  <2> QED BY <2>1, <2>2
<1>11. Level(s, Held, k, r, j)
  BY <1>3, <1>10 DEF Level
<1>12. ~IsRed(s, s.root)
  <2>1. t.root \in Held \cup {NULL}
    BY <1>1 DEF Shape, Rooted
  <2> QED BY <1>1, <1>2, <1>3, <1>9, <2>1 DEF IsRed
<1>13. ASSUME NEW n \in Held
       PROVE  Calm(s, n)
  <2>1. ASSUME IsRed(s, n), NEW e \in Dirs
        PROVE  ~IsRed(s, t.kid[n][e])
    <3>1. n # p /\ n \in Nodes
      BY <1>1, <1>2, <1>3, <2>1 DEF IsRed
    <3>2. t.kid[n][e] # NULL => t.kid[n][e] \in Nodes /\ t.kid[n][e] # x
      BY <1>1, <1>2, <1>7, <3>1
    <3>3. ~IsRed(t, t.kid[n][e])
      <4>1. n # x => IsRed(t, n)
        BY <1>3, <2>1, <3>1 DEF IsRed
      <4> QED BY <1>2, <4>1 DEF Calm
    <3> QED BY <1>3, <3>2, <3>3 DEF IsRed
  <2> QED BY <1>3, <2>1 DEF Calm
<1>14. Shape(s, Held, b)
  BY <1>1, <1>3, SameLinks
<1> HIDE DEF r
<1>15. Whole(s, Held, b, k, r, j)
  BY <1>3, <1>11, <1>12, <1>13, <1>14 DEF Whole
<1> QED BY <1>6, <1>15 DEF r

\* The flip ends the repair, or moves it one level up.
LEMMA EraseFlipHolds == IInv /\ EraseFlip => IInv'
<1> SUFFICES ASSUME NEW b \in Families, NEW h \in Heights, Inv(b, h), EraseFlip
             PROVE  IInv'
  BY DEF IInv
<1> DEFINE p == parent
           d == Side(p, node)
           x == Sibling
           q == t.par[p]
           s0 == SetParentColor(t, x, p, "red")
           s1 == [s0 EXCEPT !.col[p] = "black"]
<1>1. /\ pc = "fixerase" /\ ~IsRed(t, x) /\ \A e \in Dirs : ~IsRed(t, t.kid[x][e])
      /\ IF IsRed(t, p) THEN EraseReturn(s1)
         ELSE IF q = NULL THEN EraseReturn(s0)
         ELSE /\ t' = s0 /\ node' = p /\ parent' = q
              /\ UNCHANGED <<pc, new, next, members, result>>
  BY DEF EraseFlip, Red, Black, IsRed
<1>2. /\ t \in Trees /\ Shape(t, Held, b) /\ Held \in SUBSET Nodes
      /\ b \in [Nodes -> SUBSET Nodes] /\ NULL \notin Nodes /\ members \subseteq Nodes
  BY HeldIsShaped DEF Inv, Locals
<1>3. EraseScene(h, p, d, x)
  BY <1>1, EraseSceneIs
<1>4. /\ p \in Held /\ x \in Held /\ x # p /\ t.par[x] = p
      /\ Bare(t, members) /\ new \in members /\ Held = members \ {new}
  BY <1>3 DEF EraseScene
<1> HIDE DEF d, x
<1>5. PICK j \in Dirs : q # NULL => t.kid[q][j] = p /\ q \in Held /\ q # p
                                    /\ t.kid[q]["left"] # t.kid[q]["right"]
  <2>1. q # NULL => q \in Held /\ \E e \in Dirs : t.kid[q][e] = p
    BY <1>2, <1>4 DEF Shape, Paired
  <2>2. q # p /\ HangsBelow(t, p, q)
    BY <1>2, <1>4, Hangs
  <2> QED BY <2>1, <2>2, OppIs DEF HangsBelow
<1>6. ParentColorIs(s0, t, x, p, "red")
  <2>1. x \in Nodes /\ p \in Maybe
    BY <1>2, <1>4 DEF Maybe
  <2> QED BY <1>2, <2>1, SetParentColorIs
<1> HIDE DEF s0
<1>7. /\ s0 \in Trees /\ s0.kid = t.kid /\ s0.root = t.root
      /\ \A k \in Nodes : /\ s0.par[k] = t.par[k]
                          /\ s0.col[k] = IF k = x THEN "red" ELSE t.col[k]
  BY <1>4, <1>6 DEF ParentColorIs
<1>8. ~IsRed(t, p) => Reddened(s0, p, x)
  <2>1. ~IsRed(t, p) => t.col[p] = "black"
    BY <1>2, <1>4 DEF IsRed, Trees
  <2> QED BY <1>4, <1>7, <2>1 DEF Reddened
<1>9. Reddened(s1, p, x)
  <2>1. /\ s1 \in Trees /\ s1.kid = s0.kid /\ s1.root = s0.root /\ s1.par = s0.par
        /\ \A k \in Nodes : s1.col[k] = IF k = p THEN "black" ELSE s0.col[k]
    <3>1. s0 \in Trees /\ p \in Nodes
      BY <1>2, <1>4, <1>7
    <3> QED BY <3>1 DEF Trees
  <2> HIDE DEF s1
  <2> QED BY <1>4, <1>7, <2>1 DEF Reddened
<1> HIDE DEF s1, q
<1>10. ASSUME NEW s, Reddened(s, p, x)
       PROVE  /\ \E k \in Heights : Whole(s, Held, b, k, IF IsRed(t, p) THEN NULL ELSE q, j)
              /\ Bare(s, members) /\ s \in Trees /\ s.kid = t.kid
  <2>1. q # NULL => t.kid[q][j] = p
    BY <1>5
  <2>2. \E k \in Heights : Whole(s, Held, b, k, IF IsRed(t, p) THEN NULL ELSE q, j)
    BY <1>1, <1>3, <1>10, <2>1, ReddenedIsWhole DEF q
  <2> QED BY <1>4, <1>10, <2>2 DEF Reddened, Bare
<1>11. ASSUME NEW s, Reddened(s, p, x), EraseReturn(s), IsRed(t, p) \/ q = NULL
       PROVE  IInv'
  <2>1. PICK k \in Heights : Whole(s, Held, b, k, NULL, j)
    BY <1>10, <1>11
  <2>2. t' = Freed(s, new) /\ members' = members \ {new} /\ pc' = "returned" /\ new' = NULL
    BY <1>11 DEF EraseReturn, Return
  <2>3. Bare(s, members) /\ s \in Trees
    BY <1>10, <1>11
  <2> QED BY <1>2, <1>4, <2>1, <2>2, <2>3, FreedHolds
<1>12. CASE IsRed(t, p)
  BY <1>1, <1>9, <1>11, <1>12
<1>13. CASE ~IsRed(t, p) /\ q = NULL
  BY <1>1, <1>8, <1>11, <1>13
<1>14. CASE ~IsRed(t, p) /\ q # NULL
  <2>1. /\ t' = s0 /\ node' = p /\ parent' = q /\ pc' = pc /\ new' = new /\ members' = members
        /\ Held' = Held
    BY <1>1, <1>14 DEF Held
  <2>2. PICK k \in Heights : Whole(t', Held, b, k, q, j)
    BY <1>8, <1>10, <1>14, <2>1
  <2>3. Bare(t', members) /\ t' \in Trees /\ t'.kid = t.kid
    BY <1>8, <1>10, <1>14, <2>1
  <2>4. Side(parent, node)' = j
    <3>1. t'.kid[q]["right"] # p <=> j = "left"
      BY <1>5, <1>14, <2>3 DEF Dirs
    <3> QED BY <2>1, <3>1 DEF Side, Dirs
  <2>5. ShortSide' = j /\ ShortAt' = q
    BY <1>1, <2>1, <2>4 DEF ShortSide, ShortAt
  <2>6. Colors'
    BY <1>1, <1>7, <1>14, <1>4, <1>2, <2>1, <2>2 DEF Whole, Colors, IsRed
  <2>7. Locals(b)'
    <3>1. Spare'
      BY <1>1, <1>4, <2>1, <2>3 DEF Spare, Bare
    <3>2. t'.kid[q][j] = p /\ q \in Held
      BY <1>5, <1>14, <2>3
    <3> QED BY <1>1, <1>2, <1>4, <2>1, <2>4, <3>1, <3>2 DEF Locals
  <2>8. Inv(b, k)'
    BY <1>1, <2>1, <2>2, <2>5, <2>6, <2>7 DEF Whole, Inv
  <2> QED BY <2>8 DEF IInv
<1> QED BY <1>12, <1>13, <1>14

\* The rotations that end the repair: y takes the place and the color of the parent.
LEMMA RaisedHolds ==
  ASSUME NEW b \in Families, NEW h \in Heights, Inv(b, h), pc = "fixerase",
         NEW d, NEW x, EraseScene(h, parent, d, x),
         NEW s \in Trees, NEW c \in Families, Shape(s, Held, c),
         NEW S, NEW y, Touched(t, s, Held, S, parent, y), Outside(t, s, Held),
         NEW k \in Heights, \A n \in Held \ S : k[n] = h[n],
         \A n \in Held \ S : /\ t.par[n] \notin S => s.col[n] = t.col[n]
                             /\ s.col[n] \in {t.col[n], "black"},
         s.col[y] = t.col[parent], Weight(s, k, y) = Weight(t, h, parent),
         \A n \in S, e \in Dirs : Counted(s, k, n, e, NULL, "left"),
         \A n \in S : Calm(s, n), EraseReturn(s)
  PROVE  IInv'
<1>1. /\ t \in Trees /\ Shape(t, Held, b) /\ Held \in SUBSET Nodes
      /\ b \in [Nodes -> SUBSET Nodes] /\ NULL \notin Nodes /\ members \subseteq Nodes
  BY HeldIsShaped DEF Inv, Locals
<1>2. /\ ~IsRed(t, t.root) /\ \A n \in Held : Calm(t, n)
      /\ Bare(t, members) /\ new \in members /\ Held = members \ {new}
  BY DEF EraseScene
<1>3. parent \in S /\ S \subseteq Held
  BY DEF Touched
<1>4. Level(t, Held, h, parent, ShortSide)
  BY DEF Inv, ShortAt
<1>5. Level(s, Held, k, NULL, "left")
  <2>1. \A n \in Held \ S : t.par[n] \notin S => s.col[n] = t.col[n]
    OBVIOUS
  <2> QED BY <1>1, <1>3, <1>4, <2>1, MovedLevels
<1>6. /\ \A n \in Held \ S : Calm(t, n) => Calm(s, n)
      /\ ~IsRed(t, t.root) /\ t.root \in Held \cup {NULL} => ~IsRed(s, s.root)
  <2>1. Paired(t, Held)
    BY <1>1 DEF Shape
  <2>2. \A n \in Held \ S : s.col[n] \in {t.col[n], "black"}
    OBVIOUS
  <2>3. s.col[y] \in {t.col[parent], "black"}
    OBVIOUS
  <2> QED BY <1>1, <2>1, <2>2, <2>3, MovedCalm
<1>7. Whole(s, Held, c, k, NULL, "left")
  <2>1. t.root \in Held \cup {NULL}
    BY <1>1 DEF Shape, Rooted
  <2> QED BY <1>2, <1>3, <1>5, <1>6, <2>1 DEF Whole
<1>8. Bare(s, members)
  BY <1>1, <1>2 DEF Bare, Outside
<1>9. t' = Freed(s, new) /\ members' = members \ {new} /\ pc' = "returned" /\ new' = NULL
  BY DEF EraseReturn, Return
<1> QED BY <1>1, <1>2, <1>7, <1>8, <1>9, FreedHolds

\* Raising the sibling, or its near child, makes up for the black node that lacks.
LEMMA EraseRaiseHolds == IInv /\ EraseRaise => IInv'
<1> SUFFICES ASSUME NEW b \in Families, NEW h \in Heights, Inv(b, h), EraseRaise
             PROVE  IInv'
  BY DEF IInv
<1> DEFINE p == parent
           d == Side(p, node)
           x == Sibling
           near == t.kid[x][d]
           far == t.kid[x][Opp(d)]
<1>1. /\ pc = "fixerase" /\ ~IsRed(t, x) /\ \E e \in Dirs : IsRed(t, t.kid[x][e])
      /\ EraseReturn(IF IsRed(t, far) THEN RaiseSibling(t, p, x, far, d)
                     ELSE RaiseSibling(RotateAtSibling(t, p, x, near, d), p, near, x, d))
  BY DEF EraseRaise, Red, IsRed
<1>2. /\ t \in Trees /\ Shape(t, Held, b) /\ Held \in SUBSET Nodes
      /\ b \in [Nodes -> SUBSET Nodes] /\ NULL \notin Nodes
  BY HeldIsShaped
<1>3. EraseScene(h, p, d, x)
  BY <1>1, EraseSceneIs
<1>4. /\ p \in Held /\ d \in Dirs /\ t.kid[p][d] = node /\ t.kid[p][Opp(d)] = x
      /\ x \in Held /\ x # p /\ x # node /\ node # p /\ t.par[x] = p
      /\ node # NULL => node \in Held /\ t.par[node] = p
      /\ h[p] = Weight(t, h, node) + 1 /\ h[p] = Weight(t, h, x)
      /\ Weight(t, h, node) \in Nat
      /\ \A n \in Held \ {p}, e \in Dirs : h[n] = Weight(t, h, t.kid[n][e])
      /\ \A n \in Held : Calm(t, n)
  BY <1>3 DEF EraseScene
<1>5. t.col[x] = "black" /\ x # NULL /\ p # NULL /\ p \in Nodes /\ x \in Nodes
  BY <1>1, <1>2, <1>4 DEF IsRed, Trees
<1> HIDE DEF x, d
<1>6. Opp(d) \in Dirs /\ Opp(d) # d /\ Opp(Opp(d)) = d /\ \A e \in Dirs : e = d \/ e = Opp(d)
  BY <1>4, OppIs
<1>7. /\ h[x] = Weight(t, h, near) /\ h[x] = Weight(t, h, far)
      /\ h[x] \in Nat /\ h[p] = h[x] + 1 /\ h[x] = Weight(t, h, node)
  <2>1. Weight(t, h, x) = h[x] + 1
    BY <1>5 DEF Weight
  <2>2. h[x] = Weight(t, h, near) /\ h[x] = Weight(t, h, far)
    BY <1>4, <1>6
  <2>3. h[x] \in Nat
    BY <1>5 DEF Heights
  <2>4. h[p] = h[x] + 1 /\ h[p] = Weight(t, h, node) + 1 /\ Weight(t, h, node) \in Nat
    BY <1>4, <2>1
  <2>5. h[x] = Weight(t, h, node)
    <3> HIDE DEF p
    <3> QED BY <2>3, <2>4
  <2> QED BY <2>2, <2>3, <2>4, <2>5
<1>8. /\ near # NULL => near \in Held /\ near \notin {p, x, node, far} /\ t.par[near] = x
      /\ far # NULL => far \in Held /\ far \notin {p, x, node} /\ t.par[far] = x
  <2>1. ChildOf(t, Held, b, x, d, near) /\ ChildOf(t, Held, b, x, Opp(d), far)
    BY <1>2, <1>4, <1>6, ChildIs
  <2> QED BY <1>2, <1>4, <2>1 DEF ChildOf
<1>9. Weight(t, h, p) = IF t.col[p] = "black" THEN h[p] + 1 ELSE h[p]
  BY <1>5 DEF Weight
<1>10. CASE IsRed(t, far)
  <2> DEFINE s == RaiseSibling(t, p, x, far, d)
             k == [h EXCEPT ![p] = h[x], ![x] = h[p]]
  <2>1. far # NULL /\ far \in Held /\ far \in Nodes /\ h[far] = h[x]
    <3>1. far # NULL /\ t.col[far] = "red"
      BY <1>10 DEF IsRed
    <3> QED BY <1>2, <1>7, <1>8, <3>1 DEF Weight
  <2>2. /\ s \in Trees /\ Rotated(t, s, p, x, near, Opp(d))
        /\ \A n \in Nodes : s.col[n] = IF n \in {p, far} THEN "black"
                                       ELSE IF n = x THEN t.col[p] ELSE t.col[n]
    <3>1. s \in Trees /\ Rotated(t, s, p, x, near, Opp(d)) /\ Darkened(s, t, {p, far}, p, x)
      BY <1>2, <1>4, <1>5, <2>1, RaiseSiblingIs
    <3> HIDE DEF s
    <3> QED BY <3>1 DEF Darkened
  <2>3. EraseReturn(s)
    BY <1>1, <1>10
  <2>4. k \in Heights /\ k[p] = h[x] /\ k[x] = h[p] /\ \A n \in Nodes \ {p, x} : k[n] = h[n]
    BY <1>4, <1>5 DEF Heights
  <2> HIDE DEF s, k, near, far
  <2>5. PICK c \in Families : Shape(s, Held, c)
    <3> DEFINE c == BelowRotated(t, b, p, x, near, Opp(d))
    <3>1. c \in [Nodes -> SUBSET Nodes] /\ Shape(s, Held, c)
      BY <1>2, <1>4, <1>5, <1>6, <2>2, RotationKeepsShape
    <3> HIDE DEF c
    <3> QED BY <3>1 DEF Families
  <2>6. Touched(t, s, Held, {p, x}, p, x) /\ Outside(t, s, Held)
    BY <1>2, <1>4, <1>5, <1>6, <2>2, RotatedMoves, RotatedOutside
  <2>7. s.kid[p][d] = node /\ s.kid[p][Opp(d)] = near /\ s.kid[x][d] = p /\ s.kid[x][Opp(d)] = far
    <3>1. \A n \in Nodes, e \in Dirs :
            s.kid[n][e] = IF n = p /\ e = Opp(d) THEN near
                          ELSE IF n = x /\ e = Opp(Opp(d)) THEN p
                          ELSE IF n = t.par[p] /\ t.kid[n][e] = p THEN x
                          ELSE t.kid[n][e]
      BY <2>2 DEF Rotated
    <3>2. far # p /\ node # p /\ t.kid[x][Opp(d)] = far
      BY <1>4, <1>8, <2>1 DEF far
    <3> QED BY <1>4, <1>5, <1>6, <3>1, <3>2
  <2>8. /\ Weight(s, k, node) = h[x] /\ Weight(s, k, near) = h[x]
        /\ Weight(s, k, p) = h[p] /\ Weight(s, k, far) = h[p]
        /\ Weight(s, k, x) = Weight(t, h, p)
    <3>1. s.col[p] = "black" /\ s.col[far] = "black" /\ s.col[x] = t.col[p]
      BY <1>4, <1>5, <1>8, <2>1, <2>2
    <3>2. Weight(s, k, node) = Weight(t, h, node)
      <4>1. node # NULL => s.col[node] = t.col[node] /\ k[node] = h[node]
        BY <1>2, <1>4, <1>8, <2>1, <2>2, <2>4
      <4> QED BY <4>1 DEF Weight
    <3>3. Weight(s, k, near) = Weight(t, h, near)
      <4>1. near # NULL => s.col[near] = t.col[near] /\ k[near] = h[near]
        BY <1>2, <1>8, <2>2, <2>4
      <4> QED BY <4>1 DEF Weight
    <3>4. Weight(s, k, p) = h[x] + 1
      BY <1>5, <2>4, <3>1 DEF Weight
    <3>5. Weight(s, k, far) = h[x] + 1
      BY <1>8, <2>1, <2>4, <3>1 DEF Weight
    <3>6. Weight(s, k, x) = Weight(t, h, p)
      BY <1>5, <1>9, <2>4, <3>1 DEF Weight
    <3> HIDE DEF p
    <3> QED BY <1>7, <3>2, <3>3, <3>4, <3>5, <3>6
  <2>9. ASSUME NEW n \in {p, x}, NEW e \in Dirs
        PROVE  Counted(s, k, n, e, NULL, "left")
    <3>1. n # NULL
      BY <1>5
    <3>2. h[x] = h[x] + 0 /\ h[p] = h[p] + 0
      BY <1>7
    <3>3. k[n] = Weight(s, k, s.kid[n][e]) + 0
      <4>1. CASE n = p
        BY <1>6, <2>4, <2>7, <2>8, <3>2, <4>1
      <4>2. CASE n = x
        BY <1>6, <2>4, <2>7, <2>8, <3>2, <4>2
      <4> QED BY <4>1, <4>2
    <3> QED BY <3>1, <3>3 DEF Counted
  <2>10. \A n \in {p, x} : Calm(s, n)
    <3>1. ~IsRed(s, p) /\ ~IsRed(s, far)
      BY <1>5, <2>1, <2>2 DEF IsRed
    <3> QED BY <1>6, <2>7, <3>1 DEF Calm
  <2>11. /\ \A n \in Held \ {p, x} : k[n] = h[n]
         /\ \A n \in Held \ {p, x} : /\ t.par[n] \notin {p, x} => s.col[n] = t.col[n]
                                     /\ s.col[n] \in {t.col[n], "black"}
         /\ s.col[x] = t.col[p] /\ Weight(s, k, x) = Weight(t, h, p)
    <3>1. x \notin {p, far} /\ t.par[far] = x
      BY <1>4, <1>8, <2>1
    <3> QED BY <1>2, <1>5, <2>2, <2>4, <2>8, <3>1
  <2>12. s \in Trees
    BY <2>2
  <2> QED BY <1>1, <1>3, <2>3, <2>4, <2>5, <2>6, <2>9, <2>10, <2>11, <2>12, RaisedHolds
<1>11. CASE ~IsRed(t, far)
  <2> DEFINE s == RaiseSibling(RotateAtSibling(t, p, x, near, d), p, near, x, d)
             k == [h EXCEPT ![p] = h[x], ![near] = h[p]]
             u == t.kid[near][Opp(d)]
             v == t.kid[near][d]
  <2>1. IsRed(t, near) /\ t.col[near] = "red" /\ near # NULL /\ near \in Held /\ near \in Nodes
    <3>1. IsRed(t, near)
      BY <1>1, <1>6, <1>11
    <3> QED BY <1>2, <1>8, <3>1 DEF IsRed
  <2>2. ~IsRed(t, u) /\ ~IsRed(t, v)
    BY <1>4, <1>6, <2>1 DEF Calm
  <2>3. /\ s \in Trees /\ DoublyRotated(t, s, p, x, near, Opp(d))
        /\ \A n \in Nodes : s.col[n] = IF n \in {p, x} THEN "black"
                                       ELSE IF n = near THEN t.col[p] ELSE t.col[n]
    <3>1. s \in Trees /\ DoublyRotated(t, s, p, x, near, Opp(d)) /\ Darkened(s, t, {p, x}, p, near)
      <4>1. near = t.kid[x][d]
        OBVIOUS
      <4> HIDE DEF near
      <4> QED BY <1>2, <1>4, <1>5, <2>1, <2>2, <4>1, RaiseTwiceIs DEF u
    <3> HIDE DEF s
    <3> QED BY <3>1 DEF Darkened
  <2>4. EraseReturn(s)
    BY <1>1, <1>11
  <2>5. /\ k \in Heights /\ k[p] = h[x] /\ k[x] = h[x] /\ k[near] = h[p]
        /\ \A n \in Nodes \ {p, near} : k[n] = h[n]
    BY <1>4, <1>5, <1>8, <2>1 DEF Heights
  <2>6. Apart(t, Held, p, x, near, Opp(d))
    <3>1. x = t.kid[p][Opp(d)] /\ near = t.kid[x][Opp(Opp(d))]
      BY <1>4, <1>6
    <3> QED BY <1>2, <1>4, <1>5, <1>6, <2>1, <3>1, InnerChild
  <2>7. /\ (u = NULL \/ u \in Nodes \ {p, x, near}) /\ (v = NULL \/ v \in Nodes \ {p, x, near})
        /\ t.par[p] \notin {p, x, near}
        /\ node \notin {p, x, near} /\ far \notin {p, x, near}
    BY <1>2, <1>4, <1>6, <2>6 DEF Apart
  <2>8. h[near] = Weight(t, h, u) /\ h[near] = Weight(t, h, v) /\ h[near] = h[x]
    <3>1. near \in Held \ {p}
      BY <1>8, <2>1
    <3>2. Weight(t, h, near) = h[near]
      BY <2>1 DEF Weight
    <3> QED BY <1>4, <1>6, <1>7, <3>1, <3>2
  <2> HIDE DEF s, k, near, far
  <2>9. PICK c \in Families : Shape(s, Held, c)
    BY <1>2, <1>4, <1>5, <1>6, <2>1, <2>3, DoubleRotationKeepsShape DEF Families
  <2>10. Touched(t, s, Held, {p, x, near}, p, near) /\ Outside(t, s, Held)
    BY <1>2, <1>4, <1>5, <1>6, <2>1, <2>3, DoublyRotatedMoves, DoublyRotatedOutside
  <2>11. /\ s.kid[p][d] = node /\ s.kid[p][Opp(d)] = v
         /\ s.kid[x][d] = u /\ s.kid[x][Opp(d)] = far
         /\ s.kid[near][d] = p /\ s.kid[near][Opp(d)] = x
    <3>1. ASSUME NEW n \in Nodes, NEW e \in Dirs
          PROVE  s.kid[n][e] = IF n = p /\ e = Opp(d) THEN v
                               ELSE IF n = x /\ e = d THEN u
                               ELSE IF n = near THEN IF e = Opp(d) THEN x ELSE p
                               ELSE IF n = t.par[p] /\ t.kid[n][e] = p THEN near
                               ELSE t.kid[n][e]
      <4>1. u = t.kid[near][Opp(d)] /\ v = t.kid[near][Opp(Opp(d))]
        BY <1>6
      <4> HIDE DEF u, v, p
      <4>2. DoublyRotated(t, s, p, x, near, Opp(d)) /\ Opp(Opp(d)) = d
        BY SMTT(30), <1>6, <2>3
      <4>3. s.kid[n][e] = IF n = p /\ e = Opp(d) THEN t.kid[near][Opp(Opp(d))]
                          ELSE IF n = x /\ e = Opp(Opp(d)) THEN t.kid[near][Opp(d)]
                          ELSE IF n = near THEN IF e = Opp(d) THEN x ELSE p
                          ELSE IF n = t.par[p] /\ t.kid[n][e] = p THEN near
                          ELSE t.kid[n][e]
        BY <4>2 DEF DoublyRotated
      <4> QED BY <4>1, <4>2, <4>3
    <3>2. t.kid[x][Opp(d)] = far /\ x # near
      BY <1>8, <2>1 DEF far
    <3> HIDE DEF u, v, p
    <3>3. p # near /\ t.par[p] # x /\ t.par[p] # p
      BY <2>7, <1>8, <2>1
    <3>4. s.kid[near][d] = p /\ s.kid[near][Opp(d)] = x
      BY <1>4, <1>6, <2>1, <3>1, <3>2, <3>3, <1>8
    <3>5. s.kid[p][d] = node /\ s.kid[p][Opp(d)] = v
      BY <1>4, <1>5, <1>6, <3>1, <3>2, <3>3
    <3>6. s.kid[x][d] = u /\ s.kid[x][Opp(d)] = far
      BY <1>4, <1>5, <1>6, <3>1, <3>2, <3>3
    <3> QED BY <3>4, <3>5, <3>6
  <2> HIDE DEF u, v
  <2>12. /\ Weight(s, k, node) = h[x] /\ Weight(s, k, u) = h[x] /\ Weight(s, k, v) = h[x]
         /\ Weight(s, k, far) = h[x] /\ Weight(s, k, p) = h[p] /\ Weight(s, k, x) = h[p]
         /\ Weight(s, k, near) = Weight(t, h, p)
    <3>1. s.col[p] = "black" /\ s.col[x] = "black" /\ s.col[near] = t.col[p]
      BY <1>5, <1>8, <2>1, <2>3
    <3>2. \A n \in {node, u, v, far} : Weight(s, k, n) = Weight(t, h, n)
      <4>1. \A n \in {node, u, v, far} : n = NULL \/ (n \in Nodes /\ n \notin {p, x, near})
        BY <1>2, <1>4, <1>8, <2>7
      <4>2. \A n \in {node, u, v, far} : n = NULL \/ (s.col[n] = t.col[n] /\ k[n] = h[n])
        BY <2>3, <2>5, <4>1
      <4> QED BY <4>2 DEF Weight
    <3>3. Weight(s, k, p) = h[x] + 1 /\ Weight(s, k, x) = h[x] + 1
      BY <1>5, <2>5, <3>1 DEF Weight
    <3>4. Weight(s, k, near) = Weight(t, h, p)
      BY <1>9, <2>1, <2>5, <3>1 DEF Weight
    <3> HIDE DEF p
    <3> QED BY <1>7, <2>8, <3>2, <3>3, <3>4
  <2>13. ASSUME NEW n \in {p, x, near}, NEW e \in Dirs
         PROVE  Counted(s, k, n, e, NULL, "left")
    <3>1. n # NULL
      BY <1>5, <2>1
    <3>2. h[x] = h[x] + 0 /\ h[p] = h[p] + 0
      BY <1>7
    <3>3. k[n] = Weight(s, k, s.kid[n][e]) + 0
      <4>1. CASE n = p
        BY <1>6, <2>5, <2>11, <2>12, <3>2, <4>1
      <4>2. CASE n = x
        BY <1>6, <2>5, <2>11, <2>12, <3>2, <4>2
      <4>3. CASE n = near
        BY <1>6, <2>5, <2>11, <2>12, <3>2, <4>3
      <4> QED BY <4>1, <4>2, <4>3
    <3> QED BY <3>1, <3>3 DEF Counted
  <2>14. \A n \in {p, x, near} : Calm(s, n)
    <3>1. ~IsRed(s, p) /\ ~IsRed(s, x)
      BY <1>5, <2>3 DEF IsRed
    <3> QED BY <1>6, <2>11, <3>1 DEF Calm
  <2>15. /\ \A n \in Held \ {p, x, near} : k[n] = h[n]
         /\ \A n \in Held \ {p, x, near} : /\ t.par[n] \notin {p, x, near} => s.col[n] = t.col[n]
                                           /\ s.col[n] \in {t.col[n], "black"}
         /\ s.col[near] = t.col[p] /\ Weight(s, k, near) = Weight(t, h, p)
    BY <1>2, <1>8, <2>1, <2>3, <2>5, <2>12
  <2>16. s \in Trees
    BY <2>3
  <2> QED BY <1>1, <1>3, <2>4, <2>5, <2>9, <2>10, <2>13, <2>14, <2>15, <2>16, RaisedHolds
<1> QED BY <1>10, <1>11

-----------------------------------------------------------------------------
(***************************************************************************)
(* The invariant.                                                          *)
(***************************************************************************)
\* Every step keeps the invariant.
LEMMA StepHolds == IInv /\ [Next]_vars => IInv'
<1> SUFFICES ASSUME IInv, [Next]_vars
             PROVE  IInv'
  OBVIOUS
<1>1. ASSUME NEW n \in Nodes, CallInsert(n)
      PROVE  IInv'
  BY <1>1, CallInsertHolds
<1>2. ASSUME NEW n \in Nodes, EraseNoLeft(n)
      PROVE  IInv'
  BY <1>2, EraseNoLeftHolds
<1>3. ASSUME NEW n \in Nodes, EraseNoRight(n)
      PROVE  IInv'
  BY <1>3, EraseNoRightHolds
<1>4. ASSUME NEW n \in Nodes, EraseTwo(n)
      PROVE  IInv'
  BY <1>4, EraseTwoHolds
<1>5. CASE Descend
  BY <1>5, DescendHolds
<1>6. CASE Link
  BY <1>6, LinkHolds
<1>7. CASE InsertDone
  BY <1>7, InsertDoneHolds
<1>8. CASE InsertFlip
  BY <1>8, InsertFlipHolds
<1>9. CASE InsertRotate
  BY <1>9, InsertRotateHolds
<1>10. CASE EraseRotate
  BY <1>10, EraseRotateHolds
<1>11. CASE EraseFlip
  BY <1>11, EraseFlipHolds
<1>12. CASE EraseRaise
  BY <1>12, EraseRaiseHolds
<1>13. CASE Take
  BY <1>13, TakeHolds
<1>14. CASE UNCHANGED vars
  <2> SUFFICES ASSUME NEW b \in Families, NEW h \in Heights, Inv(b, h)
               PROVE  Inv(b, h)'
    BY DEF IInv
  <2>1. t' = t /\ pc' = pc /\ new' = new /\ node' = node /\ parent' = parent /\ members' = members
    BY <1>14 DEF vars, locals
  <2> QED BY <2>1 DEF Inv, Held, ShortAt, ShortSide, Side, Colors, Locals, Spare, Placed
<1> QED BY <1>1, <1>2, <1>3, <1>4, <1>5, <1>6, <1>7, <1>8, <1>9, <1>10, <1>11, <1>12, <1>13,
           <1>14 DEF Next

\* The tree, the operation's locals and the history agree at all times.
THEOREM Invariance == Spec => []IInv
BY InitHolds, StepHolds, PTL DEF Spec

-----------------------------------------------------------------------------
(***************************************************************************)
(* What the properties compute from the pointers, in terms of the shape.   *)
(***************************************************************************)
\* A set and what repeated steps make of it.
Iterates(f, A, step, k) == f = [i \in 0..k |-> IF i = 0 THEN A ELSE step[f[i-1]]]

\* The function that iterates step from A exists.
LEMMA IterateExists ==
  ASSUME NEW U, NEW A \in SUBSET U, NEW step \in [SUBSET U -> SUBSET U], NEW k \in Nat
  PROVE  \E f \in [0..k -> SUBSET U] : Iterates(f, A, step, k)
<1> DEFINE Has(j) == \E f \in [0..j -> SUBSET U] : Iterates(f, A, step, j)
           T == {j \in Nat : ~Has(j)}
<1> SUFFICES ASSUME T # {}
             PROVE  FALSE
  OBVIOUS
<1>1. PICK j \in T : \A i \in T : j <= i
  BY LeastNatural
<1>2. CASE j = 0
  <2> DEFINE f == [i \in 0..0 |-> A]
  <2>1. f \in [0..0 -> SUBSET U]
    OBVIOUS
  <2>2. Iterates(f, A, step, 0)
    BY DEF Iterates
  <2> HIDE DEF f
  <2> QED BY <1>1, <1>2, <2>1, <2>2
<1>3. CASE j # 0
  <2>1. j - 1 \in Nat /\ ~(j <= j - 1) /\ j \in Nat
    BY <1>1, <1>3
  <2>2. Has(j - 1)
    <3> HIDE DEF Has
    <3> QED BY <1>1, <2>1
  <2>3. PICK f \in [0..(j-1) -> SUBSET U] : Iterates(f, A, step, j - 1)
    BY <2>2
  <2> DEFINE g == [i \in 0..j |-> IF i = j THEN step[f[j-1]] ELSE f[i]]
  <2>4. \A i \in 0..j : i = j \/ i \in 0..(j-1)
    BY <2>1
  <2>5. f[j-1] \in SUBSET U
    BY <2>1
  <2>6. g \in [0..j -> SUBSET U]
    BY <2>4, <2>5
  <2>7. \A i \in 0..(j-1) : f[i] = IF i = 0 THEN A ELSE step[f[i-1]]
    BY <2>3 DEF Iterates
  <2>8. ASSUME NEW i \in 0..j
        PROVE  g[i] = IF i = 0 THEN A ELSE step[g[i-1]]
    <3>1. i # 0 => i - 1 \in 0..j /\ i - 1 # j
      BY <2>1
    <3>2. i # 0 => g[i-1] = f[i-1]
      BY <3>1
    <3>3. CASE i = j
      BY <1>3, <3>2, <3>3
    <3>4. CASE i # j
      <4>1. i \in 0..(j-1) /\ g[i] = f[i]
        BY <2>4, <3>4
      <4> HIDE DEF g
      <4> QED BY <2>7, <3>2, <4>1
    <3> QED BY <3>3, <3>4
  <2>9. g = [i \in 0..j |-> g[i]]
    OBVIOUS
  <2> HIDE DEF g
  <2>10. Iterates(g, A, step, j)
    BY <2>8, <2>9 DEF Iterates
  <2> QED BY <1>1, <2>6, <2>10
<1> QED BY <1>2, <1>3

\* Subtree collects what is below n.
LEMMA SubtreeIs ==
  ASSUME t \in Trees, NEW H \in SUBSET Nodes, NEW b \in [Nodes -> SUBSET Nodes],
         Shape(t, H, b), NEW n \in H \cup {NULL}
  PROVE  Subtree(n) = Below(b, n)
<1> DEFINE C == Cardinality(Nodes)
           Kids(S) == {t.kid[m][d] : m \in S, d \in Dirs} \ {NULL}
           A == {n} \ {NULL}
           Walk(f) == f = [i \in 0..C |-> IF i = 0 THEN A ELSE Kids(f[i-1])]
           D == CHOOSE f : Walk(f)
<1>1. Subtree(n) = UNION {D[i] : i \in 0..C}
  BY DEF Subtree
<1>2. C \in Nat
  BY NodesAssumption, FS_CardinalityType
<1>3. /\ \A m \in H : /\ \A d \in Dirs : t.kid[m][d] # NULL => t.kid[m][d] \in H /\ t.par[t.kid[m][d]] = m
                      /\ t.par[m] # NULL => t.par[m] \in H /\ \E d \in Dirs : t.kid[t.par[m]][d] = m
  BY DEF Shape, Paired
<1>4. \A m \in H : m \in b[m] /\ m # NULL /\ b[m] \subseteq H /\ b[m] \in SUBSET Nodes
  BY NodesAssumption DEF Shape, Sorted, Closed
<1> HIDE DEF C
<1>5. \E f : Walk(f)
  <2> DEFINE step == [S \in SUBSET Nodes |-> Kids(S)]
  <2>1. ASSUME NEW S \in SUBSET Nodes
        PROVE  Kids(S) \in SUBSET Nodes
    BY DEF Trees, Maybe
  <2>2. A \in SUBSET Nodes
    OBVIOUS
  <2> HIDE DEF Kids, A
  <2>3. step \in [SUBSET Nodes -> SUBSET Nodes] /\ \A S \in SUBSET Nodes : step[S] = Kids(S)
    BY <2>1
  <2> HIDE DEF step
  <2>4. PICK f \in [0..C -> SUBSET Nodes] : Iterates(f, A, step, C)
    BY <1>2, <2>2, <2>3, IterateExists
  <2>5. f = [i \in 0..C |-> IF i = 0 THEN A ELSE step[f[i-1]]]
    BY <2>4 DEF Iterates
  <2>6. ASSUME NEW i \in 0..C
        PROVE  (IF i = 0 THEN A ELSE step[f[i-1]]) = IF i = 0 THEN A ELSE Kids(f[i-1])
    <3>1. i # 0 => i - 1 \in 0..C
      BY <1>2
    <3>2. i # 0 => f[i-1] \in SUBSET Nodes
      BY <3>1
    <3> QED BY <2>3, <3>2
  <2>7. Walk(f)
    BY <2>5, <2>6
  <2> HIDE DEF Walk
  <2> QED BY <2>7
<1>6. Walk(D)
  <2> HIDE DEF Walk
  <2> QED BY <1>5
<1>7. \A i \in 0..C : D[i] = IF i = 0 THEN A ELSE Kids(D[i-1])
  <2> HIDE DEF D, Kids, A
  <2> QED BY <1>6
<1> HIDE DEF D, Walk
<1>8. CASE n = NULL
  <2> DEFINE T == {i \in 0..C : D[i] # {}}
  <2>1. T = {}
    <3> SUFFICES ASSUME T # {}
                 PROVE  FALSE
      OBVIOUS
    <3>1. T \in SUBSET Nat
      OBVIOUS
    <3>2. PICK i \in T : \A j \in T : i <= j
      BY <3>1, LeastNatural
    <3>3. i # 0 => i - 1 \in 0..C /\ ~(i <= i - 1)
      BY <1>2
    <3>4. i # 0 => D[i-1] = {}
      BY <3>2, <3>3
    <3>5. A = {} /\ Kids({}) = {} /\ i \in 0..C /\ D[i] # {}
      BY <1>8, <3>2
    <3> HIDE DEF Kids, A, T
    <3> QED BY <1>7, <3>4, <3>5
  <2> QED BY <1>1, <1>8, <2>1 DEF Below
<1>9. CASE n # NULL
  <2>1. n \in H /\ Below(b, n) = b[n] /\ A = {n}
    BY <1>9 DEF Below
  <2>2. \A i \in 0..C : D[i] \subseteq b[n]
    <3> DEFINE T == {i \in 0..C : ~(D[i] \subseteq b[n])}
    <3> SUFFICES ASSUME T # {}
                 PROVE  FALSE
      OBVIOUS
    <3>1. T \in SUBSET Nat
      OBVIOUS
    <3>2. PICK i \in T : \A j \in T : i <= j
      BY <3>1, LeastNatural
    <3>3. i # 0 => i - 1 \in 0..C /\ ~(i <= i - 1)
      BY <1>2
    <3>4. i # 0 => D[i-1] \subseteq b[n]
      BY <3>2, <3>3
    <3>5. ASSUME NEW m \in b[n], NEW d \in Dirs, t.kid[m][d] # NULL
          PROVE  t.kid[m][d] \in b[n]
      <4>1. m \in H /\ t.kid[m][d] \in H /\ b[m] \subseteq b[n]
        BY <1>3, <1>4, <2>1, <3>5 DEF Shape, Closed
      <4>2. ChildOf(t, H, b, m, d, t.kid[m][d])
        BY <4>1, ChildIs
      <4> QED BY <3>5, <4>1, <4>2 DEF ChildOf
    <3>6. i # 0 => Kids(D[i-1]) \subseteq b[n]
      BY <3>4, <3>5
    <3> HIDE DEF Kids
    <3> QED BY <1>4, <1>7, <2>1, <3>2, <3>6
  <2>3. \A m \in H : Cardinality(b[m]) \in Nat /\ Cardinality(b[m]) <= C
    <3>1. ASSUME NEW m \in H
          PROVE  Cardinality(b[m]) \in Nat /\ Cardinality(b[m]) <= C
      <4>1. IsFiniteSet(b[m]) /\ Cardinality(b[m]) <= C
        BY <1>4, NodesAssumption, FS_Subset DEF C
      <4> QED BY <4>1, FS_CardinalityType
    <3> QED BY <3>1
  <2> DEFINE Found(m, k) == \E i \in 0..k : m \in D[i]
             T == {k \in 0..C : \E m \in b[n] : Cardinality(b[m]) = C - k /\ ~Found(m, k)}
  <2>4. T = {}
    <3> SUFFICES ASSUME T # {}
                 PROVE  FALSE
      OBVIOUS
    <3>1. T \in SUBSET Nat
      OBVIOUS
    <3>2. PICK k \in T : \A j \in T : k <= j
      BY <3>1, LeastNatural
    <3>3. k \in 0..C /\ k \in Nat
      BY <1>2
    <3>4. PICK m \in b[n] : Cardinality(b[m]) = C - k /\ ~Found(m, k)
      BY <3>2
    <3>5. m # n
      <4>0. 0 \in 0..k /\ 0 \in 0..C
        BY <1>2, <3>3
      <4>1. n \in D[0]
        <5> HIDE DEF Kids, A
        <5> QED BY <1>7, <2>1, <4>0
      <4> QED BY <3>4, <4>0, <4>1
    <3> DEFINE q == t.par[m]
    <3>6. m \in H /\ q \in b[n] /\ q \in H
      BY <1>4, <2>1, <3>5 DEF Shape, Closed
    <3>7. PICK d \in Dirs : t.kid[q][d] = m
      BY <1>3, <1>4, <3>6
    <3> HIDE DEF q
    <3>8. b[m] \subseteq b[q] /\ q \notin b[m] /\ q \in b[q]
      <4>1. ChildOf(t, H, b, q, d, m)
        BY <3>6, <3>7, ChildIs
      <4> QED BY <1>4, <3>6, <4>1 DEF ChildOf
    <3>9. Cardinality(b[m]) < Cardinality(b[q])
      <4>1. IsFiniteSet(b[q])
        BY <1>4, <3>6, NodesAssumption, FS_Subset
      <4>2. b[m] \in SUBSET b[q] /\ b[q] # b[m]
        BY <3>8
      <4>3. Cardinality(b[m]) <= Cardinality(b[q]) /\ Cardinality(b[q]) # Cardinality(b[m])
        BY <4>1, <4>2, FS_Subset
      <4> QED BY <2>3, <3>6, <4>3
    <3> DEFINE j == C - Cardinality(b[q])
    <3>10. j \in 0..C /\ Cardinality(b[q]) = C - j /\ ~(k <= j) /\ j + 1 <= k
      BY <1>2, <2>3, <3>3, <3>4, <3>6, <3>9
    <3> HIDE DEF j
    <3>11. Found(q, j)
      <4> HIDE DEF Found
      <4> QED BY <3>2, <3>6, <3>10
    <3>12. PICK i \in 0..j : q \in D[i]
      BY <3>11
    <3>13. i + 1 \in 0..k /\ i + 1 \in 0..C /\ (i + 1) - 1 = i /\ i + 1 # 0
      BY <1>2, <3>3, <3>10
    <3>14. m \in Kids(D[i])
      BY <1>4, <3>6, <3>7, <3>12
    <3>15. m \in D[i+1]
      <4> HIDE DEF Kids
      <4> QED BY <1>7, <3>13, <3>14
    <3> QED BY <3>4, <3>13, <3>15
  <2>5. ASSUME NEW m \in b[n]
        PROVE  \E i \in 0..C : m \in D[i]
    <3> DEFINE k == C - Cardinality(b[m])
    <3>1. m \in H
      BY <1>4, <2>1
    <3>2. k \in 0..C /\ Cardinality(b[m]) = C - k /\ \A i \in 0..k : i \in 0..C
      BY <1>2, <2>3, <3>1
    <3> HIDE DEF k
    <3>3. Found(m, k)
      <4> HIDE DEF Found
      <4> QED BY <2>4, <3>2
    <3> QED BY <3>2, <3>3
  <2> QED BY <1>1, <2>1, <2>2, <2>5
<1> QED BY <1>8, <1>9

\* The tree holds what it should, in order, after every step.
THEOREM OrderHolds == Spec => []Ordered
<1>1. IInv => Ordered
  <2> SUFFICES ASSUME NEW b \in Families, NEW h \in Heights, Inv(b, h)
               PROVE  Ordered
    BY DEF IInv
  <2>1. /\ t \in Trees /\ Shape(t, Held, b) /\ Held \in SUBSET Nodes
        /\ b \in [Nodes -> SUBSET Nodes] /\ NULL \notin Nodes
    BY HeldIsShaped
  <2>2. \A n \in Held \cup {NULL} : Subtree(n) = Below(b, n)
    BY <2>1, SubtreeIs
  <2>3. t.root \in Held \cup {NULL} /\ Held = Below(b, t.root) /\ (t.root # NULL => t.par[t.root] = NULL)
    BY <2>1 DEF Shape, Rooted
  <2>4. Linked = Held
    BY <2>2, <2>3 DEF Linked
  <2>5. ASSUME NEW n \in Held
        PROVE  /\ \A m \in Subtree(t.kid[n]["left"]) : m < n
               /\ \A m \in Subtree(t.kid[n]["right"]) : m > n
               /\ \A d \in Dirs : t.kid[n][d] # NULL => t.par[t.kid[n][d]] = n
    <3>1. \A d \in Dirs : t.kid[n][d] # NULL => t.kid[n][d] \in Held /\ t.par[t.kid[n][d]] = n
      BY <2>1 DEF Shape, Paired
    <3>2. \A d \in Dirs : Subtree(t.kid[n][d]) = Below(b, t.kid[n][d])
      BY <2>2, <3>1
    <3>3. /\ \A m \in Below(b, t.kid[n]["left"]) : m < n
          /\ \A m \in Below(b, t.kid[n]["right"]) : m > n
      BY <2>1 DEF Shape, Sorted
    <3> QED BY <3>1, <3>2, <3>3, OppIs
  <2> QED BY <2>3, <2>4, <2>5 DEF Ordered
<1> QED BY <1>1, Invariance, PTL

\* The nodes on the path from the root down to n.
Above(H, b, n) == {m \in H : n \in b[m]}

\* How many nodes of S are black.
Blacks(s, S) == Cardinality({m \in S : s.col[m] = "black"})

\* BlackCount follows that path.
LEMMA BlackCountIs ==
  ASSUME t \in Trees, NEW H \in SUBSET Nodes, NEW b \in [Nodes -> SUBSET Nodes],
         Shape(t, H, b), NEW n \in H
  PROVE  BlackCount(n) = Blacks(t, Above(H, b, n))
<1> DEFINE C == Cardinality(Nodes)
           Pars(S) == {t.par[m] : m \in S} \ {NULL}
           A == {n}
           Walk(f) == f = [i \in 0..C |-> IF i = 0 THEN A ELSE Pars(f[i-1])]
           D == CHOOSE f : Walk(f)
           path == UNION {D[i] : i \in 0..C}
<1>1. BlackCount(n) = Cardinality({m \in path : t.col[m] = "black"})
  BY DEF BlackCount
<1>2. C \in Nat
  BY NodesAssumption, FS_CardinalityType
<1>3. /\ \A m \in H : /\ \A d \in Dirs : t.kid[m][d] # NULL => t.kid[m][d] \in H /\ t.par[t.kid[m][d]] = m
                      /\ t.par[m] # NULL => t.par[m] \in H /\ \E d \in Dirs : t.kid[t.par[m]][d] = m
  BY DEF Shape, Paired
<1>4. \A m \in H : m \in b[m] /\ m # NULL /\ b[m] \subseteq H /\ b[m] \in SUBSET Nodes
  BY NodesAssumption DEF Shape, Sorted, Closed
<1> HIDE DEF C
<1>5. \E f : Walk(f)
  <2> DEFINE step == [S \in SUBSET Nodes |-> Pars(S)]
  <2>1. ASSUME NEW S \in SUBSET Nodes
        PROVE  Pars(S) \in SUBSET Nodes
    BY DEF Trees, Maybe
  <2>2. A \in SUBSET Nodes
    OBVIOUS
  <2> HIDE DEF Pars, A
  <2>3. step \in [SUBSET Nodes -> SUBSET Nodes] /\ \A S \in SUBSET Nodes : step[S] = Pars(S)
    BY <2>1
  <2> HIDE DEF step
  <2>4. PICK f \in [0..C -> SUBSET Nodes] : Iterates(f, A, step, C)
    BY <1>2, <2>2, <2>3, IterateExists
  <2>5. f = [i \in 0..C |-> IF i = 0 THEN A ELSE step[f[i-1]]]
    BY <2>4 DEF Iterates
  <2>6. ASSUME NEW i \in 0..C
        PROVE  (IF i = 0 THEN A ELSE step[f[i-1]]) = IF i = 0 THEN A ELSE Pars(f[i-1])
    <3>1. i # 0 => i - 1 \in 0..C
      BY <1>2
    <3>2. i # 0 => f[i-1] \in SUBSET Nodes
      BY <3>1
    <3> QED BY <2>3, <3>2
  <2>7. Walk(f)
    BY <2>5, <2>6
  <2> HIDE DEF Walk
  <2> QED BY <2>7
<1>6. Walk(D)
  <2> HIDE DEF Walk
  <2> QED BY <1>5
<1>7. \A i \in 0..C : D[i] = IF i = 0 THEN A ELSE Pars(D[i-1])
  <2> HIDE DEF D, Pars, A
  <2> QED BY <1>6
<1> HIDE DEF D, Walk
<1>8. \A i \in 0..C : D[i] \subseteq Above(H, b, n)
  <2> DEFINE T == {i \in 0..C : ~(D[i] \subseteq Above(H, b, n))}
  <2> SUFFICES ASSUME T # {}
               PROVE  FALSE
    OBVIOUS
  <2>1. T \in SUBSET Nat
    OBVIOUS
  <2>2. PICK i \in T : \A j \in T : i <= j
    BY <2>1, LeastNatural
  <2>3. i # 0 => i - 1 \in 0..C /\ ~(i <= i - 1)
    BY <1>2
  <2>4. i # 0 => D[i-1] \subseteq Above(H, b, n)
    BY <2>2, <2>3
  <2>5. ASSUME NEW m \in Above(H, b, n), t.par[m] # NULL
        PROVE  t.par[m] \in Above(H, b, n)
    <3>1. m \in H /\ n \in b[m] /\ t.par[m] \in H
      BY <1>3, <2>5 DEF Above
    <3>2. PICK d \in Dirs : t.kid[t.par[m]][d] = m
      BY <1>3, <2>5, <3>1
    <3>3. ChildOf(t, H, b, t.par[m], d, m)
      BY <3>1, <3>2, ChildIs
    <3> QED BY <1>4, <3>1, <3>3 DEF ChildOf, Above
  <2>6. i # 0 => Pars(D[i-1]) \subseteq Above(H, b, n)
    BY <2>4, <2>5
  <2>7. A \subseteq Above(H, b, n)
    BY <1>4 DEF Above
  <2> HIDE DEF Pars, A
  <2> QED BY <1>7, <2>2, <2>6, <2>7
<1>9. \A m \in H : /\ Cardinality(b[m]) \in Nat /\ Cardinality(b[m]) <= C /\ Cardinality(b[m]) # 0
                   /\ IsFiniteSet(b[m])
  <2>1. ASSUME NEW m \in H
        PROVE  /\ Cardinality(b[m]) \in Nat /\ Cardinality(b[m]) <= C /\ Cardinality(b[m]) # 0
               /\ IsFiniteSet(b[m])
    <3>1. IsFiniteSet(b[m]) /\ Cardinality(b[m]) <= C
      BY <1>4, NodesAssumption, FS_Subset DEF C
    <3>2. b[m] # {}
      BY <1>4
    <3> QED BY <3>1, <3>2, FS_CardinalityType, FS_EmptySet
  <2> QED BY <2>1
<1> DEFINE Found(m, k) == \E i \in 0..(k-1) : m \in D[i]
           T == {k \in 1..C : \E m \in Above(H, b, n) : Cardinality(b[m]) = k /\ ~Found(m, k)}
<1>10. T = {}
  <2> SUFFICES ASSUME T # {}
               PROVE  FALSE
    OBVIOUS
  <2>1. T \in SUBSET Nat
    OBVIOUS
  <2>2. PICK k \in T : \A j \in T : k <= j
    BY <2>1, LeastNatural
  <2>3. k \in 1..C /\ k \in Nat
    BY <1>2
  <2>4. PICK m \in Above(H, b, n) : Cardinality(b[m]) = k /\ ~Found(m, k)
    BY <2>2
  <2>5. m # n
    <3>0. 0 \in 0..(k-1) /\ 0 \in 0..C
      BY <1>2, <2>3
    <3>1. n \in D[0]
      <4> HIDE DEF Pars
      <4> QED BY <1>7, <3>0
    <3> QED BY <2>4, <3>0, <3>1
  <2>6. m \in H /\ n \in b[m] /\ m # NULL
    BY <1>4 DEF Above
  <2>7. PICK d \in Dirs : n \in Below(b, t.kid[m][d])
    <3>1. b[m] = {m} \cup Below(b, t.kid[m]["left"]) \cup Below(b, t.kid[m]["right"])
      BY <2>6 DEF Shape, Sorted
    <3> QED BY <2>5, <2>6, <3>1, OppIs
  <2> DEFINE q == t.kid[m][d]
  <2>8. q # NULL /\ n \in b[q]
    BY <2>7 DEF Below
  <2>9. q \in H /\ t.par[q] = m
    BY <1>3, <2>6, <2>8
  <2>10. b[q] \subseteq b[m] /\ m \notin b[q] /\ m \in b[m]
    <3>1. ChildOf(t, H, b, m, d, q)
      BY <2>6, ChildIs
    <3> QED BY <1>4, <2>6, <2>8, <3>1 DEF ChildOf
  <2> HIDE DEF q
  <2> DEFINE j == Cardinality(b[q])
  <2>11. j < k
    <3>1. b[q] \in SUBSET b[m] /\ b[m] # b[q] /\ IsFiniteSet(b[m])
      BY <1>9, <2>6, <2>10
    <3>2. Cardinality(b[q]) <= Cardinality(b[m]) /\ Cardinality(b[m]) # Cardinality(b[q])
      BY <3>1, FS_Subset
    <3> QED BY <1>9, <2>4, <2>6, <2>9, <3>2
  <2>12. j \in 1..C /\ ~(k <= j) /\ j + 1 <= k
    BY <1>2, <1>9, <2>3, <2>9, <2>11
  <2>13. Found(q, j)
    <3>1. q \in Above(H, b, n) /\ Cardinality(b[q]) = j
      BY <2>8, <2>9 DEF Above
    <3> HIDE DEF Found, j
    <3> QED BY <2>2, <2>12, <3>1
  <2> HIDE DEF j
  <2>14. PICK i \in 0..(j-1) : q \in D[i]
    BY <2>13
  <2>15. i + 1 \in 0..(k-1) /\ i + 1 \in 0..C /\ (i + 1) - 1 = i /\ i + 1 # 0
    BY <1>2, <2>3, <2>12
  <2>16. m \in Pars(D[i])
    BY <2>6, <2>9, <2>14
  <2>17. m \in D[i+1]
    <3> HIDE DEF Pars, A
    <3> QED BY <1>7, <2>15, <2>16
  <2> QED BY <2>4, <2>15, <2>17
<1>11. ASSUME NEW m \in Above(H, b, n)
       PROVE  \E i \in 0..C : m \in D[i]
  <2> DEFINE k == Cardinality(b[m])
  <2>1. m \in H
    BY DEF Above
  <2>2. k \in 1..C /\ \A i \in 0..(k-1) : i \in 0..C
    BY <1>2, <1>9, <2>1
  <2>3. Found(m, k)
    <3>1. Cardinality(b[m]) = k
      OBVIOUS
    <3> HIDE DEF Found, k
    <3> QED BY <1>10, <2>2, <3>1
  <2> QED BY <2>2, <2>3
<1>12. path = Above(H, b, n)
  BY <1>8, <1>11
<1> HIDE DEF path
<1> QED BY <1>1, <1>12 DEF Blacks

\* What holds of the root, and of the children of a node of which it holds, holds of all.
LEMMA TopDown ==
  ASSUME NEW s \in Trees, NEW H \in SUBSET Nodes, NEW b \in [Nodes -> SUBSET Nodes],
         Shape(s, H, b), NEW T \in SUBSET H,
         \A m \in H : s.par[m] = NULL => m \in T,
         \A m \in H : s.par[m] # NULL /\ s.par[m] \in T => m \in T
  PROVE  T = H
<1> DEFINE C == Cardinality(Nodes)
           U == {k \in 0..C : \E m \in H \ T : Cardinality(b[m]) = C - k}
<1>1. C \in Nat
  BY NodesAssumption, FS_CardinalityType
<1>2. \A m \in H : s.par[m] # NULL => s.par[m] \in H /\ \E d \in Dirs : s.kid[s.par[m]][d] = m
  BY DEF Shape, Paired
<1>3. \A m \in H : m \in b[m] /\ m \in Nodes /\ m # NULL /\ b[m] \subseteq H /\ b[m] \in SUBSET Nodes
  BY NodesAssumption DEF Shape, Sorted, Closed
<1>4. \A m \in H : /\ Cardinality(b[m]) \in Nat /\ Cardinality(b[m]) <= C
                   /\ IsFiniteSet(b[m])
  <2>1. ASSUME NEW m \in H
        PROVE  Cardinality(b[m]) \in Nat /\ Cardinality(b[m]) <= C /\ IsFiniteSet(b[m])
    <3>1. IsFiniteSet(b[m]) /\ Cardinality(b[m]) <= C
      BY <1>3, NodesAssumption, FS_Subset
    <3> QED BY <3>1, FS_CardinalityType
  <2> QED BY <2>1
<1> HIDE DEF C
<1>5. U = {}
  <2> SUFFICES ASSUME U # {}
               PROVE  FALSE
    OBVIOUS
  <2>1. U \in SUBSET Nat
    OBVIOUS
  <2>2. PICK k \in U : \A j \in U : k <= j
    BY <2>1, LeastNatural
  <2>3. k \in 0..C /\ k \in Nat
    BY <1>1
  <2>4. PICK m \in H \ T : Cardinality(b[m]) = C - k
    BY <2>2
  <2> DEFINE q == s.par[m]
  <2>5. q \in H /\ q # NULL /\ q \notin T
    BY <1>2, <2>4
  <2>6. PICK d \in Dirs : s.kid[q][d] = m
    BY <1>2, <2>5
  <2> HIDE DEF q
  <2>7. b[m] \in SUBSET b[q] /\ b[q] # b[m]
    <3>1. ChildOf(s, H, b, q, d, m)
      BY <2>5, <2>6, ChildIs
    <3> QED BY <1>3, <2>5, <3>1 DEF ChildOf
  <2>8. Cardinality(b[m]) <= Cardinality(b[q]) /\ Cardinality(b[q]) # Cardinality(b[m])
    BY <1>4, <2>5, <2>7, FS_Subset
  <2> DEFINE j == C - Cardinality(b[q])
  <2>9. j \in 0..C /\ Cardinality(b[q]) = C - j /\ ~(k <= j)
    BY <1>1, <1>4, <2>3, <2>4, <2>5, <2>8
  <2> HIDE DEF j
  <2> QED BY <2>2, <2>5, <2>9
<1>6. ASSUME NEW m \in H
      PROVE  m \in T
  <2> DEFINE k == C - Cardinality(b[m])
  <2>1. k \in 0..C /\ Cardinality(b[m]) = C - k
    BY <1>1, <1>4
  <2> HIDE DEF k
  <2> QED BY <1>5, <2>1
<1> QED BY <1>6

\* The black node that paths on side e of p lack, seen from n.
Lack(s, b, n, p, e) == IF p # NULL /\ n \in Below(b, s.kid[p][e]) THEN 1 ELSE 0

\* Black nodes above n and below n, and the one that is short, add up to those below the root.
Balances(s, H, b, h, n, p, e) ==
  Blacks(s, Above(H, b, n)) + h[n] + Lack(s, b, n, p, e) = Weight(s, h, s.root)

\* Black nodes above n and below n add up to the same for all n.
LEMMA BlacksAddUp ==
  ASSUME NEW s \in Trees, NEW H \in SUBSET Nodes, NEW b \in [Nodes -> SUBSET Nodes],
         Shape(s, H, b), NEW h \in Heights, NEW p \in H \cup {NULL}, NEW e \in Dirs,
         Level(s, H, h, p, e), NEW n \in H
  PROVE  Balances(s, H, b, h, n, p, e) /\ Blacks(s, Above(H, b, n)) \in Nat
<1> DEFINE C == Cardinality(Nodes)
           W == Weight(s, h, s.root)
<1>1. C \in Nat
  BY NodesAssumption, FS_CardinalityType
<1>2. /\ \A m \in H : /\ \A d \in Dirs : s.kid[m][d] # NULL => s.kid[m][d] \in H /\ s.par[s.kid[m][d]] = m
                      /\ s.par[m] = NULL => m = s.root
                      /\ s.par[m] # NULL => s.par[m] \in H /\ \E d \in Dirs : s.kid[s.par[m]][d] = m
  BY DEF Shape, Paired
<1>3. \A m \in H : m \in b[m] /\ m \in Nodes /\ m # NULL /\ b[m] \subseteq H /\ b[m] \in SUBSET Nodes
  BY NodesAssumption DEF Shape, Sorted, Closed
<1>4. \A m \in H : /\ Cardinality(b[m]) \in Nat /\ Cardinality(b[m]) <= C
                   /\ IsFiniteSet(b[m])
  <2>1. ASSUME NEW m \in H
        PROVE  Cardinality(b[m]) \in Nat /\ Cardinality(b[m]) <= C /\ IsFiniteSet(b[m])
    <3>1. IsFiniteSet(b[m]) /\ Cardinality(b[m]) <= C
      BY <1>3, NodesAssumption, FS_Subset
    <3> QED BY <3>1, FS_CardinalityType
  <2> QED BY <2>1
<1> HIDE DEF C
<1> DEFINE Paint(m) == {k \in Above(H, b, m) : s.col[k] = "black"}
<1>5. ASSUME NEW m
      PROVE  /\ IsFiniteSet(Paint(m)) /\ Cardinality(Paint(m)) \in Nat
             /\ Blacks(s, Above(H, b, m)) = Cardinality(Paint(m))
  <2>1. Paint(m) \in SUBSET Nodes
    BY DEF Above
  <2> QED BY <2>1, NodesAssumption, FS_Subset, FS_CardinalityType DEF Blacks
<1>6. ASSUME NEW m \in H, s.par[m] = NULL
      PROVE  Balances(s, H, b, h, m, p, e)
  <2>1. m = s.root /\ H = b[m]
    BY <1>2, <1>3, <1>6 DEF Shape, Rooted, Below
  <2>2. \A k \in H : m \in b[k] => k = m
    <3> SUFFICES ASSUME NEW k \in H, m \in b[k], k # m PROVE FALSE
      OBVIOUS
    <3>1. s.par[m] \in b[k]
      BY DEF Shape, Closed
    <3> QED BY <1>3, <1>6, <3>1, NodesAssumption
  <2>3. Above(H, b, m) = {m}
    BY <1>3, <2>2 DEF Above
  <2>4. Lack(s, b, m, p, e) = 0
    <3> SUFFICES ASSUME p # NULL, m \in Below(b, s.kid[p][e]) PROVE FALSE
      BY DEF Lack
    <3>1. s.kid[p][e] # NULL /\ m \in b[s.kid[p][e]]
      BY DEF Below
    <3>2. s.kid[p][e] \in H /\ s.par[s.kid[p][e]] = p
      BY <1>2, <3>1
    <3>3. s.kid[p][e] = m
      BY <2>2, <3>1, <3>2
    <3> QED BY <1>6, <3>2, <3>3
  <2>5. h[m] \in Nat
    BY <1>3 DEF Heights
  <2>6. CASE s.col[m] = "black"
    <3>1. Paint(m) = {m}
      BY <2>3, <2>6
    <3>2. Blacks(s, Above(H, b, m)) = 1
      BY <1>5, <3>1, FS_Singleton
    <3>3. W = h[m] + 1
      BY <1>3, <2>1, <2>6 DEF Weight
    <3> QED BY <2>1, <2>4, <2>5, <3>2, <3>3 DEF Balances
  <2>7. CASE s.col[m] # "black"
    <3>1. Paint(m) = {}
      BY <2>3, <2>7
    <3>2. Blacks(s, Above(H, b, m)) = 0
      BY <1>5, <3>1, FS_EmptySet
    <3>3. W = h[m]
      BY <1>3, <2>1, <2>7 DEF Weight
    <3> QED BY <2>1, <2>4, <2>5, <3>2, <3>3 DEF Balances
  <2> QED BY <2>6, <2>7
<1>7. ASSUME NEW m \in H, s.par[m] # NULL, Balances(s, H, b, h, s.par[m], p, e)
      PROVE  Balances(s, H, b, h, m, p, e)
  <2> DEFINE q == s.par[m]
  <2>1. q \in H
    BY <1>2, <1>7
  <2>2. PICK d \in Dirs : s.kid[q][d] = m
    BY <1>2, <1>7
  <2>3. ChildOf(s, H, b, q, d, m)
    BY <2>1, <2>2, ChildIs
  <2>4. Balances(s, H, b, h, q, p, e)
    BY <1>7
  <2>5. \A k \in H : q \in b[k] => k # m /\ m \in b[k]
    BY <1>3, <2>1, <2>3 DEF ChildOf, Shape, Closed
  <2>6. \A k \in H : m \in b[k] /\ k # m => q \in b[k]
    BY DEF Shape, Closed
  <2> HIDE DEF q
  <2>7. m \notin Above(H, b, q) /\ Above(H, b, m) = Above(H, b, q) \cup {m}
    BY <1>3, <2>5, <2>6 DEF Above
  <2>8. h[q] = Weight(s, h, m) + (IF q = p /\ d = e THEN 1 ELSE 0)
    BY <2>1, <2>2 DEF Level
  <2>9. Lack(s, b, m, p, e) = Lack(s, b, q, p, e) + (IF q = p /\ d = e THEN 1 ELSE 0)
    <3>1. CASE q = p
      <4>1. p # NULL
        BY <1>3, <2>1, <3>1
      <4>2. Lack(s, b, q, p, e) = 0
        <5>1. ChildOf(s, H, b, q, e, s.kid[q][e])
          BY <2>1, ChildIs
        <5>2. q \notin Below(b, s.kid[q][e])
          BY <5>1 DEF ChildOf, Below
        <5> QED BY <3>1, <5>2 DEF Lack
      <4>3. CASE d = e
        <5>1. m \in Below(b, s.kid[p][e])
          BY <1>3, <2>2, <3>1, <4>3 DEF Below
        <5> QED BY <3>1, <4>1, <4>2, <4>3, <5>1 DEF Lack
      <4>4. CASE d # e
        <5>1. e = Opp(d)
          BY <4>4, OppIs
        <5>2. m \notin Below(b, s.kid[p][e])
          BY <1>3, <2>3, <3>1, <5>1 DEF ChildOf
        <5> QED BY <3>1, <4>2, <4>4, <5>2 DEF Lack
      <4> QED BY <4>3, <4>4
    <3>2. CASE q # p
      <4>1. p # NULL => (m \in Below(b, s.kid[p][e]) <=> q \in Below(b, s.kid[p][e]))
        <5> SUFFICES ASSUME p # NULL, s.kid[p][e] # NULL
                     PROVE  m \in b[s.kid[p][e]] <=> q \in b[s.kid[p][e]]
          BY DEF Below
        <5>1. s.kid[p][e] \in H /\ s.par[s.kid[p][e]] = p
          BY <1>2
        <5>2. s.kid[p][e] # m
          BY <3>2, <5>1 DEF q
        <5> QED BY <2>5, <2>6, <5>1, <5>2
      <4> QED BY <3>2, <4>1 DEF Lack
    <3> QED BY <3>1, <3>2
  <2>10. h[m] \in Nat /\ h[q] \in Nat /\ m # NULL
    BY <1>3, <2>1 DEF Heights
  <2>11. Blacks(s, Above(H, b, m)) = Blacks(s, Above(H, b, q)) + (IF s.col[m] = "black" THEN 1 ELSE 0)
    <3>1. IsFiniteSet(Paint(q)) /\ m \notin Paint(q)
      BY <1>5, <2>7
    <3>2. CASE s.col[m] = "black"
      <4>1. Paint(m) = Paint(q) \cup {m}
        BY <2>7, <3>2
      <4>2. Cardinality(Paint(m)) = Cardinality(Paint(q)) + 1
        <5> HIDE DEF Paint
        <5> QED BY <3>1, <4>1, FS_AddElement
      <4> QED BY <1>5, <3>2, <4>2
    <3>3. CASE s.col[m] # "black"
      <4>1. Paint(m) = Paint(q)
        BY <2>7, <3>3
      <4>2. Blacks(s, Above(H, b, q)) \in Nat /\ Blacks(s, Above(H, b, m)) = Blacks(s, Above(H, b, q))
        BY <1>5, <4>1
      <4> QED BY <3>3, <4>2
    <3> QED BY <3>2, <3>3
  <2>12. Weight(s, h, m) = h[m] + (IF s.col[m] = "black" THEN 1 ELSE 0)
    BY <2>10 DEF Weight
  <2>13. Blacks(s, Above(H, b, q)) \in Nat
    BY <1>5
  <2>14. Lack(s, b, q, p, e) \in Nat
    BY DEF Lack
  <2> DEFINE one == IF q = p /\ d = e THEN 1 ELSE 0
             two == IF s.col[m] = "black" THEN 1 ELSE 0
  <2>15. one \in Nat /\ two \in Nat
    OBVIOUS
  <2> HIDE DEF one, two
  <2>16. /\ Blacks(s, Above(H, b, q)) + h[q] + Lack(s, b, q, p, e) = W
         /\ h[q] = (h[m] + two) + one
         /\ Blacks(s, Above(H, b, m)) = Blacks(s, Above(H, b, q)) + two
         /\ Lack(s, b, m, p, e) = Lack(s, b, q, p, e) + one
    BY <2>4, <2>8, <2>9, <2>11, <2>12 DEF Balances, one, two
  <2> HIDE DEF W
  <2>17. Blacks(s, Above(H, b, m)) + h[m] + Lack(s, b, m, p, e) = W
    BY <2>10, <2>13, <2>14, <2>15, <2>16
  <2> QED BY <2>17 DEF Balances, W
<1> DEFINE T == {m \in H : Balances(s, H, b, h, m, p, e)}
<1>8. T = H
  <2>1. T \in SUBSET H
    OBVIOUS
  <2>2. \A m \in H : s.par[m] = NULL => m \in T
    BY <1>6
  <2>3. \A m \in H : s.par[m] # NULL /\ s.par[m] \in T => m \in T
    BY <1>7
  <2> HIDE DEF T
  <2> QED BY <2>1, <2>2, <2>3, TopDown
<1> QED BY <1>5, <1>8

-----------------------------------------------------------------------------
(***************************************************************************)
(* The colors.                                                             *)
(***************************************************************************)
\* How many black nodes a path to a leaf counts: one less on the side that is short.
LEMMA LeafCounts ==
  ASSUME NEW b \in Families, NEW h \in Heights, Inv(b, h),
         NEW n \in Held, NEW d \in Dirs, t.kid[n][d] = NULL
  PROVE  /\ BlackCount(n) \in Nat
         /\ BlackCount(n) + (IF n = ShortAt /\ d = ShortSide THEN 1 ELSE 0)
              + Lack(t, b, n, ShortAt, ShortSide) = Weight(t, h, t.root)
<1>1. /\ t \in Trees /\ Shape(t, Held, b) /\ Held \in SUBSET Nodes
      /\ b \in [Nodes -> SUBSET Nodes] /\ NULL \notin Nodes
  BY HeldIsShaped
<1>2. Level(t, Held, h, ShortAt, ShortSide)
  BY DEF Inv
<1>3. ShortAt \in Held \cup {NULL} /\ ShortSide \in Dirs
  BY OppIs DEF Inv, Locals, ShortAt, ShortSide, Side
<1>4. BlackCount(n) = Blacks(t, Above(Held, b, n))
  BY <1>1, BlackCountIs
<1>5. Balances(t, Held, b, h, n, ShortAt, ShortSide) /\ Blacks(t, Above(Held, b, n)) \in Nat
  BY <1>1, <1>2, <1>3, BlacksAddUp
<1>6. h[n] = 0 + (IF n = ShortAt /\ d = ShortSide THEN 1 ELSE 0)
  BY <1>2 DEF Level, Weight
<1>7. BlackCount(n) + h[n] + Lack(t, b, n, ShortAt, ShortSide) = Weight(t, h, t.root)
  BY <1>4, <1>5 DEF Balances
<1> DEFINE one == IF n = ShortAt /\ d = ShortSide THEN 1 ELSE 0
<1>8. h[n] = one
  <2>1. one \in Nat
    OBVIOUS
  <2>2. h[n] = 0 + one
    BY <1>6
  <2> HIDE DEF one
  <2> QED BY <2>1, <2>2
<1> HIDE DEF one
<1>9. BlackCount(n) + one + Lack(t, b, n, ShortAt, ShortSide) = Weight(t, h, t.root)
  BY <1>7, <1>8
<1> QED BY <1>4, <1>5, <1>9 DEF one

\* What is reachable is what is held, and Subtree is what the shape says.
LEMMA HeldIsLinked ==
  ASSUME NEW b \in Families, NEW h \in Heights, Inv(b, h)
  PROVE  Linked = Held /\ \A n \in Held \cup {NULL} : Subtree(n) = Below(b, n)
<1>1. /\ t \in Trees /\ Shape(t, Held, b) /\ Held \in SUBSET Nodes
      /\ b \in [Nodes -> SUBSET Nodes]
  BY HeldIsShaped
<1>2. \A n \in Held \cup {NULL} : Subtree(n) = Below(b, n)
  BY <1>1, SubtreeIs
<1>3. t.root \in Held \cup {NULL} /\ Held = Below(b, t.root)
  BY <1>1 DEF Shape, Rooted
<1> QED BY <1>2, <1>3 DEF Linked

\* But in the erase loop, no path is short.
LEMMA AllAreBalanced ==
  ASSUME NEW b \in Families, NEW h \in Heights, Inv(b, h), pc # "fixerase"
  PROVE  Balanced
<1> SUFFICES ASSUME NEW l \in Leaves
             PROVE  BlackCount(l[1]) = Weight(t, h, t.root)
  BY DEF Balanced, BlackCounts
<1>1. l[1] \in Held /\ l[2] \in Dirs /\ t.kid[l[1]][l[2]] = NULL
  BY HeldIsLinked DEF Leaves
<1>2. ShortAt = NULL /\ l[1] # NULL
  BY <1>1, HeldIsShaped DEF ShortAt
<1>3. Lack(t, b, l[1], ShortAt, ShortSide) = 0
  BY <1>2 DEF Lack
<1>4. /\ BlackCount(l[1]) \in Nat
      /\ BlackCount(l[1]) + (IF l[1] = ShortAt /\ l[2] = ShortSide THEN 1 ELSE 0)
           + Lack(t, b, l[1], ShortAt, ShortSide) = Weight(t, h, t.root)
  BY <1>1, LeafCounts
<1>5. BlackCount(l[1]) + 0 + 0 = Weight(t, h, t.root)
  BY <1>2, <1>3, <1>4
<1> QED BY <1>4, <1>5

\* Between operations, and during a search, the tree is a red-black tree.
THEOREM RedBlackHolds == Spec => []RedBlack
<1>1. IInv => RedBlack
  <2> SUFFICES ASSUME NEW b \in Families, NEW h \in Heights, Inv(b, h),
                      pc \in {"idle", "descend", "returned"}
               PROVE  Black(t.root) /\ (\A n \in Linked : NoRedRed(n)) /\ Balanced
    BY DEF IInv, RedBlack
  <2>1. ~IsRed(t, t.root) /\ \A n \in Held : Calm(t, n)
    BY DEF Inv, Colors
  <2>2. Linked = Held
    BY HeldIsLinked
  <2> QED BY <2>1, <2>2, AllAreBalanced DEF IsRed, Calm, Black, Red, NoRedRed
<1> QED BY <1>1, Invariance, PTL

\* An iteration of either loop finds what its comment says of the tree.
THEOREM LoopsHold == Spec => []LoopsAreInvariant
<1>1. IInv => InsertLoop
  <2> SUFFICES ASSUME NEW b \in Families, NEW h \in Heights, Inv(b, h), pc = "fixinsert"
               PROVE  /\ Red(node) /\ parent = t.par[node]
                      /\ Red(parent) => Grandparent # NULL
                      /\ \A n \in Linked \ {parent} : NoRedRed(n)
                      /\ Red(t.root) => node = t.root
                      /\ Red(parent) => \A d \in Dirs : t.kid[parent][d] # node => Black(t.kid[parent][d])
                      /\ Balanced
    BY DEF IInv, InsertLoop
  <2>1. Linked = Held
    BY HeldIsLinked
  <2>2. /\ IsRed(t, node) /\ \A n \in Held \ {parent} : Calm(t, n)
        /\ IsRed(t, t.root) => node = t.root
        /\ IsRed(t, parent) => \A d \in Dirs : t.kid[parent][d] # node => ~IsRed(t, t.kid[parent][d])
    BY DEF Inv, Colors
  <2>3. parent = t.par[node]
    BY DEF Inv, Locals
  <2>4. Red(parent) => Grandparent # NULL
    <3>1. Red(parent) => Grandparent \in Held
      BY InsertSceneIs DEF InsertScene
    <3> QED BY <3>1, HeldIsShaped
  <2> QED BY <2>1, <2>2, <2>3, <2>4, AllAreBalanced DEF IsRed, Calm, Black, Red, NoRedRed
<1>2. IInv => EraseLoop
  <2> SUFFICES ASSUME NEW b \in Families, NEW h \in Heights, Inv(b, h), pc = "fixerase"
               PROVE  EraseLoop
    BY DEF IInv, EraseLoop
  <2> DEFINE d == Side(parent, node)
             short == LeavesBelow(parent, d)
             W == Weight(t, h, t.root)
  <2>1. /\ t \in Trees /\ Shape(t, Held, b) /\ Held \in SUBSET Nodes
        /\ b \in [Nodes -> SUBSET Nodes] /\ NULL \notin Nodes
    BY HeldIsShaped
  <2>2. EraseScene(h, parent, d, Sibling)
    BY EraseSceneIs
  <2>3. parent \in Held /\ d \in Dirs /\ t.kid[parent][d] = node /\ Sibling \in Held /\ ~IsRed(t, node)
    BY <2>2 DEF EraseScene
  <2>4. ShortAt = parent /\ ShortSide = d
    BY DEF ShortAt, ShortSide
  <2> HIDE DEF d
  <2>5. parent # NULL /\ Sibling # NULL
    BY <2>1, <2>3
  <2>6. Linked = Held /\ Subtree(t.kid[parent][d]) = Below(b, node)
    <3>1. t.kid[parent][d] \in Held \cup {NULL}
      BY <2>1, <2>3 DEF Shape, Paired
    <3> QED BY <2>3, <3>1, HeldIsLinked
  <2>7. parent \notin Below(b, node)
    <3>1. ChildOf(t, Held, b, parent, d, node)
      BY <2>1, <2>3, ChildIs
    <3> QED BY <3>1 DEF ChildOf, Below
  <2>8. ASSUME NEW l \in Leaves
        PROVE  /\ l \in short => BlackCount(l[1]) \in Nat /\ BlackCount(l[1]) + 1 = W
               /\ l \notin short => BlackCount(l[1]) = W
    <3>1. l[1] \in Held /\ l[2] \in Dirs /\ t.kid[l[1]][l[2]] = NULL /\ l = <<l[1], l[2]>>
      BY <2>6 DEF Leaves
    <3>2. /\ BlackCount(l[1]) \in Nat
          /\ BlackCount(l[1]) + (IF l[1] = parent /\ l[2] = d THEN 1 ELSE 0)
               + Lack(t, b, l[1], parent, d) = W
      BY <2>4, <3>1, LeafCounts
    <3>3. Lack(t, b, l[1], parent, d) = IF l[1] \in Below(b, node) THEN 1 ELSE 0
      BY <2>3, <2>5 DEF Lack
    <3>4. l \in short <=> (l[1] = parent /\ l[2] = d) \/ l[1] \in Below(b, node)
      BY <2>6, <3>1 DEF LeavesBelow
    <3> HIDE DEF short, W
    <3>5. CASE l[1] = parent /\ l[2] = d
      <4>1. BlackCount(l[1]) + 1 + 0 = W
        BY <2>7, <3>2, <3>3, <3>5
      <4> QED BY <3>2, <3>4, <3>5, <4>1
    <3>6. CASE ~(l[1] = parent /\ l[2] = d) /\ l[1] \in Below(b, node)
      <4>1. BlackCount(l[1]) + 0 + 1 = W
        BY <3>2, <3>3, <3>6
      <4> QED BY <3>2, <3>4, <3>6, <4>1
    <3>7. CASE ~(l[1] = parent /\ l[2] = d) /\ l[1] \notin Below(b, node)
      <4>1. BlackCount(l[1]) + 0 + 0 = W
        BY <3>2, <3>3, <3>7
      <4> QED BY <3>2, <3>4, <3>7, <4>1
    <3> QED BY <3>5, <3>6, <3>7
  <2> HIDE DEF W, short
  <2>9. \A i \in BlackCounts(short), j \in BlackCounts(Leaves \ short) : i + 1 = j
    <3>1. short \subseteq Leaves
      BY DEF short, LeavesBelow
    <3> QED BY <2>8, <3>1 DEF BlackCounts
  <2>10. Black(node)
    BY <2>3 DEF Black, Red, IsRed
  <2> QED BY <2>5, <2>9, <2>10 DEF EraseLoop, short, d
<1> QED BY <1>1, <1>2, Invariance, PTL DEF LoopsAreInvariant

-----------------------------------------------------------------------------
(***************************************************************************)
(* The container that the tree implements.                                 *)
(***************************************************************************)
\* The keys outside the subtree of q are all on one side of it.
Convex(H, b, q) ==
  \A k \in H \ b[q] : (\A j \in b[q] : k < j) \/ (\A j \in b[q] : j < k)

\* All subtrees are so.
LEMMA SubtreesAreConvex ==
  ASSUME NEW H \in SUBSET Nodes, NEW b \in [Nodes -> SUBSET Nodes], NEW s \in Trees, Shape(s, H, b)
  PROVE  \A q \in H : Convex(H, b, q)
<1> DEFINE T == {q \in H : Convex(H, b, q)}
<1>1. /\ \A m \in H : /\ s.par[m] = NULL => m = s.root
                      /\ s.par[m] # NULL => s.par[m] \in H /\ \E d \in Dirs : s.kid[s.par[m]][d] = m
  BY DEF Shape, Paired
<1>2. \A m \in H : m \in b[m] /\ m # NULL /\ b[m] \subseteq H
  BY NodesAssumption DEF Shape, Sorted, Closed
<1>3. H \subseteq Nat
  BY NodesAssumption
<1>4. ASSUME NEW m \in H, s.par[m] = NULL
      PROVE  m \in T
  <2>1. m = s.root /\ H = b[m]
    BY <1>1, <1>2, <1>4 DEF Shape, Rooted, Below
  <2> QED BY <2>1 DEF Convex
<1>5. ASSUME NEW m \in H, s.par[m] # NULL, s.par[m] \in T
      PROVE  m \in T
  <2> DEFINE q == s.par[m]
  <2>1. q \in H /\ Convex(H, b, q)
    BY <1>5
  <2>2. PICK d \in Dirs : s.kid[q][d] = m
    BY <1>1, <1>5
  <2> HIDE DEF q
  <2>3. b[m] \subseteq b[q] /\ Below(b, m) = b[m]
    <3>1. ChildOf(s, H, b, q, d, m)
      BY <2>1, <2>2, ChildIs
    <3> QED BY <1>2, <3>1 DEF ChildOf, Below
  <2>4. /\ b[q] = {q} \cup Below(b, s.kid[q]["left"]) \cup Below(b, s.kid[q]["right"])
        /\ \A j \in Below(b, s.kid[q]["left"]) : j < q
        /\ \A j \in Below(b, s.kid[q]["right"]) : j > q
    BY <2>1 DEF Shape, Sorted
  <2>5. b[q] \subseteq Nat /\ q \in Nat
    BY <1>2, <1>3, <2>1
  <2>6. ASSUME NEW k \in H \ b[m]
        PROVE  (\A j \in b[m] : k < j) \/ (\A j \in b[m] : j < k)
    <3>1. CASE k \notin b[q]
      BY <2>1, <2>3, <3>1 DEF Convex
    <3>2. CASE k \in b[q] /\ d = "left"
      <4>1. \A j \in b[m] : j < q /\ j \in Nat
        BY <2>2, <2>3, <2>4, <2>5, <3>2
      <4>2. k = q \/ k > q
        BY <2>2, <2>3, <2>4, <3>2
      <4> QED BY <1>3, <2>5, <4>1, <4>2
    <3>3. CASE k \in b[q] /\ d = "right"
      <4>1. \A j \in b[m] : q < j /\ j \in Nat
        BY <2>2, <2>3, <2>4, <2>5, <3>3
      <4>2. k = q \/ k < q
        BY <2>2, <2>3, <2>4, <3>3
      <4> QED BY <1>3, <2>5, <4>1, <4>2
    <3> QED BY <3>1, <3>2, <3>3 DEF Dirs
  <2> QED BY <2>6 DEF Convex
<1>6. T \in SUBSET H
  OBVIOUS
<1> HIDE DEF T
<1>7. T = H
  BY <1>4, <1>5, <1>6, TopDown
<1> QED BY <1>7 DEF T

\* The keys of H that are larger than all those below m.
Beyond(H, b, m) == {k \in H : \A j \in b[m] : j < k}

\* The least number of S, if it has one.
LeastOf(S) == IF S = {} THEN NULL ELSE Least(S)

\* LeastOf is what the container calls the first of a set.
LEMMA LeastOfIsFirst ==
  ASSUME NEW S \in SUBSET Nat
  PROVE  LeastOf(S) \in Contents!First(S)
<1>1. CASE S = {}
  BY <1>1 DEF LeastOf, Contents!First
<1>2. CASE S # {}
  <2>1. PICK n \in S : \A m \in S : n <= m
    BY <1>2, LeastNatural
  <2>2. Least(S) = n
    BY <2>1, LeastIs
  <2> QED BY <1>2, <2>1, <2>2 DEF LeastOf, Contents!First
<1> QED BY <1>1, <1>2

\* A right child has its parent's larger keys beyond it; a left child has its parent
\* next, and the root nothing.
BeyondIs(H, b, m) ==
  LET q == t.par[m]
  IN LeastOf(Beyond(H, b, m)) = IF q # NULL /\ m = t.kid[q]["right"]
                                THEN LeastOf(Beyond(H, b, q)) ELSE q

\* What is larger than all below m is so of its parent, or begins with its parent.
LEMMA BeyondHolds ==
  ASSUME t \in Trees, NEW H \in SUBSET Nodes, NEW b \in [Nodes -> SUBSET Nodes],
         Shape(t, H, b), NEW m \in H
  PROVE  BeyondIs(H, b, m)
<1> DEFINE q == t.par[m]
<1>1. /\ t.par[m] = NULL => m = t.root
      /\ t.par[m] # NULL => t.par[m] \in H /\ \E d \in Dirs : t.kid[t.par[m]][d] = m
  BY DEF Shape, Paired
<1>2. \A k \in H : k \in b[k] /\ k # NULL /\ b[k] \subseteq H /\ k \in Nat
  BY NodesAssumption DEF Shape, Sorted, Closed
<1>3. CASE q = NULL
  <2>1. H = b[m]
    BY <1>1, <1>2, <1>3 DEF Shape, Rooted, Below
  <2>2. Beyond(H, b, m) = {}
    BY <1>2, <2>1 DEF Beyond
  <2> QED BY <1>3, <2>2 DEF BeyondIs, LeastOf
<1>4. CASE q # NULL
  <2>1. q \in H
    BY <1>1, <1>4
  <2>2. PICK d \in Dirs : t.kid[q][d] = m
    BY <1>1, <1>4
  <2> HIDE DEF q
  <2>3. b[m] \subseteq b[q] /\ Below(b, m) = b[m] /\ t.kid[q][Opp(d)] # m
    <3>1. ChildOf(t, H, b, q, d, m)
      BY <2>1, <2>2, ChildIs
    <3> QED BY <1>2, <2>2, <3>1 DEF ChildOf, Below
  <2>4. /\ b[q] = {q} \cup Below(b, t.kid[q]["left"]) \cup Below(b, t.kid[q]["right"])
        /\ \A j \in Below(b, t.kid[q]["left"]) : j < q
        /\ \A j \in Below(b, t.kid[q]["right"]) : j > q
    BY <2>1 DEF Shape, Sorted
  <2>5. b[q] \subseteq Nat /\ q \in Nat /\ m \in b[m] /\ m \in Nat
    BY <1>2, <2>1
  <2>6. CASE d = "right"
    <3>1. q < m
      BY <2>2, <2>3, <2>4, <2>5, <2>6
    <3>2. \A j \in b[q] : j \in b[m] \/ j <= q
      BY <2>2, <2>3, <2>4, <2>5, <2>6
    <3>3. ASSUME NEW k \in Beyond(H, b, m), NEW j \in b[q]
          PROVE  j < k
      <4>1. m < k /\ k \in Nat /\ j \in Nat
        BY <1>2, <2>5 DEF Beyond
      <4>2. CASE j \in b[m]
        BY <4>2 DEF Beyond
      <4>3. CASE j <= q
        BY <2>5, <3>1, <4>1, <4>3
      <4> QED BY <3>2, <4>2, <4>3
    <3>4. Beyond(H, b, m) = Beyond(H, b, q)
      BY <2>3, <3>3 DEF Beyond
    <3> QED BY <1>4, <2>2, <2>6, <3>4 DEF BeyondIs, q
  <2>7. CASE d = "left"
    <3>1. m # t.kid[q]["right"]
      BY <2>3, <2>7 DEF Opp
    <3>2. q \in Beyond(H, b, m)
      BY <2>1, <2>2, <2>3, <2>4, <2>7 DEF Beyond
    <3>3. ASSUME NEW k \in Beyond(H, b, m)
          PROVE  q <= k
      <4>1. m < k /\ k \in Nat /\ k \in H /\ k \notin b[m]
        BY <1>2, <2>5 DEF Beyond
      <4>2. CASE k \in b[q]
        BY <2>2, <2>3, <2>4, <2>5, <2>7, <4>1, <4>2
      <4>3. CASE k \notin b[q]
        <5>1. Convex(H, b, q)
          BY <2>1, SubtreesAreConvex
        <5>2. m \in b[q] /\ q \in b[q]
          BY <1>2, <2>1, <2>3, <2>5
        <5>3. ~(k < m)
          BY <2>5, <4>1
        <5>4. q < k
          BY <4>1, <4>3, <5>1, <5>2, <5>3 DEF Convex
        <5> QED BY <2>5, <4>1, <5>4
      <4> QED BY <4>2, <4>3
    <3>4. LeastOf(Beyond(H, b, m)) = q
      <4>1. Beyond(H, b, m) \in SUBSET Nat
        BY <1>2 DEF Beyond
      <4>2. Least(Beyond(H, b, m)) = q
        BY <3>2, <3>3, <4>1, LeastIs
      <4> QED BY <3>2, <4>2 DEF LeastOf
    <3> QED BY <3>1, <3>4 DEF BeyondIs, q
  <2> QED BY <2>6, <2>7 DEF Dirs
<1> QED BY <1>3, <1>4

\* Climbing until one comes from the left leads to the least of the larger keys.
LEMMA ClimbIs ==
  ASSUME t \in Trees, NEW H \in SUBSET Nodes, NEW b \in [Nodes -> SUBSET Nodes],
         Shape(t, H, b), Bare(t, H), NEW n \in H
  PROVE  Climb(n, "right") = LeastOf(Beyond(H, b, n))
<1> DEFINE Turns(m) == t.par[m] # NULL /\ m = t.kid[t.par[m]]["right"]
           Walk(f) == f = [m \in Nodes |-> IF t.par[m] # NULL /\ m = t.kid[t.par[m]]["right"]
                                           THEN f[t.par[m]] ELSE t.par[m]]
           D == CHOOSE f : Walk(f)
           F == [m \in Nodes |-> IF m \in H THEN LeastOf(Beyond(H, b, m)) ELSE NULL]
<1>1. Climb(n, "right") = D[n]
  BY DEF Climb
<1>2. \A m \in H : t.par[m] # NULL => t.par[m] \in H
  BY DEF Shape, Paired
<1>3. \A m \in Nodes \ H : t.par[m] = NULL
  BY DEF Bare
<1>4. \A m \in H : LeastOf(Beyond(H, b, m)) = IF Turns(m) THEN LeastOf(Beyond(H, b, t.par[m]))
                                              ELSE t.par[m]
  <2>1. \A m \in H : BeyondIs(H, b, m)
    BY BeyondHolds
  <2> QED BY <2>1 DEF BeyondIs
<1>5. Walk(F)
  <2>1. ASSUME NEW m \in Nodes
        PROVE  F[m] = IF Turns(m) THEN F[t.par[m]] ELSE t.par[m]
    <3>1. CASE m \in H
      <4>1. F[m] = LeastOf(Beyond(H, b, m))
        BY <3>1
      <4>2. Turns(m) => F[t.par[m]] = LeastOf(Beyond(H, b, t.par[m]))
        BY <1>2, <3>1
      <4> HIDE DEF F, Turns
      <4> QED BY <1>4, <3>1, <4>1, <4>2
    <3>2. CASE m \notin H
      BY <1>3, <3>2
    <3> QED BY <3>1, <3>2
  <2>2. F = [m \in Nodes |-> F[m]]
    OBVIOUS
  <2> HIDE DEF F
  <2> QED BY <2>1, <2>2
<1>6. Walk(D)
  <2> HIDE DEF F, Walk
  <2> QED BY <1>5
<1>7. \A m \in Nodes : D[m] = IF Turns(m) THEN D[t.par[m]] ELSE t.par[m]
  <2> HIDE DEF D
  <2> QED BY <1>6
<1> HIDE DEF D, F, Walk, Turns
<1> DEFINE T == {m \in H : D[m] = LeastOf(Beyond(H, b, m))}
<1>8. ASSUME NEW m \in H, t.par[m] = NULL
      PROVE  m \in T
  BY <1>4, <1>7, <1>8 DEF Turns
<1>9. ASSUME NEW m \in H, t.par[m] # NULL, t.par[m] \in T
      PROVE  m \in T
  BY <1>4, <1>7, <1>9
<1>10. T \in SUBSET H
  OBVIOUS
<1> HIDE DEF T
<1>11. T = H
  BY <1>8, <1>9, <1>10, TopDown
<1> QED BY <1>1, <1>11 DEF T

\* Between operations, Successor finds the next larger element.
LEMMA SuccessorIs ==
  ASSUME NEW b \in Families, NEW h \in Heights, Inv(b, h), pc = "idle", NEW n \in members
  PROVE  Successor(n) \in Contents!First(Contents!After(members, n))
<1> DEFINE H == members
           c == t.kid[n]["right"]
           S == {k \in H : k > n}
<1>1. /\ t \in Trees /\ H \in SUBSET Nodes /\ b \in [Nodes -> SUBSET Nodes] /\ Shape(t, H, b)
      /\ Bare(t, H)
  BY IdleIsWhole
<1>2. \A k \in H : k \in b[k] /\ k # NULL /\ b[k] \subseteq H /\ k \in Nat
  BY <1>1, NodesAssumption DEF Shape, Sorted, Closed
<1>3. /\ b[n] = {n} \cup Below(b, t.kid[n]["left"]) \cup Below(b, c)
      /\ \A j \in Below(b, t.kid[n]["left"]) : j < n
      /\ \A j \in Below(b, c) : j > n
  BY <1>1 DEF Shape, Sorted
<1>4. S \in SUBSET Nat
  BY <1>2
<1>5. Successor(n) = LeastOf(S)
  <2>1. CASE c = NULL
    <3>1. Successor(n) = Climb(n, "right")
      BY <2>1 DEF Successor, Neighbour
    <3>2. Climb(n, "right") = LeastOf(Beyond(H, b, n))
      BY <1>1, ClimbIs
    <3>3. \A j \in b[n] : j <= n /\ j \in Nat
      BY <1>2, <1>3, <2>1 DEF Below
    <3>4. ASSUME NEW k \in H
          PROVE  k \in Beyond(H, b, n) <=> k > n
      <4>1. k \in Nat /\ n \in Nat /\ n \in b[n]
        BY <1>2
      <4> QED BY <3>3, <4>1 DEF Beyond
    <3>5. Beyond(H, b, n) = S
      BY <3>4 DEF Beyond
    <3> QED BY <3>1, <3>2, <3>5
  <2>2. CASE c # NULL
    <3>1. c \in H /\ Below(b, c) = b[c]
      BY <1>1, <2>2, OppIs DEF Shape, Paired, Below
    <3> DEFINE y == Deepest(c, "left")
    <3>2. Successor(n) = y
      BY <2>2 DEF Successor, Neighbour, Opp
    <3>3. y \in b[c] /\ \A k \in b[c] : y <= k
      BY <1>1, <3>1, DeepestIs
    <3> HIDE DEF y, c
    <3>4. y \in S /\ y \in b[n] /\ y \in Nat
      BY <1>2, <1>3, <3>1, <3>3
    <3>5. ASSUME NEW k \in S
          PROVE  y <= k
      <4>1. k \in H /\ k \in Nat /\ n \in Nat /\ k > n /\ n \in b[n]
        BY <1>2
      <4>2. CASE k \in b[n]
        <5>1. k \in b[c]
          <6>1. k # n /\ ~(k < n)
            BY <4>1
          <6> QED BY <1>3, <3>1, <4>2, <6>1
        <5> QED BY <3>3, <5>1
      <4>3. CASE k \notin b[n]
        <5>1. Convex(H, b, n)
          BY <1>1, SubtreesAreConvex
        <5>2. ~(k < n)
          BY <4>1
        <5>3. y < k
          BY <3>4, <4>1, <4>3, <5>1, <5>2 DEF Convex
        <5> QED BY <3>4, <4>1, <5>3
      <4> QED BY <4>2, <4>3
    <3> HIDE DEF S
    <3>6. Least(S) = y
      BY <1>4, <3>4, <3>5, LeastIs
    <3> QED BY <3>2, <3>4, <3>6 DEF LeastOf
  <2> QED BY <2>1, <2>2
<1>6. S = Contents!After(members, n)
  BY DEF Contents!After
<1> QED BY <1>4, <1>5, <1>6, LeastOfIsFirst

\* While an erase repairs the tree, it keeps the successor of the element it erases.
NextIs == pc = "fixerase" => next \in Contents!First(Contents!After(members, new))

\* The requests and the result as the container has them.
Wanted == [c \in {"caller"} |-> Asked]

Given == [c \in {"caller"} |-> IF pc = "returned" THEN {result} ELSE {}]

\* Two such functions of the one caller.
LEMMA OneCaller ==
  ASSUME NEW x, NEW y
  PROVE  [c \in {"caller"} |-> y] = [[c \in {"caller"} |-> x] EXCEPT !["caller"] = y]
OBVIOUS

\* An erase of n that is called and done in this step.
LEMMA EraseAtOnce ==
  ASSUME pc = "idle", NEW n \in members, n \in Nodes, members' = members \ {n},
         pc' = "returned", {result'} = Contents!First(Contents!After(members, n))
  PROVE  Contents!Next
<1> DEFINE q == [op |-> "erase", x |-> n]
<1>1. q \in Contents!Requests /\ q.op = "erase" /\ q.x = n
  BY DEF Contents!Requests
<1> HIDE DEF q
<1>2. Wanted["caller"] = Contents!Idle /\ Given["caller"] = {} /\ Wanted' = Wanted
  BY DEF Wanted, Given, Asked, Contents!Idle
<1>3. Given' = [Given EXCEPT !["caller"] = {result'}]
  BY OneCaller DEF Given
<1>4. Contents!Answer(q, members) = {result'} /\ Contents!Rest(q, members) = members'
  BY <1>1 DEF Contents!Answer, Contents!Rest
<1>5. Contents!Serve("caller", q)
  BY <1>1, <1>3, <1>4 DEF Contents!Serve, Given
<1>6. Contents!InvokeAndPerform("caller", q)
  BY <1>1, <1>2, <1>5 DEF Contents!InvokeAndPerform, Contents!Ready, Wanted, Given
<1> QED BY <1>1, <1>6 DEF Contents!Next

\* The caller asks for q.
LEMMA AsksFor ==
  ASSUME pc = "idle", NEW q \in Contents!Requests, Asked' = q, pc' # "returned",
         members' = members
  PROVE  Contents!Next
<1>1. Wanted["caller"] = Contents!Idle /\ Given["caller"] = {} /\ Given' = Given
  BY DEF Wanted, Given, Asked, Contents!Idle
<1>2. Wanted' = [Wanted EXCEPT !["caller"] = q]
  BY OneCaller DEF Wanted
<1>3. Contents!Invoke("caller", q)
  BY <1>1, <1>2 DEF Contents!Invoke, Contents!Ready, Wanted, Given
<1> QED BY <1>3 DEF Contents!Next

\* What the caller has asked for is done.
LEMMA AskedIsDone ==
  ASSUME Asked # Contents!Idle, pc # "returned", pc' = "returned",
         Asked.op \in {"insert", "erase"}, Asked.op = "erase" => Asked.x \in members,
         {result'} = Contents!Answer(Asked, members), members' = Contents!Rest(Asked, members)
  PROVE  Contents!Next
<1>1. Wanted["caller"] = Asked
  BY DEF Wanted
<1>2. Wanted' = [Wanted EXCEPT !["caller"] = Contents!Idle]
  <2>1. Asked' = Contents!Idle
    BY DEF Asked, Contents!Idle
  <2> QED BY <2>1, OneCaller DEF Wanted
<1>3. Given' = [Given EXCEPT !["caller"] = {result'}]
  BY OneCaller DEF Given
<1>4. Contents!Serve("caller", Asked)
  BY <1>3 DEF Contents!Serve, Given
<1>5. Contents!Perform("caller")
  BY <1>1, <1>2, <1>4 DEF Contents!Perform, Wanted
<1> QED BY <1>5 DEF Contents!Next

\* The caller has got its result.
LEMMA ResponseIsTaken ==
  ASSUME pc = "returned", pc' = "idle", members' = members
  PROVE  Contents!Next
<1>1. Given["caller"] # {} /\ Wanted' = Wanted
  BY DEF Wanted, Given, Asked
<1>2. Given' = [Given EXCEPT !["caller"] = {}]
  BY OneCaller DEF Given
<1>3. Contents!Respond("caller")
  BY <1>1, <1>2 DEF Contents!Respond, Wanted, Given
<1> QED BY <1>3 DEF Contents!Next

\* Nothing that the container tells has changed.
LEMMA NothingTold ==
  ASSUME members' = members, Asked' = Asked, result' = result, pc' = "returned" <=> pc = "returned"
  PROVE  UNCHANGED Contents!vars
<1>1. Wanted' = Wanted /\ Given' = Given
  BY DEF Wanted, Given
<1> QED BY <1>1 DEF Contents!vars, Wanted, Given

\* The first after n is one element, or none.
LEMMA FirstIsOne ==
  ASSUME members \subseteq Nat, NEW n, NEW x \in Contents!First(Contents!After(members, n))
  PROVE  {x} = Contents!First(Contents!After(members, n))
<1> DEFINE S == Contents!After(members, n)
<1>1. S \subseteq Nat
  BY DEF Contents!After
<1> HIDE DEF S
<1>2. ASSUME S # {}, NEW y \in Contents!First(S)
      PROVE  y = x
  <2>1. y \in S /\ x \in S /\ y <= x /\ x <= y
    BY <1>2 DEF Contents!First, S
  <2> QED BY <1>1, <2>1
<1>3. CASE S = {}
  BY <1>3 DEF Contents!First, S
<1>4. CASE S # {}
  BY <1>2, <1>4 DEF S
<1> QED BY <1>3, <1>4

\* An erase that unlinks n takes effect now, or keeps its successor for later.
LEMMA UnlinkedIsErase ==
  ASSUME IInv, pc = "idle", NEW n \in members, NEW s, NEW r, Unlinked(s, r, n)
  PROVE  Contents!Next /\ NextIs'
<1>1. Successor(n) \in Contents!First(Contents!After(members, n))
  BY SuccessorIs DEF IInv
<1>2. n \in Nodes /\ members \subseteq Nat
  BY NodesAssumption DEF IInv, Inv, Locals
<1>3. CASE r = NULL
  <2>1. members' = members \ {n} /\ result' = Successor(n) /\ pc' = "returned"
    BY <1>3 DEF Unlinked, Return
  <2>2. {result'} = Contents!First(Contents!After(members, n))
    BY <1>1, <1>2, <2>1, FirstIsOne
  <2> QED BY <1>2, <2>1, <2>2, EraseAtOnce DEF NextIs
<1>4. CASE r # NULL
  <2>1. members' = members /\ new' = n /\ next' = Successor(n) /\ pc' = "fixerase"
    BY <1>4 DEF Unlinked
  <2>2. NextIs'
    BY <1>1, <2>1 DEF NextIs, Contents!First, Contents!After
  <2>3. Asked' = [op |-> "erase", x |-> n]
    BY <2>1 DEF Asked
  <2>4. Asked' \in Contents!Requests
    BY <1>2, <2>3 DEF Contents!Requests
  <2> QED BY <2>1, <2>2, <2>4, AsksFor
<1> QED BY <1>3, <1>4

\* An erase whose repair is over takes effect.
LEMMA ReturnIsErase ==
  ASSUME IInv, NextIs, pc = "fixerase", NEW s, EraseReturn(s)
  PROVE  Contents!Next /\ NextIs'
<1>1. members' = members \ {new} /\ result' = next /\ pc' = "returned"
  BY DEF EraseReturn, Return
<1>2. new \in members /\ new \in Nodes /\ members \subseteq Nat
  BY NodesAssumption DEF IInv, Inv, Locals
<1>3. {result'} = Contents!First(Contents!After(members, new))
  BY <1>1, <1>2, FirstIsOne DEF NextIs
<1>4. Asked.op = "erase" /\ Asked.x = new /\ Asked # Contents!Idle
  BY DEF Asked, Contents!Idle
<1>5. Contents!Answer(Asked, members) = {result'} /\ Contents!Rest(Asked, members) = members'
  BY <1>1, <1>3, <1>4 DEF Contents!Answer, Contents!Rest
<1> QED BY <1>1, <1>2, <1>4, <1>5, AskedIsDone DEF NextIs

\* An insert of a node that was not there takes effect when the tree is in order again,
\* one of a node that was there when the descent meets it.
LEMMA DoneIsInsert ==
  ASSUME pc \in {"descend", "fixinsert"}, pc' = "returned", members' = members \cup {new},
         {result'} = Contents!Found(members, new)
  PROVE  Contents!Next /\ NextIs'
<1>1. Asked.op = "insert" /\ Asked.x = new /\ Asked # Contents!Idle
  BY DEF Asked, Contents!Idle
<1>2. Contents!Answer(Asked, members) = {result'} /\ Contents!Rest(Asked, members) = members'
  BY <1>1 DEF Contents!Answer, Contents!Rest
<1> QED BY <1>1, <1>2, AskedIsDone DEF NextIs

LEMMA FixedIsInsert ==
  ASSUME IInv, pc = "fixinsert", members' = members \cup {new}, Return(NULL)
  PROVE  Contents!Next /\ NextIs'
<1>1. new \in Nodes /\ new \notin members
  BY DEF IInv, Inv, Locals
<1>2. result' = NULL /\ pc' = "returned"
  BY DEF Return
<1>3. {result'} = Contents!Found(members, new)
  BY <1>1, <1>2 DEF Contents!Found
<1> QED BY <1>2, <1>3, DoneIsInsert

\* Every step of the tree is a step of the container or changes nothing there.
LEMMA StepImplements ==
  ASSUME IInv, NextIs, [Next]_vars
  PROVE  (Contents!Next \/ UNCHANGED Contents!vars) /\ NextIs'
<1> DEFINE Goal == (Contents!Next \/ UNCHANGED Contents!vars) /\ NextIs'
<1>1. ASSUME members' = members, result' = result, pc \in {"descend", "fixinsert"},
             pc' \in {"descend", "fixinsert"}, new' = new
      PROVE  Goal
  <2>1. Asked' = Asked
    BY <1>1 DEF Asked
  <2> QED BY <1>1, <2>1, NothingTold DEF NextIs
<1>2. ASSUME NEW n \in Nodes, CallInsert(n)
      PROVE  Goal
  <2>1. pc = "idle" /\ pc' = "descend" /\ new' = n /\ members' = members
    BY <1>2 DEF CallInsert
  <2>2. Asked' = [op |-> "insert", x |-> n]
    BY <2>1 DEF Asked
  <2>3. Asked' \in Contents!Requests
    BY <2>2 DEF Contents!Requests
  <2> QED BY <2>1, <2>3, AsksFor DEF NextIs
<1>3. ASSUME NEW n \in Nodes, EraseNoLeft(n)
      PROVE  Goal
  <2>1. pc = "idle" /\ n \in members /\ \E s, r : Unlinked(s, r, n)
    BY <1>3 DEF EraseNoLeft
  <2> QED BY <2>1, UnlinkedIsErase
<1>4. ASSUME NEW n \in Nodes, EraseNoRight(n)
      PROVE  Goal
  <2>1. pc = "idle" /\ n \in members /\ \E s, r : Unlinked(s, r, n)
    BY <1>4 DEF EraseNoRight
  <2> QED BY <2>1, UnlinkedIsErase
<1>5. ASSUME NEW n \in Nodes, EraseTwo(n)
      PROVE  Goal
  <2>1. pc = "idle" /\ n \in members /\ \E s, r : Unlinked(s, r, n)
    BY <1>5 DEF EraseTwo
  <2> QED BY <2>1, UnlinkedIsErase
<1>6. CASE Descend
  <2>1. CASE new # node
    <3>1. members' = members /\ result' = result /\ pc = "descend" /\ pc' = pc /\ new' = new
      BY <1>6, <2>1 DEF Descend
    <3> QED BY <1>1, <3>1
  <2>2. CASE new = node
    <3>1. new \in Nodes /\ new \in members
      BY <1>6, <2>2 DEF Descend, IInv, Inv, Locals, Placed
    <3>2. result' = new /\ members' = members \cup {new} /\ pc = "descend" /\ pc' = "returned"
      BY <1>6, <2>2, <3>1 DEF Descend, Return
    <3>3. {result'} = Contents!Found(members, new)
      BY <3>1, <3>2 DEF Contents!Found
    <3> QED BY <3>2, <3>3, DoneIsInsert
  <2> QED BY <2>1, <2>2
<1>7. CASE Link
  BY <1>1, <1>7 DEF Link
<1>8. CASE InsertDone
  BY <1>8, FixedIsInsert DEF InsertDone
<1>9. CASE InsertFlip
  BY <1>1, <1>9 DEF InsertFlip
<1>10. CASE InsertRotate
  BY <1>10, FixedIsInsert DEF InsertRotate
<1>11. ASSUME members' = members, result' = result, pc' = pc, new' = new, next' = next
       PROVE  Goal
  <2>1. Asked' = Asked
    BY <1>11 DEF Asked
  <2>2. NextIs'
    BY <1>11 DEF NextIs, Contents!First, Contents!After
  <2> QED BY <1>11, <2>1, <2>2, NothingTold
<1>12. CASE EraseRotate
  BY <1>11, <1>12 DEF EraseRotate, locals
<1>13. CASE EraseFlip
  <2>1. \/ \E s : EraseReturn(s)
        \/ members' = members /\ result' = result /\ pc' = pc /\ new' = new /\ next' = next
    BY <1>13 DEF EraseFlip
  <2>2. pc = "fixerase"
    BY <1>13 DEF EraseFlip
  <2> QED BY <1>11, <2>1, <2>2, ReturnIsErase
<1>14. CASE EraseRaise
  <2>1. pc = "fixerase" /\ \E s : EraseReturn(s)
    BY <1>14 DEF EraseRaise
  <2> QED BY <2>1, ReturnIsErase
<1>15. CASE Take
  <2>1. pc = "returned" /\ pc' = "idle" /\ members' = members
    BY <1>15 DEF Take
  <2> QED BY <2>1, ResponseIsTaken DEF NextIs
<1>16. CASE UNCHANGED vars
  BY <1>11, <1>16 DEF vars, locals
<1> HIDE DEF Goal
<1> QED BY <1>2, <1>3, <1>4, <1>5, <1>6, <1>7, <1>8, <1>9, <1>10, <1>12, <1>13, <1>14, <1>15, <1>16
        DEF Next, Goal

\* To its caller the tree is an ordered set: an insert links a node exactly if its key
\* is not there and returns what it found, and an erase takes out the element it is
\* called with and hands back the successor.
THEOREM Refinement == Spec => ImplementsOrderedSet
<1>1. Init => Contents!Init /\ NextIs
  BY DEF Init, Contents!Init, NextIs, Asked, Contents!Idle
<1>2. IInv /\ NextIs /\ [Next]_vars => NextIs' /\ [Contents!Next]_(Contents!vars)
  BY StepImplements
<1> QED BY <1>1, <1>2, Invariance, PTL DEF Spec, ImplementsOrderedSet, Contents!Spec
-----------------------------------------------------------------------------
(***************************************************************************)
(* rb_replace_node.                                                        *)
(***************************************************************************)
\* The child of v on side d, if there is one, has by as its parent.
Told(r, v, d, by) == IF r.kid[v][d] = NULL THEN r ELSE SetParent(r, r.kid[v][d], by)

\* In r the child of v on side d has by as its parent, and all else is as in s.
IsTold(r, s, v, d, by) ==
  /\ r \in Trees /\ r.kid = s.kid /\ r.col = s.col /\ r.root = s.root
  /\ \A k \in Nodes : r.par[k] = IF k = s.kid[v][d] THEN by ELSE s.par[k]

\* Told stores that parent pointer only.
LEMMA ToldIs ==
  ASSUME NEW s \in Trees, NEW v \in Nodes, NEW d \in Dirs, NEW by \in Nodes
  PROVE  IsTold(Told(s, v, d, by), s, v, d, by)
<1>1. NULL \notin Nodes /\ s.kid[v][d] \in Maybe /\ by \in Maybe
  BY NodesAssumption DEF Trees, Maybe
<1>2. CASE s.kid[v][d] = NULL
  BY <1>1, <1>2 DEF Told, IsTold
<1>3. CASE s.kid[v][d] # NULL
  <2> DEFINE m == s.kid[v][d]
  <2>1. m \in Nodes
    BY <1>1, <1>3 DEF Maybe
  <2>2. ParentIs(SetParent(s, m, by), s, m, by)
    BY <1>1, <2>1, SetParentIs
  <2> QED BY <1>3, <2>2 DEF ParentIs, Told, IsTold
<1> QED BY <1>2, <1>3

\* In r the node by has the children, the parent and the color that v has in s.
IsCopied(r, s, v, by) ==
  /\ r.root = s.root
  /\ \A k \in Nodes : /\ r.kid[k] = IF k = by THEN s.kid[v] ELSE s.kid[k]
                      /\ r.par[k] = IF k = by THEN s.par[v] ELSE s.par[k]
                      /\ r.col[k] = IF k = by THEN s.col[v] ELSE s.col[k]

\* rb_replace_node in four steps.
LEMMA ReplaceNodeIs ==
  ASSUME NEW s \in Trees, NEW v \in Nodes, NEW by \in Nodes
  PROVE  LET s1 == ChangeChild(s, v, by, s.par[v])
             s2 == Told(Told(s1, v, "left", by), v, "right", by)
         IN s2 \in Trees => IsCopied(ReplaceNode(s, v, by), s2, v, by)
<1> DEFINE s1 == ChangeChild(s, v, by, s.par[v])
           s2 == Told(Told(s1, v, "left", by), v, "right", by)
           r == [s2 EXCEPT !.kid[by] = s2.kid[v], !.par[by] = s2.par[v], !.col[by] = s2.col[v]]
<1>1. ReplaceNode(s, v, by) = r
  BY DEF ReplaceNode, Told
<1>2. ASSUME NEW q \in Trees
      PROVE  IsCopied([q EXCEPT !.kid[by] = q.kid[v], !.par[by] = q.par[v],
                                !.col[by] = q.col[v]], q, v, by)
  BY <1>2 DEF IsCopied, Trees
<1> QED BY Zenon, <1>1, <1>2

\* What ReplaceKeepsShape says of the tree s after v was replaced by by.
Traded(s, v, by) ==
  LET New(n) == IF n = v THEN by ELSE n
  IN /\ s.root = New(t.root)
     /\ \A n \in members :
          /\ s.par[New(n)] = New(t.par[n]) /\ s.col[New(n)] = t.col[n]
          /\ \A d \in Dirs : s.kid[New(n)][d] = New(t.kid[n][d])

\* A replacement leads every pointer to the old node to the new one.
LEMMA ReplaceIsSwap ==
  ASSUME IInv, pc = "idle", NEW v \in members, NEW by \in Nodes \ members
  PROVE  Traded(ReplaceNode(t, v, by), v, by)
<1>1. PICK b \in Families, h \in Heights : Inv(b, h)
  BY DEF IInv
<1>2. /\ members \in SUBSET Nodes /\ t \in Trees /\ Shape(t, members, b)
      /\ b \in [Nodes -> SUBSET Nodes] /\ NULL \notin Nodes
  <2>1. Held = members
    BY DEF Held
  <2> QED BY <1>1, <2>1, HeldIsShaped
<1>3. v \in Nodes /\ by \in Nodes /\ by \in Maybe /\ t.par[v] \in Maybe
  BY <1>2 DEF Trees, Maybe
<1>4. /\ HangsBelow(t, v, t.par[v]) /\ t.par[v] # v
      /\ t.par[v] = NULL <=> t.root = v
  BY <1>2, Hangs
<1>5. \A n \in members, d \in Dirs :
        t.kid[n][d] # NULL =>
          t.kid[n][d] \in members /\ t.par[t.kid[n][d]] = n /\ t.kid[n][d] # n
  <2>1. \A n \in members, d \in Dirs : ChildOf(t, members, b, n, d, t.kid[n][d])
    BY <1>2, ChildIs
  <2> QED BY <2>1 DEF ChildOf
<1>6. \A n \in members :
        t.par[n] # NULL => t.par[n] \in members /\ \E d \in Dirs : t.kid[t.par[n]][d] = n
  BY <1>2 DEF Shape, Paired
<1>7. PICK s1 : s1 = ChangeChild(t, v, by, t.par[v])
  OBVIOUS
<1>8. ChildIsChanged(s1, t, v, by, t.par[v])
  BY <1>2, <1>3, <1>4, <1>7, ChangeChildIs
<1>9. PICK q : q = Told(s1, v, "left", by)
  OBVIOUS
<1>10. s1 \in Trees /\ "left" \in Dirs /\ "right" \in Dirs
  BY <1>8 DEF ChildIsChanged, Dirs
<1>11. IsTold(q, s1, v, "left", by)
  BY <1>3, <1>9, <1>10, ToldIs
<1>12. PICK s2 : s2 = Told(q, v, "right", by)
  OBVIOUS
<1>13. q \in Trees
  BY <1>11 DEF IsTold
<1>14. IsTold(s2, q, v, "right", by)
  BY <1>3, <1>10, <1>12, <1>13, ToldIs
<1>15. PICK r : r = ReplaceNode(t, v, by)
  OBVIOUS
<1>16. s2 \in Trees
  BY <1>14 DEF IsTold
<1>17. IsCopied(r, s2, v, by)
  BY <1>2, <1>3, <1>7, <1>9, <1>12, <1>15, <1>16, ReplaceNodeIs
<1>18. /\ s2.root = IF t.par[v] = NULL THEN by ELSE t.root
       /\ \A k \in Nodes : s2.col[k] = t.col[k]
       /\ \A k \in Nodes, e \in Dirs :
            s2.kid[k][e] = IF k = t.par[v] /\ t.kid[k][e] = v THEN by ELSE t.kid[k][e]
  BY <1>8, <1>11, <1>14 DEF ChildIsChanged, IsTold
<1>19. \A k \in Nodes : s2.par[k] = IF k = t.kid[v]["left"] \/ k = t.kid[v]["right"] THEN by
                                    ELSE t.par[k]
  <2>1. s1.kid[v]["left"] = t.kid[v]["left"] /\ q.kid[v]["right"] = t.kid[v]["right"]
    BY <1>3, <1>4, <1>8, <1>10, <1>11 DEF ChildIsChanged, IsTold
  <2>2. s1.par = t.par
    BY <1>8 DEF ChildIsChanged
  <2> QED BY <1>11, <1>14, <2>1, <2>2 DEF IsTold
<1> DEFINE New(n) == IF n = v THEN by ELSE n
<1>20. r.root = New(t.root)
  BY <1>4, <1>17, <1>18 DEF IsCopied
<1>21. ASSUME NEW n \in members
       PROVE  /\ r.par[New(n)] = New(t.par[n]) /\ r.col[New(n)] = t.col[n]
              /\ \A d \in Dirs : r.kid[New(n)][d] = New(t.kid[n][d])
  <2>1. n \in Nodes /\ n # by /\ n # NULL /\ v # NULL
    BY <1>2
  <2>2. CASE n = v
    <3>1. t.kid[v]["left"] # v /\ t.kid[v]["right"] # v /\ \A d \in Dirs : t.kid[v][d] # v
      BY <1>5, <1>10, <2>1, <2>2
    <3>2. New(n) = by
      BY <2>2
    <3>3. r.par[by] = t.par[v]
      BY <1>3, <1>17, <1>19, <3>1 DEF IsCopied
    <3>4. r.col[by] = t.col[v]
      BY <1>3, <1>17, <1>18 DEF IsCopied
    <3>5. \A d \in Dirs : r.kid[by][d] = t.kid[v][d]
      BY <1>3, <1>4, <1>17, <1>18 DEF IsCopied
    <3> QED BY <1>4, <2>2, <3>1, <3>2, <3>3, <3>4, <3>5
  <2>3. CASE n # v
    <3>1. New(n) = n
      BY <2>3
    <3>2. r.par[n] = s2.par[n] /\ r.col[n] = s2.col[n] /\ r.kid[n] = s2.kid[n]
      BY <1>17, <2>1 DEF IsCopied
    <3>3. n = t.kid[v]["left"] \/ n = t.kid[v]["right"] <=> t.par[n] = v
      BY <1>5, <1>6, <1>10, <2>1 DEF Dirs
    <3>4. r.par[n] = New(t.par[n])
      BY <1>19, <2>1, <3>2, <3>3
    <3>5. ASSUME NEW d \in Dirs
          PROVE  r.kid[n][d] = New(t.kid[n][d])
      <4>1. t.kid[n][d] = v => n = t.par[v]
        BY <1>5, <2>1
      <4> QED BY <1>18, <2>1, <3>2, <4>1
    <3> QED BY <1>18, <2>1, <3>1, <3>2, <3>4, <3>5
  <2> QED BY <2>2, <2>3
<1> HIDE DEF New
<1>22. /\ r.root = New(t.root)
       /\ \A n \in members :
            /\ r.par[New(n)] = New(t.par[n]) /\ r.col[New(n)] = t.col[n]
            /\ \A d \in Dirs : r.kid[New(n)][d] = New(t.kid[n][d])
  BY <1>20, <1>21
<1> QED BY <1>15, <1>22 DEF Traded, New

\* rb_replace_node keeps the shape and the colors: it moves one node into the place of
\* another, whatever the tree.
THEOREM ReplaceHolds == Spec => []ReplaceKeepsShape
<1>1. IInv => ReplaceKeepsShape
  BY ReplaceIsSwap DEF ReplaceKeepsShape, Traded
<1> QED BY <1>1, Invariance, PTL
=============================================================================

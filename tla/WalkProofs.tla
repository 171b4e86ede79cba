----------------------------- MODULE WalkProofs -----------------------------
(***************************************************************************)
(* Theorems about the searches and walks over the red-black tree, for any  *)
(* finite set of keys: those that run between two operations (TreeSearch), *)
(* and those of two threads that share inet_frag_settree (SharedTree), for *)
(* any number of operations.                                               *)
(*                                                                         *)
(* Between two operations.  IInv of RBTreeProofs gives the set of keys b   *)
(* below each node; what a walk or a search finds from a node on is said   *)
(* of that set and proved from the leaves up (BottomUp), or for a climb    *)
(* from the root down.  ChaseExists says that the recursive functions of   *)
(* TreeSearch are functions at all, since every step makes some number     *)
(* smaller.  The postorder walk has met, when it comes to x, just what     *)
(* Precedes x; one step adds x.                                            *)
(*                                                                         *)
(* Two threads.  The invariants follow one from the other.  A step of the  *)
(* two threads is one of RBTree, or none (SharedTreeIsTree), so that IInv  *)
(* of RBTreeProofs holds of the tree t.  Control ties each thread's        *)
(* counter to what it is about.  Pending says which stores a burst may     *)
(* hold, and Made that those still to be made turn the memory mem into t:  *)
(* each step of RBTree is the run of its stores.  From Made follows        *)
(* StoresMakeTree.  Roaming says the memory, while no erase is under way,  *)
(* and a walk keep within the nodes that are allocated; WalkIsSafe         *)
(* follows.  Resuming is what an erase of the pass leaves for the next     *)
(* round, and Undisturbed where a call stands that has met no operation;   *)
(* UndisturbedIsExact follows.                                             *)
(***************************************************************************)
EXTENDS SharedTree, RBTreeProofs

(***************************************************************************)
(* The shape of the tree, the same for left and right.                     *)
(***************************************************************************)
\* The tree t, its nodes H and the keys b below each.
Tree(H, b) ==
  /\ t \in Trees /\ H \in SUBSET Nodes /\ b \in [Nodes -> SUBSET Nodes]
  /\ Shape(t, H, b) /\ Bare(t, H)

\* Whether x is on side d of y.
Toward(d, x, y) == IF d = "left" THEN x < y ELSE y < x

\* Both sides are orders, each the reverse of the other.
Orders(d, x, y, z) ==
  /\ ~Toward(d, x, x)
  /\ Toward(d, x, y) /\ Toward(d, y, z) => Toward(d, x, z)
  /\ Toward(d, x, y) <=> Toward(Opp(d), y, x)
  /\ x # y => Toward(d, x, y) \/ Toward(d, y, x)
  /\ ~(Toward(d, x, y) /\ Toward(d, y, x))

\* Of any three numbers.
LEMMA SidesAreOrders ==
  \A d \in Dirs : \A x, y, z \in Nat : Orders(d, x, y, z)
<1>1. ASSUME NEW d \in Dirs, NEW x \in Nat, NEW y \in Nat, NEW z \in Nat
      PROVE  Orders(d, x, y, z)
  <2>1. CASE d = "left"
    BY <2>1 DEF Orders, Toward, Opp
  <2>2. CASE d = "right"
    BY <2>2 DEF Orders, Toward, Opp
  <2> QED BY <2>1, <2>2 DEF Dirs
<1> QED BY <1>1

\* What is below a node, and on which side of it.
Branches(H, b, n) ==
  /\ n \in Nodes /\ n \in Nat /\ n # NULL /\ n \in b[n] /\ b[n] \subseteq H
  /\ \A m \in b[n] : b[m] \subseteq b[n]
  /\ \A d \in Dirs :
       t.kid[n][d] # NULL =>
         /\ t.kid[n][d] \in H /\ t.kid[n][d] \in b[t.kid[n][d]] /\ t.par[t.kid[n][d]] = n
         /\ b[t.kid[n][d]] \subseteq b[n] /\ n \notin b[t.kid[n][d]]
         /\ t.kid[n][d] # t.kid[n][Opp(d)]
         /\ \A m \in b[t.kid[n][d]] : m \in Nat /\ Toward(d, m, n)
  /\ \A m \in b[n] : m = n \/ \E d \in Dirs : t.kid[n][d] # NULL /\ m \in b[t.kid[n][d]]

\* The shape of the tree, said for either side at once.
LEMMA BranchesAre ==
  ASSUME NEW H, NEW b, Tree(H, b), NEW n \in H
  PROVE  Branches(H, b, n)
<1>1. t \in Trees /\ H \in SUBSET Nodes /\ b \in [Nodes -> SUBSET Nodes] /\ Shape(t, H, b)
  BY DEF Tree
<1>2. /\ n \in b[n] /\ n \in Nat /\ n \in Nodes /\ n # NULL /\ b[n] \subseteq H
      /\ b[n] = {n} \cup Below(b, t.kid[n]["left"]) \cup Below(b, t.kid[n]["right"])
      /\ \A m \in Below(b, t.kid[n]["left"]) : m < n
      /\ \A m \in Below(b, t.kid[n]["right"]) : m > n
  BY <1>1, Family
<1>3. \A m \in b[n] : b[m] \subseteq b[n]
  BY <1>1 DEF Shape, Closed
<1>4. H \subseteq Nat
  BY <1>1, NodesAssumption
<1>5. ASSUME NEW d \in Dirs, t.kid[n][d] # NULL
      PROVE  /\ t.kid[n][d] \in H /\ t.kid[n][d] \in b[t.kid[n][d]] /\ t.par[t.kid[n][d]] = n
             /\ b[t.kid[n][d]] \subseteq b[n] /\ n \notin b[t.kid[n][d]]
             /\ t.kid[n][d] # t.kid[n][Opp(d)]
             /\ \A m \in b[t.kid[n][d]] : m \in Nat /\ Toward(d, m, n)
  <2>1. ChildOf(t, H, b, n, d, t.kid[n][d])
    BY <1>1, ChildIs
  <2> DEFINE c == t.kid[n][d]
  <2>2. /\ c \in H /\ c \in b[c] /\ t.par[c] = n /\ b[c] \subseteq b[n] /\ n \notin b[c]
        /\ c # t.kid[n][Opp(d)]
    BY <1>5, <2>1 DEF ChildOf
  <2>3. Below(b, t.kid[n][d]) = b[t.kid[n][d]]
    BY <1>5 DEF Below
  <2>4. ASSUME NEW m \in b[c]
        PROVE  m \in Nat /\ Toward(d, m, n)
    <3>1. m \in Nat
      BY <1>2, <1>4, <2>2
    <3>2. CASE d = "left"
      BY <1>2, <2>3, <3>1, <3>2 DEF Toward
    <3>3. CASE d = "right"
      BY <1>2, <2>3, <3>1, <3>3 DEF Toward
    <3> QED BY <3>1, <3>2, <3>3 DEF Dirs
  <2> QED BY <2>2, <2>4
<1>6. ASSUME NEW m \in b[n], m # n
      PROVE  \E d \in Dirs : t.kid[n][d] # NULL /\ m \in b[t.kid[n][d]]
  <2>1. m \in Below(b, t.kid[n]["left"]) \/ m \in Below(b, t.kid[n]["right"])
    BY <1>2, <1>6
  <2> QED BY <2>1 DEF Below, Dirs
<1> QED BY <1>2, <1>3, <1>5, <1>6 DEF Branches

\* What is above a node.
Stem(H, b, n) ==
  /\ t.par[n] = NULL => n = t.root /\ b[n] = H
  /\ t.par[n] # NULL => t.par[n] \in H /\ \E d \in Dirs : t.kid[t.par[n]][d] = n

\* And upwards.
LEMMA StemIs ==
  ASSUME NEW H, NEW b, Tree(H, b), NEW n \in H
  PROVE  Stem(H, b, n)
<1>1. n # NULL
  BY BranchesAre DEF Branches
<1> QED BY <1>1 DEF Tree, Shape, Paired, Rooted, Below, Stem

-----------------------------------------------------------------------------
(***************************************************************************)
(* Going from node to node comes to an end.                                *)
(***************************************************************************)
\* F is what one finds going from each node to the next until there is none.
Chases(F, S, nx, none, v, g) ==
  \A m \in S : F[m] = IF nx[m] = none THEN v[m] ELSE g[m][F[nx[m]]]

\* One can go on like that when every step makes some number smaller.
LEMMA ChaseExists ==
  ASSUME NEW S, NEW none, none \notin S, NEW V,
         NEW nx \in [S -> S \cup {none}], NEW v \in [S -> V],
         NEW g \in [S -> [V -> V]], NEW r \in [S -> Nat], NEW N \in Nat,
         \A m \in S : r[m] < N,
         \A m \in S : nx[m] # none => r[nx[m]] < r[m]
  PROVE  \E F \in [S -> V] : Chases(F, S, nx, none, v, g)
<1> DEFINE Fits(F, m) == F[m] = IF nx[m] = none THEN v[m] ELSE g[m][F[nx[m]]]
           Upto(F, i) == \A m \in S : r[m] < i => Fits(F, m)
           T == {i \in Nat : ~\E F \in [S -> V] : Upto(F, i)}
<1>1. T = {}
  <2> SUFFICES ASSUME T # {}
               PROVE  FALSE
    OBVIOUS
  <2>1. PICK i \in T : \A j \in T : i <= j
    <3>1. T \in SUBSET Nat
      OBVIOUS
    <3> HIDE DEF T
    <3> QED BY <3>1, LeastNatural
  <2>2. i # 0
    <3>1. Upto(v, 0)
      OBVIOUS
    <3> HIDE DEF Upto
    <3> QED BY <2>1, <3>1
  <2>3. i \in Nat /\ i - 1 \in Nat /\ ~(i <= i - 1)
    BY <2>1, <2>2
  <2>4. PICK F \in [S -> V] : Upto(F, i - 1)
    <3> HIDE DEF Upto
    <3> QED BY <2>1, <2>3
  <2> DEFINE G == [m \in S |-> IF nx[m] = none THEN v[m] ELSE g[m][F[nx[m]]]]
  <2>5. G \in [S -> V]
    <3>1. ASSUME NEW m \in S
          PROVE  (IF nx[m] = none THEN v[m] ELSE g[m][F[nx[m]]]) \in V
      <4>1. CASE nx[m] = none
        BY <4>1
      <4>2. CASE nx[m] # none
        <5>1. F[nx[m]] \in V
          BY <4>2
        <5>2. g[m] \in [V -> V]
          OBVIOUS
        <5> QED BY <4>2, <5>1, <5>2
      <4> QED BY <4>1, <4>2
    <3> QED BY <3>1
  <2>6. ASSUME NEW m \in S, r[m] < i
        PROVE  Fits(G, m)
    <3>1. CASE nx[m] = none
      BY <3>1
    <3>2. CASE nx[m] # none
      <4>1. nx[m] \in S /\ r[nx[m]] < r[m] /\ r[nx[m]] \in Nat /\ r[m] \in Nat
        BY <3>2
      <4>2. r[nx[m]] < i - 1
        BY <2>3, <2>6, <4>1
      <4>3. Fits(F, nx[m])
        BY <2>4, <4>1, <4>2
      <4>4. G[nx[m]] = F[nx[m]]
        BY <4>1, <4>3
      <4> QED BY Zenon, <3>2, <4>4
    <3> QED BY Zenon, <3>1, <3>2
  <2>7. Upto(G, i)
    <3> HIDE DEF Fits, G
    <3> QED BY <2>6
  <2> HIDE DEF Upto, G
  <2> QED BY <2>1, <2>5, <2>7
<1>2. PICK F \in [S -> V] : Upto(F, N)
  <2> HIDE DEF Upto
  <2> QED BY <1>1
<1> QED BY <1>2 DEF Chases

\* The number of nodes below n, and n.
Size(H, b) == [n \in Nodes |-> IF n \in H THEN Cardinality(b[n]) ELSE 0]

\* There are fewer nodes below the child than below the parent.
LEMMA SizesAre ==
  ASSUME NEW H, NEW b, Tree(H, b)
  PROVE  /\ Size(H, b) \in [Nodes -> Nat] /\ Cardinality(Nodes) \in Nat
         /\ \A n \in Nodes : Size(H, b)[n] <= Cardinality(Nodes)
         /\ \A n \in Nodes, d \in Dirs :
              t.kid[n][d] # NULL =>
                t.kid[n][d] \in Nodes /\ Size(H, b)[t.kid[n][d]] < Size(H, b)[n]
         /\ \A n \in Nodes :
              t.par[n] # NULL => t.par[n] \in Nodes /\ Size(H, b)[n] < Size(H, b)[t.par[n]]
<1> DEFINE C == Cardinality(Nodes)
           z == Size(H, b)
<1>1. IsFiniteSet(Nodes) /\ C \in Nat
  BY NodesAssumption, FS_CardinalityType
<1>2. ASSUME NEW n \in H
      PROVE  /\ IsFiniteSet(b[n]) /\ Cardinality(b[n]) \in Nat /\ Cardinality(b[n]) <= C
             /\ n \in Nodes /\ z[n] = Cardinality(b[n])
  <2>1. b[n] \in SUBSET Nodes /\ n \in Nodes
    BY BranchesAre DEF Branches, Tree
  <2>2. IsFiniteSet(b[n]) /\ Cardinality(b[n]) <= C
    BY <1>1, <2>1, FS_Subset
  <2>3. Cardinality(b[n]) \in Nat
    BY <2>2, FS_CardinalityType
  <2> QED BY <2>1, <2>2, <2>3 DEF Size
<1>3. ASSUME NEW n \in Nodes \ H
      PROVE  z[n] = 0 /\ t.par[n] = NULL /\ \A d \in Dirs : t.kid[n][d] = NULL
  BY <1>3 DEF Size, Tree, Bare
<1> HIDE DEF C
<1>4. ASSUME NEW n \in H, NEW d \in Dirs, t.kid[n][d] # NULL
      PROVE  t.kid[n][d] \in H /\ z[t.kid[n][d]] < z[n]
  <2> DEFINE c == t.kid[n][d]
  <2>1. c \in H /\ b[c] \in SUBSET b[n] /\ b[c] # b[n]
    BY <1>4, BranchesAre DEF Branches
  <2>2. Cardinality(b[c]) <= Cardinality(b[n]) /\ Cardinality(b[n]) # Cardinality(b[c])
    BY <1>2, <2>1, FS_Subset
  <2> HIDE DEF c, z
  <2>3. z[c] < z[n]
    BY <1>2, <2>1, <2>2
  <2> QED BY <2>1, <2>3 DEF c
<1>5. H \subseteq Nodes
  BY DEF Tree
<1>6. z \in [Nodes -> Nat] /\ \A n \in Nodes : z[n] <= C
  <2>1. z = [n \in Nodes |-> z[n]]
    BY DEF Size
  <2> HIDE DEF z
  <2>2. ASSUME NEW n \in Nodes
        PROVE  z[n] \in Nat /\ z[n] <= C
    BY <1>1, <1>2, <1>3
  <2> QED BY <2>1, <2>2
<1>7. ASSUME NEW n \in Nodes, t.par[n] # NULL
      PROVE  t.par[n] \in Nodes /\ z[n] < z[t.par[n]]
  <2>1. n \in H
    BY <1>3, <1>7
  <2>2. t.par[n] \in H /\ \E d \in Dirs : t.kid[t.par[n]][d] = n
    BY <1>7, <2>1, StemIs DEF Stem
  <2>3. PICK d \in Dirs : t.kid[t.par[n]][d] = n
    BY <2>2
  <2>4. n # NULL
    BY <1>7, NodesAssumption
  <2> HIDE DEF z
  <2> QED BY <1>4, <1>5, <2>2, <2>3, <2>4
<1>8. ASSUME NEW n \in Nodes, NEW d \in Dirs, t.kid[n][d] # NULL
      PROVE  t.kid[n][d] \in Nodes /\ z[t.kid[n][d]] < z[n]
  <2>1. n \in H
    BY <1>3, <1>8
  <2> HIDE DEF z
  <2> QED BY <1>4, <1>5, <1>8, <2>1
<1> HIDE DEF z
<1> QED BY <1>1, <1>6, <1>7, <1>8 DEF z, C

\* Going from parent to child ends.
LEMMA DescentExists ==
  ASSUME NEW H, NEW b, Tree(H, b), NEW V, NEW nx \in [Nodes -> Maybe], NEW v \in [Nodes -> V],
         NEW g \in [Nodes -> [V -> V]],
         \A m \in Nodes : nx[m] # NULL => \E d \in Dirs : nx[m] = t.kid[m][d]
  PROVE  \E F \in [Nodes -> V] : Chases(F, Nodes, nx, NULL, v, g)
<1> DEFINE r == Size(H, b)
           N == Cardinality(Nodes) + 1
<1>1. r \in [Nodes -> Nat] /\ N \in Nat /\ \A m \in Nodes : r[m] < N
  BY SizesAre
<1>2. \A m \in Nodes : nx[m] # NULL => r[nx[m]] < r[m]
  BY SizesAre
<1>3. NULL \notin Nodes /\ nx \in [Nodes -> Nodes \cup {NULL}]
  BY NodesAssumption DEF Maybe
<1> HIDE DEF r, N
<1> QED BY <1>1, <1>2, <1>3, ChaseExists

\* Going from child to parent ends.
LEMMA AscentExists ==
  ASSUME NEW H, NEW b, Tree(H, b), NEW V, NEW nx \in [Nodes -> Maybe], NEW v \in [Nodes -> V],
         NEW g \in [Nodes -> [V -> V]],
         \A m \in Nodes : nx[m] # NULL => nx[m] = t.par[m]
  PROVE  \E F \in [Nodes -> V] : Chases(F, Nodes, nx, NULL, v, g)
<1> DEFINE z == Size(H, b)
           C == Cardinality(Nodes)
           r == [m \in Nodes |-> C - z[m]]
           N == C + 1
<1>1. z \in [Nodes -> Nat] /\ C \in Nat /\ \A m \in Nodes : z[m] <= C
  BY SizesAre
<1>2. \A m \in Nodes : nx[m] # NULL => nx[m] \in Nodes /\ z[m] < z[nx[m]]
  BY SizesAre
<1> HIDE DEF z, C
<1>3. r \in [Nodes -> Nat] /\ N \in Nat /\ \A m \in Nodes : r[m] < N
  <2>1. ASSUME NEW m \in Nodes
        PROVE  C - z[m] \in Nat /\ C - z[m] < C + 1
    BY <1>1
  <2> QED BY <1>1, <2>1
<1>4. ASSUME NEW m \in Nodes, nx[m] # NULL
      PROVE  r[nx[m]] < r[m]
  <2>1. nx[m] \in Nodes /\ z[m] < z[nx[m]] /\ z[m] \in Nat /\ z[nx[m]] \in Nat
    BY <1>1, <1>2, <1>4
  <2> QED BY <1>1, <2>1
<1>5. NULL \notin Nodes /\ nx \in [Nodes -> Nodes \cup {NULL}]
  BY NodesAssumption DEF Maybe
<1> HIDE DEF r, N
<1> QED BY <1>3, <1>4, <1>5, ChaseExists

\* What holds of a node when it does of its children holds of all.
LEMMA BottomUp ==
  ASSUME NEW H, NEW b, Tree(H, b), NEW T \in SUBSET H,
         \A m \in H : (\A d \in Dirs : t.kid[m][d] # NULL => t.kid[m][d] \in T) => m \in T
  PROVE  T = H
<1> DEFINE z == Size(H, b)
           U == {k \in Nat : \E m \in H \ T : z[m] = k}
<1>1. H \subseteq Nodes /\ z \in [Nodes -> Nat]
  BY SizesAre DEF Tree
<1>2. \A m \in H, d \in Dirs : t.kid[m][d] # NULL => t.kid[m][d] \in H /\ z[t.kid[m][d]] < z[m]
  <2>1. ASSUME NEW m \in H, NEW d \in Dirs, t.kid[m][d] # NULL
        PROVE  t.kid[m][d] \in H /\ z[t.kid[m][d]] < z[m]
    <3>1. t.kid[m][d] \in H
      BY <2>1, BranchesAre DEF Branches
    <3>2. z[t.kid[m][d]] < z[m]
      BY <1>1, <2>1, SizesAre
    <3> QED BY <3>1, <3>2
  <2> QED BY <2>1
<1> HIDE DEF z
<1>3. U = {}
  <2> SUFFICES ASSUME U # {}
               PROVE  FALSE
    OBVIOUS
  <2>1. PICK k \in U : \A j \in U : k <= j
    <3>1. U \in SUBSET Nat
      OBVIOUS
    <3> HIDE DEF U
    <3> QED BY <3>1, LeastNatural
  <2>2. PICK m \in H \ T : z[m] = k
    BY <2>1
  <2>3. PICK d \in Dirs : t.kid[m][d] # NULL /\ t.kid[m][d] \notin T
    BY <2>2
  <2> DEFINE c == t.kid[m][d]
  <2>4. c \in H \ T /\ z[c] < k /\ z[c] \in Nat /\ k \in Nat
    BY <1>1, <1>2, <2>1, <2>2, <2>3
  <2> HIDE DEF c
  <2>5. z[c] \in U
    BY <2>4
  <2> HIDE DEF U
  <2> QED BY <2>1, <2>4, <2>5
<1> QED BY <1>1, <1>3

-----------------------------------------------------------------------------
(***************************************************************************)
(* To either end, and from a node to its neighbour.                        *)
(***************************************************************************)
\* The node y is the farthest of those below n on side d.
Farthest(b, n, d, y) == y \in b[n] /\ \A j \in b[n] : j = y \/ Toward(d, y, j)

\* Going to side d as far as one can leads to the farthest node there.
LEMMA FarthestIs ==
  ASSUME NEW H, NEW b, Tree(H, b), NEW n \in H, NEW d \in Dirs
  PROVE  Farthest(b, n, d, Deepest(n, d))
<1> DEFINE Solves(f) == f = [m \in Nodes |-> IF t.kid[m][d] = NULL THEN m ELSE f[t.kid[m][d]]]
           D == CHOOSE f : Solves(f)
           nx == [m \in Nodes |-> t.kid[m][d]]
           v == [m \in Nodes |-> m]
           g == [m \in Nodes |-> [x \in Nodes |-> x]]
<1>1. Deepest(n, d) = D[n]
  BY DEF Deepest
<1>2. H \subseteq Nodes /\ \A m \in Nodes : t.kid[m][d] \in Nodes \cup {NULL}
  BY DEF Tree, Trees, Maybe
<1>3. \E F : Solves(F)
  <2>1. nx \in [Nodes -> Maybe] /\ v \in [Nodes -> Nodes] /\ g \in [Nodes -> [Nodes -> Nodes]]
    BY <1>2 DEF Maybe
  <2>2. \A m \in Nodes : nx[m] # NULL => \E e \in Dirs : nx[m] = t.kid[m][e]
    OBVIOUS
  <2>3. PICK F \in [Nodes -> Nodes] : Chases(F, Nodes, nx, NULL, v, g)
    <3> HIDE DEF nx, v, g
    <3> QED BY <2>1, <2>2, DescentExists
  <2>4. ASSUME NEW m \in Nodes
        PROVE  F[m] = IF t.kid[m][d] = NULL THEN m ELSE F[t.kid[m][d]]
    <3>1. F[m] = IF nx[m] = NULL THEN v[m] ELSE g[m][F[nx[m]]]
      BY <2>3 DEF Chases
    <3>2. t.kid[m][d] # NULL => F[t.kid[m][d]] \in Nodes
      BY <1>2, <2>3
    <3> QED BY <3>1, <3>2
  <2>5. F = [m \in Nodes |-> F[m]]
    BY <2>3
  <2> QED BY <2>4, <2>5
<1>4. Solves(D)
  <2> HIDE DEF Solves
  <2> QED BY <1>3
<1>5. \A m \in Nodes : D[m] = IF t.kid[m][d] = NULL THEN m ELSE D[t.kid[m][d]]
  <2> HIDE DEF D
  <2> QED BY <1>4
<1> HIDE DEF D, Solves
<1> DEFINE T == {m \in H : Farthest(b, m, d, D[m])}
<1>6. ASSUME NEW m \in H, \A e \in Dirs : t.kid[m][e] # NULL => t.kid[m][e] \in T
      PROVE  m \in T
  <2>1. Branches(H, b, m) /\ m \in Nodes
    BY <1>2, BranchesAre
  <2> DEFINE c == t.kid[m][d]
  <2>2. CASE c = NULL
    <3>1. D[m] = m
      BY <1>5, <2>1, <2>2
    <3>2. ASSUME NEW j \in b[m], j # m
          PROVE  Toward(d, m, j)
      <4>1. PICK e \in Dirs : t.kid[m][e] # NULL /\ j \in b[t.kid[m][e]]
        BY <2>1, <3>2 DEF Branches
      <4>2. e = Opp(d) /\ Toward(e, j, m) /\ j \in Nat /\ m \in Nat
        BY <2>1, <2>2, <4>1 DEF Branches, Opp, Dirs
      <4> QED BY <4>2, SidesAreOrders DEF Orders
    <3> QED BY <2>1, <3>1, <3>2 DEF Farthest, Branches
  <2>3. CASE c # NULL
    <3>1. D[m] = D[c] /\ Farthest(b, c, d, D[c])
      BY <1>5, <1>6, <2>1, <2>3
    <3> DEFINE y == D[c]
    <3>2. y \in b[c] /\ (\A j \in b[c] : j = y \/ Toward(d, y, j)) /\ c \in H
      BY <1>6, <2>3, <3>1 DEF Farthest
    <3>3. y \in b[m] /\ y \in Nat /\ Toward(d, y, m) /\ m \in Nat
      BY <2>1, <2>3, <3>2 DEF Branches
    <3> HIDE DEF y
    <3>4. ASSUME NEW j \in b[m], j # y
          PROVE  Toward(d, y, j)
      <4>1. CASE j = m
        BY <3>3, <4>1
      <4>2. CASE j \in b[c]
        BY <3>2, <3>4, <4>2
      <4>3. CASE j # m /\ j \notin b[c]
        <5>1. PICK e \in Dirs : t.kid[m][e] # NULL /\ j \in b[t.kid[m][e]]
          BY <2>1, <4>3 DEF Branches
        <5>2. e = Opp(d)
          BY <4>3, <5>1 DEF Opp, Dirs
        <5>3. Toward(e, j, m) /\ j \in Nat
          BY <2>1, <5>1 DEF Branches
        <5>4. Toward(d, m, j)
          BY <3>3, <5>2, <5>3, SidesAreOrders DEF Orders
        <5> QED BY <3>3, <5>3, <5>4, SidesAreOrders DEF Orders
      <4> QED BY <4>1, <4>2, <4>3
    <3>5. Farthest(b, m, d, y)
      BY <3>3, <3>4 DEF Farthest
    <3> QED BY <3>1, <3>5 DEF y
  <2> QED BY <2>2, <2>3
<1>7. T \in SUBSET H
  OBVIOUS
<1> HIDE DEF T
<1>8. T = H
  BY <1>6, <1>7, BottomUp
<1> QED BY <1>1, <1>8 DEF T

\* On side d of n, y is the nearest of S; there is none if y is NULL.
Nearest(S, n, d, y) ==
  IF y = NULL THEN \A k \in S : ~Toward(d, k, n)
  ELSE y \in S /\ Toward(d, y, n) /\ \A k \in S : Toward(d, k, n) => k = y \/ Toward(d, k, y)

\* The nodes that are not below n are on one side of all that is below n.
LEMMA ApartIs ==
  ASSUME NEW H, NEW b, Tree(H, b), NEW n \in H, NEW k \in H \ b[n], NEW i \in b[n],
         NEW j \in b[n], NEW d \in Dirs
  PROVE  Toward(d, k, i) <=> Toward(d, k, j)
<1>1. Convex(H, b, n)
  BY SubtreesAreConvex DEF Tree
<1>2. b[n] \subseteq H /\ H \subseteq Nat
  BY BranchesAre, NodesAssumption DEF Branches, Tree
<1>3. k \in Nat /\ i \in Nat /\ j \in Nat
  BY <1>2
<1>4. (k < i <=> k < j) /\ (i < k <=> j < k)
  BY <1>1, <1>3 DEF Convex
<1> QED BY <1>4 DEF Toward

\* Climbing until one does not come from side d leads to the nearest node on that side
\* of those that are not below n.
LEMMA ClimbReaches ==
  ASSUME NEW H, NEW b, Tree(H, b), NEW n \in H, NEW d \in Dirs
  PROVE  Nearest(H \ b[n], n, d, Climb(n, d))
<1> DEFINE Turns(m) == t.par[m] # NULL /\ m = t.kid[t.par[m]][d]
           Solves(f) == f = [m \in Nodes |-> IF t.par[m] # NULL /\ m = t.kid[t.par[m]][d]
                                           THEN f[t.par[m]] ELSE t.par[m]]
           D == CHOOSE f : Solves(f)
           nx == [m \in Nodes |-> IF Turns(m) THEN t.par[m] ELSE NULL]
           g == [m \in Nodes |-> [x \in Maybe |-> x]]
<1>1. Climb(n, d) = D[n]
  BY DEF Climb
<1>2. H \subseteq Nodes /\ NULL \notin Nodes /\ t.par \in [Nodes -> Maybe]
  BY NodesAssumption DEF Tree, Trees
<1>3. \E F : Solves(F)
  <2>1. nx \in [Nodes -> Maybe] /\ g \in [Nodes -> [Maybe -> Maybe]]
    BY <1>2 DEF Maybe
  <2>2. \A m \in Nodes : nx[m] # NULL => nx[m] = t.par[m]
    OBVIOUS
  <2>3. PICK F \in [Nodes -> Maybe] : Chases(F, Nodes, nx, NULL, t.par, g)
    <3> HIDE DEF nx, g
    <3> QED BY <1>2, <2>1, <2>2, AscentExists
  <2>4. ASSUME NEW m \in Nodes
        PROVE  F[m] = IF Turns(m) THEN F[t.par[m]] ELSE t.par[m]
    <3>1. F[m] = IF nx[m] = NULL THEN t.par[m] ELSE g[m][F[nx[m]]]
      BY <2>3 DEF Chases
    <3>2. t.par[m] # NULL => F[t.par[m]] \in Maybe
      BY <1>2, <2>3 DEF Maybe
    <3> QED BY <3>1, <3>2
  <2>5. F = [m \in Nodes |-> F[m]]
    BY <2>3
  <2> QED BY <2>4, <2>5
<1>4. Solves(D)
  <2> HIDE DEF Solves
  <2> QED BY <1>3
<1>5. \A m \in Nodes : D[m] = IF Turns(m) THEN D[t.par[m]] ELSE t.par[m]
  <2> HIDE DEF D
  <2> QED BY <1>4
<1> HIDE DEF D, Solves
<1> DEFINE T == {m \in H : Nearest(H \ b[m], m, d, D[m])}
<1>6. ASSUME NEW m \in H, t.par[m] = NULL
      PROVE  m \in T
  <2>1. D[m] = NULL
    BY <1>2, <1>5, <1>6
  <2>2. H \ b[m] = {}
    BY <1>6, StemIs DEF Stem
  <2> QED BY <2>1, <2>2 DEF Nearest
<1>7. ASSUME NEW m \in H, t.par[m] # NULL, t.par[m] \in T
      PROVE  m \in T
  <2> DEFINE q == t.par[m]
             y == D[m]
  <2>1. q \in H /\ q # NULL /\ m \in Nodes
    BY <1>2, <1>7
  <2>2. PICK e \in Dirs : t.kid[q][e] = m
    BY <1>7, StemIs DEF Stem
  <2>3. Nearest(H \ b[q], q, d, D[q])
    BY <1>7
  <2>4. Turns(m) <=> m = t.kid[q][d]
    BY <2>1
  <2>5. y = IF Turns(m) THEN D[q] ELSE q
    BY <1>5, <2>1
  <2> HIDE DEF q, y, Turns
  <2>6. Branches(H, b, q) /\ Branches(H, b, m)
    BY <2>1, BranchesAre
  <2>7. /\ b[m] \subseteq b[q] /\ q \notin b[m] /\ m # t.kid[q][Opp(e)] /\ m \in b[m] /\ q \in b[q]
        /\ m \in Nat /\ q \in Nat /\ Toward(e, m, q) /\ m \in b[q] /\ m # NULL
        /\ (t.kid[q][Opp(e)] # NULL => \A j \in b[t.kid[q][Opp(e)]] : Toward(Opp(e), j, q))
    BY <2>2, <2>6, OppIs DEF Branches
  <2>8. ASSUME NEW k \in b[q], k # q, k \notin b[m]
        PROVE  Toward(Opp(e), k, q)
    <3>1. PICK f \in Dirs : t.kid[q][f] # NULL /\ k \in b[t.kid[q][f]]
      BY <2>6, <2>8 DEF Branches
    <3>2. f = Opp(e)
      BY <2>2, <2>8, <3>1 DEF Opp, Dirs
    <3> QED BY <2>7, <3>1, <3>2
  <2>9. \A k \in H : k \in Nat /\ k # NULL
    BY <1>2, NodesAssumption
  <2>10. Toward(Opp(e), q, m)
    BY <2>7, SidesAreOrders DEF Orders
  <2>11. \A k \in H \ b[q], f \in Dirs : Toward(f, k, m) <=> Toward(f, k, q)
    BY <2>1, <2>7, ApartIs
  <2>12. CASE e = d
    <3>1. y = D[q]
      BY <2>2, <2>4, <2>5, <2>12
    <3>2. ASSUME NEW k \in H \ b[m], Toward(d, k, m)
          PROVE  k \in H \ b[q] /\ Toward(d, k, q)
      <4>1. k \notin b[q]
        <5> SUFFICES ASSUME k \in b[q]
                     PROVE  FALSE
          OBVIOUS
        <5>1. Toward(Opp(d), k, m)
          <6>1. k \in Nat /\ (k = q \/ Toward(Opp(d), k, q)) /\ Opp(d) \in Dirs
            BY <2>8, <2>9, <2>12, <3>2, OppIs
          <6> QED BY <2>7, <2>10, <2>12, <6>1, SidesAreOrders DEF Orders
        <5>2. k \in Nat
          BY <2>9
        <5> QED BY <2>7, <3>2, <5>1, <5>2, SidesAreOrders DEF Orders
      <4> QED BY <2>11, <3>2, <4>1
    <3>3. CASE y = NULL
      BY <2>3, <3>1, <3>2, <3>3 DEF Nearest, T, y
    <3>4. CASE y # NULL
      <4>1. /\ y \in H \ b[q] /\ Toward(d, y, q)
            /\ \A k \in H \ b[q] : Toward(d, k, q) => k = y \/ Toward(d, k, y)
        BY <2>3, <3>1, <3>4 DEF Nearest
      <4>2. y \in H \ b[m] /\ Toward(d, y, m)
        BY <2>7, <2>11, <4>1
      <4> QED BY <3>2, <3>4, <4>1, <4>2 DEF Nearest, T, y
    <3> QED BY <3>3, <3>4
  <2>13. CASE e = Opp(d)
    <3>1. d = Opp(e) /\ m # t.kid[q][d] /\ y = q
      BY <2>4, <2>5, <2>7, <2>13 DEF Opp, Dirs
    <3>2. y \in H \ b[m] /\ Toward(d, y, m)
      BY <2>1, <2>7, <2>10, <3>1
    <3>3. ASSUME NEW k \in H \ b[m], Toward(d, k, m)
          PROVE  k = y \/ Toward(d, k, y)
      <4>1. CASE k \in b[q]
        BY <2>8, <3>1, <4>1
      <4>2. CASE k \notin b[q]
        BY <2>11, <3>1, <3>3, <4>2
      <4> QED BY <4>1, <4>2
    <3> QED BY <2>9, <3>2, <3>3 DEF Nearest, T, y
  <2> QED BY <2>12, <2>13 DEF Opp, Dirs
<1>8. T \in SUBSET H
  OBVIOUS
<1> HIDE DEF T
<1>9. T = H
  BY <1>6, <1>7, <1>8, TopDown DEF Tree
<1> QED BY <1>1, <1>9 DEF T

\* Neighbour is the nearest node on its side.
LEMMA NeighbourIs ==
  ASSUME NEW H, NEW b, Tree(H, b), NEW n \in H, NEW d \in Dirs
  PROVE  Nearest(H, n, d, Neighbour(n, d))
<1> DEFINE c == t.kid[n][d]
           y == Neighbour(n, d)
<1>1. Branches(H, b, n) /\ \A k \in H : k \in Nat /\ k # NULL
  BY BranchesAre, NodesAssumption DEF Tree
<1>2. Opp(d) \in Dirs /\ Opp(Opp(d)) = d /\ \A e \in Dirs : e = d \/ e = Opp(d)
  BY DEF Opp, Dirs
<1>3. CASE c = NULL
  <2>1. Nearest(H \ b[n], n, d, y)
    BY <1>3, ClimbReaches DEF Neighbour
  <2>2. ASSUME NEW k \in b[n]
        PROVE  ~Toward(d, k, n)
    <3>1. CASE k = n
      BY <1>1, <3>1, SidesAreOrders DEF Orders
    <3>2. CASE k # n
      <4>1. PICK e \in Dirs : t.kid[n][e] # NULL /\ k \in b[t.kid[n][e]]
        BY <1>1, <3>2 DEF Branches
      <4>2. e = Opp(d) /\ Toward(e, k, n) /\ k \in Nat /\ n \in Nat
        BY <1>1, <1>2, <1>3, <4>1 DEF Branches
      <4> QED BY <1>2, <4>2, SidesAreOrders DEF Orders
    <3> QED BY <3>1, <3>2
  <2> HIDE DEF y
  <2> QED BY <2>1, <2>2 DEF Nearest, y
<1>4. CASE c # NULL
  <2>1. c \in H /\ y = Deepest(c, Opp(d))
    BY <1>1, <1>4 DEF Branches, Neighbour
  <2>2. Farthest(b, c, Opp(d), y)
    BY <1>2, <2>1, FarthestIs
  <2>3. /\ y \in b[c] /\ \A j \in b[c] : j = y \/ Toward(Opp(d), y, j)
        /\ \A j \in b[c] : j \in Nat /\ Toward(d, j, n) /\ j \in b[n]
        /\ n \in b[n] /\ b[n] \subseteq H
    BY <1>1, <1>4, <2>2 DEF Farthest, Branches
  <2> HIDE DEF y
  <2>4. y \in H /\ y \in Nat /\ y # NULL /\ Toward(d, y, n) /\ n \in Nat /\ y \in b[n]
    BY <1>1, <2>3
  <2>5. ASSUME NEW k \in H, Toward(d, k, n)
        PROVE  k = y \/ Toward(d, k, y)
    <3>1. k \in Nat
      BY <1>1
    <3>2. CASE k \in b[c]
      BY <1>2, <2>3, <2>4, <3>1, <3>2, SidesAreOrders DEF Orders
    <3>3. CASE k \notin b[n]
      BY <2>3, <2>4, <2>5, <3>3, ApartIs
    <3>4. CASE k \in b[n] /\ k \notin b[c]
      <4>1. k # n
        BY <2>4, <2>5, SidesAreOrders DEF Orders
      <4>2. PICK e \in Dirs : t.kid[n][e] # NULL /\ k \in b[t.kid[n][e]]
        BY <1>1, <3>4, <4>1 DEF Branches
      <4>3. e = Opp(d) /\ Toward(e, k, n)
        BY <1>1, <1>2, <3>4, <4>2 DEF Branches
      <4> QED BY <1>2, <2>4, <2>5, <3>1, <4>3, SidesAreOrders DEF Orders
    <3> QED BY <3>2, <3>3, <3>4
  <2> QED BY <2>4, <2>5 DEF Nearest, y
<1> QED BY <1>3, <1>4

\* The first and the last node, if there are any.
LEMMA EndIs ==
  ASSUME NEW H, NEW b, Tree(H, b), NEW d \in Dirs
  PROVE  IF H = {} THEN End(d) = NULL
         ELSE End(d) \in H /\ \A j \in H : j = End(d) \/ Toward(d, End(d), j)
<1>1. /\ t.root \in H \cup {NULL} /\ NULL \notin H
      /\ t.root = NULL => H = {}
      /\ t.root # NULL => H = b[t.root]
  BY NodesAssumption DEF Tree, Shape, Rooted, Below
<1>2. CASE t.root = NULL
  BY <1>1, <1>2 DEF End
<1>3. CASE t.root # NULL
  <2>1. Farthest(b, t.root, d, End(d))
    BY <1>1, <1>3, FarthestIs DEF End
  <2> QED BY <1>1, <1>3, <2>1 DEF Farthest
<1> QED BY <1>2, <1>3

\* The walks agree with the order of the keys.
LEMMA WalkIsLogical ==
  ASSUME NEW b, Tree(members, b)
  PROVE  WalksAreLogical
<1> DEFINE H == members
<1>1. \A k \in H : k \in Nat /\ k # NULL
  BY NodesAssumption DEF Tree
<1>2. "left" \in Dirs /\ "right" \in Dirs /\ "left" # "right"
  BY DEF Dirs
<1>3. End("left") \in Contents!First(H)
  <2> DEFINE e == End("left")
  <2>1. IF H = {} THEN e = NULL ELSE e \in H /\ \A j \in H : j = e \/ Toward("left", e, j)
    BY <1>2, EndIs
  <2> HIDE DEF e
  <2>2. H # {} => \A j \in H : e <= j
    BY <1>1, <2>1 DEF Toward
  <2> QED BY <2>1, <2>2 DEF Contents!First, e
<1>4. \A n \in H, d \in Dirs : Nearest(H, n, d, Neighbour(n, d))
  BY NeighbourIs
<1>5. ASSUME NEW n \in H
      PROVE  Neighbour(n, "right") \in Contents!First(Contents!After(H, n))
  <2> DEFINE y == Neighbour(n, "right")
             S == Contents!After(H, n)
  <2>1. Nearest(H, n, "right", y) /\ n \in Nat
    BY <1>1, <1>2, <1>4
  <2>2. S = {k \in H : n < k}
    BY <1>1, <2>1 DEF Contents!After
  <2> HIDE DEF y, S
  <2>3. y \in Contents!First(S)
    <3>1. CASE y = NULL
      BY <1>2, <2>1, <2>2, <3>1 DEF Nearest, Toward, Contents!First
    <3>2. CASE y # NULL
      <4>1. y \in S /\ y \in Nat
        BY <1>1, <1>2, <2>1, <2>2, <3>2 DEF Nearest, Toward
      <4>2. \A k \in S : y <= k
        BY <1>1, <1>2, <2>1, <2>2, <3>2, <4>1 DEF Nearest, Toward
      <4> QED BY <4>1, <4>2 DEF Contents!First
    <3> QED BY <3>1, <3>2
  <2> QED BY <2>3 DEF y, S
<1>6. ASSUME NEW n \in H
      PROVE  Neighbour(n, "left") \in Greatest({m \in H : m < n})
  <2> DEFINE y == Neighbour(n, "left")
             S == {m \in H : m < n}
  <2>1. Nearest(H, n, "left", y) /\ n \in Nat
    BY <1>1, <1>2, <1>4
  <2> HIDE DEF y
  <2>2. CASE y = NULL
    <3>1. S = {}
      BY <2>1, <2>2 DEF Nearest, Toward
    <3> QED BY <2>2, <3>1 DEF Greatest, y
  <2>3. CASE y # NULL
    <3>1. y \in S /\ y \in Nat
      BY <1>1, <2>1, <2>3 DEF Nearest, Toward
    <3>2. \A k \in S : k <= y
      BY <1>1, <2>1, <2>3, <3>1 DEF Nearest, Toward
    <3> HIDE DEF S
    <3>3. y \in Greatest(S)
      BY <3>1, <3>2 DEF Greatest
    <3> QED BY <3>3 DEF y, S
  <2> QED BY <2>2, <2>3
<1>7. End("right") \in Greatest(H)
  <2> DEFINE e == End("right")
  <2>1. IF H = {} THEN e = NULL ELSE e \in H /\ \A j \in H : j = e \/ Toward("right", e, j)
    BY <1>2, EndIs
  <2> HIDE DEF e
  <2>2. H # {} => \A j \in H : j <= e
    BY <1>1, <1>2, <2>1 DEF Toward
  <2> QED BY <2>1, <2>2 DEF Greatest, e
<1> QED BY <1>3, <1>5, <1>6, <1>7 DEF WalksAreLogical

-----------------------------------------------------------------------------
(***************************************************************************)
(* Postorder.                                                              *)
(***************************************************************************)
\* In postorder m comes before x: it is below x, or in a subtree to the left of it.
Precedes(b, m, x) == m # x /\ (m \in b[x] \/ (m < x /\ x \notin b[m]))

\* Of two subtrees that share a node, one is part of the other.
LEMMA SubtreesNest ==
  ASSUME NEW H, NEW b, Tree(H, b), NEW k \in H, NEW m \in H, NEW x \in b[k], x \in b[m]
  PROVE  k \in b[m] \/ m \in b[k]
<1> DEFINE T == {y \in H : y \in b[k] /\ y \in b[m] => k \in b[m] \/ m \in b[k]}
<1>1. \A n \in H : Stem(H, b, n) /\ Branches(H, b, n)
  BY StemIs, BranchesAre
<1>2. \A n \in H : \A y \in b[n] : y # n => t.par[y] \in b[n]
  BY DEF Tree, Shape, Closed
<1>3. ASSUME NEW y \in H, t.par[y] = NULL
      PROVE  y \in T
  <2>1. \A n \in H : n # NULL
    BY <1>1 DEF Branches
  <2>2. NULL \notin H
    BY NodesAssumption DEF Tree
  <2>3. y \in b[k] => y = k
    BY <1>1, <1>2, <1>3, <2>2 DEF Branches
  <2> QED BY <2>3
<1>4. ASSUME NEW y \in H, t.par[y] # NULL, t.par[y] \in T
      PROVE  y \in T
  <2>1. y \in b[k] /\ y # k => t.par[y] \in b[k]
    BY <1>2
  <2>2. y \in b[m] /\ y # m => t.par[y] \in b[m]
    BY <1>2
  <2> QED BY <1>4, <2>1, <2>2
<1>5. T \in SUBSET H
  OBVIOUS
<1>6. x \in H
  BY <1>1 DEF Branches
<1> HIDE DEF T
<1>7. T = H
  BY <1>3, <1>4, <1>5, TopDown DEF Tree
<1> QED BY <1>6, <1>7 DEF T

\* The node y is the first of those below n.
Foremost(b, n, y) == y \in b[n] /\ \A k \in b[n] : ~Precedes(b, k, y)

\* rb_left_deepest_node leads to the first node below n.
LEMMA LeftDeepestIs ==
  ASSUME NEW H, NEW b, Tree(H, b), NEW n \in H
  PROVE  Foremost(b, n, LeftDeepest(n))
<1> DEFINE l(m) == t.kid[m]["left"]
           c(m) == t.kid[m]["right"]
           Solves(f) == f = [m \in Nodes |-> IF t.kid[m]["left"] # NULL THEN f[t.kid[m]["left"]]
                                           ELSE IF t.kid[m]["right"] # NULL
                                           THEN f[t.kid[m]["right"]] ELSE m]
           D == CHOOSE f : Solves(f)
           nx == [m \in Nodes |-> IF l(m) # NULL THEN l(m) ELSE c(m)]
           v == [m \in Nodes |-> m]
           g == [m \in Nodes |-> [x \in Nodes |-> x]]
<1>1. LeftDeepest(n) = D[n]
  BY DEF LeftDeepest
<1>2. /\ H \subseteq Nodes
      /\ \A m \in Nodes : l(m) \in Nodes \cup {NULL} /\ c(m) \in Nodes \cup {NULL}
      /\ "left" \in Dirs /\ "right" \in Dirs /\ Opp("left") = "right" /\ Opp("right") = "left"
  BY DEF Tree, Trees, Maybe, Dirs, Opp
<1>3. \E F : Solves(F)
  <2>1. nx \in [Nodes -> Maybe] /\ v \in [Nodes -> Nodes] /\ g \in [Nodes -> [Nodes -> Nodes]]
    BY <1>2 DEF Maybe
  <2>2. \A m \in Nodes : nx[m] # NULL => \E e \in Dirs : nx[m] = t.kid[m][e]
    BY <1>2
  <2>3. PICK F \in [Nodes -> Nodes] : Chases(F, Nodes, nx, NULL, v, g)
    <3> HIDE DEF nx, v, g
    <3> QED BY <2>1, <2>2, DescentExists
  <2>4. ASSUME NEW m \in Nodes
        PROVE  F[m] = IF l(m) # NULL THEN F[l(m)] ELSE IF c(m) # NULL THEN F[c(m)] ELSE m
    <3>1. F[m] = IF nx[m] = NULL THEN v[m] ELSE g[m][F[nx[m]]]
      BY <2>3 DEF Chases
    <3>2. nx[m] # NULL => F[nx[m]] \in Nodes
      BY <1>2, <2>3
    <3>3. nx[m] # NULL => F[m] = F[nx[m]]
      BY <3>1, <3>2
    <3>4. nx[m] = IF l(m) # NULL THEN l(m) ELSE c(m)
      OBVIOUS
    <3>5. v[m] = m
      OBVIOUS
    <3> HIDE DEF nx, v, g, l, c
    <3> QED BY <3>1, <3>3, <3>4, <3>5
  <2>5. F = [m \in Nodes |-> F[m]]
    BY <2>3
  <2> QED BY <2>4, <2>5
<1>4. Solves(D)
  <2> HIDE DEF Solves
  <2> QED BY SMTT(30), <1>3
<1>5. \A m \in Nodes : D[m] = IF l(m) # NULL THEN D[l(m)] ELSE IF c(m) # NULL THEN D[c(m)] ELSE m
  <2> HIDE DEF D
  <2> QED BY <1>4
<1> HIDE DEF D, Solves
<1> DEFINE T == {m \in H : Foremost(b, m, D[m])}
<1>6. ASSUME NEW m \in H, \A e \in Dirs : t.kid[m][e] # NULL => t.kid[m][e] \in T
      PROVE  m \in T
  <2>1. Branches(H, b, m) /\ m \in Nodes
    BY <1>2, BranchesAre
  <2>2. CASE l(m) = NULL /\ c(m) = NULL
    <3>1. D[m] = m
      BY <1>5, <2>1, <2>2
    <3>2. b[m] = {m}
      BY <2>1, <2>2 DEF Branches, Dirs
    <3> QED BY <3>1, <3>2 DEF Foremost, Precedes
  <2>3. ASSUME NEW d \in Dirs, t.kid[m][d] # NULL, d = "left" \/ l(m) = NULL
        PROVE  m \in T
    <3> DEFINE q == t.kid[m][d]
               y == D[q]
    <3>1. D[m] = D[q]
      BY <1>5, <2>1, <2>3 DEF Dirs
    <3>2. q \in H /\ Foremost(b, q, y) /\ q \in b[q] /\ m \notin b[q] /\ b[q] \subseteq b[m]
      BY <1>6, <2>1, <2>3 DEF Branches
    <3> HIDE DEF y, q
    <3>3. y \in b[q] /\ y \in H /\ y \in b[m] /\ m \in b[m]
      BY <2>1, <3>2 DEF Foremost, Branches
    <3>4. b[y] \subseteq b[q]
      <4>1. Branches(H, b, q)
        BY <3>2, BranchesAre
      <4> QED BY <3>3, <4>1 DEF Branches
    <3>5. ASSUME NEW k \in b[m]
          PROVE  ~Precedes(b, k, y)
      <4>1. CASE k \in b[q]
        BY <3>2, <4>1 DEF Foremost
      <4>2. CASE k = m
        BY <3>2, <3>3, <3>4, <4>2 DEF Precedes
      <4>3. CASE k # m /\ k \notin b[q]
        <5>1. PICK e \in Dirs : t.kid[m][e] # NULL /\ k \in b[t.kid[m][e]]
          BY <2>1, <4>3 DEF Branches
        <5>2. e # d
          BY <4>3, <5>1 DEF q
        <5>3. e = "right" /\ d = "left"
          BY <2>3, <5>1, <5>2 DEF Dirs
        <5>4. k > m /\ y < m /\ k \in Nat /\ m \in Nat /\ y \in Nat
          <6>1. k \in Nat /\ Toward("right", k, m) /\ m \in Nat
            BY <2>1, <5>1, <5>3 DEF Branches
          <6>2. y \in Nat /\ Toward("left", y, m)
            BY <2>1, <2>3, <3>3, <5>3 DEF Branches, q
          <6> QED BY <6>1, <6>2 DEF Toward
        <5>5. k \notin b[y] /\ ~(k < y)
          BY <3>4, <4>3, <5>4
        <5> QED BY <5>5 DEF Precedes
      <4> QED BY <4>1, <4>2, <4>3
    <3> QED BY <3>1, <3>3, <3>5 DEF Foremost, y
  <2> QED BY <1>2, <2>2, <2>3
<1>7. T \in SUBSET H
  OBVIOUS
<1> HIDE DEF T
<1>8. T = H
  BY <1>6, <1>7, BottomUp
<1> QED BY <1>1, <1>8 DEF T

\* The nodes of H that come before x in postorder.
Earlier(H, b, x) == {m \in H : Precedes(b, m, x)}

\* rb_next_postorder leads to the node that comes next.
LEMMA PostNextIs ==
  ASSUME NEW H, NEW b, Tree(H, b), NEW x \in H
  PROVE  IF PostNext(x) = NULL THEN H = Earlier(H, b, x) \cup {x}
         ELSE PostNext(x) \in H /\ Earlier(H, b, PostNext(x)) = Earlier(H, b, x) \cup {x}
<1> DEFINE p == t.par[x]
<1>1. \A n \in H : Branches(H, b, n)
  BY BranchesAre
<1>2. \A n \in H : n \in Nat /\ n # NULL /\ n \in b[n] /\ b[n] \subseteq H
                 /\ \A m \in b[n] : b[m] \subseteq b[n]
  BY <1>1 DEF Branches
<1>3. Stem(H, b, x)
  BY StemIs
<1>4. CASE p = NULL
  <2>1. b[x] = H /\ PostNext(x) = NULL
    BY <1>3, <1>4 DEF Stem, PostNext
  <2> QED BY <2>1 DEF Earlier, Precedes
<1>5. CASE p # NULL
  <2>1. p \in H
    BY <1>3, <1>5 DEF Stem
  <2>2. PICK d \in Dirs : t.kid[p][d] = x
    BY <1>3, <1>5 DEF Stem
  <2> DEFINE r == t.kid[p]["right"]
  <2>3. PostNext(x) = IF x = t.kid[p]["left"] /\ r # NULL THEN LeftDeepest(r) ELSE p
    BY <1>5 DEF PostNext
  <2> HIDE DEF p
  <2>4. Branches(H, b, p) /\ Branches(H, b, x)
    BY <1>1, <2>1
  <2>5. /\ x \in b[x] /\ b[x] \subseteq b[p] /\ p \notin b[x] /\ x \in b[p] /\ p \in b[p]
        /\ p \in Nat /\ x \in Nat
        /\ \A k \in b[x] : k \in Nat /\ Toward(d, k, p)
    BY <1>2, <2>2, <2>4 DEF Branches
  <2>6. ASSUME NEW k \in H \ b[p], NEW j \in b[p]
        PROVE  /\ (k < x <=> k < j)
               /\ (x \in b[k] <=> j \in b[k])
    <3>1. k < x <=> k < j
      <4>1. Toward("left", k, x) <=> Toward("left", k, j)
        BY <2>1, <2>5, OppIs, ApartIs
      <4> QED BY <4>1 DEF Toward
    <3>2. ASSUME NEW i \in b[p], NEW q \in b[p], i \in b[k]
          PROVE  q \in b[k]
      <4>1. p \in b[k]
        BY <2>1, <3>2, SubtreesNest
      <4> QED BY <1>2, <4>1
    <3> QED BY <2>5, <3>1, <3>2
  <2>7. CASE x = t.kid[p]["left"] /\ r # NULL
    <3> DEFINE y == LeftDeepest(r)
    <3>1. /\ r \in H /\ b[r] \subseteq b[p] /\ p \notin b[r]
          /\ \A k \in b[r] : k \in Nat /\ Toward("right", k, p)
      BY <2>4, <2>7, OppIs DEF Branches
    <3>2. y \in b[r] /\ \A k \in b[r] : ~Precedes(b, k, y)
      BY SMTT(30), <3>1, LeftDeepestIs DEF Foremost
    <3>3. \A k \in b[x] : k \in Nat /\ Toward("left", k, p)
      BY <2>4, <2>7, OppIs DEF Branches
    <3> HIDE DEF y, r
    <3>4. (\A k \in b[r] : k > p) /\ \A k \in b[x] : k < p
      BY <3>1, <3>3 DEF Toward
    <3>5. y \in b[p] /\ y \in H /\ y \in Nat /\ b[y] \subseteq b[r] /\ y > p /\ y # x /\ x < y
      <4>1. y \in b[p] /\ y \in H /\ y \in Nat /\ y > p /\ b[y] \subseteq b[r]
        BY <1>2, <2>1, <3>1, <3>2, <3>4
      <4>2. x < p
        BY <2>5, <3>4
      <4> QED BY <2>5, <4>1, <4>2
    <3>6. ASSUME NEW k \in H
          PROVE  Precedes(b, k, y) <=> Precedes(b, k, x) \/ k = x
      <4>1. CASE k \in b[r]
        <5>1. ~Precedes(b, k, y) /\ k > p /\ k \in Nat /\ x < p
          BY <2>5, <3>1, <3>2, <3>4, <4>1
        <5>2. k \notin b[x] /\ ~(k < x) /\ k # x
          BY <2>5, <3>4, <5>1
        <5> QED BY <5>1, <5>2 DEF Precedes
      <4>2. CASE k \in b[x]
        <5>1. k < y /\ k # y
          <6>1. k < p /\ k \in Nat
            BY <3>3, <3>4, <4>2
          <6> QED BY <2>5, <3>5, <6>1
        <5>2. y \notin b[k]
          <6>1. b[k] \subseteq b[x]
            BY <1>2, <4>2
          <6>2. y \notin b[x]
            <7>1. ~(y < p)
              BY <2>5, <3>5
            <7> QED BY <3>4, <7>1
          <6> QED BY <6>1, <6>2
        <5> QED BY <4>2, <5>1, <5>2 DEF Precedes
      <4>3. CASE k = p
        <5>1. k \notin b[y] /\ y \in b[k] /\ k \notin b[x] /\ x \in b[k] /\ k # x
          BY <2>5, <3>1, <3>5, <4>3
        <5> QED BY <5>1 DEF Precedes
      <4>4. CASE k \notin b[p]
        <5>1. (k < x <=> k < y) /\ (x \in b[k] <=> y \in b[k])
          BY <2>6, <3>5, <4>4
        <5>2. k \notin b[x] /\ k \notin b[y] /\ k # x /\ k # y
          BY SMTT(30), <2>5, <3>1, <3>5, <4>4
        <5> QED BY <5>1, <5>2 DEF Precedes
      <4>5. k \in b[p] => k = p \/ k \in b[x] \/ k \in b[r]
        BY <2>4, <2>7 DEF Branches, Dirs, r
      <4> QED BY <4>1, <4>2, <4>3, <4>4, <4>5
    <3>7. PostNext(x) = y
      BY <2>3, <2>7 DEF y, r
    <3>8. Earlier(H, b, y) = Earlier(H, b, x) \cup {x}
      BY <3>6 DEF Earlier
    <3>9. y # NULL
      BY <1>2, <3>5
    <3> QED BY SMTT(30), <3>5, <3>7, <3>8, <3>9
  <2>8. CASE ~(x = t.kid[p]["left"] /\ r # NULL)
    <3> HIDE DEF r
    <3>1. PostNext(x) = p
      BY <2>3, <2>8
    <3>2. ASSUME NEW k \in H
          PROVE  Precedes(b, k, p) <=> Precedes(b, k, x) \/ k = x
      <4>1. CASE k \in b[x]
        BY <2>5, <4>1 DEF Precedes
      <4>2. CASE k = p
        BY <2>5, <4>2 DEF Precedes
      <4>3. CASE k \notin b[p]
        <5>1. (k < x <=> k < p) /\ (x \in b[k] <=> p \in b[k])
          BY <2>5, <2>6, <4>3
        <5>2. k \notin b[x] /\ k # x /\ k # p
          BY <2>5, <4>3
        <5> QED BY <4>3, <5>1, <5>2 DEF Precedes
      <4>4. CASE k \in b[p] /\ k # p /\ k \notin b[x]
        <5>1. PICK e \in Dirs : t.kid[p][e] # NULL /\ k \in b[t.kid[p][e]]
          BY <2>4, <4>4 DEF Branches
        <5>2. e # d
          BY <2>2, <4>4, <5>1
        <5>3. e = "left" /\ d = "right"
          BY <2>2, <2>8, <5>1, <5>2 DEF Dirs, r
        <5>4. k \in Nat /\ k < p /\ p < x /\ b[k] \subseteq b[t.kid[p]["left"]]
              /\ t.kid[p]["left"] \in H
          <6>1. k \in Nat /\ Toward("left", k, p) /\ t.kid[p]["left"] \in H
            BY <2>4, <5>1, <5>3 DEF Branches
          <6>2. Toward("right", x, p)
            BY <2>5, <5>3
          <6>3. b[k] \subseteq b[t.kid[p]["left"]]
            BY <1>2, <5>1, <5>3, <6>1
          <6> QED BY <6>1, <6>2, <6>3 DEF Toward
        <5>5. x \notin b[k]
          <6>1. \A j \in b[t.kid[p]["left"]] : Toward("left", j, p)
            BY <2>4, <5>1, <5>3 DEF Branches
          <6>2. ~Toward("left", x, p)
            BY <2>5, <5>4 DEF Toward
          <6> QED BY <5>4, <6>1, <6>2
        <5>6. k < x
          BY <2>5, <5>4
        <5> QED BY <4>4, <5>5, <5>6 DEF Precedes
      <4> QED BY <4>1, <4>2, <4>3, <4>4
    <3>3. Earlier(H, b, p) = Earlier(H, b, x) \cup {x}
      BY <3>2 DEF Earlier
    <3>4. p # NULL
      BY <1>2, <2>1
    <3> QED BY <2>1, <3>1, <3>3, <3>4
  <2> QED BY <2>7, <2>8
<1> QED BY <1>4, <1>5

\* The walk from the first node on, step by step.
Strolls(W, n) ==
  W = [i \in 0..n |-> IF i = 0 THEN PostFirst
                      ELSE IF W[i - 1] = NULL THEN NULL ELSE PostNext(W[i - 1])]

\* The walk can be made.
LEMMA StrollExists ==
  ASSUME NEW H, NEW b, Tree(H, b), NEW n \in Nat
  PROVE  \E W : Strolls(W, n)
<1> DEFINE S == 0..n
           V == H \cup {NULL}
           nx == [i \in S |-> IF i = 0 THEN n + 1 ELSE i - 1]
           v == [i \in S |-> PostFirst]
           g == [i \in S |-> [y \in V |-> IF y = NULL THEN NULL ELSE PostNext(y)]]
           r == [i \in S |-> i]
<1>1. PostFirst \in V
  <2>1. t.root \in H \cup {NULL}
    BY DEF Tree, Shape, Rooted
  <2>2. t.root # NULL => Foremost(b, t.root, LeftDeepest(t.root)) /\ b[t.root] \subseteq H
    BY <2>1, LeftDeepestIs, BranchesAre DEF Branches
  <2> QED BY <2>2 DEF Foremost, PostFirst
<1>2. \A y \in H : PostNext(y) \in V
  BY PostNextIs
<1>3. /\ n + 1 \in Nat /\ n + 1 \notin S /\ r \in [S -> Nat] /\ (\A i \in S : r[i] < n + 1)
      /\ nx \in [S -> S \cup {n + 1}]
      /\ \A i \in S : nx[i] # n + 1 => r[nx[i]] < r[i]
  <2>1. \A i \in S : i # 0 => i - 1 \in S /\ i - 1 < i /\ i - 1 # n + 1
    OBVIOUS
  <2>2. n + 1 \in Nat /\ n + 1 \notin S /\ r \in [S -> Nat] /\ (\A i \in S : r[i] < n + 1)
    OBVIOUS
  <2>3. nx \in [S -> S \cup {n + 1}]
    BY <2>1
  <2>4. ASSUME NEW i \in S, nx[i] # n + 1
        PROVE  r[nx[i]] < r[i]
    <3>1. i # 0 /\ nx[i] = i - 1
      BY <2>4
    <3> QED BY <2>1, <3>1
  <2> QED BY <2>2, <2>3, <2>4
<1>4. v \in [S -> V]
  BY <1>1
<1>5. g \in [S -> [V -> V]]
  BY <1>2
<1>6. PICK W \in [S -> V] : Chases(W, S, nx, n + 1, v, g)
  <2> HIDE DEF S, V, nx, v, g, r
  <2> QED BY <1>3, <1>4, <1>5, ChaseExists
<1>7. ASSUME NEW i \in S
      PROVE  W[i] = IF i = 0 THEN PostFirst
                    ELSE IF W[i - 1] = NULL THEN NULL ELSE PostNext(W[i - 1])
  <2>1. W[i] = IF nx[i] = n + 1 THEN v[i] ELSE g[i][W[nx[i]]]
    BY <1>6 DEF Chases
  <2>2. CASE i = 0
    <3>1. nx[i] = n + 1 /\ v[i] = PostFirst
      BY <2>2
    <3> QED BY <2>1, <2>2, <3>1
  <2>3. CASE i # 0
    <3>1. nx[i] = i - 1 /\ i - 1 # n + 1 /\ i - 1 \in S
      BY <2>3
    <3>2. W[i - 1] \in V
      BY <3>1
    <3>3. W[i] = g[i][W[i - 1]]
      BY <2>1, <3>1
    <3>4. g[i][W[i - 1]] = IF W[i - 1] = NULL THEN NULL ELSE PostNext(W[i - 1])
      BY <3>2
    <3> QED BY <2>3, <3>3, <3>4
  <2> QED BY <2>2, <2>3
<1>8. W = [i \in S |-> W[i]]
  BY <1>6
<1>9. Strolls(W, n)
  BY <1>7, <1>8 DEF Strolls
<1> QED BY <1>6, <1>9

\* After i steps the walk has met i nodes, those that come before the one it is at.
Strolled(H, b, W, i) ==
  LET met == {W[j] : j \in 0..(i - 1)}
  IN /\ met \subseteq H /\ IsFiniteSet(met) /\ Cardinality(met) = i
     /\ IF W[i] = NULL THEN met = H ELSE W[i] \in H /\ met = Earlier(H, b, W[i])

\* And so at each step.
LEMMA StrollIs ==
  ASSUME NEW H, NEW b, Tree(H, b), NEW n \in Nat, n = Cardinality(H),
         NEW W, Strolls(W, n)
  PROVE  \A i \in 0..n : Strolled(H, b, W, i)
<1> DEFINE T == {i \in 0..n : ~Strolled(H, b, W, i)}
<1> SUFFICES ASSUME T # {}
             PROVE  FALSE
  OBVIOUS
<1>1. PICK i \in T : \A j \in T : i <= j
  <2>1. T \in SUBSET Nat
    OBVIOUS
  <2> HIDE DEF T
  <2> QED BY <2>1, LeastNatural
<1>2. i \in 0..n /\ ~Strolled(H, b, W, i) /\ i \in Nat
  BY <1>1
<1>3. \A j \in 0..n : W[j] = IF j = 0 THEN PostFirst
                              ELSE IF W[j - 1] = NULL THEN NULL ELSE PostNext(W[j - 1])
  BY DEF Strolls
<1>4. \A x \in H : Branches(H, b, x)
  BY BranchesAre
<1>5. NULL \notin H
  BY NodesAssumption DEF Tree
<1>6. i # 0
  <2> SUFFICES ASSUME i = 0
               PROVE  FALSE
    OBVIOUS
  <2> DEFINE met == {W[j] : j \in 0..(0 - 1)}
  <2>1. met = {}
    OBVIOUS
  <2>2. W[0] = PostFirst
    BY <1>2, <1>3
  <2>3. t.root \in H \cup {NULL} /\ (t.root = NULL => H = {}) /\ (t.root # NULL => H = b[t.root])
    BY DEF Tree, Shape, Rooted, Below
  <2>4. IF W[0] = NULL THEN H = {} ELSE W[0] \in H /\ Earlier(H, b, W[0]) = {}
    <3>1. CASE t.root = NULL
      BY <2>2, <2>3, <3>1 DEF PostFirst
    <3>2. CASE t.root # NULL
      <4>1. W[0] = LeftDeepest(t.root)
        BY <2>2, <3>2 DEF PostFirst
      <4>2. Foremost(b, t.root, W[0])
        BY <2>3, <3>2, <4>1, LeftDeepestIs
      <4> QED BY <1>5, <2>3, <3>2, <4>2 DEF Foremost, Earlier
    <3> QED BY <3>1, <3>2
  <2>5. IsFiniteSet({}) /\ Cardinality({}) = 0
    BY FS_EmptySet
  <2> HIDE DEF met
  <2>6. /\ met \subseteq H /\ IsFiniteSet(met) /\ Cardinality(met) = 0
        /\ IF W[0] = NULL THEN met = H ELSE W[0] \in H /\ met = Earlier(H, b, W[0])
    BY <2>1, <2>4, <2>5
  <2>7. Strolled(H, b, W, 0)
    BY <2>6 DEF Strolled, met
  <2> QED BY <1>2, <2>7
<1>7. i - 1 \in 0..n /\ i - 1 \in Nat /\ i - 1 < n /\ Strolled(H, b, W, i - 1)
  <2>1. i - 1 \in 0..n /\ ~(i <= i - 1) /\ i - 1 < n /\ i - 1 \in Nat
    BY <1>2, <1>6
  <2> QED BY <1>1, <2>1
<1> DEFINE met == {W[j] : j \in 0..((i - 1) - 1)}
           now == {W[j] : j \in 0..(i - 1)}
           x == W[i - 1]
<1>8. /\ met \subseteq H /\ IsFiniteSet(met) /\ Cardinality(met) = i - 1
      /\ IF x = NULL THEN met = H ELSE x \in H /\ met = Earlier(H, b, x)
  BY <1>7 DEF Strolled
<1>9. now = met \cup {x}
  <2>1. \A j \in 0..(i - 1) : j = i - 1 \/ j \in 0..((i - 1) - 1)
    BY <1>7
  <2>2. \A j \in 0..((i - 1) - 1) : j \in 0..(i - 1)
    BY <1>7
  <2>3. i - 1 \in 0..(i - 1)
    BY <1>7
  <2> QED BY <2>1, <2>2, <2>3
<1>10. W[i] = IF x = NULL THEN NULL ELSE PostNext(x)
  BY <1>2, <1>3, <1>6, <1>7
<1> HIDE DEF met, x
<1>11. x \in H /\ x # NULL
  <2>1. met # H
    BY <1>7, <1>8
  <2> QED BY <1>5, <1>8, <2>1
<1>12. met = Earlier(H, b, x) /\ W[i] = PostNext(x)
  BY <1>8, <1>10, <1>11
<1>13. x \notin met
  BY <1>12 DEF Earlier, Precedes
<1>14. now \subseteq H /\ IsFiniteSet(now) /\ Cardinality(now) = i
  <2>1. IsFiniteSet(met \cup {x}) /\ Cardinality(met \cup {x}) = Cardinality(met) + 1
    BY <1>8, <1>13, FS_AddElement
  <2> HIDE DEF now
  <2> QED BY <1>2, <1>7, <1>8, <1>9, <1>11, <2>1
<1>15. IF W[i] = NULL THEN now = H ELSE W[i] \in H /\ now = Earlier(H, b, W[i])
  <2> HIDE DEF now
  <2> QED BY <1>9, <1>11, <1>12, PostNextIs
<1>16. Strolled(H, b, W, i)
  BY <1>14, <1>15 DEF Strolled
<1> QED BY <1>2, <1>16

\* The postorder walk visits every node once, a child before its parent.
LEMMA WalkIsComplete ==
  ASSUME NEW b, Tree(members, b)
  PROVE  PostorderIsComplete
<1> DEFINE H == members
           n == Cardinality(H)
           P == Postorder
<1>1. IsFiniteSet(H) /\ n \in Nat
  <2>1. IsFiniteSet(H)
    BY NodesAssumption, FS_Subset DEF Tree
  <2> QED BY <2>1, FS_CardinalityType
<1>2. P = CHOOSE f : Strolls(f, n)
  BY DEF Postorder, Strolls
<1> HIDE DEF n, P
<1>3. Strolls(P, n)
  BY <1>1, <1>2, StrollExists
<1>4. \A i \in 0..n : Strolled(H, b, P, i)
  BY <1>1, <1>3, StrollIs DEF n
<1> DEFINE met(i) == {P[j] : j \in 0..(i - 1)}
<1>5. \A i \in 0..n :
        /\ met(i) \subseteq H /\ Cardinality(met(i)) = i
        /\ IF P[i] = NULL THEN met(i) = H ELSE P[i] \in H /\ met(i) = Earlier(H, b, P[i])
  BY <1>4 DEF Strolled
<1>6. \A i, j \in 0..n : j < i => P[j] \in met(i)
  <2>1. \A i, j \in 0..n : j < i => j \in 0..(i - 1)
    BY <1>1
  <2> QED BY <2>1
<1>7. {P[i] : i \in 0..n - 1} = met(n)
  OBVIOUS
<1> HIDE DEF met
<1>8. met(n) = H /\ P[n] = NULL
  <2>1. n \in 0..n
    BY <1>1
  <2>2. met(n) \in SUBSET H /\ Cardinality(met(n)) = Cardinality(H)
    BY <1>5, <2>1 DEF n
  <2>3. met(n) = H
    BY <1>1, <2>2, FS_Subset
  <2>4. P[n] # NULL => P[n] \in H /\ P[n] \notin Earlier(H, b, P[n])
    BY <1>5, <2>1 DEF Earlier, Precedes
  <2> QED BY <1>5, <2>1, <2>3, <2>4
<1>9. ASSUME NEW i \in 0..n - 1, NEW j \in 0..n - 1, t.par[P[i]] = P[j]
      PROVE  i < j
  <2> SUFFICES ASSUME ~(i < j)
               PROVE  FALSE
    OBVIOUS
  <2>1. /\ i \in 0..n /\ j \in 0..n /\ n \in 0..n /\ i < n /\ j < n /\ (i = j \/ j < i)
    BY <1>1
  <2> DEFINE x == P[i]
             p == P[j]
  <2>2. x \in H /\ p \in H /\ t.par[x] = p
    BY <1>6, <1>8, <1>9, <2>1
  <2>3. x # NULL /\ p # NULL /\ Branches(H, b, p) /\ Stem(H, b, x)
    BY <2>2, NodesAssumption, BranchesAre, StemIs DEF Tree
  <2>4. x # p /\ x \in b[p] /\ p \notin b[x]
    <3>1. PICK d \in Dirs : t.kid[p][d] = x
      BY <2>2, <2>3 DEF Stem
    <3>2. x \in b[x] /\ b[x] \subseteq b[p] /\ p \notin b[x]
      BY <2>3, <3>1 DEF Branches
    <3> QED BY <3>2
  <2>5. p \in Earlier(H, b, x)
    BY <1>5, <1>6, <2>1, <2>3, <2>4
  <2> QED BY <2>4, <2>5 DEF Earlier, Precedes
<1> QED BY <1>7, <1>8, <1>9 DEF PostorderIsComplete, n, P

\* Every walk over the tree meets every node, in its order: from either end, from node to
\* neighbour in both directions, and in postorder, a child before its parent.
THEOREM WalksHold == Spec => []WalksAreComplete
<1>1. IInv => WalksAreComplete
  <2>1. CASE pc = "idle"
    <3>1. IInv => \E b : Tree(members, b)
      BY <2>1, IdleIsWhole DEF IInv, Tree
    <3> QED BY <3>1, WalkIsLogical, WalkIsComplete DEF WalksAreComplete
  <2>2. CASE pc # "idle"
    BY <2>2 DEF WalksAreComplete, WalksAreLogical, PostorderIsComplete
  <2> QED BY <2>1, <2>2
<1> QED BY <1>1, Invariance, PTL

-----------------------------------------------------------------------------
(***************************************************************************)
(* Searches for a key.                                                     *)
(***************************************************************************)
\* Where s meets S last.
MeetsLast(S, s, i) ==
  i \in 1..Len(s) /\ s[i] \in S /\ \A j \in 1..Len(s) : s[j] \in S => j <= i

\* A set of numbers up to n has a greatest one.
LEMMA GreatestNatural ==
  ASSUME NEW n \in Nat, NEW T \in SUBSET (1..n), T # {}
  PROVE  \E i \in T : \A j \in T : j <= i
<1> DEFINE U == {n - j : j \in T}
<1>1. U \in SUBSET Nat /\ U # {}
  <2>1. \A j \in T : n - j \in Nat
    OBVIOUS
  <2> QED BY <2>1
<1>2. PICK u \in U : \A x \in U : u <= x
  <2> HIDE DEF U
  <2> QED BY <1>1, LeastNatural
<1>3. PICK i \in T : u = n - i
  BY <1>2
<1>4. ASSUME NEW j \in T
      PROVE  j <= i
  <2>1. n - i <= n - j
    BY <1>2, <1>3
  <2> QED BY <2>1
<1> QED BY <1>4

\* LastIn finds the place, if there is one.
LEMMA LastInIs ==
  ASSUME NEW s \in Seq(Nodes), NEW S
  PROVE  /\ \A i \in 1..Len(s) : MeetsLast(S, s, i) => LastIn(S, s) = s[i]
         /\ IF \A i \in 1..Len(s) : s[i] \notin S THEN LastIn(S, s) = NULL
            ELSE \E i \in 1..Len(s) : MeetsLast(S, s, i)
<1> DEFINE met == {i \in DOMAIN s : s[i] \in S}
<1>1. Len(s) \in Nat /\ DOMAIN s = 1..Len(s)
  OBVIOUS
<1>2. ASSUME NEW i \in 1..Len(s), MeetsLast(S, s, i)
      PROVE  LastIn(S, s) = s[i]
  <2>1. i \in met /\ \A j \in met : j <= i
    BY <1>1, <1>2 DEF MeetsLast
  <2>2. \A k \in met : (\A j \in met : j <= k) => k = i
    BY <1>1, <2>1
  <2>3. (CHOOSE k \in met : \A j \in met : j <= k) = i
    BY <2>1, <2>2
  <2> QED BY <2>1, <2>3 DEF LastIn
<1>3. ASSUME NEW k \in 1..Len(s), s[k] \in S
      PROVE  \E i \in 1..Len(s) : MeetsLast(S, s, i)
  <2>1. met \in SUBSET (1..Len(s)) /\ k \in met
    BY <1>1, <1>3
  <2>2. PICK i \in met : \A j \in met : j <= i
    <3> HIDE DEF met
    <3> QED BY <1>1, <2>1, GreatestNatural
  <2>3. i \in 1..Len(s) /\ s[i] \in S /\ \A j \in 1..Len(s) : s[j] \in S => j <= i
    BY <1>1, <2>2
  <2> QED BY <2>3 DEF MeetsLast
<1>4. ASSUME \A i \in 1..Len(s) : s[i] \notin S
      PROVE  LastIn(S, s) = NULL
  <2>1. met = {}
    BY <1>1, <1>4
  <2> QED BY <2>1 DEF LastIn
<1> QED BY <1>2, <1>3, <1>4

\* Of one node.
LEMMA LastInOne ==
  ASSUME NEW m \in Nodes, NEW S
  PROVE  LastIn(S, <<m>>) = IF m \in S THEN m ELSE NULL
<1> DEFINE s == <<m>>
<1>1. s \in Seq(Nodes) /\ Len(s) = 1 /\ s[1] = m
  OBVIOUS
<1> HIDE DEF s
<1>2. 1 \in 1..Len(s) /\ \A i \in 1..Len(s) : i = 1
  BY <1>1
<1>3. CASE m \in S
  <2>1. MeetsLast(S, s, 1)
    BY <1>1, <1>2, <1>3 DEF MeetsLast
  <2> QED BY <1>1, <1>2, <1>3, <2>1, LastInIs DEF s
<1>4. CASE m \notin S
  <2>1. \A i \in 1..Len(s) : s[i] \notin S
    BY <1>1, <1>2, <1>4
  <2> QED BY <1>1, <1>4, <2>1, LastInIs DEF s
<1> QED BY <1>3, <1>4

\* Of a node and what comes after it.
LEMMA LastInMore ==
  ASSUME NEW m \in Nodes, NEW q \in Seq(Nodes), NEW S, NULL \notin S
  PROVE  /\ LastIn(S, <<m>> \o q) = IF LastIn(S, q) # NULL THEN LastIn(S, q)
                                     ELSE IF m \in S THEN m ELSE NULL
         /\ LastIn(S, q) # NULL => LastIn(S, q) \in S
<1> DEFINE s == <<m>> \o q
<1>1. /\ s \in Seq(Nodes) /\ Len(s) = Len(q) + 1 /\ Len(q) \in Nat /\ s[1] = m
      /\ \A i \in 1..Len(q) : s[i + 1] = q[i]
  OBVIOUS
<1> HIDE DEF s
<1>2. \A i \in 1..Len(s) : i = 1 \/ (i - 1 \in 1..Len(q) /\ s[i] = q[i - 1])
  <2>1. ASSUME NEW i \in 1..Len(s), i # 1
        PROVE  i - 1 \in 1..Len(q) /\ s[i] = q[i - 1]
    <3>1. i - 1 \in 1..Len(q) /\ (i - 1) + 1 = i
      BY <1>1, <2>1
    <3>2. s[(i - 1) + 1] = q[i - 1]
      BY <1>1, <3>1
    <3> QED BY <3>1, <3>2
  <2> QED BY <2>1
<1>3. CASE \A i \in 1..Len(q) : q[i] \notin S
  <2>1. LastIn(S, q) = NULL
    BY <1>3, LastInIs
  <2>2. CASE m \in S
    <3>1. MeetsLast(S, s, 1) /\ 1 \in 1..Len(s)
      BY <1>1, <1>2, <1>3, <2>2 DEF MeetsLast
    <3> QED BY <1>1, <2>1, <2>2, <3>1, LastInIs DEF s
  <2>3. CASE m \notin S
    <3>1. \A i \in 1..Len(s) : s[i] \notin S
      BY <1>1, <1>2, <1>3, <2>3
    <3> QED BY <1>1, <2>1, <2>3, <3>1, LastInIs DEF s
  <2> QED BY <2>2, <2>3
<1>4. CASE ~(\A i \in 1..Len(q) : q[i] \notin S)
  <2>1. PICK i \in 1..Len(q) : MeetsLast(S, q, i)
    BY <1>4, LastInIs
  <2>2. LastIn(S, q) = q[i] /\ q[i] \in S
    BY <2>1, LastInIs DEF MeetsLast
  <2>3. i + 1 \in 1..Len(s) /\ s[i + 1] = q[i]
    BY <1>1
  <2>4. ASSUME NEW j \in 1..Len(s), s[j] \in S
        PROVE  j <= i + 1
    <3>1. CASE j = 1
      BY <3>1
    <3>2. CASE j # 1
      <4>1. j - 1 \in 1..Len(q) /\ q[j - 1] \in S
        BY <1>2, <2>4, <3>2
      <4>2. j - 1 <= i
        BY <2>1, <4>1 DEF MeetsLast
      <4> QED BY <4>2
    <3> QED BY <3>1, <3>2
  <2>5. MeetsLast(S, s, i + 1)
    BY <2>2, <2>3, <2>4 DEF MeetsLast
  <2>6. LastIn(S, s) = q[i]
    BY <1>1, <2>3, <2>5, LastInIs
  <2> QED BY <2>2, <2>6 DEF s
<1> QED BY <1>3, <1>4

\* The last node of s on side e of k.
Turn(e, k, s) == LastIn({m \in Nodes : Toward(e, m, k)}, s)

\* A search for k that starts at n and visits the nodes s ends at k, or next to its place.
Leads(b, n, k, s) ==
  /\ s \in Seq(Nodes) /\ Last(s) \in b[n]
  /\ k \in b[n] => Last(s) = k
  /\ k \notin b[n] => /\ \E e \in Dirs : Last(s) = Turn(e, k, s)
                     /\ \A e \in Dirs : Nearest(b[n], k, e, Turn(e, k, s))

\* Which way a search for k goes at m.
Way(k, m) == IF k < m THEN "left" ELSE "right"

\* F is the nodes that a search for k visits from each node on.
Trails(F, k) ==
  F = [m \in Nodes |->
         LET kid == t.kid[m][Way(k, m)]
         IN IF k = m \/ kid = NULL THEN <<m>> ELSE <<m>> \o F[kid]]

\* A search ends.
LEMMA TrailExists ==
  ASSUME NEW H, NEW b, Tree(H, b), NEW k \in Nodes
  PROVE  \E F : Trails(F, k)
<1> DEFINE V == Seq(Nodes)
           nx == [m \in Nodes |-> IF k = m THEN NULL ELSE t.kid[m][Way(k, m)]]
           v == [m \in Nodes |-> <<m>>]
           g == [m \in Nodes |-> [q \in V |-> <<m>> \o q]]
<1>1. \A m \in Nodes : Way(k, m) \in Dirs /\ t.kid[m][Way(k, m)] \in Nodes \cup {NULL}
  BY DEF Tree, Trees, Maybe, Way, Dirs
<1>2. nx \in [Nodes -> Maybe]
  BY <1>1 DEF Maybe
<1>3. v \in [Nodes -> V]
  OBVIOUS
<1>4. g \in [Nodes -> [V -> V]]
  <2>1. \A m \in Nodes : \A q \in V : <<m>> \o q \in V
    OBVIOUS
  <2> QED BY <2>1
<1>5. \A m \in Nodes : nx[m] # NULL => \E e \in Dirs : nx[m] = t.kid[m][e]
  BY <1>1
<1>6. PICK F \in [Nodes -> V] : Chases(F, Nodes, nx, NULL, v, g)
  <2> HIDE DEF nx, v, g, V
  <2> QED BY <1>2, <1>3, <1>4, <1>5, DescentExists
<1>7. ASSUME NEW m \in Nodes
      PROVE  F[m] = LET kid == t.kid[m][Way(k, m)]
                    IN IF k = m \/ kid = NULL THEN <<m>> ELSE <<m>> \o F[kid]
  <2> DEFINE c == t.kid[m][Way(k, m)]
  <2>1. F[m] = IF nx[m] = NULL THEN v[m] ELSE g[m][F[nx[m]]]
    BY <1>6 DEF Chases
  <2>2. c \in Nodes \cup {NULL} /\ NULL \notin Nodes
    BY <1>1, NodesAssumption
  <2>3. nx[m] = (IF k = m THEN NULL ELSE c) /\ v[m] = <<m>>
    OBVIOUS
  <2>4. c \in Nodes => F[c] \in V
    OBVIOUS
  <2>5. \A q \in V : g[m][q] = <<m>> \o q
    OBVIOUS
  <2> HIDE DEF nx, v, g, V, c
  <2>6. F[m] = IF k = m \/ c = NULL THEN <<m>> ELSE <<m>> \o F[c]
    BY <2>1, <2>2, <2>3, <2>4, <2>5
  <2> QED BY <2>6 DEF c
<1>8. F = [m \in Nodes |-> F[m]]
  OBVIOUS
<1> QED BY <1>7, <1>8 DEF Trails

\* A search that starts at a node leads to k or next to it.
LEMMA TrailLeads ==
  ASSUME NEW H, NEW b, Tree(H, b), NEW k \in Nodes, NEW D, Trails(D, k), NEW n \in H
  PROVE  Leads(b, n, k, D[n])
<1>1. H \subseteq Nodes /\ Nodes \subseteq Nat /\ NULL \notin Nodes /\ k \in Nat
  BY NodesAssumption DEF Tree
<1>2. ASSUME NEW m \in Nodes
      PROVE  D[m] = IF k = m \/ t.kid[m][Way(k, m)] = NULL THEN <<m>>
                    ELSE <<m>> \o D[t.kid[m][Way(k, m)]]
  BY DEF Trails
<1>3. \A e \in Dirs : NULL \notin {m \in Nodes : Toward(e, m, k)}
  BY <1>1
<1> DEFINE T == {m \in H : Leads(b, m, k, D[m])}
<1>4. ASSUME NEW m \in H, \A e \in Dirs : t.kid[m][e] # NULL => t.kid[m][e] \in T
      PROVE  m \in T
  <2> DEFINE d == Way(k, m)
             c == t.kid[m][d]
             s == D[m]
  <2>1. Branches(H, b, m) /\ m \in Nodes /\ m \in Nat /\ m \in b[m]
    BY <1>1, BranchesAre DEF Branches
  <2>2. d \in Dirs /\ (k # m => Toward(d, k, m))
    BY <1>1, <2>1 DEF Way, Dirs, Toward
  <2>3. s = IF k = m \/ c = NULL THEN <<m>> ELSE <<m>> \o D[c]
    BY <1>2, <2>1
  <2>4. CASE k = m
    <3>1. s = <<m>> /\ s \in Seq(Nodes)
      BY <2>1, <2>3, <2>4
    <3>2. Last(s) = m
      BY <2>1, <3>1, LastInOne DEF Last
    <3> HIDE DEF s
    <3>3. Leads(b, m, k, s)
      BY <2>1, <2>4, <3>1, <3>2 DEF Leads
    <3> QED BY <3>3 DEF s
  <2>5. CASE k # m
    <3> HIDE DEF d
    <3>1. Toward(Opp(d), m, k) /\ ~Toward(d, m, k) /\ Toward(d, k, m) /\ Opp(d) \in Dirs
      BY <1>1, <2>1, <2>2, <2>5, SidesAreOrders, OppIs DEF Orders
    <3>2. ASSUME NEW j \in b[m]
          PROVE  /\ j \in Nat
                 /\ j = m \/ (c # NULL /\ j \in b[c])
                          \/ (/\ Toward(Opp(d), j, m) /\ Toward(Opp(d), j, k)
                              /\ ~Toward(d, j, k) /\ j # k)
      <4>1. CASE j = m
        BY <2>1, <4>1
      <4>2. CASE j # m
        <5>1. PICK e \in Dirs : t.kid[m][e] # NULL /\ j \in b[t.kid[m][e]]
          BY <2>1, <4>2 DEF Branches
        <5>2. j \in Nat /\ Toward(e, j, m)
          BY <2>1, <5>1 DEF Branches
        <5>3. CASE e = d
          BY <5>1, <5>2, <5>3
        <5>4. CASE e # d
          <6>1. e = Opp(d)
            BY <2>2, <5>4 DEF Opp, Dirs
          <6>2. Toward(Opp(d), j, k)
            BY <1>1, <2>1, <3>1, <5>2, <6>1, SidesAreOrders DEF Orders
          <6>3. ~Toward(d, j, k) /\ j # k
            BY <1>1, <2>2, <3>1, <5>2, <6>2, SidesAreOrders DEF Orders
          <6> QED BY <5>2, <6>1, <6>2, <6>3
        <5> QED BY <5>3, <5>4
      <4> QED BY <4>1, <4>2
    <3>3. CASE c = NULL
      <4>1. s = <<m>> /\ s \in Seq(Nodes)
        BY <2>1, <2>3, <3>3
      <4>2. Last(s) = m
        BY <2>1, <4>1, LastInOne DEF Last
      <4>3. \A e \in Dirs : Turn(e, k, s) = IF Toward(e, m, k) THEN m ELSE NULL
        BY <2>1, <4>1, LastInOne DEF Turn
      <4> HIDE DEF s, c
      <4>4. k \notin b[m]
        BY <2>5, <3>2, <3>3
      <4>5. Turn(Opp(d), k, s) = m /\ Turn(d, k, s) = NULL
        BY <2>2, <3>1, <4>3
      <4>6. Nearest(b[m], k, d, NULL)
        BY <3>1, <3>2, <3>3 DEF Nearest
      <4>7. Nearest(b[m], k, Opp(d), m)
        BY <1>1, <2>1, <3>1, <3>2, <3>3 DEF Nearest
      <4>8. \A e \in Dirs : Nearest(b[m], k, e, Turn(e, k, s))
        BY <2>2, <4>5, <4>6, <4>7, OppIs
      <4>9. Leads(b, m, k, s)
        BY <2>1, <3>1, <4>1, <4>2, <4>4, <4>5, <4>8 DEF Leads
      <4> QED BY <4>9 DEF s
    <3>4. CASE c # NULL
      <4> DEFINE q == D[c]
      <4>1. c \in H /\ Leads(b, c, k, q)
        BY SMTT(30), <1>4, <2>2, <3>4
      <4>2. s = <<m>> \o q /\ q \in Seq(Nodes)
        BY <2>3, <2>5, <3>4, <4>1 DEF Leads
      <4>3. s \in Seq(Nodes)
        BY <2>1, <4>2
      <4>4. /\ b[c] \subseteq b[m] /\ b[c] \subseteq Nodes
            /\ \A j \in b[c] : j \in Nat /\ Toward(d, j, m) /\ j # NULL
        <5>1. b[c] \subseteq b[m] /\ \A j \in b[c] : j \in Nat /\ Toward(d, j, m)
          BY <2>1, <2>2, <3>4 DEF Branches
        <5>2. b[c] \subseteq H
          BY <4>1, BranchesAre DEF Branches
        <5> QED BY <1>1, <5>1, <5>2
      <4> HIDE DEF s, c, q
      <4>5. Last(q) \in b[c] /\ Last(q) # NULL
        BY <4>1, <4>4 DEF Leads
      <4>6. Last(s) = Last(q)
        BY <1>1, <2>1, <4>2, <4>5, LastInMore DEF Last
      <4>7. \A e \in Dirs : Turn(e, k, s) = IF Turn(e, k, q) # NULL THEN Turn(e, k, q)
                                            ELSE IF Toward(e, m, k) THEN m ELSE NULL
        BY <1>3, <2>1, <4>2, LastInMore DEF Turn
      <4>8. CASE k \in b[m]
        <5>1. k \in b[c]
          BY <2>5, <3>2, <4>8
        <5>2. Leads(b, m, k, s)
          BY <4>1, <4>3, <4>4, <4>5, <4>6, <4>8, <5>1 DEF Leads
        <5> QED BY <5>2 DEF s
      <4>9. CASE k \notin b[m]
        <5>1. /\ \A e \in Dirs : Nearest(b[c], k, e, Turn(e, k, q))
              /\ \E e \in Dirs : Last(q) = Turn(e, k, q)
          BY <4>1, <4>4, <4>9 DEF Leads
        <5>2. \E e \in Dirs : Last(s) = Turn(e, k, s)
          BY <4>5, <4>6, <4>7, <5>1
        <5>3. Nearest(b[m], k, d, Turn(d, k, s))
          <6> DEFINE y == Turn(d, k, q)
          <6>1. Turn(d, k, s) = y /\ Nearest(b[c], k, d, y)
            BY <2>2, <3>1, <4>7, <5>1
          <6> HIDE DEF y
          <6>2. ASSUME NEW j \in b[m], Toward(d, j, k)
                PROVE  j \in b[c]
            BY <3>1, <3>2, <6>2
          <6>3. Nearest(b[m], k, d, y)
            BY <4>4, <6>1, <6>2 DEF Nearest
          <6> QED BY <6>1, <6>3
        <5>4. Nearest(b[m], k, Opp(d), Turn(Opp(d), k, s))
          <6> DEFINE y == Turn(Opp(d), k, q)
          <6>1. /\ Turn(Opp(d), k, s) = IF y # NULL THEN y ELSE m
                /\ Nearest(b[c], k, Opp(d), y)
            BY <2>2, <3>1, <4>7, <5>1
          <6> HIDE DEF y
          <6>2. CASE y # NULL
            <7>1. /\ y \in b[c] /\ Toward(Opp(d), y, k) /\ y \in Nat /\ Toward(d, y, m)
                  /\ \A j \in b[c] : Toward(Opp(d), j, k) => j = y \/ Toward(Opp(d), j, y)
              BY <4>4, <6>1, <6>2 DEF Nearest
            <7>2. Toward(Opp(d), m, y)
              BY <2>1, <2>2, <7>1, SidesAreOrders DEF Orders
            <7>3. ASSUME NEW j \in b[m], Toward(Opp(d), j, k)
                  PROVE  j = y \/ Toward(Opp(d), j, y)
              <8>1. CASE j = m
                BY <7>2, <8>1
              <8>2. CASE j \in b[c]
                BY <7>1, <7>3, <8>2
              <8>3. CASE Toward(Opp(d), j, m)
                BY <2>1, <3>1, <3>2, <7>1, <7>2, <8>3, SidesAreOrders DEF Orders
              <8> QED BY <3>2, <8>1, <8>2, <8>3
            <7>4. Nearest(b[m], k, Opp(d), y)
              BY <4>4, <6>2, <7>1, <7>3 DEF Nearest
            <7> QED BY <6>1, <6>2, <7>4
          <6>3. CASE y = NULL
            <7>1. \A j \in b[c] : ~Toward(Opp(d), j, k)
              BY <6>1, <6>3 DEF Nearest
            <7>2. Nearest(b[m], k, Opp(d), m)
              BY <1>1, <2>1, <3>1, <3>2, <7>1 DEF Nearest
            <7> QED BY <6>1, <6>3, <7>2
          <6> QED BY <6>2, <6>3
        <5>5. \A e \in Dirs : Nearest(b[m], k, e, Turn(e, k, s))
          BY <2>2, <5>3, <5>4, OppIs
        <5>6. Leads(b, m, k, s)
          BY <4>3, <4>4, <4>5, <4>6, <4>9, <5>2, <5>5 DEF Leads
        <5> QED BY <5>6 DEF s
      <4> QED BY <4>8, <4>9
    <3> QED BY <3>3, <3>4
  <2> QED BY <2>4, <2>5
<1>5. T \in SUBSET H
  OBVIOUS
<1> HIDE DEF T
<1>6. T = H
  BY <1>4, <1>5, BottomUp
<1> QED BY <1>6 DEF T

\* What a search for k finds in the tree.
Finds(H, k) ==
  /\ H = {} => Trail(k) = <<>>
  /\ H # {} => Last(Trail(k)) \in H
  /\ k \in H => Last(Trail(k)) = k
  /\ k \notin H => /\ Last(Trail(k)) \in {LastRight(k), LastLeft(k)}
                 /\ Nearest(H, k, "left", LastRight(k)) /\ Nearest(H, k, "right", LastLeft(k))

\* A search leads to k or to its neighbours.
LEMMA TrailFinds ==
  ASSUME NEW H, NEW b, Tree(H, b), NEW k \in Nodes
  PROVE  Finds(H, k)
<1> DEFINE D == CHOOSE f : Trails(f, k)
<1>1. Trail(k) = IF t.root = NULL THEN <<>> ELSE D[t.root]
  BY DEF Trail, Trails, Way
<1>2. Trails(D, k)
  BY TrailExists
<1> HIDE DEF D
<1>3. /\ t.root \in H \cup {NULL} /\ NULL \notin H
      /\ t.root = NULL => H = {}
      /\ t.root # NULL => H = b[t.root]
  BY NodesAssumption DEF Tree, Shape, Rooted, Below
<1>4. LastRight(k) = Turn("left", k, Trail(k)) /\ LastLeft(k) = Turn("right", k, Trail(k))
  BY DEF LastRight, LastLeft, Turn, Toward
<1>5. CASE t.root = NULL
  <2>1. Trail(k) = <<>> /\ DOMAIN Trail(k) = {}
    BY <1>1, <1>5
  <2>2. \A S : LastIn(S, Trail(k)) = NULL
    BY <2>1 DEF LastIn
  <2> QED BY <1>3, <1>5, <2>1, <2>2 DEF Finds, Last, LastRight, LastLeft, Nearest
<1>6. CASE t.root # NULL
  <2> DEFINE s == Trail(k)
  <2>1. Leads(b, t.root, k, s)
    BY <1>1, <1>2, <1>3, <1>6, TrailLeads
  <2> HIDE DEF s
  <2>2. /\ Last(s) \in H /\ (k \in H => Last(s) = k)
        /\ k \notin H => /\ \E e \in Dirs : Last(s) = Turn(e, k, s)
                       /\ \A e \in Dirs : Nearest(H, k, e, Turn(e, k, s))
    BY <1>3, <1>6, <2>1 DEF Leads
  <2> QED BY <1>3, <1>4, <1>6, <2>2 DEF Finds, Dirs, s
<1> QED BY <1>5, <1>6

\* The search for k ends at z, the keys l and r next to it being NULL where there is none.
Surrounds(H, k, l, r, z) ==
  /\ k \in Nat /\ k # NULL /\ NULL \notin H /\ H \subseteq Nat
  /\ IF H = {} THEN z = NULL ELSE z \in H
  /\ k \in H => z = k
  /\ k \notin H =>
       /\ z \in {l, r}
       /\ IF l = NULL THEN \A m \in H : ~(m < k)
          ELSE l \in H /\ l < k /\ \A m \in H : m < k => m = l \/ m < l
       /\ IF r = NULL THEN \A m \in H : ~(k < m)
          ELSE r \in H /\ k < r /\ \A m \in H : k < m => m = r \/ r < m

\* And in terms of numbers.
LEMMA TrailSurrounds ==
  ASSUME NEW H, NEW b, Tree(H, b), NEW k \in Nodes
  PROVE  Surrounds(H, k, LastRight(k), LastLeft(k), Last(Trail(k)))
<1>1. k \in Nat /\ k # NULL /\ NULL \notin H /\ H \subseteq Nat
  BY NodesAssumption DEF Tree
<1>2. Finds(H, k)
  BY TrailFinds
<1>3. LastIn(Nodes, <<>>) = NULL
  BY DEF LastIn
<1>4. "left" # "right"
  OBVIOUS
<1> QED BY <1>1, <1>2, <1>3, <1>4 DEF Finds, Last, Nearest, Toward, Surrounds

\* The first and the last of what is on either side of k, when k is not there.
Borders(H, k, l, r) ==
  LET before == {m \in H : m < k}
      after  == {m \in H : m > k}
  IN /\ {l} \ {NULL} = {m \in before : \A n \in before : n <= m}
     /\ {r} \ {NULL} = {m \in after : \A n \in after : m <= n}
     /\ IF l = NULL THEN before = {} ELSE l \in before /\ \A m \in before : m <= l
     /\ IF r = NULL THEN after = {} ELSE r \in after /\ \A m \in after : r <= m
     /\ l # r \/ l = NULL

\* They are what the search surrounds k with.
LEMMA BordersAre ==
  ASSUME NEW H, NEW k, NEW l, NEW r, NEW z, Surrounds(H, k, l, r, z), k \notin H
  PROVE  Borders(H, k, l, r)
<1> DEFINE B == {m \in H : m < k}
           A == {m \in H : m > k}
<1>1. k \in Nat /\ NULL \notin H /\ \A m \in H : m \in Nat /\ (m > k <=> k < m)
  BY DEF Surrounds
<1>2. IF l = NULL THEN \A m \in H : ~(m < k)
      ELSE l \in H /\ l < k /\ \A m \in H : m < k => m = l \/ m < l
  BY DEF Surrounds
<1>3. IF r = NULL THEN \A m \in H : ~(k < m)
      ELSE r \in H /\ k < r /\ \A m \in H : k < m => m = r \/ r < m
  BY DEF Surrounds
<1>4. IF l = NULL THEN B = {} ELSE l \in B /\ \A m \in B : m <= l
  BY <1>1, <1>2
<1>5. IF r = NULL THEN A = {} ELSE r \in A /\ \A m \in A : r <= m
  BY <1>1, <1>3
<1>6. A \subseteq Nat /\ B \subseteq Nat
  BY <1>1
<1>7. l # r \/ l = NULL
  BY <1>1, <1>2, <1>3
<1> HIDE DEF A, B
<1>8. {l} \ {NULL} = {m \in B : \A n \in B : n <= m}
  <2>1. CASE l = NULL
    BY <1>4, <2>1
  <2>2. CASE l # NULL
    <3>1. l \in B /\ l \in Nat /\ \A m \in B : m <= l
      BY <1>4, <1>6, <2>2
    <3>2. ASSUME NEW m \in B, \A n \in B : n <= m
          PROVE  m = l
      <4>1. m \in Nat /\ m <= l /\ l <= m
        BY <1>6, <3>1, <3>2
      <4> QED BY <3>1, <4>1
    <3> QED BY <2>2, <3>1, <3>2
  <2> QED BY <2>1, <2>2
<1>9. {r} \ {NULL} = {m \in A : \A n \in A : m <= n}
  <2>1. CASE r = NULL
    BY <1>5, <2>1
  <2>2. CASE r # NULL
    <3>1. r \in A /\ r \in Nat /\ \A m \in A : r <= m
      BY <1>5, <1>6, <2>2
    <3>2. ASSUME NEW m \in A, \A n \in A : m <= n
          PROVE  m = r
      <4>1. m \in Nat /\ m <= r /\ r <= m
        BY <1>6, <3>1, <3>2
      <4> QED BY <3>1, <4>1
    <3> QED BY <2>2, <3>1, <3>2
  <2> QED BY <2>1, <2>2
<1> QED BY <1>4, <1>5, <1>7, <1>8, <1>9 DEF Borders, A, B

\* A key that an unsigned int holds is not cut.
LEMMA UncutKey ==
  ASSUME NEW k \in Uncut
  PROVE  k \in Nodes /\ AsUInt(k) = k
<1>1. k \in Nat /\ UIntSize \in Nat /\ UIntSize > 0 /\ k < UIntSize /\ k \in Nodes
  BY NodesAssumption, UIntAssumption DEF Uncut
<1>2. k % UIntSize = k
  BY <1>1, SMTT(30)
<1> QED BY <1>1, <1>2 DEF AsUInt

\* The searches of the three containers find the neighbours of a key.
LEMMA NeighboursFound ==
  ASSUME NEW b, Tree(members, b)
  PROVE  NeighboursAreFound
<1> DEFINE H == members
<1>1. ASSUME NEW k \in Nodes
      PROVE  LET before == {m \in H : m <= k}
             IN IF before = {} THEN SetLastNodeLQ(k) = NULL
                ELSE SetLastNodeLQ(k) \in {m \in before : \A n \in before : n <= m}
  <2> DEFINE l == LastRight(k)
             r == LastLeft(k)
             z == Last(Trail(k))
             B == {m \in H : m <= k}
             y == SetLastNodeLQ(k)
  <2>1. Surrounds(H, k, l, r, z)
    BY TrailSurrounds
  <2>2. y = IF z = k THEN k ELSE l
    <3>1. k # NULL
      BY <2>1 DEF Surrounds
    <3> QED BY <3>1 DEF SetLastNodeLQ, Search
  <2> HIDE DEF l, r, z, y
  <2>3. IF B = {} THEN y = NULL ELSE y \in {m \in B : \A n \in B : n <= m}
    <3>1. CASE k \in H
      BY <2>1, <2>2, <3>1 DEF Surrounds
    <3>2. CASE k \notin H
      <4>1. y = l
        BY <2>1, <2>2, <3>2 DEF Surrounds
      <4>2. \A m \in H : m <= k <=> m < k
        BY <2>1, <3>2 DEF Surrounds
      <4>3. B = {m \in H : m < k}
        BY <4>2
      <4>4. Borders(H, k, l, r)
        BY <2>1, <3>2, BordersAre
      <4>5. IF l = NULL THEN B = {} ELSE l \in B /\ \A m \in B : m <= l
        BY <4>3, <4>4 DEF Borders
      <4> QED BY <4>1, <4>5
    <3> QED BY <3>1, <3>2
  <2> QED BY <2>3 DEF y
<1>2. ASSUME NEW k \in Uncut \ H
      PROVE  LET f == KeyFollow(k, NULL, NULL)
                 found == {f.last, f.right, f.left} \ {NULL}
                 before == {m \in H : m < k}
                 after  == {m \in H : m > k}
             IN /\ found = {m \in before : \A n \in before : n <= m}
                             \cup {m \in after : \A n \in after : m <= n}
                /\ f.last # NULL => f.last \notin {f.right, f.left}
                /\ f.right # NULL => f.right < k
                /\ f.left # NULL => f.left > k
  <2> DEFINE l == LastRight(k)
             r == LastLeft(k)
             z == Last(Trail(k))
             B == {m \in H : m < k}
             A == {m \in H : m > k}
             f == KeyFollow(k, NULL, NULL)
             BB == {m \in B : \A n \in B : n <= m}
             AA == {m \in A : \A n \in A : m <= n}
  <2>0. k \in Nodes /\ AsUInt(k) = k
    BY UncutKey
  <2>1. Surrounds(H, k, l, r, z)
    BY <2>0, TrailSurrounds
  <2>2. /\ f.last = z
        /\ f.right = IF z \in {l, k} THEN NULL ELSE l
        /\ f.left = IF z \in {r, k} THEN NULL ELSE r
    BY <2>0 DEF KeyFollow
  <2> HIDE DEF l, r, z, f
  <2>3. z # k /\ z \in {l, r} /\ k \in Nat /\ NULL \notin H
    BY <2>1 DEF Surrounds
  <2>4. Borders(H, k, l, r)
    BY <2>1, BordersAre
  <2>5. (l # NULL => l < k) /\ (r # NULL => r > k)
    BY <2>4 DEF Borders
  <2>6. l # r \/ l = NULL
    BY <2>4 DEF Borders
  <2>7. {l} \ {NULL} = BB /\ {r} \ {NULL} = AA
    BY <2>4 DEF Borders
  <2> HIDE DEF BB, AA
  <2>8. {f.last, f.right, f.left} \ {NULL} = BB \cup AA
    BY <2>2, <2>3, <2>6, <2>7
  <2>9. /\ f.last # NULL => f.last \notin {f.right, f.left}
        /\ f.right # NULL => f.right < k
        /\ f.left # NULL => f.left > k
    BY <2>2, <2>3, <2>5, <2>6
  <2> QED BY <2>8, <2>9 DEF BB, AA, f
<1>3. ASSUME NEW k \in Uncut \ H, H # {}
      PROVE  LET after == {m \in H : m > k}
             IN IF after = {} THEN \A m \in H : m <= TagFollow(k)
                ELSE TagFollow(k) \in {m \in after : \A n \in after : m <= n}
  <2> DEFINE l == LastRight(k)
             r == LastLeft(k)
             z == Last(Trail(k))
             A == {m \in H : m > k}
             y == TagFollow(k)
  <2>0. k \in Nodes /\ AsUInt(k) = k
    BY UncutKey
  <2>1. Surrounds(H, k, l, r, z)
    BY <2>0, TrailSurrounds
  <2>2. y = IF r # NULL THEN r ELSE z
    BY <2>0 DEF TagFollow
  <2> HIDE DEF l, r, z, y
  <2>3. IF A = {} THEN \A m \in H : m <= y ELSE y \in {m \in A : \A n \in A : m <= n}
    <3>1. Borders(H, k, l, r)
      BY <2>1, BordersAre
    <3>2. IF r = NULL THEN A = {} ELSE r \in A /\ \A m \in A : r <= m
      BY <3>1 DEF Borders
    <3>3. CASE r = NULL
      <4>1. y = l /\ l # NULL
        BY <1>3, <2>1, <2>2, <3>3 DEF Surrounds
      <4>2. \A m \in H : m < k
        BY <2>1, <3>3 DEF Surrounds
      <4>3. \A m \in H : m <= l
        BY <3>1, <4>1, <4>2 DEF Borders
      <4> QED BY <3>2, <3>3, <4>1, <4>3
    <3>4. CASE r # NULL
      <4>1. y = r
        BY <2>2, <3>4
      <4> QED BY <3>2, <3>4, <4>1
    <3> QED BY <3>3, <3>4
  <2> QED BY <2>3 DEF y
<1>4. SetSearchIsLast
  BY <1>1 DEF SetSearchIsLast
<1>5. FollowBrackets
  BY <1>2 DEF FollowBrackets
<1>6. TagFollowIsNext
  BY <1>3 DEF TagFollowIsNext
<1> QED BY <1>4, <1>5, <1>6 DEF NeighboursAreFound

\* The searches for the place of a key, each in its container, find the elements on
\* either side of it, whichever element they visit last: in set_tree of any key, in
\* key_tree and tag_tree of a key that an unsigned int holds, among elements whose keys
\* it may not hold.
THEOREM SearchesHold == Spec => []NeighboursAreFound
<1>1. IInv => NeighboursAreFound
  <2>1. CASE pc = "idle"
    <3>1. IInv => \E b : Tree(members, b)
      BY <2>1, IdleIsWhole DEF IInv, Tree
    <3> QED BY <3>1, NeighboursFound
  <2>2. CASE pc # "idle"
    BY <2>2 DEF NeighboursAreFound, SetSearchIsLast, FollowBrackets, TagFollowIsNext
  <2> QED BY <2>1, <2>2
<1> QED BY <1>1, Invariance, PTL

-----------------------------------------------------------------------------
(***************************************************************************)
(* Stores made one after the other.                                        *)
(***************************************************************************)
\* F is the tree s as it is after the first 0, 1, ..., k stores of seq.
Plays(F, s, seq, k) == F = [i \in 0..k |-> IF i = 0 THEN s ELSE Apply(F[i-1], seq[i])]

\* The tree s after all stores of seq.
Result(s, seq) ==
  LET From[i \in 0..Len(seq)] == IF i = 0 THEN s ELSE Apply(From[i-1], seq[i])
  IN From[Len(seq)]

\* Stores can be made as far as one likes.
LEMMA PlayExists ==
  ASSUME NEW s, NEW seq, NEW k \in Nat
  PROVE  \E F : Plays(F, s, seq, k)
<1> DEFINE Fails == {j \in 0..k : ~\E F : Plays(F, s, seq, j)}
<1>1. SUFFICES ASSUME Fails # {}
               PROVE  FALSE
  OBVIOUS
<1>2. PICK j \in Fails : \A m \in Fails : j <= m
  <2>1. Fails \in SUBSET Nat
    OBVIOUS
  <2> HIDE DEF Fails
  <2> QED BY <1>1, <2>1, LeastNatural
<1>3. j # 0
  <2>1. Plays([i \in 0..0 |-> s], s, seq, 0)
    BY DEF Plays
  <2> QED BY <2>1
<1>4. j - 1 \in 0..k /\ j \in Nat /\ j - 1 \in Nat
  BY <1>3
<1>5. PICK F : Plays(F, s, seq, j - 1)
  BY <1>2, <1>3, <1>4
<1> DEFINE G == [i \in 0..j |-> IF i = j THEN Apply(F[j - 1], seq[j]) ELSE F[i]]
<1>6. ASSUME NEW i \in 0..j
      PROVE  G[i] = IF i = 0 THEN s ELSE Apply(G[i-1], seq[i])
  <2>1. CASE i = j
    <3>1. G[i - 1] = F[j - 1]
      BY <1>3, <1>4, <2>1
    <3> QED BY <1>3, <2>1, <3>1
  <2>2. CASE i # j
    <3>1. i \in 0..(j - 1)
      BY <1>4, <2>2
    <3>2. F[i] = IF i = 0 THEN s ELSE Apply(F[i-1], seq[i])
      BY <1>5, <3>1 DEF Plays
    <3>3. i # 0 => G[i - 1] = F[i - 1]
      BY <1>4, <3>1
    <3> QED BY <2>2, <3>2, <3>3
  <2> QED BY <2>1, <2>2
<1>7. Plays(G, s, seq, j)
  <2>1. G = [i \in 0..j |-> G[i]]
    OBVIOUS
  <2>2. [i \in 0..j |-> G[i]] = [i \in 0..j |-> IF i = 0 THEN s ELSE Apply(G[i-1], seq[i])]
    BY <1>6
  <2> HIDE DEF G
  <2> QED BY <2>1, <2>2 DEF Plays
<1> QED BY <1>2, <1>7

\* What Result is.
LEMMA ResultIs ==
  ASSUME NEW s, NEW seq, Len(seq) \in Nat
  PROVE  \E F : Plays(F, s, seq, Len(seq)) /\ Result(s, seq) = F[Len(seq)]
<1> DEFINE F == CHOOSE F : F = [i \in 0..Len(seq) |-> IF i = 0 THEN s ELSE Apply(F[i-1], seq[i])]
<1>1. Plays(F, s, seq, Len(seq))
  BY PlayExists DEF Plays
<1>2. Result(s, seq) = F[Len(seq)]
  BY DEF Result
<1> QED BY <1>1, <1>2

\* After its first c stores q goes on as seq does.
Matches(q, c, seq, k) == \A i \in 1..k : q[c + i] = seq[i]

\* Two plays that begin alike go on alike.
LEMMA PlaysAgree ==
  ASSUME NEW s, NEW seq, NEW k \in Nat, NEW F, Plays(F, s, seq, k),
         NEW q, NEW m \in Nat, NEW G, NEW r, Plays(G, r, q, m),
         NEW c \in Nat, c + k <= m, G[c] = s, Matches(q, c, seq, k)
  PROVE  G[c + k] = F[k]
<1> DEFINE Differ == {i \in 0..k : G[c + i] # F[i]}
<1>1. SUFFICES ASSUME Differ # {}
               PROVE  FALSE
  OBVIOUS
<1>2. PICK i \in Differ : \A j \in Differ : i <= j
  <2>1. Differ \in SUBSET Nat
    OBVIOUS
  <2> HIDE DEF Differ
  <2> QED BY <1>1, <2>1, LeastNatural
<1>3. F[0] = s
  BY DEF Plays
<1>4. i # 0 /\ i \in 1..k
  BY <1>2, <1>3
<1>5. G[c + (i - 1)] = F[i - 1]
  BY <1>2, <1>4
<1>6. F[i] = Apply(F[i - 1], seq[i])
  BY <1>4 DEF Plays
<1>7. G[c + i] = Apply(G[c + i - 1], q[c + i])
  BY <1>4 DEF Plays
<1>8. c + i - 1 = c + (i - 1) /\ q[c + i] = seq[i]
  BY <1>4 DEF Matches
<1> QED BY <1>2, <1>5, <1>6, <1>7, <1>8

\* Sequences of something.
Listed(seq) == \E S : seq \in Seq(S)

\* Two of them make one.
LEMMA ListedCat ==
  ASSUME NEW p, NEW q, Listed(p), Listed(q)
  PROVE  Listed(p \o q)
<1>1. PICK S : p \in Seq(S)
  BY DEF Listed
<1>2. PICK T : q \in Seq(T)
  BY DEF Listed
<1>3. p \in Seq(S \cup T) /\ q \in Seq(S \cup T)
  BY <1>1, <1>2
<1>4. p \o q \in Seq(S \cup T)
  BY <1>3
<1> QED BY <1>4 DEF Listed

\* No stores change nothing.
LEMMA ResultEmpty ==
  ASSUME NEW s
  PROVE  Result(s, <<>>) = s
<1>1. Len(<<>>) = 0
  OBVIOUS
<1>2. PICK F : Plays(F, s, <<>>, 0) /\ Result(s, <<>>) = F[0]
  BY <1>1, ResultIs
<1> QED BY <1>2 DEF Plays

\* The first store, and then the others.
LEMMA ResultCons ==
  ASSUME NEW s, NEW seq, Listed(seq), seq # <<>>
  PROVE  Result(s, seq) = Result(Apply(s, Head(seq)), Tail(seq))
<1>1. PICK S : seq \in Seq(S)
  BY DEF Listed
<1>2. /\ Len(seq) \in Nat /\ Len(Tail(seq)) \in Nat /\ Len(seq) = 1 + Len(Tail(seq))
      /\ Head(seq) = seq[1] /\ \A i \in 1..Len(Tail(seq)) : seq[1 + i] = Tail(seq)[i]
  BY <1>1
<1>3. PICK G : Plays(G, s, seq, Len(seq)) /\ Result(s, seq) = G[Len(seq)]
  BY <1>2, ResultIs
<1> DEFINE r == Apply(s, Head(seq))
<1>4. PICK F : Plays(F, r, Tail(seq), Len(Tail(seq))) /\ Result(r, Tail(seq)) = F[Len(Tail(seq))]
  BY <1>2, ResultIs
<1>5. G[0] = s
  BY <1>2, <1>3 DEF Plays
<1>6. G[1] = r
  <2>1. G[1] = Apply(G[0], seq[1])
    BY <1>2, <1>3 DEF Plays
  <2> QED BY <1>2, <1>5, <2>1
<1> HIDE DEF r
<1>7. G[1 + Len(Tail(seq))] = F[Len(Tail(seq))]
  <2>1. Matches(seq, 1, Tail(seq), Len(Tail(seq)))
    BY <1>2 DEF Matches
  <2>2. 1 \in Nat /\ 1 + Len(Tail(seq)) <= Len(seq)
    BY <1>2
  <2> QED BY <1>2, <1>3, <1>4, <1>6, <2>1, <2>2, PlaysAgree
<1>8. Result(s, seq) = Result(r, Tail(seq))
  BY <1>2, <1>3, <1>4, <1>7
<1> QED BY <1>8 DEF r

\* Some stores, and then others.
LEMMA ResultCat ==
  ASSUME NEW s, NEW p, NEW q, Listed(p), Listed(q)
  PROVE  Result(s, p \o q) = Result(Result(s, p), q)
<1>1. PICK S : p \in Seq(S)
  BY DEF Listed
<1>2. PICK T : q \in Seq(T)
  BY DEF Listed
<1> DEFINE pq == p \o q
<1>3. p \in Seq(S \cup T) /\ q \in Seq(S \cup T)
  BY <1>1, <1>2
<1>4. /\ Len(p) \in Nat /\ Len(q) \in Nat /\ Len(pq) \in Nat /\ Len(pq) = Len(p) + Len(q)
      /\ \A i \in 1..Len(p) : pq[0 + i] = p[i]
      /\ \A i \in 1..Len(q) : pq[Len(p) + i] = q[i]
  BY <1>3
<1> HIDE DEF pq
<1>5. PICK G : Plays(G, s, pq, Len(pq)) /\ Result(s, pq) = G[Len(pq)]
  BY <1>4, ResultIs
<1>6. PICK F : Plays(F, s, p, Len(p)) /\ Result(s, p) = F[Len(p)]
  BY <1>4, ResultIs
<1>7. PICK E : Plays(E, Result(s, p), q, Len(q)) /\ Result(Result(s, p), q) = E[Len(q)]
  BY <1>4, ResultIs
<1>8. G[0] = s
  BY <1>4, <1>5 DEF Plays
<1>9. G[0 + Len(p)] = F[Len(p)]
  <2>1. 0 \in Nat /\ 0 + Len(p) <= Len(pq)
    BY <1>4
  <2>2. Matches(pq, 0, p, Len(p))
    BY <1>4 DEF Matches
  <2> QED BY <1>4, <1>5, <1>6, <1>8, <2>1, <2>2, PlaysAgree
<1>10. G[Len(p)] = Result(s, p)
  BY <1>4, <1>6, <1>9
<1>11. G[Len(p) + Len(q)] = E[Len(q)]
  <2>1. Len(p) + Len(q) <= Len(pq)
    BY <1>4
  <2>2. Matches(pq, Len(p), q, Len(q))
    BY <1>4 DEF Matches
  <2> QED BY <1>4, <1>5, <1>7, <1>10, <2>1, <2>2, PlaysAgree
<1>12. Result(s, pq) = Result(Result(s, p), q)
  BY <1>4, <1>5, <1>7, <1>11
<1> QED BY <1>12 DEF pq

\* One store.
LEMMA ResultOne ==
  ASSUME NEW s, NEW x
  PROVE  Listed(<<x>>) /\ Result(s, <<x>>) = Apply(s, x)
<1>1. <<x>> \in Seq({x}) /\ <<x>> # <<>> /\ Head(<<x>>) = x /\ Tail(<<x>>) = <<>>
  OBVIOUS
<1>2. Listed(<<x>>)
  BY <1>1 DEF Listed
<1> QED BY <1>1, <1>2, ResultCons, ResultEmpty

\* Two stores.
LEMMA ResultTwo ==
  ASSUME NEW s, NEW x, NEW y
  PROVE  Listed(<<x, y>>) /\ Result(s, <<x, y>>) = Apply(Apply(s, x), y)
<1>1. <<x, y>> \in Seq({x, y}) /\ <<x, y>> # <<>> /\ Head(<<x, y>>) = x /\ Tail(<<x, y>>) = <<y>>
  OBVIOUS
<1>2. Listed(<<x, y>>)
  BY <1>1 DEF Listed
<1> QED BY <1>1, <1>2, ResultCons, ResultOne

\* Three stores.
LEMMA ResultThree ==
  ASSUME NEW s, NEW x, NEW y, NEW z
  PROVE  /\ Listed(<<x, y, z>>)
         /\ Result(s, <<x, y, z>>) = Apply(Apply(Apply(s, x), y), z)
<1>1. /\ <<x, y, z>> \in Seq({x, y, z}) /\ <<x, y, z>> # <<>> /\ Head(<<x, y, z>>) = x
      /\ Tail(<<x, y, z>>) = <<y, z>>
  OBVIOUS
<1>2. Listed(<<x, y, z>>)
  BY <1>1 DEF Listed
<1>3. Result(s, <<x, y, z>>) = Result(Apply(s, x), <<y, z>>)
  BY <1>1, <1>2, ResultCons
<1> QED BY <1>2, <1>3, ResultTwo

\* Stores made on a condition.
LEMMA ResultWhen ==
  ASSUME NEW s, NEW c \in BOOLEAN, NEW seq, Listed(seq)
  PROVE  Listed(When(c, seq)) /\ Result(s, When(c, seq)) = IF c THEN Result(s, seq) ELSE s
<1>1. <<>> \in Seq({})
  OBVIOUS
<1> QED BY <1>1, ResultEmpty DEF When, Listed

\* A store to a child pointer does what SetKid does.
LEMMA ApplyKid ==
  ASSUME NEW s, NEW n, NEW d, NEW m
  PROVE  Apply(s, Kid(n, d, m)) = SetKid(s, n, d, m)
BY DEF Apply, Kid

\* One to the parent and color, what SetParentColor does.
LEMMA ApplyPar ==
  ASSUME NEW s, NEW n, NEW p, NEW c
  PROVE  Apply(s, Par(n, p, c)) = SetParentColor(s, n, p, c)
BY DEF Apply, Par

\* rb_link_node clears the children and sets a red node below its parent.
LEMMA ApplyLeaf ==
  ASSUME NEW s, NEW n, NEW p
  PROVE  Apply(s, Leaf(n, p)) = SetParentColor([s EXCEPT !.kid[n] = NoKids], n, p, "red")
BY DEF Apply, Leaf

\* A store to the root pointer.
LEMMA ApplyRoot ==
  ASSUME NEW s, NEW n
  PROVE  Apply(s, Root(n)) = [s EXCEPT !.root = n]
BY DEF Apply, Root

\* The store of kmem_cache_free, after which nothing of the node counts.
LEMMA ApplyFree ==
  ASSUME NEW s, NEW n
  PROVE  Apply(s, Free(n)) = Freed(s, n)
BY DEF Apply, Free
-----------------------------------------------------------------------------
(***************************************************************************)
(* Runs of stores.                                                         *)
(***************************************************************************)
\* The stores to nodes of H that leave no pointer but to a node of H.
Marks(H) ==
  [do : {"kid"}, node : H, dir : Dirs, to : H \cup {NULL}]
    \cup [do : {"par"}, node : H, to : H \cup {NULL}, col : {"red", "black"}]
    \cup [do : {"root"}, to : H \cup {NULL}]

\* The stores seq, all of them to nodes of H, make r of s.
Run(seq, s, r, H) == seq \in Seq(Marks(H)) /\ Result(s, seq) = r

\* Which stores are such.
LEMMA MarksAre ==
  ASSUME NEW H, NEW p \in H \cup {NULL}
  PROVE  /\ Root(p) \in Marks(H)
         /\ \A n \in H, d \in Dirs : Kid(n, d, p) \in Marks(H)
         /\ \A n \in H, c \in {"red", "black"} : Par(n, p, c) \in Marks(H)
<1>1. Root(p) \in Marks(H)
  BY DEF Marks, Root
<1>2. ASSUME NEW n \in H, NEW d \in Dirs
      PROVE  Kid(n, d, p) \in Marks(H)
  BY DEF Marks, Kid
<1>3. ASSUME NEW n \in H, NEW c \in {"red", "black"}
      PROVE  Par(n, p, c) \in Marks(H)
  BY DEF Marks, Par
<1> QED BY <1>1, <1>2, <1>3

\* One run after the other.
LEMMA RunCat ==
  ASSUME NEW H, NEW s, NEW r, NEW u, NEW p, NEW q, Run(p, s, r, H), Run(q, r, u, H)
  PROVE  Run(p \o q, s, u, H)
<1>1. p \in Seq(Marks(H)) /\ q \in Seq(Marks(H))
  BY DEF Run
<1>2. Listed(p) /\ Listed(q)
  BY <1>1 DEF Listed
<1>3. p \o q \in Seq(Marks(H))
  <2> DEFINE M == Marks(H)
  <2>1. p \in Seq(M) /\ q \in Seq(M)
    BY <1>1
  <2> HIDE DEF M
  <2>2. p \o q \in Seq(M)
    BY <2>1
  <2> QED BY <2>2 DEF M
<1>4. Result(s, p \o q) = u
  BY <1>2, ResultCat DEF Run
<1> QED BY <1>3, <1>4 DEF Run

\* No store is a run.
LEMMA RunNone ==
  ASSUME NEW H, NEW s
  PROVE  Run(<<>>, s, s, H)
<1>1. <<>> \in Seq(Marks(H))
  OBVIOUS
<1> QED BY <1>1, ResultEmpty DEF Run

\* One mark is a run.
LEMMA RunOne ==
  ASSUME NEW H, NEW s, NEW x \in Marks(H)
  PROVE  Run(<<x>>, s, Apply(s, x), H)
<1> DEFINE M == Marks(H)
<1>1. <<x>> \in Seq(M)
  <2>1. x \in M
    OBVIOUS
  <2> HIDE DEF M
  <2> QED BY <2>1
<1> QED BY <1>1, ResultOne DEF Run

\* Two marks are a run.
LEMMA RunTwo ==
  ASSUME NEW H, NEW s, NEW x \in Marks(H), NEW y \in Marks(H)
  PROVE  Run(<<x, y>>, s, Apply(Apply(s, x), y), H)
<1> DEFINE M == Marks(H)
<1>1. <<x, y>> \in Seq(M)
  <2>1. x \in M /\ y \in M
    OBVIOUS
  <2> HIDE DEF M
  <2> QED BY <2>1
<1> QED BY <1>1, ResultTwo DEF Run

\* Three marks are a run.
LEMMA RunThree ==
  ASSUME NEW H, NEW s, NEW x \in Marks(H), NEW y \in Marks(H), NEW z \in Marks(H)
  PROVE  Run(<<x, y, z>>, s, Apply(Apply(Apply(s, x), y), z), H)
<1> DEFINE M == Marks(H)
<1>1. <<x, y, z>> \in Seq(M)
  <2>1. x \in M /\ y \in M /\ z \in M
    OBVIOUS
  <2> HIDE DEF M
  <2> QED BY <2>1
<1> QED BY <1>1, ResultThree DEF Run

\* A run on a condition.
LEMMA RunWhen ==
  ASSUME NEW H, NEW c \in BOOLEAN, NEW seq, NEW s, NEW r, c => Run(seq, s, r, H)
  PROVE  Run(When(c, seq), s, IF c THEN r ELSE s, H)
<1>1. CASE c
  BY <1>1 DEF When
<1>2. CASE ~c
  <2>1. When(c, seq) = <<>>
    BY <1>2 DEF When
  <2>2. <<>> \in Seq(Marks(H))
    OBVIOUS
  <2> QED BY <1>2, <2>1, <2>2, ResultEmpty DEF Run
<1> QED BY <1>1, <1>2

\* rb_set_parent_color of a child, if there is one.
LEMMA RunBlackened ==
  ASSUME NEW H, NEW s, NEW n \in H \cup {NULL}, NEW p \in H \cup {NULL}
  PROVE  Run(Blackened(n, p), s, AdoptBlack(s, n, p), H)
<1>1. ASSUME n # NULL
      PROVE  Run(<<Par(n, p, "black")>>, s, SetParentColor(s, n, p, "black"), H)
  <2>1. Par(n, p, "black") \in Marks(H)
    BY <1>1, MarksAre
  <2> QED BY <2>1, RunOne, ApplyPar
<1>2. Run(When(n # NULL, <<Par(n, p, "black")>>), s,
          IF n # NULL THEN SetParentColor(s, n, p, "black") ELSE s, H)
  BY <1>1, RunWhen
<1>3. AdoptBlack(s, n, p) = IF n # NULL THEN SetParentColor(s, n, p, "black") ELSE s
  BY DEF AdoptBlack
<1> QED BY <1>2, <1>3 DEF Blackened

\* A store that leaves the color as it is is one to the parent.
LEMMA SameColor ==
  ASSUME NEW s \in Trees, NEW n \in Nodes, NEW p \in Maybe
  PROVE  SetParentColor(s, n, p, s.col[n]) = SetParent(s, n, p)
<1> DEFINE a == SetParentColor(s, n, p, s.col[n])
           b == SetParent(s, n, p)
<1>1. s.col[n] \in {"red", "black"}
  BY DEF Trees
<1>2. ParentColorIs(a, s, n, p, s.col[n])
  BY <1>1, SetParentColorIs
<1>3. ParentIs(b, s, n, p)
  BY SetParentIs
<1> HIDE DEF a, b
<1>4. a \in Trees /\ b \in Trees /\ a.kid = b.kid /\ a.root = b.root
  BY <1>2, <1>3 DEF ParentColorIs, ParentIs
<1>5. a.par = b.par
  <2>1. a.par \in [Nodes -> Maybe] /\ b.par \in [Nodes -> Maybe]
    BY <1>4 DEF Trees
  <2>2. \A k \in Nodes : a.par[k] = b.par[k]
    BY <1>2, <1>3 DEF ParentColorIs, ParentIs
  <2> QED BY <2>1, <2>2
<1>6. a.col = b.col
  <2>1. a.col \in [Nodes -> {"red", "black"}] /\ b.col \in [Nodes -> {"red", "black"}]
    BY <1>4 DEF Trees
  <2>2. \A k \in Nodes : a.col[k] = b.col[k]
    BY <1>2, <1>3 DEF ParentColorIs, ParentIs
  <2> QED BY <2>1, <2>2
<1>7. a = b
  BY SMTT(30), <1>4, <1>5, <1>6 DEF Trees
<1> QED BY <1>7 DEF a, b

\* rb_set_parent of a child, if there is one.
LEMMA RunMoved ==
  ASSUME NEW H \in SUBSET Nodes, NEW s \in Trees, NEW n \in H \cup {NULL},
         NEW p \in H \cup {NULL}, n # NULL => s.col[n] = t.col[n]
  PROVE  Run(Moved(n, p), s, IF n = NULL THEN s ELSE SetParent(s, n, p), H)
<1>1. ASSUME n # NULL
      PROVE  Run(<<Par(n, p, t.col[n])>>, s, SetParent(s, n, p), H)
  <2>1. n \in H /\ n \in Nodes /\ p \in Maybe /\ s.col[n] \in {"red", "black"}
    BY <1>1 DEF Trees, Maybe
  <2>2. Par(n, p, t.col[n]) \in Marks(H)
    BY <1>1, <2>1, MarksAre
  <2>3. Apply(s, Par(n, p, t.col[n])) = SetParent(s, n, p)
    BY <1>1, <2>1, ApplyPar, SameColor
  <2> QED BY <2>2, <2>3, RunOne
<1>2. Run(When(n # NULL, <<Par(n, p, t.col[n])>>), s,
          IF n # NULL THEN SetParent(s, n, p) ELSE s, H)
  BY <1>1, RunWhen
<1> QED BY <1>2 DEF Moved

\* What s says of k and of the parent of k is what t says.
Faithful(s, k) ==
  /\ s \in Trees /\ s.par[k] = t.par[k] /\ s.col[k] = t.col[k]
  /\ t.par[k] # NULL => \A e \in Dirs : s.kid[t.par[k]][e] = t.kid[t.par[k]][e]

\* It remains so when a child pointer of another node is stored.
LEMMA FaithfulKid ==
  ASSUME NEW s, NEW k \in Nodes, Faithful(s, k), t \in Trees, NEW n \in Nodes \ {t.par[k]},
         NEW d \in Dirs, NEW m \in Maybe
  PROVE  Faithful(SetKid(s, n, d, m), k)
<1>1. KidIs(SetKid(s, n, d, m), s, n, d, m)
  BY SetKidIs DEF Faithful
<1>2. t.par[k] # NULL => t.par[k] \in Nodes
  BY DEF Trees, Maybe
<1> QED BY <1>1, <1>2 DEF Faithful, KidIs

\* It does when the parent of another node is stored.
LEMMA FaithfulParent ==
  ASSUME NEW s, NEW k \in Nodes, Faithful(s, k), NEW n \in Nodes \ {k}, NEW p \in Maybe
  PROVE  /\ \A c \in {"red", "black"} : Faithful(SetParentColor(s, n, p, c), k)
         /\ Faithful(SetParent(s, n, p), k)
<1>1. ASSUME NEW c \in {"red", "black"}
      PROVE  Faithful(SetParentColor(s, n, p, c), k)
  <2>1. ParentColorIs(SetParentColor(s, n, p, c), s, n, p, c)
    BY SetParentColorIs DEF Faithful
  <2> QED BY <2>1 DEF Faithful, ParentColorIs
<1>2. Faithful(SetParent(s, n, p), k)
  <2>1. ParentIs(SetParent(s, n, p), s, n, p)
    BY SetParentIs DEF Faithful
  <2> QED BY <2>1 DEF Faithful, ParentIs
<1> QED BY <1>1, <1>2

\* It does when the parent of a child, if there is one, is stored.
LEMMA FaithfulAdopt ==
  ASSUME NEW s, NEW k \in Nodes, Faithful(s, k), NEW n \in Maybe \ {k}, NEW p \in Maybe
  PROVE  Faithful(AdoptBlack(s, n, p), k)
<1>1. CASE n = NULL
  BY <1>1 DEF AdoptBlack
<1>2. CASE n # NULL
  BY <1>2, FaithfulParent DEF AdoptBlack, Maybe
<1> QED BY <1>1, <1>2

\* __rb_change_child
LEMMA RunChild ==
  ASSUME NEW H \in SUBSET Nodes, NEW s, NEW old, NEW by \in H \cup {NULL},
         NEW p \in H \cup {NULL},
         p # NULL => s.kid[p]["left"] = t.kid[p]["left"]
  PROVE  Child(old, by, p) \in Marks(H) /\ Apply(s, Child(old, by, p)) = ChangeChild(s, old, by, p)
<1>1. CASE p = NULL
  BY <1>1, MarksAre, ApplyRoot DEF Child, ChangeChild
<1>2. CASE p # NULL
  <2>1. p \in H
    BY <1>2
  <2>2. \A d \in Dirs : Kid(p, d, by) \in Marks(H)
    BY <2>1, MarksAre
  <2>3. Child(old, by, p) = Kid(p, IF t.kid[p]["left"] = old THEN "left" ELSE "right", by)
    BY <1>2 DEF Child
  <2>4. ChangeChild(s, old, by, p) = SetKid(s, p, IF t.kid[p]["left"] = old THEN "left" ELSE "right", by)
    BY <1>2 DEF ChangeChild
  <2> QED BY <2>2, <2>3, <2>4, OppIs, ApplyKid
<1> QED BY <1>1, <1>2

\* __rb_rotate_set_parents
LEMMA RunSwapped ==
  ASSUME NEW H \in SUBSET Nodes, NEW s, NEW old \in H, NEW by \in H, Faithful(s, old),
         t.par[old] \in H \cup {NULL}, NEW c \in {"red", "black"}
  PROVE  Run(Swapped(old, by, c), s, RotateSetParents(s, old, by, c), H)
<1> DEFINE p == t.par[old]
           s1 == SetParentColor(s, by, p, t.col[old])
           s2 == SetParentColor(s1, old, by, c)
<1>1. p \in Maybe /\ by \in Maybe /\ t.col[old] \in {"red", "black"} /\ s \in Trees
  BY DEF Faithful, Trees, Maybe
<1>2. ParentColorIs(s1, s, by, p, t.col[old])
  BY <1>1, SetParentColorIs
<1>3. s1.kid = s.kid /\ s1 \in Trees
  BY <1>2 DEF ParentColorIs
<1>4. RotateSetParents(s, old, by, c) = ChangeChild(s2, old, by, p)
  BY DEF RotateSetParents, SetParentColor, Faithful
<1> HIDE DEF s1
<1>5. s2.kid = s.kid
  <2>1. old \in Nodes
    OBVIOUS
  <2>2. ParentColorIs(s2, s1, old, by, c)
    BY <1>1, <1>3, <2>1, SetParentColorIs
  <2> QED BY <1>3, <2>2 DEF ParentColorIs
<1>6. Child(old, by, p) \in Marks(H) /\ Apply(s2, Child(old, by, p)) = ChangeChild(s2, old, by, p)
  <2>1. p # NULL => s2.kid[p]["left"] = t.kid[p]["left"]
    BY <1>5, OppIs DEF Faithful
  <2> HIDE DEF s2, p
  <2>2. p \in H \cup {NULL} /\ by \in H \cup {NULL}
    BY DEF p
  <2> QED BY <2>1, <2>2, RunChild
<1>7. Apply(Apply(s, Par(by, p, t.col[old])), Par(old, by, c)) = s2
  BY ApplyPar DEF s1
<1>8. Par(by, p, t.col[old]) \in Marks(H) /\ Par(old, by, c) \in Marks(H)
  <2>1. by \in H \cup {NULL} /\ p \in H \cup {NULL}
    OBVIOUS
  <2> QED BY <1>1, <2>1, MarksAre
<1>9. Swapped(old, by, c) = <<Par(by, p, t.col[old]), Par(old, by, c), Child(old, by, p)>>
  BY DEF Swapped
<1> HIDE DEF s2, p
<1> QED BY <1>4, <1>6, <1>7, <1>8, <1>9, RunThree
-----------------------------------------------------------------------------
(***************************************************************************)
(* The bursts of an insert.                                                *)
(***************************************************************************)
\* A black root.
LEMMA DoneRuns ==
  ASSUME IInv, InsertDone
  PROVE  Run(InsertDoneStores, t, t', Held)
<1>1. PICK b \in Families, h \in Heights : Inv(b, h)
  BY DEF IInv
<1>2. pc = "fixinsert" /\ node \in Held
  BY <1>1 DEF InsertDone, Inv, Locals
<1>3. Run(<<Par(node, NULL, "black")>>, t, SetParentColor(t, node, NULL, "black"), Held)
  <2>1. Par(node, NULL, "black") \in Marks(Held)
    BY <1>2, MarksAre
  <2> QED BY <2>1, RunOne, ApplyPar
<1>4. Run(InsertDoneStores, t, IF parent = NULL THEN SetParentColor(t, node, NULL, "black") ELSE t, Held)
  BY <1>3, RunWhen DEF InsertDoneStores
<1> QED BY <1>4 DEF InsertDone

\* Case 1.
LEMMA FlipRuns ==
  ASSUME IInv, InsertFlip
  PROVE  Run(InsertFlipStores, t, t', Held)
<1>1. PICK b \in Families, h \in Heights : Inv(b, h)
  BY DEF IInv
<1> DEFINE g == Grandparent
           u == Uncle
           q == t.par[g]
<1>2. pc = "fixinsert" /\ Red(parent) /\ Red(u) /\ t' = Flip(t, g, parent, u)
  BY DEF InsertFlip
<1>3. InsertScene(g, Side(g, parent)) /\ NULL \notin Nodes
  BY <1>1, <1>2, InsertSceneIs
<1>4. g \in Held /\ parent \in Held /\ u \in Held /\ q \in Held \cup {NULL}
  <2>1. t \in Trees /\ Shape(t, Held, b)
    BY <1>1, HeldIsShaped
  <2>2. g \in Held /\ parent \in Held /\ Side(g, parent) \in Dirs
    BY <1>3 DEF InsertScene
  <2>3. u = t.kid[g][Opp(Side(g, parent))] /\ u # NULL
    BY <1>2 DEF Uncle, Red
  <2> HIDE DEF g, u
  <2> QED BY <2>1, <2>2, <2>3, OppIs DEF Shape, Paired
<1>5. Par(u, g, "black") \in Marks(Held) /\ Par(parent, g, "black") \in Marks(Held)
        /\ Par(g, q, "red") \in Marks(Held)
  <2>1. g \in Held \cup {NULL}
    BY <1>4
  <2> HIDE DEF g, u, q
  <2> QED BY <1>4, <2>1, MarksAre
<1>6. Flip(t, g, parent, u)
        = Apply(Apply(Apply(t, Par(u, g, "black")), Par(parent, g, "black")), Par(g, q, "red"))
  BY ApplyPar DEF Flip
<1>7. InsertFlipStores = <<Par(u, g, "black"), Par(parent, g, "black"), Par(g, q, "red")>>
  BY DEF InsertFlipStores
<1> HIDE DEF g, u, q
<1> QED BY <1>2, <1>5, <1>6, <1>7, RunThree

\* Case 3 when the stores z have made s, where only p and what it takes along may have
\* moved.
LEMMA RotationRuns ==
  ASSUME NEW H \in SUBSET Nodes, NEW r, NEW s, NEW z, Run(z, r, s, H),
         NEW g \in H, Faithful(s, g), t \in Trees, NULL \notin Nodes,
         NEW p \in H, NEW d \in Dirs, NEW tmp \in H \cup {NULL}, tmp # g,
         t.par[g] \in (H \cup {NULL}) \ {g, p}, s.kid[p][Opp(d)] = tmp
  PROVE  Run(z \o <<Kid(g, d, tmp), Kid(p, Opp(d), g)>> \o Blackened(tmp, g) \o Swapped(g, p, "red"),
             r, RotateAtGrandparent(s, g, p, d), H)
<1> DEFINE s0 == SetKid(s, g, d, tmp)
           s1 == SetKid(s0, p, Opp(d), g)
           s2 == AdoptBlack(s1, tmp, g)
<1>1. /\ p \in Nodes \ {t.par[g]} /\ g \in Nodes \ {t.par[g]} /\ tmp \in Maybe \ {g}
      /\ g \in Maybe /\ Opp(d) \in Dirs /\ g \in H \cup {NULL}
  BY OppIs DEF Maybe
<1>2. Faithful(s0, g)
  BY <1>1, FaithfulKid
<1>3. Faithful(s1, g)
  <2> HIDE DEF s0
  <2> QED BY <1>1, <1>2, FaithfulKid
<1>4. Faithful(s2, g)
  <2> HIDE DEF s1
  <2> QED BY <1>1, <1>3, FaithfulAdopt
<1>5. Run(<<Kid(g, d, tmp), Kid(p, Opp(d), g)>>, s, s1, H)
  <2>1. Kid(g, d, tmp) \in Marks(H) /\ Kid(p, Opp(d), g) \in Marks(H)
    BY <1>1, MarksAre
  <2>2. Apply(Apply(s, Kid(g, d, tmp)), Kid(p, Opp(d), g)) = s1
    BY ApplyKid
  <2> HIDE DEF s1
  <2> QED BY <2>1, <2>2, RunTwo
<1>6. Run(Blackened(tmp, g), s1, s2, H)
  <2> HIDE DEF s1
  <2> QED BY <1>1, RunBlackened
<1>7. RotateAtGrandparent(s, g, p, d) = RotateSetParents(s2, g, p, "red")
  BY DEF RotateAtGrandparent
<1> HIDE DEF s1, s2
<1>8. Run(Swapped(g, p, "red"), s2, RotateAtGrandparent(s, g, p, d), H)
  BY <1>4, <1>7, RunSwapped
<1>9. Run(z \o <<Kid(g, d, tmp), Kid(p, Opp(d), g)>>, r, s1, H)
  BY <1>5, RunCat
<1>10. Run(z \o <<Kid(g, d, tmp), Kid(p, Opp(d), g)>> \o Blackened(tmp, g), r, s2, H)
  BY <1>6, <1>9, RunCat
<1> QED BY <1>8, <1>10, RunCat

\* Case 2 is a run of stores and leaves g as it was, and the outer child of n.
TurnMakes(H, g, p, n, d) ==
  LET near == t.kid[n][d]
      s == RotateAtParent(t, p, n, d)
  IN /\ Run(<<Kid(p, Opp(d), near), Kid(n, d, p)>> \o Blackened(near, p)
              \o <<Par(p, n, "red")>>, t, s, H)
     /\ Faithful(s, g) /\ s.kid[n][Opp(d)] = t.kid[n][Opp(d)]

\* The stores of the rotation at the parent make the tree TurnMakes speaks of.
LEMMA TurnRuns ==
  ASSUME NEW H \in SUBSET Nodes, NEW b \in [Nodes -> SUBSET Nodes], t \in Trees, Shape(t, H, b),
         NEW g \in H, NEW d \in Dirs, NEW p, NEW n,
         p = t.kid[g][d], p # NULL, n = t.kid[p][Opp(d)], n # NULL
  PROVE  TurnMakes(H, g, p, n, d)
<1> DEFINE near == t.kid[n][d]
           s0 == SetKid(t, p, Opp(d), near)
           s1 == SetKid(s0, n, d, p)
           s2 == AdoptBlack(s1, near, p)
           s3 == SetParentColor(s2, p, n, "red")
<1>1. Apart(t, H, g, p, n, d)
  BY Zenon, InnerChild
<1>2. /\ g \in H /\ p \in H /\ n \in H /\ g # p /\ g # n /\ p # n
      /\ t.par[g] \notin {g, p, n}
      /\ near # NULL => near \in H /\ near \notin {g, p, n}
  BY ZenonT(40), <1>1 DEF Apart
<1>3. /\ Opp(d) \in Dirs /\ Opp(d) # d /\ "red" \in {"red", "black"} /\ g \in Nodes
      /\ near \in H \cup {NULL} /\ near \in Maybe \ {g} /\ p \in Maybe /\ n \in Maybe
      /\ p \in Nodes \ {t.par[g]} /\ n \in Nodes \ {t.par[g]} /\ p \in Nodes \ {g}
      /\ p \in H \cup {NULL} /\ n \in H \cup {NULL}
  <2>1. g \in Nodes /\ NULL \notin Nodes
    BY NodesAssumption
  <2> QED BY <1>2, <2>1, OppIs DEF Maybe
<1> HIDE DEF near
<1>4. Faithful(t, g)
  BY DEF Faithful
<1>5. Faithful(s0, g) /\ KidIs(s0, t, p, Opp(d), near)
  BY <1>3, <1>4, FaithfulKid, SetKidIs
<1>6. Faithful(s1, g) /\ KidIs(s1, s0, n, d, p)
  <2>1. s0 \in Trees
    BY <1>5 DEF Faithful
  <2> HIDE DEF s0
  <2> QED BY SMTT(30), <1>3, <1>5, <2>1, FaithfulKid, SetKidIs
<1>7. Faithful(s2, g) /\ ParentColorIs(s2, s1, near, p, "black")
  <2>1. s1 \in Trees
    BY ZenonT(40), <1>6 DEF Faithful
  <2> HIDE DEF s1
  <2> QED BY <1>3, <1>6, <2>1, FaithfulAdopt, AdoptBlackIs
<1>8. Faithful(s3, g) /\ ParentColorIs(s3, s2, p, n, "red")
  <2>1. s2 \in Trees
    BY Zenon, <1>7 DEF Faithful
  <2> HIDE DEF s2
  <2>2. ParentColorIs(s3, s2, p, n, "red")
    BY SMTT(30), <1>3, <2>1, SetParentColorIs
  <2> QED BY <1>3, <1>7, <2>2, FaithfulParent
<1>9. s3.kid[n][Opp(d)] = t.kid[n][Opp(d)]
  <2>1. s3.kid = s1.kid
    BY Zenon, <1>7, <1>8 DEF ParentColorIs
  <2>2. s1.kid[n][Opp(d)] = s0.kid[n][Opp(d)]
    BY ZenonT(40), <1>3, <1>6 DEF KidIs
  <2>3. s0.kid[n][Opp(d)] = t.kid[n][Opp(d)]
    BY <1>2, <1>3, <1>5 DEF KidIs
  <2> QED BY <2>1, <2>2, <2>3
<1>10. Run(<<Kid(p, Opp(d), near), Kid(n, d, p)>>, t, s1, H)
  <2>1. Kid(p, Opp(d), near) \in Marks(H) /\ Kid(n, d, p) \in Marks(H)
    BY <1>2, <1>3, MarksAre
  <2>2. Apply(Apply(t, Kid(p, Opp(d), near)), Kid(n, d, p)) = s1
    BY ApplyKid
  <2> HIDE DEF s1
  <2> QED BY <2>1, <2>2, RunTwo
<1>11. Run(Blackened(near, p), s1, s2, H)
  <2> HIDE DEF s1
  <2> QED BY <1>3, RunBlackened
<1>12. Run(<<Par(p, n, "red")>>, s2, s3, H)
  <2>1. Par(p, n, "red") \in Marks(H)
    BY <1>2, <1>3, MarksAre
  <2> HIDE DEF s2
  <2> QED BY <2>1, RunOne, ApplyPar
<1>13. s3 = RotateAtParent(t, p, n, d)
  BY DEF RotateAtParent, near
<1> HIDE DEF s1, s2, s3
<1>14. Run(<<Kid(p, Opp(d), near), Kid(n, d, p)>> \o Blackened(near, p), t, s2, H)
  BY <1>10, <1>11, RunCat
<1>15. Run(<<Kid(p, Opp(d), near), Kid(n, d, p)>> \o Blackened(near, p) \o <<Par(p, n, "red")>>,
           t, s3, H)
  BY <1>12, <1>14, RunCat
<1> QED BY Zenon, <1>8, <1>9, <1>13, <1>15 DEF near, TurnMakes

\* Case 2, if need be, and case 3.
LEMMA RotateRuns ==
  ASSUME IInv, InsertRotate
  PROVE  Run(InsertRotateStores, t, t', Held)
<1>1. PICK b \in Families, h \in Heights : Inv(b, h)
  BY DEF IInv
<1> DEFINE g == Grandparent
           d == Side(g, parent)
           inner == node = t.kid[parent][Opp(d)]
           p == IF inner THEN node ELSE parent
           near == t.kid[node][d]
           tmp == t.kid[p][Opp(d)]
           turn == <<Kid(parent, Opp(d), near), Kid(node, d, parent)>>
                     \o Blackened(near, parent) \o <<Par(parent, node, "red")>>
           s == IF inner THEN RotateAtParent(t, parent, node, d) ELSE t
<1>2. /\ pc = "fixinsert" /\ Red(parent) /\ t' = RotateAtGrandparent(s, g, p, d)
  BY DEF InsertRotate
<1>3. InsertScene(g, d) /\ NULL \notin Nodes
  BY <1>1, <1>2, InsertSceneIs
<1>4. t \in Trees /\ Shape(t, Held, b) /\ Held \in SUBSET Nodes /\ b \in [Nodes -> SUBSET Nodes]
  BY <1>1, HeldIsShaped
<1>5. /\ g \in Held /\ parent \in Held /\ node \in Held /\ d \in Dirs /\ parent = t.kid[g][d]
      /\ g # parent /\ node # parent /\ node # g /\ parent # NULL /\ node # NULL
  BY <1>3, <1>4 DEF InsertScene
<1>6. InsertRotateStores
        = When(inner, turn) \o <<Kid(g, d, tmp), Kid(p, Opp(d), g)>> \o Blackened(tmp, g)
               \o Swapped(g, p, "red")
  BY DEF InsertRotateStores
<1>7. /\ inner \in BOOLEAN /\ (inner => node = t.kid[parent][Opp(d)])
      /\ p = (IF inner THEN node ELSE parent)
  OBVIOUS
<1> HIDE DEF g, d
<1>8. Opp(d) \in Dirs /\ Opp(d) # d
  BY <1>5, OppIs
<1>9. CASE inner
  <2>1. Run(turn, t, s, Held) /\ Faithful(s, g) /\ s.kid[p][Opp(d)] = tmp
    <3>1. node = t.kid[parent][Opp(d)]
      BY <1>9
    <3>2. /\ Run(turn, t, RotateAtParent(t, parent, node, d), Held)
          /\ Faithful(RotateAtParent(t, parent, node, d), g)
          /\ RotateAtParent(t, parent, node, d).kid[node][Opp(d)] = t.kid[node][Opp(d)]
      <4>1. TurnMakes(Held, g, parent, node, d)
        BY <1>4, <1>5, <3>1, TurnRuns
      <4> QED BY <4>1 DEF TurnMakes
    <3> HIDE DEF turn, inner
    <3> QED BY <1>9, <3>2
  <2>2. When(inner, turn) = turn
    BY <1>9 DEF When
  <2>3. Apart(t, Held, g, parent, node, d)
    BY <1>4, <1>5, <1>9, InnerChild
  <2>4. tmp = t.kid[node][Opp(d)] /\ p = node
    BY <1>9
  <2>5. tmp \in Held \cup {NULL} /\ tmp # g /\ t.par[g] \notin {g, p}
    <3> HIDE DEF tmp, p
    <3>1. t.par[g] \notin {g, node} /\ (tmp # NULL => tmp \in Held /\ tmp # g)
      BY <2>3, <2>4 DEF Apart
    <3>2. g # NULL
      BY <1>3, <1>4, <1>5
    <3> QED BY <2>4, <3>1, <3>2
  <2>6. t.par[g] \in Held \cup {NULL}
    BY <1>4, <1>5 DEF Shape, Paired
  <2> HIDE DEF turn, inner, s, tmp, p
  <2>7. Run(When(inner, turn), t, s, Held)
    BY <2>1, <2>2
  <2>8. t.par[g] \in (Held \cup {NULL}) \ {g, p} /\ p \in Held
    BY <1>5, <2>4, <2>5, <2>6
  <2> QED BY <1>2, <1>3, <1>4, <1>5, <1>6, <2>1, <2>5, <2>7, <2>8, RotationRuns
<1>10. CASE ~inner
  <2>1. s = t /\ p = parent /\ tmp = t.kid[parent][Opp(d)]
    BY <1>10
  <2>2. Run(When(inner, turn), t, t, Held)
    <3>1. When(inner, turn) = <<>>
      BY <1>10 DEF When
    <3> QED BY <3>1, RunNone
  <2>3. Faithful(t, g)
    BY <1>4 DEF Faithful
  <2>4. tmp \in Held \cup {NULL} /\ tmp # g /\ t.par[g] \in (Held \cup {NULL}) \ {g, parent}
    <3>1. ChildOf(t, Held, b, g, d, parent) /\ ChildOf(t, Held, b, parent, Opp(d), tmp)
      BY SMTT(30), <1>4, <1>5, <1>8, <2>1, ChildIs
    <3>2. t.par[g] # parent /\ t.par[parent] = g
      BY Zenon, <1>5, <3>1 DEF ChildOf
    <3>3. tmp # NULL => tmp \in Held /\ t.par[parent] # tmp
      BY <3>1 DEF ChildOf
    <3>4. t.par[g] # g
      BY <1>4, <1>5, Hangs
    <3>5. t.par[g] \in Held \cup {NULL}
      BY <1>4, <1>5 DEF Shape, Paired
    <3> HIDE DEF tmp
    <3> QED BY <1>3, <1>4, <1>5, <3>2, <3>3, <3>4, <3>5
  <2> HIDE DEF turn, inner, s, tmp, p
  <2> QED BY Zenon, <1>2, <1>3, <1>4, <1>5, <1>6, <2>1, <2>2, <2>3, <2>4, RotationRuns
<1> QED BY <1>9, <1>10

\* rb_link_node.
LEMMA LinkRuns ==
  ASSUME Link
  PROVE  Result(t, LinkStores) = t'
<1> DEFINE leaf == [t EXCEPT !.kid[new] = NoKids, !.par[new] = parent, !.col[new] = "red"]
<1>1. t' = IF parent = NULL THEN [leaf EXCEPT !.root = new]
           ELSE SetKid(leaf, parent, IF new < parent THEN "left" ELSE "right", new)
  BY DEF Link
<1>2. Apply(t, Leaf(new, parent)) = leaf
  <2>1. Apply(t, Leaf(new, parent)) = SetParentColor([t EXCEPT !.kid[new] = NoKids], new, parent, "red")
    BY ApplyLeaf
  <2>2. SetParentColor([t EXCEPT !.kid[new] = NoKids], new, parent, "red") = leaf
    BY DEF SetParentColor
  <2> QED BY <2>1, <2>2
<1>3. Result(t, LinkStores) = Apply(Apply(t, Leaf(new, parent)), Hang(new, parent))
  BY ResultTwo DEF LinkStores
<1> HIDE DEF leaf
<1>4. CASE parent = NULL
  BY <1>1, <1>2, <1>3, <1>4, ApplyRoot DEF Hang
<1>5. CASE parent # NULL
  BY <1>1, <1>2, <1>3, <1>5, ApplyKid DEF Hang
<1> QED BY <1>4, <1>5
-----------------------------------------------------------------------------
(***************************************************************************)
(* The bursts of an erase.                                                 *)
(***************************************************************************)
\* The stores seq make the tree that the step makes, but for the end of n.
Erases(seq, n) ==
  \E s : Run(seq, t, s, Nodes) /\ t' = IF pc' = "returned" THEN Freed(s, n) ELSE s

\* They are such if the step unlinks n from what they make.
LEMMA UnlinkedErases ==
  ASSUME NEW seq, NEW s, NEW r, NEW n, Run(seq, t, s, Nodes), Unlinked(s, r, n)
  PROVE  Erases(seq, n)
<1>1. CASE r = NULL
  BY <1>1 DEF Unlinked, Return, Erases
<1>2. CASE r # NULL
  BY <1>2 DEF Unlinked, Erases
<1> QED BY <1>1, <1>2

\* A node without a left child.
LEMMA NoLeftErases ==
  ASSUME NEW n \in Nodes, IInv, EraseNoLeft(n)
  PROVE  Erases(EraseNoLeftStores(n), n)
<1> DEFINE child == t.kid[n]["right"]
           p == t.par[n]
           s == ChangeChild(t, n, child, p)
           s2 == SetParentColor(s, child, p, t.col[n])
<1>1. t \in Trees /\ NULL \notin Nodes
  BY HeldIsShaped DEF IInv
<1>2. child \in Nodes \cup {NULL} /\ p \in Nodes \cup {NULL} /\ t.col[n] \in {"red", "black"}
  BY <1>1 DEF Trees, Maybe, Dirs
<1>3. \E r : Unlinked(IF child # NULL THEN s2 ELSE s, r, n)
  BY DEF EraseNoLeft
<1>4. EraseNoLeftStores(n) = <<Child(n, child, p)>> \o When(child # NULL, <<Par(child, p, t.col[n])>>)
  BY DEF EraseNoLeftStores
<1> HIDE DEF child, p
<1>5. Run(<<Child(n, child, p)>>, t, s, Nodes)
  <2>1. Child(n, child, p) \in Marks(Nodes) /\ Apply(t, Child(n, child, p)) = s
    BY <1>2, RunChild
  <2> HIDE DEF s
  <2> QED BY <2>1, RunOne
<1> HIDE DEF s
<1>6. Run(When(child # NULL, <<Par(child, p, t.col[n])>>), s, IF child # NULL THEN s2 ELSE s, Nodes)
  <2>1. ASSUME child # NULL
        PROVE  Run(<<Par(child, p, t.col[n])>>, s, s2, Nodes)
    <3>1. Par(child, p, t.col[n]) \in Marks(Nodes)
      BY <1>2, <2>1, MarksAre
    <3> QED BY <3>1, RunOne, ApplyPar
  <2> HIDE DEF s2
  <2> QED BY <2>1, RunWhen
<1> HIDE DEF s2
<1>7. Run(EraseNoLeftStores(n), t, IF child # NULL THEN s2 ELSE s, Nodes)
  BY <1>4, <1>5, <1>6, RunCat
<1> QED BY <1>3, <1>7, UnlinkedErases

\* A node with a left child only.
LEMMA NoRightErases ==
  ASSUME NEW n \in Nodes, IInv, EraseNoRight(n)
  PROVE  Erases(EraseNoRightStores(n), n)
<1> DEFINE child == t.kid[n]["left"]
           p == t.par[n]
           s == SetParentColor(t, child, p, t.col[n])
           s2 == ChangeChild(s, n, child, p)
<1>1. t \in Trees /\ NULL \notin Nodes
  BY HeldIsShaped DEF IInv
<1>2. child \in Nodes /\ p \in Nodes \cup {NULL} /\ t.col[n] \in {"red", "black"}
  BY <1>1 DEF Trees, Maybe, Dirs, EraseNoRight
<1>3. \E r : Unlinked(s2, r, n)
  BY DEF EraseNoRight
<1>4. EraseNoRightStores(n) = <<Par(child, p, t.col[n]), Child(n, child, p)>>
  BY DEF EraseNoRightStores
<1> HIDE DEF child, p
<1>5. s.kid = t.kid
  <2>1. p \in Maybe
    BY <1>2 DEF Maybe
  <2>2. ParentColorIs(s, t, child, p, t.col[n])
    BY <1>1, <1>2, <2>1, SetParentColorIs
  <2> QED BY <2>2 DEF ParentColorIs
<1>6. Child(n, child, p) \in Marks(Nodes) /\ Apply(s, Child(n, child, p)) = s2
  <2> HIDE DEF s
  <2> QED BY <1>2, <1>5, RunChild
<1>7. Par(child, p, t.col[n]) \in Marks(Nodes) /\ Apply(t, Par(child, p, t.col[n])) = s
  BY <1>2, MarksAre, ApplyPar
<1> HIDE DEF s, s2
<1>8. Run(EraseNoRightStores(n), t, s2, Nodes)
  BY <1>4, <1>6, <1>7, RunTwo
<1> QED BY <1>3, <1>8, UnlinkedErases

\* The stores that lift the successor y of n out of the subtree below c.
LEMMA LiftRuns ==
  ASSUME t \in Trees, NEW n \in Nodes, NEW y \in Nodes, NEW c \in Nodes, NEW q \in Nodes,
         NEW m \in Maybe
  PROVE  Run(<<Kid(q, "left", m), Kid(y, "right", c)>> \o Moved(c, y), t,
             SetParent(SetKid(SetKid(t, q, "left", m), y, "right", c), c, y), Nodes)
<1> DEFINE s0 == SetKid(t, q, "left", m)
           s1 == SetKid(s0, y, "right", c)
<1>1. /\ c \in Maybe /\ y \in Maybe /\ c \in Nodes \cup {NULL} /\ m \in Nodes \cup {NULL}
      /\ y \in Nodes \cup {NULL} /\ "left" \in Dirs /\ "right" \in Dirs /\ c # NULL
  BY NodesAssumption DEF Maybe, Dirs
<1>2. KidIs(s0, t, q, "left", m)
  BY <1>1, SetKidIs
<1>3. KidIs(s1, s0, y, "right", c)
  <2>1. s0 \in Trees
    BY <1>2 DEF KidIs
  <2> HIDE DEF s0
  <2> QED BY <1>1, <2>1, SetKidIs
<1>4. s1 \in Trees /\ s1.col = t.col
  <2> HIDE DEF s0, s1
  <2> QED BY <1>2, <1>3 DEF KidIs
<1>5. Run(<<Kid(q, "left", m), Kid(y, "right", c)>>, t, s1, Nodes)
  <2>1. Kid(q, "left", m) \in Marks(Nodes) /\ Kid(y, "right", c) \in Marks(Nodes)
    BY <1>1, MarksAre
  <2>2. Apply(Apply(t, Kid(q, "left", m)), Kid(y, "right", c)) = s1
    BY ApplyKid
  <2> HIDE DEF s1
  <2> QED BY <2>1, <2>2, RunTwo
<1> HIDE DEF s1
<1>6. Run(Moved(c, y), s1, SetParent(s1, c, y), Nodes)
  <2>1. Run(Moved(c, y), s1, IF c = NULL THEN s1 ELSE SetParent(s1, c, y), Nodes)
    BY <1>1, <1>4, RunMoved
  <2> QED BY <1>1, <2>1
<1>7. Run(<<Kid(q, "left", m), Kid(y, "right", c)>> \o Moved(c, y), t, SetParent(s1, c, y), Nodes)
  BY <1>5, <1>6, RunCat
<1> QED BY <1>7 DEF s1

\* Those that put it in the place of n.
LEMMA ReplaceRuns ==
  ASSUME NEW n \in Nodes, t \in Trees, NEW s, Faithful(s, n), s.col = t.col,
         NEW y \in Nodes \ {t.par[n]}, NEW l \in Nodes \ {n}, s.kid[n]["left"] = l,
         NEW z, NEW r, Run(z, r, s, Nodes)
  PROVE  Run(z \o <<Kid(y, "left", l)>> \o Moved(l, y)
               \o <<Child(n, y, t.par[n]), Par(y, t.par[n], t.col[n])>>, r, Replace(s, n, y), Nodes)
<1> DEFINE g == t.par[n]
           a1 == SetKid(s, y, "left", l)
           a2 == SetParent(a1, l, y)
           a3 == ChangeChild(a2, n, y, g)
           a4 == SetParentColor(a3, y, g, t.col[n])
<1>1. /\ y \in Maybe /\ l \in Maybe /\ g \in Nodes \cup {NULL} /\ "left" \in Dirs
      /\ t.col[n] \in {"red", "black"} /\ y \in Nodes \cup {NULL} /\ l \in Nodes \cup {NULL}
      /\ l # NULL /\ s \in Trees
  BY NodesAssumption DEF Maybe, Dirs, Trees, Faithful
<1>2. Replace(s, n, y) = a4
  BY DEF Replace, Faithful
<1>3. Faithful(a1, n) /\ KidIs(a1, s, y, "left", l)
  BY <1>1, FaithfulKid, SetKidIs
<1>4. Faithful(a2, n)
  <2> HIDE DEF a1
  <2> QED BY <1>1, <1>3, FaithfulParent
<1>5. a1 \in Trees /\ a1.col[l] = t.col[l]
  BY <1>3 DEF KidIs
<1>6. Run(<<Kid(y, "left", l)>>, s, a1, Nodes)
  <2>1. Kid(y, "left", l) \in Marks(Nodes) /\ Apply(s, Kid(y, "left", l)) = a1
    BY <1>1, MarksAre, ApplyKid
  <2> HIDE DEF a1
  <2> QED BY <2>1, RunOne
<1>7. Run(Moved(l, y), a1, a2, Nodes)
  <2> HIDE DEF a1
  <2>1. Run(Moved(l, y), a1, IF l = NULL THEN a1 ELSE SetParent(a1, l, y), Nodes)
    BY <1>1, <1>5, RunMoved
  <2> QED BY <1>1, <2>1
<1>8. Run(<<Child(n, y, g), Par(y, g, t.col[n])>>, a2, a4, Nodes)
  <2>1. g # NULL => a2.kid[g]["left"] = t.kid[g]["left"]
    BY <1>1, <1>4 DEF Faithful
  <2>2. Child(n, y, g) \in Marks(Nodes) /\ Apply(a2, Child(n, y, g)) = a3
    <3> HIDE DEF a2, g
    <3> QED BY <1>1, <2>1, RunChild
  <2> HIDE DEF a3, g
  <2>3. Par(y, g, t.col[n]) \in Marks(Nodes) /\ Apply(a3, Par(y, g, t.col[n])) = a4
    BY <1>1, MarksAre, ApplyPar
  <2> HIDE DEF a2, a4
  <2> QED BY <2>2, <2>3, RunTwo
<1> HIDE DEF a1, a2, a3, a4
<1>9. Run(z \o <<Kid(y, "left", l)>>, r, a1, Nodes)
  BY <1>6, RunCat
<1>10. Run(z \o <<Kid(y, "left", l)>> \o Moved(l, y), r, a2, Nodes)
  BY <1>7, <1>9, RunCat
<1>11. Run(z \o <<Kid(y, "left", l)>> \o Moved(l, y) \o <<Child(n, y, g), Par(y, g, t.col[n])>>,
           r, a4, Nodes)
  BY <1>8, <1>10, RunCat
<1> QED BY <1>2, <1>11

\* A node with two children.
LEMMA TwoErases ==
  ASSUME NEW n \in Nodes, IInv, EraseTwo(n)
  PROVE  Erases(EraseTwoStores(n), n)
<1>1. PICK b \in Families, h \in Heights : Inv(b, h)
  BY DEF IInv
<1> DEFINE c == t.kid[n]["right"]
           l == t.kid[n]["left"]
           y == Deepest(c, "left")
           m == t.kid[y]["right"]
           q == t.par[y]
           p == IF y = c THEN y ELSE q
           lift == <<Kid(q, "left", m), Kid(y, "right", c)>> \o Moved(c, y)
           s1 == IF y = c THEN t ELSE SetParent(SetKid(SetKid(t, q, "left", m), y, "right", c), c, y)
           s2 == Replace(s1, n, y)
<1>2. /\ pc = "idle" /\ n \in members /\ l # NULL /\ c # NULL
      /\ \E r : Unlinked(IF m # NULL THEN SetParentColor(s2, m, p, "black") ELSE s2, r, n)
  <2>1. pc = "idle" /\ n \in members /\ l # NULL /\ c # NULL
    BY DEF EraseTwo
  <2>2. IF y = c THEN p = y ELSE p = q
    OBVIOUS
  <2>3. \E r : Unlinked(IF m # NULL THEN SetParentColor(s2, m, p, "black") ELSE s2, r, n)
    <3>1. CASE y = c
      BY <3>1 DEF EraseTwo
    <3>2. CASE y # c
      BY <3>2 DEF EraseTwo
    <3> QED BY <3>1, <3>2
  <2> QED BY Zenon, <2>1, <2>3
<1>3. /\ t \in Trees /\ Shape(t, members, b) /\ members \in SUBSET Nodes /\ Bare(t, members)
      /\ b \in [Nodes -> SUBSET Nodes] /\ NULL \notin Nodes
  BY SMTT(30), <1>1, <1>2, IdleIsWhole
<1>4. Succession(members, b, n, y)
  BY SMTT(30), <1>2, <1>3, SuccessionIs
<1>5. /\ y \in members /\ y # n /\ l \in members /\ c \in members /\ l # n /\ c # n
      /\ m # NULL => m \in members
      /\ t.par[n] # NULL => t.par[n] \notin {n, c, y, q}
      /\ y # c => q \in members /\ q \notin {n, y}
  BY SMTT(30), <1>4 DEF Succession
<1>6. Lifted(t, s1, n, y)
  BY <1>2, <1>3, <1>4, LiftedIs
<1>7. EraseTwoStores(n)
        = When(y # c, lift) \o <<Kid(y, "left", l)>> \o Moved(l, y)
            \o <<Child(n, y, t.par[n]), Par(y, t.par[n], t.col[n])>> \o Blackened(m, p)
  <2>1. CASE y = c
    BY Zenon, <2>1 DEF EraseTwoStores, When
  <2>2. CASE y # c
    BY Zenon, <2>2 DEF EraseTwoStores
  <2> QED BY Zenon, <2>1, <2>2
<1>8. Run(When(y # c, lift), t, s1, Nodes)
  <2>1. CASE y = c
    <3>1. When(y # c, lift) = <<>> /\ s1 = t
      BY <2>1 DEF When
    <3> QED BY <3>1, RunNone
  <2>2. CASE y # c
    <3>1. When(y # c, lift) = lift /\ s1 = SetParent(SetKid(SetKid(t, q, "left", m), y, "right", c), c, y)
      BY <2>2 DEF When
    <3>2. y \in Nodes /\ c \in Nodes /\ q \in Nodes /\ m \in Maybe
      BY <1>3, <1>5, <2>2 DEF Maybe
    <3> HIDE DEF s1, y, c, q, m
    <3> QED BY <1>3, <3>1, <3>2, LiftRuns
  <2> QED BY <2>1, <2>2
<1> HIDE DEF s1, lift
<1>9. Faithful(s1, n) /\ s1.col = t.col /\ s1.kid[n]["left"] = l
  <2>1. /\ s1 \in Trees /\ s1.col = t.col
        /\ \A k \in Nodes, e \in Dirs :
             s1.kid[k][e] = IF y # c /\ k = q /\ e = "left" THEN m
                            ELSE IF y # c /\ k = y /\ e = "right" THEN c ELSE t.kid[k][e]
        /\ \A k \in Nodes : s1.par[k] = IF y # c /\ k = c THEN y ELSE t.par[k]
    BY <1>6 DEF Lifted
  <2> HIDE DEF y, c, q, m
  <2>2. s1.par[n] = t.par[n]
    BY <1>5, <2>1
  <2>3. t.par[n] # NULL => \A e \in Dirs : s1.kid[t.par[n]][e] = t.kid[t.par[n]][e]
    <3>1. t.par[n] # NULL => t.par[n] \in Nodes
      BY <1>3 DEF Trees, Maybe
    <3> QED BY <1>5, <2>1, <3>1
  <2>4. s1.kid[n]["left"] = l
    <3>1. "left" \in Dirs
      BY DEF Dirs
    <3> QED BY <1>5, <2>1, <3>1
  <2> QED BY <2>1, <2>2, <2>3, <2>4 DEF Faithful
<1>10. Run(When(y # c, lift) \o <<Kid(y, "left", l)>> \o Moved(l, y)
             \o <<Child(n, y, t.par[n]), Par(y, t.par[n], t.col[n])>>, t, s2, Nodes)
  <2>1. y \in Nodes \ {t.par[n]} /\ l \in Nodes \ {n}
    BY <1>3, <1>5
  <2> HIDE DEF y, c, q, m, l
  <2> QED BY <1>3, <1>8, <1>9, <2>1, ReplaceRuns
<1>11. Run(Blackened(m, p), s2, AdoptBlack(s2, m, p), Nodes)
  <2>1. m \in Nodes \cup {NULL} /\ p \in Nodes \cup {NULL}
    BY <1>3, <1>5
  <2> HIDE DEF y, c, q, m, l, p, s2
  <2> QED BY <2>1, RunBlackened
<1>12. AdoptBlack(s2, m, p) = IF m # NULL THEN SetParentColor(s2, m, p, "black") ELSE s2
  BY DEF AdoptBlack
<1> HIDE DEF y, c, q, m, l, p, s2
<1>13. Run(EraseTwoStores(n), t, AdoptBlack(s2, m, p), Nodes)
  BY <1>7, <1>10, <1>11, RunCat
<1> QED BY <1>2, <1>12, <1>13, UnlinkedErases

\* Case 1 of the repair.
LEMMA LowerErases ==
  ASSUME IInv, EraseRotate
  PROVE  Erases(EraseRotateStores, new)
<1>1. PICK b \in Families, h \in Heights : Inv(b, h)
  BY DEF IInv
<1> DEFINE p == parent
           d == Side(p, node)
           x == Sibling
           y == t.kid[x][d]
           s0 == SetKid(t, p, Opp(d), y)
           s1 == SetKid(s0, x, d, p)
           s2 == SetParentColor(s1, y, p, "black")
<1>2. pc = "fixerase" /\ Red(x) /\ t' = LowerParent(t, p, x, d) /\ pc' = pc
  BY DEF EraseRotate
<1>3. /\ t \in Trees /\ Shape(t, Held, b) /\ Held \in SUBSET Nodes
      /\ b \in [Nodes -> SUBSET Nodes] /\ NULL \notin Nodes
  BY <1>1, HeldIsShaped
<1>4. EraseScene(h, p, d, x)
  BY <1>1, <1>2, EraseSceneIs
<1>5. /\ p \in Held /\ d \in Dirs /\ t.kid[p][Opp(d)] = x /\ x \in Held /\ x # p /\ t.par[x] = p
      /\ h[p] = Weight(t, h, node) + 1 /\ h[p] = Weight(t, h, x) /\ Weight(t, h, node) \in Nat
      /\ \A n \in Held \ {p}, e \in Dirs : h[n] = Weight(t, h, t.kid[n][e])
  BY <1>4 DEF EraseScene
<1>6. Opp(d) \in Dirs /\ Opp(d) # d /\ Opp(Opp(d)) = d
  BY <1>5, OppIs
<1>7. y # NULL
  <2>1. Weight(t, h, x) = h[x]
    BY <1>2 DEF Weight, Red
  <2>2. h[x] = Weight(t, h, y)
    BY <1>5
  <2>3. Weight(t, h, y) # 0
    <3> HIDE DEF y, x, p, d
    <3> QED BY <1>5, <2>1, <2>2
  <2> QED BY <2>3 DEF Weight
<1>8. y \in Held /\ y # p /\ t.par[p] \notin {p, x, y}
  <2>1. y = t.kid[x][Opp(Opp(d))] /\ Opp(d) \in Dirs /\ x # NULL
    BY <1>3, <1>5, <1>6
  <2>2. y \in Held
    BY <1>3, <1>5, <1>7 DEF Shape, Paired
  <2> HIDE DEF p, d, x, y
  <2>3. Apart(t, Held, p, x, y, Opp(d))
    BY <1>3, <1>5, <1>7, <2>1, InnerChild
  <2> QED BY <2>2, <2>3 DEF Apart
<1>9. LowerParent(t, p, x, d) = RotateSetParents(s2, p, x, "red")
  BY DEF LowerParent
<1>10. EraseRotateStores
         = <<Kid(p, Opp(d), y), Kid(x, d, p), Par(y, p, "black")>> \o Swapped(p, x, "red")
  BY DEF EraseRotateStores
<1> HIDE DEF p, d, x, y
<1>11. /\ p \in Nodes \ {t.par[p]} /\ x \in Nodes \ {t.par[p]} /\ y \in Nodes \ {p}
       /\ y \in Maybe /\ p \in Maybe /\ p \in Nodes \cup {NULL} /\ y \in Nodes \cup {NULL}
       /\ t.par[p] \in Nodes \cup {NULL} /\ p \in Nodes /\ x \in Nodes /\ y \in Nodes
  BY <1>3, <1>5, <1>8 DEF Maybe, Trees
<1>12. Faithful(s2, p)
  <2>1. Faithful(t, p)
    BY <1>3 DEF Faithful
  <2>2. Faithful(s0, p)
    BY <1>3, <1>6, <1>11, <2>1, FaithfulKid
  <2>3. Faithful(s1, p)
    <3> HIDE DEF s0
    <3> QED BY <1>3, <1>5, <1>11, <2>2, FaithfulKid
  <2> HIDE DEF s1
  <2> QED BY <1>11, <2>3, FaithfulParent
<1>13. Run(<<Kid(p, Opp(d), y), Kid(x, d, p), Par(y, p, "black")>>, t, s2, Nodes)
  <2>1. Kid(p, Opp(d), y) \in Marks(Nodes) /\ Kid(x, d, p) \in Marks(Nodes)
          /\ Par(y, p, "black") \in Marks(Nodes)
    BY <1>5, <1>6, <1>11, MarksAre
  <2>2. Apply(Apply(Apply(t, Kid(p, Opp(d), y)), Kid(x, d, p)), Par(y, p, "black")) = s2
    BY ApplyKid, ApplyPar
  <2> HIDE DEF s2
  <2> QED BY <2>1, <2>2, RunThree
<1> HIDE DEF s2
<1>14. Run(Swapped(p, x, "red"), s2, LowerParent(t, p, x, d), Nodes)
  BY <1>9, <1>11, <1>12, RunSwapped
<1>15. Run(EraseRotateStores, t, LowerParent(t, p, x, d), Nodes)
  BY <1>10, <1>13, <1>14, RunCat
<1> QED BY <1>2, <1>15 DEF Erases

\* Case 2.
LEMMA DarkenErases ==
  ASSUME IInv, EraseFlip
  PROVE  Erases(EraseFlipStores, new)
<1>1. PICK b \in Families, h \in Heights : Inv(b, h)
  BY DEF IInv
<1> DEFINE p == parent
           x == Sibling
           s == SetParentColor(t, x, p, "red")
           s2 == [s EXCEPT !.col[p] = "black"]
           end == IF Red(p) THEN s2 ELSE s
<1>2. /\ pc = "fixerase"
      /\ t' = (IF pc' = "returned" THEN Freed(end, new) ELSE end)
  <2>1. pc = "fixerase"
    BY DEF EraseFlip
  <2>2. CASE Red(p)
    BY <2>2 DEF EraseFlip, EraseReturn, Return
  <2>3. CASE ~Red(p) /\ t.par[p] = NULL
    BY <2>3 DEF EraseFlip, EraseReturn, Return
  <2>4. CASE ~Red(p) /\ t.par[p] # NULL
    BY <2>1, <2>4 DEF EraseFlip
  <2> QED BY <2>1, <2>2, <2>3, <2>4
<1>3. t \in Trees /\ Held \in SUBSET Nodes /\ NULL \notin Nodes
  BY <1>1, HeldIsShaped
<1>4. p \in Held /\ x \in Held /\ x # p
  <2>1. EraseScene(h, p, Side(p, node), x)
    BY <1>1, <1>2, EraseSceneIs
  <2> QED BY <2>1 DEF EraseScene
<1>5. EraseFlipStores = <<Par(x, p, "red")>> \o When(Red(p), <<Par(p, t.par[p], "black")>>)
  BY DEF EraseFlipStores
<1> HIDE DEF p, x
<1>6. /\ x \in Nodes /\ p \in Nodes /\ p \in Maybe /\ t.par[p] \in Maybe
      /\ p \in Nodes \cup {NULL} /\ t.par[p] \in Nodes \cup {NULL}
  BY <1>3, <1>4 DEF Maybe, Trees
<1>7. s2 = SetParentColor(s, p, t.par[p], "black")
  <2>1. ParentColorIs(s, t, x, p, "red")
    BY <1>3, <1>6, SetParentColorIs
  <2>2. s \in Trees /\ s.par[p] = t.par[p]
    BY <1>4, <1>6, <2>1 DEF ParentColorIs
  <2> HIDE DEF s
  <2>3. [s.par EXCEPT ![p] = t.par[p]] = s.par
    BY <2>2 DEF Trees
  <2>4. [s EXCEPT !.par[p] = t.par[p]] = s
    <3>1. [s EXCEPT !.par[p] = t.par[p]] = [s EXCEPT !.par = [s.par EXCEPT ![p] = t.par[p]]]
      OBVIOUS
    <3>2. [s EXCEPT !.par = s.par] = s
      BY <2>2 DEF Trees
    <3> QED BY <2>3, <3>1, <3>2
  <2> QED BY <2>4 DEF SetParentColor
<1>8. Run(<<Par(x, p, "red")>>, t, s, Nodes)
  <2>1. Par(x, p, "red") \in Marks(Nodes)
    BY <1>6, MarksAre
  <2> QED BY <2>1, RunOne, ApplyPar
<1> HIDE DEF s, s2
<1>9. Run(When(Red(p), <<Par(p, t.par[p], "black")>>), s, end, Nodes)
  <2>1. Run(<<Par(p, t.par[p], "black")>>, s, s2, Nodes)
    <3>1. Par(p, t.par[p], "black") \in Marks(Nodes)
      BY <1>6, MarksAre
    <3> QED BY <1>7, <3>1, RunOne, ApplyPar
  <2>2. Red(p) \in BOOLEAN
    BY DEF Red
  <2> QED BY <2>1, <2>2, RunWhen
<1>10. Run(EraseFlipStores, t, end, Nodes)
  <2> HIDE DEF end
  <2> QED BY <1>5, <1>8, <1>9, RunCat
<1> HIDE DEF end
<1> QED BY <1>2, <1>10 DEF Erases

\* Stores to some nodes are stores to more.
LEMMA RunWiden ==
  ASSUME NEW H, NEW K, H \subseteq K, NEW seq, NEW s, NEW r, Run(seq, s, r, H)
  PROVE  Run(seq, s, r, K)
<1>1. Marks(H) \subseteq Marks(K)
  BY DEF Marks
<1>2. seq \in Seq(Marks(H))
  BY DEF Run
<1>3. seq \in Seq(Marks(K))
  <2> DEFINE M == Marks(H)
             N == Marks(K)
  <2>1. M \subseteq N /\ seq \in Seq(M)
    BY <1>1, <1>2
  <2> HIDE DEF M, N
  <2>2. seq \in Seq(N)
    BY <2>1
  <2> QED BY <2>2 DEF N
<1> QED BY <1>3 DEF Run

\* Case 4 when the stores z have made s.
LEMMA RaisingRuns ==
  ASSUME NEW H \in SUBSET Nodes, NEW r, NEW s, NEW z, Run(z, r, s, H),
         NEW p \in H, Faithful(s, p), t \in Trees, NULL \notin Nodes,
         NEW x \in H, NEW far \in H \ {p}, NEW d \in Dirs, NEW y \in (H \cup {NULL}) \ {p, far},
         y # NULL => s.col[y] = t.col[y],
         t.par[p] \in (H \cup {NULL}) \ {p, x}, s.kid[x][d] = y
  PROVE  Run(z \o <<Kid(p, Opp(d), y), Kid(x, d, p), Par(far, x, "black")>>
               \o Moved(y, p) \o Swapped(p, x, "black"), r, RaiseSibling(s, p, x, far, d), H)
<1> DEFINE s0 == SetKid(s, p, Opp(d), y)
           s1 == SetKid(s0, x, d, p)
           s2 == SetParentColor(s1, far, x, "black")
           s3 == IF y = NULL THEN s2 ELSE SetParent(s2, y, p)
<1>1. /\ p \in Nodes \ {t.par[p]} /\ x \in Nodes \ {t.par[p]} /\ far \in Nodes \ {p}
      /\ y \in Maybe \ {p} /\ p \in Maybe /\ x \in Maybe /\ Opp(d) \in Dirs
      /\ p \in H \cup {NULL} /\ x \in H \cup {NULL} /\ p \in Nodes /\ far \in Nodes /\ s \in Trees
      /\ x \in Nodes /\ "black" \in {"red", "black"}
  BY OppIs DEF Maybe, Faithful
<1>2. Faithful(s0, p) /\ s0.col = s.col
  <2>1. KidIs(s0, s, p, Opp(d), y)
    BY <1>1, SetKidIs
  <2>2. Faithful(s0, p)
    BY <1>1, FaithfulKid
  <2> QED BY <2>1, <2>2 DEF KidIs
<1>3. Faithful(s1, p) /\ s1.col = s.col
  <2>1. s0 \in Trees
    BY <1>2 DEF Faithful
  <2> HIDE DEF s0
  <2>2. KidIs(s1, s0, x, d, p)
    BY <1>1, <2>1, SetKidIs
  <2>3. Faithful(s1, p)
    BY <1>1, <1>2, FaithfulKid
  <2> QED BY <1>2, <2>2, <2>3 DEF KidIs
<1>4. Faithful(s2, p) /\ (y # NULL => s2.col[y] = t.col[y])
  <2>1. s1 \in Trees
    BY <1>3 DEF Faithful
  <2> HIDE DEF s1
  <2>2. ParentColorIs(s2, s1, far, x, "black")
    BY <1>1, <2>1, SetParentColorIs
  <2>3. y # NULL => s2.col[y] = t.col[y]
    BY <1>1, <1>3, <2>2 DEF ParentColorIs, Maybe
  <2> QED BY <1>1, <1>3, <2>3, FaithfulParent
<1>5. Faithful(s3, p)
  <2> HIDE DEF s2
  <2>1. CASE y = NULL
    BY <1>4, <2>1
  <2>2. CASE y # NULL
    <3>1. y \in Nodes \ {p}
      BY <2>2
    <3> QED BY <1>1, <1>4, <2>2, <3>1, FaithfulParent
  <2> QED BY <2>1, <2>2
<1>6. Run(<<Kid(p, Opp(d), y), Kid(x, d, p), Par(far, x, "black")>>, s, s2, H)
  <2>1. y \in H \cup {NULL}
    OBVIOUS
  <2>2. /\ Kid(p, Opp(d), y) \in Marks(H) /\ Kid(x, d, p) \in Marks(H)
        /\ Par(far, x, "black") \in Marks(H)
    BY <1>1, <2>1, MarksAre
  <2>3. Apply(Apply(Apply(s, Kid(p, Opp(d), y)), Kid(x, d, p)), Par(far, x, "black")) = s2
    BY ApplyKid, ApplyPar
  <2> HIDE DEF s2
  <2> QED BY <2>2, <2>3, RunThree
<1>7. Run(Moved(y, p), s2, s3, H)
  <2>1. s2 \in Trees /\ y \in H \cup {NULL}
    BY <1>4 DEF Faithful
  <2> HIDE DEF s2
  <2> QED BY <1>1, <1>4, <2>1, RunMoved
<1>8. RaiseSibling(s, p, x, far, d) = RotateSetParents(s3, p, x, "black")
  BY DEF RaiseSibling
<1> HIDE DEF s2, s3
<1>9. Run(Swapped(p, x, "black"), s3, RaiseSibling(s, p, x, far, d), H)
  BY <1>5, <1>8, RunSwapped
<1>10. Run(z \o <<Kid(p, Opp(d), y), Kid(x, d, p), Par(far, x, "black")>>, r, s2, H)
  BY <1>6, RunCat
<1>11. Run(z \o <<Kid(p, Opp(d), y), Kid(x, d, p), Par(far, x, "black")>> \o Moved(y, p), r, s3, H)
  BY <1>7, <1>10, RunCat
<1> QED BY <1>9, <1>11, RunCat

\* Case 3 is a run of stores and leaves p as it was, and the child of near that goes to p.
SiblingMakes(H, p, x, near, d) ==
  LET tmp1 == t.kid[near][Opp(d)]
      y == t.kid[near][d]
      s == RotateAtSibling(t, p, x, near, d)
  IN /\ Run(<<Kid(x, d, tmp1), Kid(near, Opp(d), x), Kid(p, Opp(d), near)>>
              \o Blackened(tmp1, x), t, s, H)
     /\ Faithful(s, p) /\ s.kid[near][d] = y /\ (y # NULL => s.col[y] = t.col[y])

\* The stores of the rotation at the sibling make the tree SiblingMakes speaks of.
LEMMA SiblingRuns ==
  ASSUME NEW H \in SUBSET Nodes, NEW b \in [Nodes -> SUBSET Nodes], t \in Trees, Shape(t, H, b),
         NEW p \in H, NEW d \in Dirs, NEW x, NEW n,
         x = t.kid[p][Opp(d)], x # NULL, n = t.kid[x][d], n # NULL
  PROVE  SiblingMakes(H, p, x, n, d)
<1> DEFINE u == t.kid[n][Opp(d)]
           y == t.kid[n][d]
           s0 == SetKid(t, x, d, u)
           s1 == SetKid(s0, n, Opp(d), x)
           s2 == SetKid(s1, p, Opp(d), n)
           s3 == AdoptBlack(s2, u, x)
<1>0. Opp(d) \in Dirs /\ Opp(d) # d /\ Opp(Opp(d)) = d
  BY OppIs
<1>1. Apart(t, H, p, x, n, Opp(d))
  BY Zenon, <1>0, InnerChild
<1>2. /\ p \in H /\ x \in H /\ n \in H /\ p # x /\ p # n /\ x # n
      /\ t.par[p] \notin {p, x, n}
      /\ u # NULL => u \in H /\ u \notin {p, x, n, y}
      /\ y # NULL => y \in H /\ y # u
  BY Zenon, <1>0, <1>1 DEF Apart
<1> HIDE DEF u, y
<1>3. /\ u \in H \cup {NULL} /\ u \in Maybe \ {p} /\ x \in Maybe /\ n \in Maybe
      /\ p \in Nodes \ {t.par[p]} /\ x \in Nodes \ {t.par[p]} /\ n \in Nodes \ {t.par[p]}
      /\ p \in Nodes /\ x \in Nodes /\ n \in Nodes
      /\ x \in H \cup {NULL} /\ n \in H \cup {NULL}
  <2>1. NULL \notin Nodes
    BY NodesAssumption
  <2> QED BY <1>2, <2>1 DEF Maybe
<1>4. Faithful(t, p)
  BY DEF Faithful
<1>5. Faithful(s0, p) /\ KidIs(s0, t, x, d, u)
  BY <1>3, <1>4, FaithfulKid, SetKidIs
<1>6. Faithful(s1, p) /\ KidIs(s1, s0, n, Opp(d), x)
  <2>1. s0 \in Trees
    BY <1>5 DEF Faithful
  <2> HIDE DEF s0
  <2> QED BY <1>0, <1>3, <1>5, <2>1, FaithfulKid, SetKidIs
<1>7. Faithful(s2, p) /\ KidIs(s2, s1, p, Opp(d), n)
  <2>1. s1 \in Trees
    BY Zenon, <1>6 DEF Faithful
  <2> HIDE DEF s1
  <2> QED BY <1>0, <1>3, <1>6, <2>1, FaithfulKid, SetKidIs
<1>8. Faithful(s3, p) /\ ParentColorIs(s3, s2, u, x, "black")
  <2>1. s2 \in Trees
    BY Zenon, <1>7 DEF Faithful
  <2> HIDE DEF s2
  <2> QED BY <1>3, <1>7, <2>1, FaithfulAdopt, AdoptBlackIs
<1>9. Run(<<Kid(x, d, u), Kid(n, Opp(d), x), Kid(p, Opp(d), n)>>, t, s2, H)
  <2>1. Kid(x, d, u) \in Marks(H) /\ Kid(n, Opp(d), x) \in Marks(H) /\ Kid(p, Opp(d), n) \in Marks(H)
    BY <1>0, <1>2, <1>3, MarksAre
  <2>2. Apply(Apply(Apply(t, Kid(x, d, u)), Kid(n, Opp(d), x)), Kid(p, Opp(d), n)) = s2
    BY ApplyKid
  <2> HIDE DEF s2
  <2> QED BY <2>1, <2>2, RunThree
<1>10. s3 = RotateAtSibling(t, p, x, n, d)
  BY DEF RotateAtSibling, u
<1>11. Run(Blackened(u, x), s2, s3, H)
  <2> HIDE DEF s2
  <2> QED BY SMTT(30), <1>3, RunBlackened
<1> HIDE DEF s0, s1, s2, s3
<1>12. s3.kid[n][d] = y
  <2>1. s3.kid = s2.kid
    BY SMTT(30), <1>8 DEF ParentColorIs
  <2>2. s2.kid[n][d] = s1.kid[n][d]
    BY SMTT(30), <1>2, <1>3, <1>7 DEF KidIs
  <2>3. s1.kid[n][d] = s0.kid[n][d]
    BY SMTT(30), <1>0, <1>3, <1>6 DEF KidIs
  <2>4. s0.kid[n][d] = t.kid[n][d]
    BY <1>2, <1>3, <1>5 DEF KidIs
  <2> QED BY <2>1, <2>2, <2>3, <2>4 DEF y
<1>13. y # NULL => s3.col[y] = t.col[y]
  <2>1. s2.col = t.col
    BY <1>5, <1>6, <1>7 DEF KidIs
  <2>2. y # NULL => y \in Nodes /\ y # u
    BY <1>2
  <2> QED BY <1>8, <2>1, <2>2 DEF ParentColorIs
<1>14. Run(<<Kid(x, d, u), Kid(n, Opp(d), x), Kid(p, Opp(d), n)>> \o Blackened(u, x), t, s3, H)
  BY <1>9, <1>11, RunCat
<1> QED BY Zenon, <1>8, <1>10, <1>12, <1>13, <1>14 DEF SiblingMakes, u, y

\* Case 3, if need be, and case 4.
LEMMA RaiseErases ==
  ASSUME IInv, EraseRaise
  PROVE  Erases(EraseRaiseStores, new)
<1>1. PICK b \in Families, h \in Heights : Inv(b, h)
  BY DEF IInv
<1> DEFINE p == parent
           d == Side(p, node)
           w == Sibling
           near == t.kid[w][d]
           wide == t.kid[w][Opp(d)]
           inner == ~Red(wide)
           x == IF inner THEN near ELSE w
           far == IF inner THEN w ELSE wide
           tmp1 == t.kid[near][Opp(d)]
           y == t.kid[x][d]
           turn == <<Kid(w, d, tmp1), Kid(near, Opp(d), w), Kid(p, Opp(d), near)>> \o Blackened(tmp1, w)
           s == IF inner THEN RotateAtSibling(t, p, w, near, d) ELSE t
           r == RaiseSibling(s, p, x, far, d)
<1>2. /\ pc = "fixerase" /\ \E e \in Dirs : Red(t.kid[w][e])
      /\ t' = Freed(r, new) /\ pc' = "returned"
  <2>1. EraseReturn(IF Red(wide) THEN RaiseSibling(t, p, w, wide, d)
                    ELSE RaiseSibling(RotateAtSibling(t, p, w, near, d), p, near, w, d))
    BY DEF EraseRaise
  <2>2. EraseReturn(r)
    BY <2>1
  <2> HIDE DEF r
  <2> QED BY <2>2 DEF EraseRaise, EraseReturn, Return
<1>3. /\ t \in Trees /\ Shape(t, Held, b) /\ Held \in SUBSET Nodes
      /\ b \in [Nodes -> SUBSET Nodes] /\ NULL \notin Nodes
  BY <1>1, HeldIsShaped
<1>4. EraseScene(h, p, d, w)
  BY <1>1, <1>2, EraseSceneIs
<1>5. /\ p \in Held /\ d \in Dirs /\ t.kid[p][Opp(d)] = w /\ w \in Held /\ w # p /\ t.par[w] = p
      /\ w # NULL
  BY <1>3, <1>4 DEF EraseScene
<1>6. Opp(d) \in Dirs /\ Opp(d) # d /\ Opp(Opp(d)) = d /\ \A e \in Dirs : e = d \/ e = Opp(d)
  BY <1>5, OppIs
<1>7. t.par[p] \in Nodes \cup {NULL} /\ t.par[p] # p /\ t.par[p] # w
  <2>1. t.par[p] # p
    BY <1>3, <1>5, Hangs
  <2>2. ChildOf(t, Held, b, p, Opp(d), w)
    BY <1>3, <1>5, <1>6, ChildIs
  <2> QED BY <1>3, <1>5, <2>1, <2>2 DEF ChildOf, Trees, Maybe
<1>8. EraseRaiseStores
        = When(inner, turn) \o <<Kid(p, Opp(d), y), Kid(x, d, p), Par(far, x, "black")>>
            \o Moved(y, p) \o Swapped(p, x, "black")
  BY DEF EraseRaiseStores
<1>a. inner \/ ~inner
  OBVIOUS
<1> HIDE DEF p, d, w, r
<1>9. CASE inner
  <2>1. x = near /\ far = w /\ s = RotateAtSibling(t, p, w, near, d) /\ When(inner, turn) = turn
    BY Zenon, <1>9 DEF When
  <2>2. near # NULL
    BY <1>2, <1>6, <1>9 DEF Red
  <2>3. SiblingMakes(Held, p, w, near, d) /\ Apart(t, Held, p, w, near, Opp(d))
    <3> DEFINE n == near
    <3>1. n = t.kid[w][d] /\ n = t.kid[w][Opp(Opp(d))] /\ n # NULL
      BY <1>6, <2>2
    <3> HIDE DEF n
    <3>2. SiblingMakes(Held, p, w, n, d) /\ Apart(t, Held, p, w, n, Opp(d))
      BY <1>3, <1>5, <1>6, <3>1, SiblingRuns, InnerChild
    <3> QED BY <3>2 DEF n
  <2>4. /\ Run(turn, t, s, Held) /\ Faithful(s, p) /\ s.kid[x][d] = y
        /\ y # NULL => s.col[y] = t.col[y]
    <3>1. y = t.kid[near][d]
      BY Zenon, <2>1
    <3> HIDE DEF near, x, y, s
    <3> QED BY <2>1, <2>3, <3>1 DEF SiblingMakes
  <2>5. /\ x \in Held /\ far \in Held \ {p} /\ y \in (Held \cup {NULL}) \ {p, far}
        /\ t.par[p] \in (Held \cup {NULL}) \ {p, x}
    <3>1. y = t.kid[near][Opp(Opp(d))]
      BY Zenon, <1>6, <2>1
    <3> HIDE DEF near, x, y, far
    <3>2. near \in Held /\ t.par[p] # near /\ (y # NULL => y \in Held /\ y \notin {p, w})
      BY <2>3, <3>1 DEF Apart
    <3>3. t.par[p] \in Held \cup {NULL}
      BY <1>3, <1>5 DEF Shape, Paired
    <3> QED BY <1>3, <1>5, <1>7, <2>1, <3>2, <3>3
  <2> HIDE DEF near, wide, inner, x, far, y, turn, s
  <2>6. Run(When(inner, turn), t, s, Held)
    BY <2>1, <2>4
  <2>7. Run(EraseRaiseStores, t, r, Held)
    BY <1>3, <1>5, <1>8, <2>4, <2>5, <2>6, RaisingRuns DEF r
  <2> QED BY <1>2, <1>3, <2>7, RunWiden DEF Erases
<1>10. CASE ~inner
  <2>1. x = w /\ far = wide /\ s = t /\ y = near /\ When(inner, turn) = <<>>
    BY <1>10 DEF When
  <2>2. wide # NULL
    BY <1>10 DEF Red
  <2>3. Faithful(t, p)
    BY <1>3 DEF Faithful
  <2>4. wide \in Held \ {p} /\ near \in (Held \cup {NULL}) \ {p, wide}
    <3>1. ChildOf(t, Held, b, w, d, near) /\ ChildOf(t, Held, b, w, Opp(d), wide)
      BY <1>3, <1>5, <1>6, ChildIs
    <3>2. t.par[w] # near /\ t.par[w] # wide
      <4> HIDE DEF near, wide
      <4> QED BY <1>3, <1>5, <2>2, <3>1 DEF ChildOf
    <3>3. wide # near
      BY <2>2, <1>6, <3>1 DEF ChildOf
    <3>4. wide \in Held /\ near \in Held \cup {NULL}
      BY <2>2, <3>1 DEF ChildOf
    <3> HIDE DEF near, wide
    <3> QED BY <1>5, <3>2, <3>3, <3>4
  <2>5. t.par[p] \in (Held \cup {NULL}) \ {p, w}
    <3>1. t.par[p] \in Held \cup {NULL}
      BY <1>3, <1>5 DEF Shape, Paired
    <3> QED BY <1>7, <3>1
  <2>6. Run(<<>>, t, t, Held)
    BY RunNone
  <2>7. t.kid[w][d] = near
    OBVIOUS
  <2> HIDE DEF near, wide, inner, x, far, y, turn, s
  <2>8. Run(EraseRaiseStores, t, r, Held)
    <3>1. /\ Held \in SUBSET Nodes /\ p \in Held /\ t \in Trees /\ NULL \notin Nodes /\ d \in Dirs
          /\ t.par[p] \in (Held \cup {NULL}) \ {p, x} /\ x \in Held
      BY <1>3, <1>5, <2>1, <2>5
    <3>2. /\ Run(When(inner, turn), t, s, Held) /\ Faithful(s, p) /\ s.kid[x][d] = y
          /\ far \in Held \ {p} /\ y \in (Held \cup {NULL}) \ {p, far}
          /\ y # NULL => s.col[y] = t.col[y]
      BY <2>1, <2>3, <2>4, <2>6, <2>7
    <3>3. Run(When(inner, turn) \o <<Kid(p, Opp(d), y), Kid(x, d, p), Par(far, x, "black")>>
                \o Moved(y, p) \o Swapped(p, x, "black"), t, RaiseSibling(s, p, x, far, d), Held)
      BY <3>1, <3>2, RaisingRuns
    <3> QED BY <1>8, <3>3 DEF r
  <2> QED BY <1>2, <1>3, <2>8, RunWiden DEF Erases
<1> QED BY <1>9, <1>10
-----------------------------------------------------------------------------
(***************************************************************************)
(* The two threads.                                                        *)
(***************************************************************************)
\* What the two threads are about: the one at the lock, and the other one.
Control ==
  /\ op \in {"none", "insert", "erase"} /\ (op = "none" <=> pc = "idle")
  /\ pc \in {"descend", "fixinsert"} => op = "insert"
  /\ pc = "fixerase" => op = "erase"
  /\ call \in {"none", "search", "pass"}
  /\ call = "none" => step = "off"
  /\ call = "search" => step \in {"root", "compare", "done", "wild"}
  /\ call = "pass" => step \in {"root", "down", "left", "visit", "climb", "side", "erasing"}
  /\ step = "erasing" => op = "erase"
  /\ call = "pass" /\ step # "erasing" => op # "erase"
  /\ step \in {"off", "root"} => at = NULL
  /\ step # "side" => up = NULL

\* A step of the lock's owner within an operation.
LEMMA OperateMoves ==
  ASSUME Operate
  PROVE  /\ [Next]_vars /\ stores = <<>> /\ UNCHANGED <<mem, used, op>>
         /\ \/ pc \in {"descend", "fixinsert"} /\ pc' \in {"descend", "fixinsert", "returned"}
            \/ pc = "fixerase" /\ pc' \in {"fixerase", "returned"}
<1>1. CASE Burst(Descend, <<>>)
  BY <1>1 DEF Burst, Descend, Return, Next
<1>2. CASE Burst(Link, LinkStores)
  <2>1. Link /\ pc = "descend" /\ pc' = "fixinsert"
    BY <1>2 DEF Burst, Link
  <2> QED BY <1>2, <2>1 DEF Burst, Next
<1>3. CASE Burst(InsertDone, InsertDoneStores)
  <2>1. InsertDone /\ pc = "fixinsert" /\ pc' = "returned"
    BY <1>3 DEF Burst, InsertDone, Return
  <2> QED BY <1>3, <2>1 DEF Burst, Next
<1>4. CASE Burst(InsertFlip, InsertFlipStores)
  <2>1. InsertFlip /\ pc = "fixinsert" /\ pc' = "fixinsert"
    BY <1>4 DEF Burst, InsertFlip
  <2> QED BY <1>4, <2>1 DEF Burst, Next
<1>5. CASE Burst(InsertRotate, InsertRotateStores)
  <2>1. InsertRotate /\ pc = "fixinsert" /\ pc' = "returned"
    BY <1>5 DEF Burst, InsertRotate, Return
  <2> QED BY <1>5, <2>1 DEF Burst, Next
<1>6. CASE Burst(EraseRotate, EraseRotateStores)
  <2>1. EraseRotate /\ pc = "fixerase" /\ pc' = "fixerase"
    BY <1>6 DEF Burst, EraseRotate
  <2> QED BY <1>6, <2>1 DEF Burst, Next
<1>7. CASE Freeing(EraseFlip, new, EraseFlipStores)
  <2>1. EraseFlip /\ pc = "fixerase" /\ pc' \in {"fixerase", "returned"}
    BY <1>7 DEF Freeing, EraseFlip, EraseReturn, Return
  <2> QED BY <1>7, <2>1 DEF Freeing, Next
<1>8. CASE Freeing(EraseRaise, new, EraseRaiseStores)
  <2>1. EraseRaise /\ pc = "fixerase" /\ pc' = "returned"
    BY <1>8 DEF Freeing, EraseRaise, EraseReturn, Return
  <2> QED BY <1>8, <2>1 DEF Freeing, Next
<1> QED BY <1>1, <1>2, <1>3, <1>4, <1>5, <1>6, <1>7, <1>8 DEF Operate

\* The first step of an erase.
LEMMA BeginEraseMoves ==
  ASSUME NEW n, BeginErase(n), members \subseteq Nodes
  PROVE  /\ [Next]_vars /\ op = "none" /\ op' = "erase" /\ UNCHANGED <<mem, used>>
         /\ pc = "idle" /\ n \in members /\ pc' \in {"fixerase", "returned"}
         /\ stores' = EraseStores(n) \o When(pc' = "returned", <<Free(n)>>)
<1>1. EraseNoLeft(n) \/ EraseNoRight(n) \/ EraseTwo(n)
  BY DEF BeginErase, Begin
<1>2. Next
  <2>1. n \in Nodes
    BY <1>1 DEF EraseNoLeft, EraseNoRight, EraseTwo
  <2> QED BY <1>1, <2>1 DEF Next
<1>3. pc = "idle" /\ n \in members /\ \E s, r : Unlinked(s, r, n)
  <2>1. CASE EraseNoLeft(n)
    BY <2>1 DEF EraseNoLeft
  <2>2. CASE EraseNoRight(n)
    BY <2>2 DEF EraseNoRight
  <2>3. CASE EraseTwo(n)
    BY <2>3 DEF EraseTwo
  <2> QED BY <1>1, <2>1, <2>2, <2>3
<1>4. pc' \in {"fixerase", "returned"}
  BY <1>3 DEF Unlinked, Return
<1> QED BY <1>2, <1>3, <1>4 DEF BeginErase, Begin

\* The thread without the lock leaves the tree alone.
LEMMA WalkMoves == Walk => UNCHANGED Others
<1>1. ASSUME NEW s, NEW a, Goes(s, a)
      PROVE  UNCHANGED Others
  BY <1>1 DEF Goes
<1> QED BY <1>1 DEF Walk, LoadRoot, Compare, EndSearch, TestLeft, LoadLeft, Advance,
             LoadParent, TestSide, EndPass

\* Every step is one of the tree's, or none.
LEMMA SharedStepIsStep == IInv /\ [SharedNext]_all => [Next]_vars
<1> SUFFICES ASSUME IInv, [SharedNext]_all
             PROVE  [Next]_vars
  OBVIOUS
<1>0. members \subseteq Nodes
  BY DEF IInv, Inv, Locals
<1>1. ASSUME NEW n \in Nodes, BeginInsert(n)
      PROVE  Next
  BY <1>1 DEF BeginInsert, Begin, Next
<1>2. ASSUME NEW n \in Nodes, EraseAny(n)
      PROVE  [Next]_vars
  BY <1>0, <1>2, BeginEraseMoves DEF EraseAny
<1>3. ASSUME NEW n, StartSearch(n)
      PROVE  UNCHANGED vars
  BY <1>3 DEF StartSearch, Enter, Others, owner
<1>4. CASE StartPass
  BY <1>4 DEF StartPass, Enter, Others, owner
<1>5. CASE EraseVisited
  BY <1>0, <1>5, BeginEraseMoves DEF EraseVisited
<1>6. CASE ResumePass
  BY <1>6 DEF ResumePass, Next
<1>7. CASE Operate
  BY <1>7, OperateMoves
<1>8. CASE Store
  BY <1>8 DEF Store, owner
<1>9. CASE Release
  BY <1>9 DEF Release, Next
<1>10. CASE Walk
  BY <1>10, WalkMoves DEF Others, owner
<1>11. CASE UNCHANGED all
  BY <1>11 DEF all, owner
<1> QED BY <1>1, <1>2, <1>3, <1>4, <1>5, <1>6, <1>7, <1>8, <1>9, <1>10, <1>11 DEF SharedNext, Owner

\* The tree of the lock's owner is one of RBTree, whatever the thread without the lock
\* does: it has all the invariants of the sequential tree.
THEOREM SharedTreeIsTree == SharedSpec => Spec /\ []IInv
<1>1. SharedInit => Init
  BY DEF SharedInit
<1>2. IInv /\ [SharedNext]_all => [Next]_vars
  BY SharedStepIsStep
<1> QED BY <1>1, <1>2, InitHolds, StepHolds, PTL DEF SharedSpec, Spec

\* What the threads are about agrees with where they are.
LEMMA ControlHolds == IInv /\ Control /\ [SharedNext]_all => Control'
<1> SUFFICES ASSUME IInv, Control, [SharedNext]_all
             PROVE  Control'
  OBVIOUS
<1>0. members \subseteq Nodes
  BY DEF IInv, Inv, Locals
<1>1. ASSUME NEW n \in Nodes, BeginInsert(n)
      PROVE  Control'
  <2>1. op = "none" /\ op' = "insert" /\ call # "search" /\ pc' = "descend"
        /\ UNCHANGED <<call, step, at, up>>
    BY <1>1 DEF BeginInsert, Begin, CallInsert
  <2> QED BY <2>1 DEF Control
<1>2. ASSUME NEW n \in Nodes, EraseAny(n)
      PROVE  Control'
  <2>1. op = "none" /\ op' = "erase" /\ pc' \in {"fixerase", "returned"}
    BY <1>0, <1>2, BeginEraseMoves DEF EraseAny
  <2>2. call # "pass" /\ UNCHANGED <<call, step, at, up>>
    BY <1>2 DEF EraseAny
  <2> QED BY <2>1, <2>2 DEF Control
<1>3. ASSUME NEW n \in Nodes, StartSearch(n)
      PROVE  Control'
  <2>1. op # "insert" /\ call = "none" /\ call' = "search" /\ step' = "root"
        /\ UNCHANGED <<op, pc, at, up>>
    BY <1>3 DEF StartSearch, Enter, Others, owner, vars
  <2> QED BY <2>1 DEF Control
<1>4. CASE StartPass
  <2>1. op # "erase" /\ call = "none" /\ call' = "pass" /\ step' = "root"
        /\ UNCHANGED <<op, pc, at, up>>
    BY <1>4 DEF StartPass, Enter, Others, owner, vars
  <2> QED BY <2>1 DEF Control
<1>5. CASE EraseVisited
  <2>1. op = "none" /\ op' = "erase" /\ pc' \in {"fixerase", "returned"}
    BY <1>0, <1>5, BeginEraseMoves DEF EraseVisited
  <2>2. step = "visit" /\ step' = "erasing" /\ UNCHANGED <<call, at, up>>
    BY <1>5 DEF EraseVisited
  <2> QED BY <2>1, <2>2 DEF Control
<1>6. CASE ResumePass
  <2>1. step = "erasing" /\ pc' = "idle" /\ op' = "none" /\ step' = "visit" /\ UNCHANGED <<call, up>>
    BY <1>6 DEF ResumePass, Take, Visit
  <2> QED BY <2>1 DEF Control
<1>7. CASE Operate /\ UNCHANGED seeker
  <2>1. UNCHANGED <<op, call, step, at, up>>
    BY <1>7, OperateMoves DEF seeker
  <2>2. \/ pc \in {"descend", "fixinsert"} /\ pc' \in {"descend", "fixinsert", "returned"}
        \/ pc = "fixerase" /\ pc' \in {"fixerase", "returned"}
    BY <1>7, OperateMoves
  <2> QED BY <2>1, <2>2 DEF Control
<1>8. CASE Store /\ UNCHANGED seeker
  <2>1. UNCHANGED <<op, pc, call, step, at, up>>
    BY <1>8 DEF Store, owner, vars, seeker
  <2> QED BY <2>1 DEF Control
<1>9. CASE Release
  <2>1. step # "erasing" /\ pc' = "idle" /\ op' = "none" /\ UNCHANGED <<call, step, at, up>>
    BY <1>9 DEF Release, Take, seeker
  <2> QED BY <2>1 DEF Control
<1>10. CASE Walk
  <2>1. UNCHANGED <<op, pc>>
    BY <1>10, WalkMoves DEF Others, owner, vars
  <2>2. CASE LoadRoot
    <3>1. step = "root" /\ step' = (IF call = "search" THEN "compare" ELSE "down") /\ UNCHANGED <<call, up>>
      BY <2>2 DEF LoadRoot, Goes
    <3> QED BY <2>1, <3>1 DEF Control
  <2>3. CASE Compare
    <3>1. step = "compare" /\ step' \in {"compare", "done", "wild"} /\ UNCHANGED <<call, up>>
      BY <2>3 DEF Compare, Goes
    <3> QED BY <2>1, <3>1 DEF Control
  <2>4. CASE EndSearch
    <3>1. step = "done" /\ call' = "none" /\ step' = "off" /\ at' = NULL /\ UNCHANGED up
      BY <2>4 DEF EndSearch
    <3> QED BY <2>1, <3>1 DEF Control
  <2>5. CASE TestLeft
    <3>1. step = "down" /\ step' \in {"left", "visit"} /\ UNCHANGED <<call, up>>
      BY <2>5 DEF TestLeft, Goes, Visit
    <3> QED BY <2>1, <3>1 DEF Control
  <2>6. CASE LoadLeft
    <3>1. step = "left" /\ step' = "down" /\ UNCHANGED <<call, up>>
      BY <2>6 DEF LoadLeft, Goes
    <3> QED BY <2>1, <3>1 DEF Control
  <2>7. CASE Advance
    <3>1. step = "visit" /\ step' \in {"down", "climb"} /\ UNCHANGED <<call, up>>
      BY <2>7 DEF Advance
    <3> QED BY <2>1, <3>1 DEF Control
  <2>8. CASE LoadParent
    <3>1. step = "climb" /\ step' = "side" /\ UNCHANGED <<call, at>>
      BY <2>8 DEF LoadParent
    <3> QED BY <2>1, <3>1 DEF Control
  <2>9. CASE TestSide
    <3>1. step = "side" /\ step' \in {"climb", "visit"} /\ up' = NULL /\ UNCHANGED call
      BY <2>9 DEF TestSide, Visit
    <3> QED BY <2>1, <3>1 DEF Control
  <2>10. CASE EndPass
    <3>1. step = "visit" /\ at = NULL /\ call' = "none" /\ step' = "off" /\ UNCHANGED <<at, up>>
      BY <2>10 DEF EndPass
    <3> QED BY <2>1, <3>1 DEF Control
  <2> QED BY <1>10, <2>2, <2>3, <2>4, <2>5, <2>6, <2>7, <2>8, <2>9, <2>10 DEF Walk
<1>11. CASE UNCHANGED all
  BY <1>11 DEF all, owner, vars, seeker, Control
<1> QED BY <1>1, <1>2, <1>3, <1>4, <1>5, <1>6, <1>7, <1>8, <1>9, <1>10, <1>11 DEF SharedNext, Owner

\* At all times what the threads are about agrees with where they are.
LEMMA InControl == SharedSpec => []Control
<1>1. SharedInit => Control
  BY DEF SharedInit, Init, Control
<1> QED BY <1>1, ControlHolds, SharedTreeIsTree, PTL DEF SharedSpec
-----------------------------------------------------------------------------
(***************************************************************************)
(* Memory is what the lock's owner has stored.                             *)
(***************************************************************************)
\* What is allocated, and which stores are still to be made.
Pending ==
  /\ op = "none" => stores = <<>> /\ used = members
  /\ op = "insert" =>
       \/ stores \in Seq(Marks(Held)) /\ used = Held
       \/ pc = "fixinsert" /\ stores = LinkStores /\ used = members
  /\ op = "erase" =>
       \/ stores \in Seq(Marks(Nodes)) /\ used = members
       \/ /\ pc = "returned"
          /\ \E n \in Nodes \ members, q \in Seq(Marks(Nodes)) :
               stores = q \o <<Free(n)>> /\ used = members \cup {n}

\* The stores that are still to be made make the owner's tree.
Made == Result(mem, stores) = t

\* The first of a sequence and what is left after it.
LEMMA HeadAndTail ==
  ASSUME NEW M, NEW seq \in Seq(M), seq # <<>>
  PROVE  Head(seq) \in M /\ Tail(seq) \in Seq(M)
OBVIOUS

\* A sequence with one more at the end.
LEMMA Appended ==
  ASSUME NEW M, NEW q \in Seq(M), NEW x
  PROVE  /\ q \o <<x>> # <<>> /\ Listed(q \o <<x>>)
         /\ q = <<>> => Head(q \o <<x>>) = x /\ Tail(q \o <<x>>) = <<>>
         /\ q # <<>> => Head(q \o <<x>>) = Head(q) /\ Tail(q \o <<x>>) = Tail(q) \o <<x>>
<1> DEFINE S == M \cup {x}
           r == q \o <<x>>
<1>1. q \in Seq(S) /\ <<x>> \in Seq(S)
  OBVIOUS
<1> HIDE DEF S
<1>2. r \in Seq(S) /\ Len(r) = Len(q) + 1 /\ Len(q) \in Nat
        /\ (\A i \in 1..Len(q) : r[i] = q[i]) /\ r[Len(q) + 1] = x
  BY <1>1
<1>3. r # <<>>
  BY <1>2
<1>4. q = <<>> => r = <<x>>
  BY <1>1
<1>5. q # <<>> => Head(r) = Head(q) /\ Tail(r) = Tail(q) \o <<x>>
  BY <1>1, <1>2
<1>6. Listed(r)
  BY <1>2 DEF Listed
<1>7. q = <<>> => Head(r) = x /\ Tail(r) = <<>>
  BY <1>4
<1> QED BY <1>3, <1>5, <1>6, <1>7

\* An erase that has taken a step.
LEMMA ErasesPends ==
  ASSUME NEW seq, NEW n \in members, members \subseteq Nodes, Erases(seq, n),
         mem = t, mem' = mem, used = members, used' = used, op' = "erase",
         stores' = seq \o When(pc' = "returned", <<Free(n)>>),
         members' = IF pc' = "returned" THEN members \ {n} ELSE members
  PROVE  Pending' /\ Made'
<1>1. PICK s : Run(seq, t, s, Nodes) /\ t' = IF pc' = "returned" THEN Freed(s, n) ELSE s
  BY DEF Erases
<1>2. seq \in Seq(Marks(Nodes)) /\ Result(t, seq) = s
  BY <1>1 DEF Run
<1>3. CASE pc' = "returned"
  <2>1. stores' = seq \o <<Free(n)>>
    BY <1>3 DEF When
  <2>2. n \in Nodes \ members' /\ used' = members' \cup {n}
    BY <1>3
  <2>3. Pending'
    BY <1>2, <1>3, <2>1, <2>2 DEF Pending
  <2>4. Listed(seq) /\ Listed(<<Free(n)>>)
    BY <1>2, ResultOne DEF Listed
  <2>5. Result(t, seq \o <<Free(n)>>) = Freed(s, n)
    BY <1>2, <2>4, ResultCat, ResultOne, ApplyFree
  <2> QED BY <1>1, <1>3, <2>1, <2>3, <2>5 DEF Made
<1>4. CASE pc' # "returned"
  <2>1. stores' = seq
    <3> DEFINE M == Marks(Nodes)
    <3>1. seq \in Seq(M) /\ stores' = seq \o <<>>
      BY <1>2, <1>4 DEF When
    <3> HIDE DEF M
    <3> QED BY <3>1
  <2>2. Pending'
    BY <1>2, <1>4, <2>1 DEF Pending
  <2> QED BY <1>1, <1>2, <1>4, <2>1, <2>2 DEF Made
<1> QED BY <1>3, <1>4

\* An insert that has rebalanced the tree.
LEMMA RunPends ==
  ASSUME NEW seq, Run(seq, t, t', Held), mem = t, mem' = mem, used = Held, used' = used,
         op' = "insert", stores' = seq, Held' = Held
  PROVE  Pending' /\ Made'
<1>1. stores' \in Seq(Marks(Held')) /\ used' = Held'
  BY DEF Run
<1>2. Pending'
  BY <1>1 DEF Pending
<1> QED BY <1>2 DEF Run, Made

\* What the lock's owner finds when its stores are made.
LEMMA AllStored ==
  ASSUME Control, Pending, Made, stores = <<>>
  PROVE  mem = t /\ used = IF op = "insert" THEN Held ELSE members
<1>1. mem = t
  BY ResultEmpty DEF Made
<1>2. ASSUME NEW n, NEW q \in Seq(Marks(Nodes))
      PROVE  stores # q \o <<Free(n)>>
  BY Appended
<1>3. stores # LinkStores
  BY DEF LinkStores
<1> QED BY <1>1, <1>2, <1>3 DEF Pending, Control

\* The bursts of the first step of an erase.
LEMMA BeginErases ==
  ASSUME IInv, NEW n \in Nodes, EraseNoLeft(n) \/ EraseNoRight(n) \/ EraseTwo(n)
  PROVE  Erases(EraseStores(n), n)
<1>1. CASE EraseNoLeft(n)
  <2>1. EraseStores(n) = EraseNoLeftStores(n)
    BY <1>1 DEF EraseNoLeft, EraseStores
  <2> QED BY <1>1, <2>1, NoLeftErases
<1>2. CASE EraseNoRight(n)
  <2>1. EraseStores(n) = EraseNoRightStores(n)
    BY <1>2 DEF EraseNoRight, EraseStores
  <2> QED BY <1>2, <2>1, NoRightErases
<1>3. CASE EraseTwo(n)
  <2>1. EraseStores(n) = EraseTwoStores(n)
    BY <1>3 DEF EraseTwo, EraseStores
  <2> QED BY <1>3, <2>1, TwoErases
<1> QED BY <1>1, <1>2, <1>3

\* An erase begins.
LEMMA BeginErasePends ==
  ASSUME IInv, Control, Pending, Made, NEW n, BeginErase(n)
  PROVE  Pending' /\ Made'
<1>1. members \subseteq Nodes
  BY DEF IInv, Inv, Locals
<1>2. /\ op = "none" /\ op' = "erase" /\ UNCHANGED <<mem, used>>
      /\ pc = "idle" /\ n \in members
      /\ stores' = EraseStores(n) \o When(pc' = "returned", <<Free(n)>>)
  BY <1>1, BeginEraseMoves
<1>3. stores = <<>> /\ mem = t /\ used = members
  <2>1. stores = <<>>
    BY <1>2 DEF Pending
  <2> QED BY <1>2, <2>1, AllStored
<1>4. EraseNoLeft(n) \/ EraseNoRight(n) \/ EraseTwo(n)
  BY DEF BeginErase, Begin
<1>5. Erases(EraseStores(n), n)
  BY <1>1, <1>2, <1>4, BeginErases
<1>6. \E s, r : Unlinked(s, r, n)
  <2>1. CASE EraseNoLeft(n)
    BY <2>1 DEF EraseNoLeft
  <2>2. CASE EraseNoRight(n)
    BY <2>2 DEF EraseNoRight
  <2>3. CASE EraseTwo(n)
    BY <2>3 DEF EraseTwo
  <2> QED BY <1>4, <2>1, <2>2, <2>3
<1>7. members' = IF pc' = "returned" THEN members \ {n} ELSE members
  BY <1>6 DEF Unlinked, Return
<1> QED BY <1>1, <1>2, <1>3, <1>5, <1>7, ErasesPends

\* An operation goes on.
LEMMA OperatePends ==
  ASSUME IInv, Control, Pending, Made, Operate
  PROVE  Pending' /\ Made'
<1>1. /\ stores = <<>> /\ UNCHANGED <<mem, used, op>>
      /\ \/ pc \in {"descend", "fixinsert"} /\ pc' \in {"descend", "fixinsert", "returned"}
         \/ pc = "fixerase" /\ pc' \in {"fixerase", "returned"}
  BY OperateMoves
<1>2. mem = t /\ used = IF op = "insert" THEN Held ELSE members
  BY <1>1, AllStored
<1>3. /\ pc \in {"descend", "fixinsert"} => op' = "insert" /\ used = Held
      /\ pc = "fixerase" => op' = "erase" /\ used = members
  BY <1>1, <1>2 DEF Control
<1>4. members \subseteq Nodes /\ (pc = "fixerase" => new \in members)
  BY DEF IInv, Inv, Locals
<1>5. CASE Burst(Descend, <<>>)
  <2>1. pc = "descend" /\ pc' \in {"descend", "returned"} /\ UNCHANGED <<t, members>> /\ stores' = <<>>
    BY <1>5 DEF Burst, Descend, Return
  <2>2. Held' = Held
    BY <2>1 DEF Held
  <2>3. Run(<<>>, t, t', Held)
    BY <2>1, RunNone
  <2> QED BY <1>1, <1>2, <1>3, <2>1, <2>2, <2>3, RunPends
<1>6. CASE Burst(Link, LinkStores)
  <2>1. pc = "descend" /\ pc' = "fixinsert" /\ UNCHANGED <<new, parent, members>> /\ Link
          /\ stores' = LinkStores
    BY <1>6 DEF Burst, Link
  <2>2. stores' = LinkStores'
    BY <2>1 DEF LinkStores, Hang
  <2>3. used' = members'
    BY <1>1, <1>3, <2>1 DEF Held
  <2>4. Result(t, LinkStores) = t'
    BY <2>1, LinkRuns
  <2>5. Made'
    BY <1>1, <1>2, <2>1, <2>4 DEF Made
  <2>6. op' = "insert"
    BY <1>3, <2>1
  <2> QED BY <2>1, <2>2, <2>3, <2>5, <2>6 DEF Pending
<1>7. CASE Burst(InsertDone, InsertDoneStores)
  <2>1. pc = "fixinsert" /\ pc' = "returned" /\ members' = members \cup {new} /\ InsertDone
          /\ stores' = InsertDoneStores
    BY <1>7 DEF Burst, InsertDone, Return
  <2>2. Held' = Held
    BY <2>1 DEF Held
  <2> QED BY <1>1, <1>2, <1>3, <2>1, <2>2, DoneRuns, RunPends
<1>8. CASE Burst(InsertFlip, InsertFlipStores)
  <2>1. pc = "fixinsert" /\ UNCHANGED <<pc, new, members>> /\ InsertFlip
          /\ stores' = InsertFlipStores
    BY <1>8 DEF Burst, InsertFlip
  <2>2. Held' = Held
    BY <2>1 DEF Held
  <2> QED BY <1>1, <1>2, <1>3, <2>1, <2>2, FlipRuns, RunPends
<1>9. CASE Burst(InsertRotate, InsertRotateStores)
  <2>1. pc = "fixinsert" /\ pc' = "returned" /\ members' = members \cup {new} /\ InsertRotate
          /\ stores' = InsertRotateStores
    BY <1>9 DEF Burst, InsertRotate, Return
  <2>2. Held' = Held
    BY <2>1 DEF Held
  <2> QED BY <1>1, <1>2, <1>3, <2>1, <2>2, RotateRuns, RunPends
<1>10. CASE Burst(EraseRotate, EraseRotateStores)
  <2>1. pc = "fixerase" /\ pc' = "fixerase" /\ members' = members /\ EraseRotate
          /\ stores' = EraseRotateStores
    BY <1>10 DEF Burst, EraseRotate
  <2>2. Run(EraseRotateStores, t, t', Nodes)
    BY <2>1, LowerErases DEF Erases
  <2>3. stores' \in Seq(Marks(Nodes)) /\ Made'
    BY <1>1, <1>2, <2>1, <2>2 DEF Run, Made
  <2>4. op' = "erase" /\ used' = members'
    BY <1>1, <1>3, <2>1
  <2> QED BY <2>3, <2>4 DEF Pending
<1>11. CASE Freeing(EraseFlip, new, EraseFlipStores)
  <2>1. pc = "fixerase" /\ EraseFlip
          /\ stores' = EraseFlipStores \o When(pc' = "returned", <<Free(new)>>)
    BY <1>11 DEF Freeing, EraseFlip
  <2>2. members' = IF pc' = "returned" THEN members \ {new} ELSE members
    BY <2>1 DEF EraseFlip, EraseReturn, Return
  <2> QED BY <1>1, <1>2, <1>3, <1>4, <2>1, <2>2, DarkenErases, ErasesPends
<1>12. CASE Freeing(EraseRaise, new, EraseRaiseStores)
  <2>1. pc = "fixerase" /\ EraseRaise
          /\ stores' = EraseRaiseStores \o When(pc' = "returned", <<Free(new)>>)
    BY <1>12 DEF Freeing, EraseRaise
  <2>2. members' = IF pc' = "returned" THEN members \ {new} ELSE members
    BY <2>1 DEF EraseRaise, EraseReturn, Return
  <2> QED BY <1>1, <1>2, <1>3, <1>4, <2>1, <2>2, RaiseErases, ErasesPends
<1> QED BY <1>5, <1>6, <1>7, <1>8, <1>9, <1>10, <1>11, <1>12 DEF Operate

\* No mark links a new node or frees one.
LEMMA MarkDoes == \A H : \A st \in Marks(H) : st.do \in {"kid", "par", "root"}
BY DEF Marks

\* While the owner repairs the tree after an insert, the new node has a place in it.
LEMMA NewIsHeld ==
  ASSUME IInv, pc = "fixinsert"
  PROVE  /\ new \in Nodes \ members /\ Held = members \cup {new}
         /\ parent \in Held \cup {NULL}
<1>1. PICK b \in Families, h \in Heights : Inv(b, h)
  BY DEF IInv
<1>2. new \in Nodes \ members /\ node \in Held /\ parent = t.par[node]
  BY <1>1 DEF Inv, Locals
<1>3. Shape(t, Held, b)
  BY <1>1, HeldIsShaped
<1>4. parent \in Held \cup {NULL}
  BY <1>2, <1>3 DEF Shape, Paired
<1> QED BY <1>2, <1>4 DEF Held

\* A store is made.
LEMMA StorePends ==
  ASSUME IInv, Control, Pending, Made, Store
  PROVE  Pending' /\ Made'
<1> DEFINE st == Head(stores)
<1>1. /\ stores # <<>> /\ mem' = Apply(mem, st) /\ stores' = Tail(stores)
      /\ UNCHANGED <<t, pc, new, members, op>>
      /\ used' = CASE st.do = "leaf" -> used \cup {st.node}
                   [] st.do = "free" -> used \ {st.node}
                   [] OTHER -> used
  BY DEF Store, owner, vars, locals
<1>2. Held' = Held
  BY <1>1 DEF Held
<1>3. op \in {"insert", "erase"}
  BY <1>1 DEF Control, Pending
<1>4. ASSUME NEW M, stores \in Seq(M), Pending'
      PROVE  Pending' /\ Made'
  <2>1. Listed(stores)
    BY <1>4 DEF Listed
  <2>2. Result(mem, stores) = Result(mem', stores')
    BY <1>1, <2>1, ResultCons
  <2> QED BY <1>1, <1>4, <2>2 DEF Made
<1>5. ASSUME NEW H, stores \in Seq(Marks(H))
      PROVE  stores' \in Seq(Marks(H)) /\ used' = used
  <2>1. st \in Marks(H) /\ stores' \in Seq(Marks(H))
    BY <1>1, <1>5, HeadAndTail
  <2> HIDE DEF st
  <2>2. st.do \in {"kid", "par", "root"}
    BY <2>1, MarkDoes
  <2> QED BY <1>1, <2>1, <2>2
<1>6. CASE op = "insert" /\ stores \in Seq(Marks(Held)) /\ used = Held
  <2>1. stores' \in Seq(Marks(Held')) /\ used' = Held'
    BY <1>2, <1>5, <1>6
  <2>2. Pending'
    BY <1>1, <1>6, <2>1 DEF Pending
  <2> QED BY <1>4, <1>6, <2>2
<1>7. CASE op = "insert" /\ pc = "fixinsert" /\ stores = LinkStores /\ used = members
  <2>1. st = Leaf(new, parent) /\ stores' = <<Hang(new, parent)>>
    BY <1>1, <1>7 DEF LinkStores
  <2>2. new \in Nodes \ members /\ Held = members \cup {new} /\ parent \in Held \cup {NULL}
    BY <1>7, NewIsHeld
  <2>3. used' = Held'
    <3>1. st.do = "leaf" /\ st.node = new
      BY <2>1 DEF Leaf
    <3> HIDE DEF st
    <3> QED BY <1>1, <1>2, <1>7, <2>2, <3>1
  <2>4. Hang(new, parent) \in Marks(Held)
    <3>1. new \in Held \cup {NULL}
      BY <2>2
    <3> QED BY <2>2, <3>1, MarksAre, OppIs DEF Hang
  <2>5. stores' \in Seq(Marks(Held'))
    <3> DEFINE M == Marks(Held)
    <3>1. Hang(new, parent) \in M
      BY <2>4
    <3> HIDE DEF M
    <3>2. stores' \in Seq(M)
      BY <2>1, <3>1
    <3> QED BY <1>2, <3>2 DEF M
  <2>6. Pending'
    BY <1>1, <1>7, <2>3, <2>5 DEF Pending
  <2>7. stores \in Seq({Leaf(new, parent), Hang(new, parent)})
    BY <1>7 DEF LinkStores
  <2> QED BY <1>4, <2>6, <2>7
<1>8. CASE op = "erase" /\ stores \in Seq(Marks(Nodes)) /\ used = members
  <2>1. stores' \in Seq(Marks(Nodes)) /\ used' = members'
    BY <1>1, <1>5, <1>8
  <2>2. Pending'
    BY <1>1, <1>8, <2>1 DEF Pending
  <2> QED BY <1>4, <1>8, <2>2
<1>9. ASSUME op = "erase", pc = "returned", NEW n \in Nodes \ members, NEW q \in Seq(Marks(Nodes)),
             stores = q \o <<Free(n)>>, used = members \cup {n}
      PROVE  Pending' /\ Made'
  <2>1. PICK S : stores \in Seq(S)
    BY <1>9, Appended DEF Listed
  <2>2. CASE q = <<>>
    <3>1. st = Free(n) /\ stores' = <<>>
      BY <1>1, <1>9, <2>2, Appended
    <3>2. used' = members'
      <4>1. st.do = "free" /\ st.node = n
        BY <3>1 DEF Free
      <4> HIDE DEF st
      <4> QED BY <1>1, <1>9, <4>1
    <3>3. stores' \in Seq(Marks(Nodes))
      BY <3>1
    <3>4. Pending'
      BY <1>1, <1>9, <3>2, <3>3 DEF Pending
    <3> QED BY <1>4, <2>1, <3>4
  <2>3. CASE q # <<>>
    <3>1. st = Head(q) /\ stores' = Tail(q) \o <<Free(n)>>
      BY <1>1, <1>9, <2>3, Appended
    <3>2. Head(q) \in Marks(Nodes) /\ Tail(q) \in Seq(Marks(Nodes))
      BY <2>3, HeadAndTail
    <3>3. used' = members' \cup {n} /\ n \in Nodes \ members'
      <4>1. st.do \in {"kid", "par", "root"}
        BY <3>1, <3>2, MarkDoes
      <4> HIDE DEF st
      <4> QED BY <1>1, <1>9, <4>1
    <3>4. Pending'
      BY <1>1, <1>9, <3>1, <3>2, <3>3 DEF Pending
    <3> QED BY <1>4, <2>1, <3>4
  <2> QED BY <2>2, <2>3
<1> QED BY <1>3, <1>6, <1>7, <1>8, <1>9 DEF Pending

\* What is stored, and what is still to be, agree at all times.
LEMMA PendingHolds ==
  IInv /\ Control /\ Pending /\ Made /\ [SharedNext]_all => Pending' /\ Made'
<1> SUFFICES ASSUME IInv, Control, Pending, Made, [SharedNext]_all
             PROVE  Pending' /\ Made'
  OBVIOUS
<1>1. ASSUME NEW n \in Nodes, BeginInsert(n)
      PROVE  Pending' /\ Made'
  <2>1. op = "none" /\ op' = "insert" /\ pc' = "descend"
        /\ UNCHANGED <<t, members, mem, used, stores>>
    BY <1>1 DEF BeginInsert, Begin, CallInsert, memory
  <2>2. stores' = <<>> /\ used' = members' /\ Held' = members'
    BY <2>1 DEF Pending, Held
  <2>3. stores' \in Seq(Marks(Held'))
    BY <2>2
  <2>4. Pending'
    BY <2>1, <2>2, <2>3 DEF Pending
  <2> QED BY <2>1, <2>4 DEF Made
<1>2. ASSUME NEW n \in Nodes, EraseAny(n)
      PROVE  Pending' /\ Made'
  BY <1>2, BeginErasePends DEF EraseAny
<1>3. ASSUME UNCHANGED <<owner, memory>>
      PROVE  Pending' /\ Made'
  <2>1. UNCHANGED <<t, pc, new, parent, members, mem, used, stores, op>>
    BY <1>3 DEF owner, vars, locals, memory
  <2>2. Held' = Held /\ LinkStores' = LinkStores
    BY <2>1 DEF Held, LinkStores, Hang
  <2>3. Pending'
    BY <2>1, <2>2 DEF Pending
  <2> QED BY <2>1, <2>3 DEF Made
<1>4. ASSUME NEW n \in Nodes, StartSearch(n)
      PROVE  Pending' /\ Made'
  BY <1>3, <1>4 DEF StartSearch, Enter, Others
<1>5. CASE StartPass
  BY <1>3, <1>5 DEF StartPass, Enter, Others
<1>6. CASE EraseVisited
  BY <1>6, BeginErasePends DEF EraseVisited
<1>7. ASSUME stores = <<>>, Take, op' = "none", UNCHANGED memory
      PROVE  Pending' /\ Made'
  <2>1. pc = "returned" /\ UNCHANGED <<t, members, mem, used, stores>>
    BY <1>7 DEF Take, memory
  <2>2. mem = t /\ used = IF op = "insert" THEN Held ELSE members
    BY <1>7, AllStored
  <2>3. Held = members
    BY <2>1 DEF Held
  <2>4. Pending'
    BY <1>7, <2>1, <2>2, <2>3 DEF Pending
  <2> QED BY <2>1, <2>4 DEF Made
<1>8. CASE ResumePass
  BY <1>7, <1>8 DEF ResumePass, memory
<1>9. CASE Release
  BY <1>7, <1>9 DEF Release
<1>10. CASE Operate
  BY <1>10, OperatePends
<1>11. CASE Store
  BY <1>11, StorePends
<1>12. CASE Walk
  BY <1>3, <1>12, WalkMoves DEF Others
<1>13. CASE UNCHANGED all
  BY <1>3, <1>13 DEF all
<1> QED BY <1>1, <1>2, <1>4, <1>5, <1>6, <1>8, <1>9, <1>10, <1>11, <1>12, <1>13 DEF SharedNext, Owner

\* At all times the stores still to be made turn what is in memory into the tree.
LEMMA MemoryIsPending == SharedSpec => [](Pending /\ Made)
<1>1. SharedInit => Pending /\ Made
  <2> SUFFICES ASSUME SharedInit
               PROVE  Pending /\ Made
    OBVIOUS
  <2>1. mem = t /\ used = members /\ stores = <<>> /\ op = "none"
    BY DEF SharedInit, Init
  <2> QED BY <2>1, ResultEmpty DEF Pending, Made
<1> QED BY <1>1, PendingHolds, SharedTreeIsTree, InControl, PTL DEF SharedSpec

\* Once the single stores of a step of the lock's owner (rbtree.c, one by one) are all
\* made, the tree in memory is the one that the step makes of the tree, whatever the
\* operations and their order.
THEOREM StoresHold == SharedSpec => []StoresMakeTree
<1>1. Made => StoresMakeTree
  BY DEF Made, Result, StoresMakeTree
<1> QED BY <1>1, MemoryIsPending, PTL
-----------------------------------------------------------------------------
(***************************************************************************)
(* The pass over the tree keeps to what is allocated.                      *)
(***************************************************************************)
\* No pointer in a node of H, nor the root, leads out of H.
Within(s, H) ==
  /\ s \in Trees /\ s.root \in H \cup {NULL}
  /\ \A n \in H : /\ s.par[n] \in H \cup {NULL}
                  /\ \A d \in Dirs : s.kid[n][d] \in H \cup {NULL}

\* The tree in memory is within what is allocated, but while an erase is under way.
Enclosed == op # "erase" => Within(mem, used)

\* A pass has its hands on what is allocated.
Walking ==
  call = "pass" /\ step # "erasing" =>
    /\ at \in used \cup {NULL} /\ up \in used \cup {NULL}
    /\ step \in {"left", "climb", "side"} => at # NULL

\* What the erase of the pass is about, and what it returns to it.
Resuming ==
  step = "erasing" =>
    /\ pc = "fixerase" => new = at
    /\ pc = "returned" => at \notin members /\ result \in Contents!First(Contents!After(members, at))

\* A mark keeps within what it is a mark of.
LEMMA MarkStaysWithin ==
  ASSUME NEW s, NEW H \in SUBSET Nodes, Within(s, H), NEW st \in Marks(H)
  PROVE  Within(Apply(s, st), H)
<1>0. H \cup {NULL} \subseteq Maybe /\ s \in Trees
  BY DEF Maybe, Within
<1>1. CASE st \in [do : {"kid"}, node : H, dir : Dirs, to : H \cup {NULL}]
  <2> DEFINE r == SetKid(s, st.node, st.dir, st.to)
  <2>1. st.node \in H /\ st.dir \in Dirs /\ st.to \in H \cup {NULL} /\ Apply(s, st) = r
    BY <1>1 DEF Apply
  <2>2. KidIs(r, s, st.node, st.dir, st.to)
    <3>1. st.node \in Nodes /\ st.to \in Maybe
      BY <1>0, <2>1
    <3> QED BY <1>0, <2>1, <3>1, SetKidIs
  <2> HIDE DEF r
  <2> QED BY <2>1, <2>2 DEF KidIs, Within
<1>2. CASE st \in [do : {"par"}, node : H, to : H \cup {NULL}, col : {"red", "black"}]
  <2> DEFINE r == SetParentColor(s, st.node, st.to, st.col)
  <2>1. /\ st.node \in H /\ st.to \in H \cup {NULL} /\ st.col \in {"red", "black"}
        /\ Apply(s, st) = r
    BY <1>2 DEF Apply
  <2>2. ParentColorIs(r, s, st.node, st.to, st.col)
    <3>1. st.node \in Nodes /\ st.to \in Maybe
      BY <1>0, <2>1
    <3> QED BY <1>0, <2>1, <3>1, SetParentColorIs
  <2> HIDE DEF r
  <2> QED BY <2>1, <2>2 DEF ParentColorIs, Within
<1>3. CASE st \in [do : {"root"}, to : H \cup {NULL}]
  <2> DEFINE r == [s EXCEPT !.root = st.to]
  <2>1. st.to \in H \cup {NULL} /\ Apply(s, st) = r
    BY <1>3 DEF Apply
  <2>2. r \in Trees /\ r.kid = s.kid /\ r.par = s.par /\ r.root = st.to
    BY <1>0, <2>1 DEF Trees
  <2> HIDE DEF r
  <2> QED BY <2>1, <2>2 DEF Within
<1> QED BY <1>1, <1>2, <1>3 DEF Marks

\* A node that is initialised and not yet linked in.
LEMMA LeafStaysWithin ==
  ASSUME NEW s, NEW H \in SUBSET Nodes, Within(s, H), NEW n \in Nodes \ H,
         NEW p \in H \cup {n, NULL}
  PROVE  Within(Apply(s, Leaf(n, p)), H \cup {n})
<1> DEFINE r == SetParentColor([s EXCEPT !.kid[n] = NoKids], n, p, "red")
<1>1. s \in Trees /\ p \in Maybe
  BY DEF Maybe, Within
<1>2. /\ r \in Trees /\ r.root = s.root
      /\ \A k \in Nodes : r.kid[k] = IF k = n THEN NoKids ELSE s.kid[k]
      /\ \A k \in Nodes : r.par[k] = IF k = n THEN p ELSE s.par[k]
  <2> DEFINE r1 == [s EXCEPT !.kid[n] = NoKids]
  <2>1. NoKids \in [Dirs -> Maybe]
    BY DEF NoKids, Maybe
  <2>2. r1 \in Trees /\ r1.root = s.root /\ r1.par = s.par
          /\ \A k \in Nodes : r1.kid[k] = IF k = n THEN NoKids ELSE s.kid[k]
    BY <1>1, <2>1 DEF Trees
  <2> HIDE DEF r1
  <2>3. ParentColorIs(SetParentColor(r1, n, p, "red"), r1, n, p, "red")
    BY <1>1, <2>2, SetParentColorIs
  <2> QED BY <2>2, <2>3 DEF ParentColorIs, r1
<1>3. Apply(s, Leaf(n, p)) = r
  BY ApplyLeaf
<1>4. \A d \in Dirs : NoKids[d] = NULL
  BY DEF NoKids
<1> HIDE DEF r
<1> QED BY <1>2, <1>3, <1>4 DEF Within

\* A tree in which every pointer is in order.
LEMMA ShapeIsWithin ==
  ASSUME IInv
  PROVE  Within(t, Held) /\ members \subseteq Nodes
<1>1. PICK b \in Families, h \in Heights : Inv(b, h)
  BY DEF IInv
<1>2. t \in Trees /\ Shape(t, Held, b)
  BY <1>1, HeldIsShaped
<1>3. Within(t, Held)
  BY <1>2 DEF Shape, Rooted, Paired, Within
<1> QED BY <1>1, <1>3 DEF Inv, Locals

\* The unlock, or the return to the pass.
LEMMA TakeEncloses ==
  ASSUME IInv, Control, Pending, Made, stores = <<>>, Take, UNCHANGED memory, Enclosed
  PROVE  Enclosed' /\ used' = used /\ (op = "erase" => used = members)
<1>1. pc = "returned" /\ UNCHANGED <<mem, used>>
  BY DEF Take, memory
<1>2. mem = t /\ used = IF op = "insert" THEN Held ELSE members
  BY AllStored
<1>3. Held = members
  BY <1>1 DEF Held
<1>4. Within(mem, used)
  BY <1>2, <1>3, ShapeIsWithin
<1> QED BY <1>1, <1>2, <1>4 DEF Enclosed

\* A store of an insert keeps within what is allocated, which only grows.
LEMMA StoreEncloses ==
  ASSUME IInv, Control, Pending, Enclosed, Store
  PROVE  Enclosed' /\ (op # "erase" => used \subseteq used')
<1> DEFINE st == Head(stores)
<1>1. /\ stores # <<>> /\ mem' = Apply(mem, st) /\ op' = op
      /\ used' = CASE st.do = "leaf" -> used \cup {st.node}
                   [] st.do = "free" -> used \ {st.node}
                   [] OTHER -> used
  BY DEF Store, owner
<1>2. op \in {"insert", "erase"}
  BY <1>1 DEF Control, Pending
<1>3. CASE op = "erase"
  BY <1>1, <1>3 DEF Enclosed
<1>4. CASE op = "insert" /\ stores \in Seq(Marks(Held)) /\ used = Held
  <2>1. st \in Marks(used)
    BY <1>1, <1>4, HeadAndTail
  <2>2. Within(mem, used) /\ used \in SUBSET Nodes
    <3>1. used \in SUBSET Nodes
      BY <1>4, HeldIsShaped DEF IInv
    <3> QED BY <1>4, <3>1 DEF Enclosed
  <2> HIDE DEF st
  <2>3. st.do \in {"kid", "par", "root"}
    BY <2>1, MarkDoes
  <2>4. Within(mem', used)
    BY <1>1, <2>1, <2>2, MarkStaysWithin
  <2> QED BY <1>1, <2>3, <2>4 DEF Enclosed
<1>5. CASE op = "insert" /\ pc = "fixinsert" /\ stores = LinkStores /\ used = members
  <2>1. st = Leaf(new, parent)
    BY <1>5 DEF LinkStores
  <2>2. new \in Nodes \ members /\ parent \in members \cup {new, NULL} /\ members \in SUBSET Nodes
    BY <1>5, NewIsHeld, ShapeIsWithin
  <2>3. st.do = "leaf" /\ st.node = new
    BY <2>1 DEF Leaf
  <2>4. Within(mem', used \cup {new})
    <3>1. Within(mem, used)
      BY <1>5 DEF Enclosed
    <3> HIDE DEF st
    <3> QED BY <1>1, <1>5, <2>1, <2>2, <3>1, LeafStaysWithin
  <2> HIDE DEF st
  <2> QED BY <1>1, <2>3, <2>4 DEF Enclosed
<1> QED BY <1>2, <1>3, <1>4, <1>5 DEF Pending

\* Between operations on the tree a walk finds it as it is, and an erase begins there.
Roaming == Enclosed /\ Walking

\* The tree stays within what is allocated, and the pass with it.
LEMMA RoamingHolds ==
  IInv /\ Control /\ Pending /\ Made /\ Resuming /\ Roaming /\ [SharedNext]_all => Roaming'
<1> SUFFICES ASSUME IInv, Control, Pending, Made, Resuming, Roaming, [SharedNext]_all
             PROVE  Roaming'
  OBVIOUS
<1> USE DEF Roaming
<1>0. members \subseteq Nodes
  BY ShapeIsWithin
<1>1. ASSUME NEW n \in Nodes, BeginInsert(n)
      PROVE  Roaming'
  <2>1. op = "none" /\ UNCHANGED <<mem, used, call, step, at, up>>
    BY <1>1 DEF BeginInsert, Begin, memory
  <2> QED BY <2>1 DEF Enclosed, Walking
<1>2. ASSUME NEW n \in Nodes, EraseAny(n)
      PROVE  Roaming'
  <2>1. op' = "erase"
    BY <1>0, <1>2, BeginEraseMoves DEF EraseAny
  <2>2. call' # "pass"
    BY <1>2 DEF EraseAny
  <2> QED BY <2>1, <2>2 DEF Enclosed, Walking
<1>3. ASSUME UNCHANGED Others
      PROVE  Enclosed' /\ UNCHANGED <<mem, used, op>>
  BY <1>3 DEF Enclosed, Others, owner, memory
<1>4. ASSUME NEW n \in Nodes, StartSearch(n)
      PROVE  Roaming'
  <2>1. call' = "search" /\ UNCHANGED Others
    BY <1>4 DEF StartSearch, Enter
  <2> QED BY <1>3, <2>1 DEF Walking
<1>5. CASE StartPass
  <2>1. call = "none" /\ step' = "root" /\ UNCHANGED <<at, up>> /\ UNCHANGED Others
    BY <1>5 DEF StartPass, Enter
  <2>2. at = NULL /\ up = NULL
    BY <2>1 DEF Control
  <2> QED BY <1>3, <2>1, <2>2 DEF Walking
<1>6. CASE EraseVisited
  <2>1. op' = "erase" /\ step' = "erasing"
    BY <1>0, <1>6, BeginEraseMoves DEF EraseVisited
  <2> QED BY <2>1 DEF Enclosed, Walking
<1>7. CASE ResumePass
  <2>1. /\ step = "erasing" /\ stores = <<>> /\ Take /\ UNCHANGED memory
        /\ step' = "visit" /\ at' = result /\ up' = up
    BY <1>7 DEF ResumePass, Visit
  <2>2. op = "erase" /\ up = NULL
    BY <2>1 DEF Control
  <2>3. Enclosed' /\ used' = members
    BY <2>1, <2>2, TakeEncloses
  <2>4. result \in members \cup {NULL}
    <3>1. result \in Contents!First(Contents!After(members, at))
      BY <2>1 DEF Resuming, Take
    <3> QED BY <3>1 DEF Contents!First, Contents!After
  <2> QED BY <2>1, <2>2, <2>3, <2>4 DEF Walking
<1>8. CASE Operate /\ UNCHANGED seeker
  <2>1. UNCHANGED <<mem, used, op, call, step, at, up>>
    BY <1>8, OperateMoves DEF seeker
  <2> QED BY <2>1 DEF Enclosed, Walking
<1>9. CASE Store /\ UNCHANGED seeker
  <2>1. Enclosed' /\ (op # "erase" => used \subseteq used')
    BY <1>9, StoreEncloses
  <2>2. UNCHANGED <<call, step, at, up>>
    BY <1>9 DEF seeker
  <2> QED BY <2>1, <2>2 DEF Walking, Control
<1>10. CASE Release
  <2>1. stores = <<>> /\ Take /\ UNCHANGED memory /\ UNCHANGED <<call, step, at, up>>
    BY <1>10 DEF Release, seeker
  <2>2. Enclosed' /\ used' = used
    BY <2>1, TakeEncloses
  <2> QED BY <2>1, <2>2 DEF Walking
<1>11. CASE Walk
  <2>0. Enclosed' /\ UNCHANGED <<mem, used, op>>
    BY <1>3, <1>11, WalkMoves
  <2>1. /\ step = "erasing" => FALSE
        /\ call = "pass" => Within(mem, used)
    <3>1. step # "erasing"
      BY <1>11 DEF Walk, LoadRoot, Compare, EndSearch, TestLeft, LoadLeft, Advance, LoadParent,
                   TestSide, EndPass
    <3> QED BY <3>1 DEF Control, Enclosed
  <2>2. ASSUME call' # "pass"
        PROVE  Roaming'
    BY <2>0, <2>2 DEF Walking
  <2>3. CASE LoadRoot
    <3>1. step = "root" /\ at' = mem.root /\ up' = up /\ call' = call /\ step' \in {"compare", "down"}
      BY <2>3 DEF LoadRoot, Goes
    <3> QED BY <2>0, <2>1, <3>1 DEF Walking, Within
  <2>4. CASE Compare
    <3>1. step = "compare" /\ call' = call
      BY <2>4 DEF Compare, Goes
    <3> QED BY <2>2, <3>1 DEF Control
  <2>5. CASE EndSearch
    BY <2>2, <2>5 DEF EndSearch
  <2>6. CASE TestLeft
    <3>1. step = "down" /\ at' = at /\ up' = up /\ call' = call
            /\ (step' = "visit" \/ (step' = "left" /\ at # NULL))
      BY <2>6 DEF TestLeft, Goes, Visit
    <3> QED BY <2>0, <2>1, <3>1 DEF Walking
  <2>7. CASE LoadLeft
    <3>1. step = "left" /\ step' = "down" /\ at' = mem.kid[at]["left"] /\ up' = up /\ call' = call
      BY <2>7 DEF LoadLeft, Goes
    <3>2. "left" \in Dirs
      BY DEF Dirs
    <3> QED BY <2>0, <2>1, <3>1, <3>2 DEF Walking, Within
  <2>8. CASE Advance
    <3>1. step = "visit" /\ at # NULL /\ up' = up /\ call' = call
            /\ ((step' = "down" /\ at' = mem.kid[at]["right"]) \/ (step' = "climb" /\ at' = at))
      BY <2>8 DEF Advance
    <3>2. "right" \in Dirs
      BY DEF Dirs
    <3> QED BY <2>0, <2>1, <3>1, <3>2 DEF Walking, Within
  <2>9. CASE LoadParent
    <3>1. step = "climb" /\ step' = "side" /\ up' = mem.par[at] /\ at' = at /\ call' = call
      BY <2>9 DEF LoadParent
    <3> QED BY <2>0, <2>1, <3>1 DEF Walking, Within
  <2>10. CASE TestSide
    <3>1. step = "side" /\ at' = up /\ up' = NULL /\ call' = call
            /\ (step' = "visit" \/ (step' = "climb" /\ up # NULL))
      BY <2>10 DEF TestSide, Climbs, Visit
    <3> QED BY <2>0, <2>1, <3>1 DEF Walking
  <2>11. CASE EndPass
    BY <2>2, <2>11 DEF EndPass
  <2> QED BY <1>11, <2>3, <2>4, <2>5, <2>6, <2>7, <2>8, <2>9, <2>10, <2>11 DEF Walk
<1>12. CASE UNCHANGED all
  BY <1>12 DEF all, owner, memory, seeker, Enclosed, Walking
<1> QED BY <1>1, <1>2, <1>4, <1>5, <1>6, <1>7, <1>8, <1>9, <1>10, <1>11, <1>12 DEF SharedNext, Owner

\* An erase that unlinks n for the pass.
LEMMA UnlinkedResumes ==
  ASSUME IInv, pc = "idle", NEW n \in members, NEW s, NEW r, Unlinked(s, r, n)
  PROVE  /\ pc' = "fixerase" => new' = n
         /\ pc' = "returned" => n \notin members' /\ result' \in Contents!First(Contents!After(members', n))
<1>1. Successor(n) \in Contents!First(Contents!After(members, n)) /\ n \in Nat
  BY SuccessorIs, NodesAssumption DEF IInv, Inv, Locals
<1>2. CASE r = NULL
  <2>1. members' = members \ {n} /\ result' = Successor(n) /\ pc' = "returned"
    BY <1>2 DEF Unlinked, Return
  <2>2. Contents!After(members', n) = Contents!After(members, n)
    BY <1>1, <2>1 DEF Contents!After
  <2> QED BY <1>1, <2>1, <2>2 DEF Contents!First
<1>3. CASE r # NULL
  BY <1>3 DEF Unlinked
<1> QED BY <1>2, <1>3

\* An erase whose repair is over, for the pass.
LEMMA ReturnResumes ==
  ASSUME IInv, NextIs, pc = "fixerase", NEW s, EraseReturn(s)
  PROVE  new \notin members' /\ result' \in Contents!First(Contents!After(members', new))
<1>1. members' = members \ {new} /\ result' = next /\ new \in members /\ new \in Nat
  BY NodesAssumption DEF EraseReturn, Return, IInv, Inv, Locals
<1>2. Contents!After(members', new) = Contents!After(members, new)
  BY <1>1 DEF Contents!After
<1> QED BY <1>1, <1>2 DEF NextIs, Contents!First

\* The pass is told the successor of what it erases.
LEMMA ResumingHolds == IInv /\ NextIs /\ Control /\ Resuming /\ [SharedNext]_all => Resuming'
<1> SUFFICES ASSUME IInv, NextIs, Control, Resuming, [SharedNext]_all
             PROVE  Resuming'
  OBVIOUS
<1>1. ASSUME UNCHANGED <<step, at, pc, new, members, result>>
      PROVE  Resuming'
  BY <1>1 DEF Resuming, Contents!First, Contents!After
<1>2. ASSUME step' # "erasing"
      PROVE  Resuming'
  BY <1>2 DEF Resuming
<1>3. CASE \E n \in Nodes : BeginInsert(n) \/ EraseAny(n) \/ StartSearch(n)
  <2>1. (op = "none" /\ step' = step) \/ step' = "root"
    BY <1>3 DEF BeginInsert, EraseAny, BeginErase, Begin, StartSearch, Enter
  <2> QED BY <1>2, <2>1 DEF Control
<1>4. CASE StartPass \/ ResumePass \/ Walk
  BY <1>2, <1>4 DEF StartPass, Enter, ResumePass, Visit, Goes, Walk, LoadRoot, Compare, EndSearch,
     TestLeft, LoadLeft, Advance, LoadParent, TestSide, EndPass
<1>5. CASE EraseVisited
  <2>1. at' = at /\ (EraseNoLeft(at) \/ EraseNoRight(at) \/ EraseTwo(at))
    BY <1>5 DEF EraseVisited, BeginErase, Begin
  <2>2. pc = "idle" /\ at \in members /\ \E s, r : Unlinked(s, r, at)
    <3>1. CASE EraseNoLeft(at)
      BY <3>1 DEF EraseNoLeft
    <3>2. CASE EraseNoRight(at)
      BY <3>2 DEF EraseNoRight
    <3>3. CASE EraseTwo(at)
      BY <3>3 DEF EraseTwo
    <3> QED BY <2>1, <3>1, <3>2, <3>3
  <2>3. /\ pc' = "fixerase" => new' = at
        /\ pc' = "returned"
             => at \notin members' /\ result' \in Contents!First(Contents!After(members', at))
    BY <2>2, UnlinkedResumes
  <2> QED BY <2>1, <2>3 DEF Resuming, Contents!First, Contents!After
<1>6. CASE Operate /\ UNCHANGED seeker
  <2>1. step' = step /\ at' = at /\ (step = "erasing" => pc = "fixerase" /\ new = at)
    BY <1>6, OperateMoves DEF seeker, Control, Resuming
  <2>2. CASE pc # "fixerase"
    BY <1>2, <2>1, <2>2
  <2>3. CASE pc = "fixerase" /\ \E s : EraseReturn(s)
    <3>1. new \notin members' /\ result' \in Contents!First(Contents!After(members', new))
            /\ pc' = "returned"
      BY <2>3, ReturnResumes DEF EraseReturn, Return
    <3> QED BY <2>1, <3>1 DEF Resuming, Contents!First, Contents!After
  <2>4. CASE UNCHANGED <<pc, new, members, result>>
    BY <1>1, <2>1, <2>4
  <2>5. pc = "fixerase" => (\E s : EraseReturn(s)) \/ UNCHANGED <<pc, new, members, result>>
    <3>1. pc = "fixerase" => EraseRotate \/ EraseFlip \/ EraseRaise
      BY <1>6 DEF Operate, Burst, Freeing, Descend, Link, InsertDone, InsertFlip, InsertRotate
    <3>2. EraseRotate => UNCHANGED <<pc, new, members, result>>
      BY DEF EraseRotate, locals
    <3>3. EraseFlip => (\E s : EraseReturn(s)) \/ UNCHANGED <<pc, new, members, result>>
      BY DEF EraseFlip
    <3>4. EraseRaise => \E s : EraseReturn(s)
      BY DEF EraseRaise
    <3> QED BY <3>1, <3>2, <3>3, <3>4
  <2> QED BY <2>2, <2>3, <2>4, <2>5
<1>7. CASE Store /\ UNCHANGED seeker
  BY <1>1, <1>7 DEF Store, owner, vars, locals, seeker
<1>8. CASE Release
  BY <1>2, <1>8 DEF Release, seeker
<1>9. CASE UNCHANGED all
  BY <1>1, <1>9 DEF all, owner, vars, locals, seeker
<1> QED BY <1>3, <1>4, <1>5, <1>6, <1>7, <1>8, <1>9 DEF SharedNext, Owner

\* What the operation under way keeps for its caller, and what the pass is given.
LEMMA ErasesResume == SharedSpec => [](NextIs /\ Resuming)
<1>1. SharedInit => NextIs /\ Resuming
  BY DEF SharedInit, Init, NextIs, Resuming
<1>2. IInv /\ NextIs /\ [Next]_vars => NextIs'
  BY StepImplements
<1>3. IInv /\ [SharedNext]_all => [Next]_vars
  BY SharedStepIsStep
<1> QED BY <1>1, <1>2, <1>3, ResumingHolds, SharedTreeIsTree, InControl, PTL DEF SharedSpec

\* Where the tree and the pass are, at all times.
LEMMA PassesRoam == SharedSpec => []Roaming
<1>1. SharedInit => Roaming
  <2> SUFFICES ASSUME SharedInit
               PROVE  Roaming
    OBVIOUS
  <2>1. mem = t /\ used = members /\ Held = members /\ IInv /\ call = "none"
    BY InitHolds DEF SharedInit, Init, Held
  <2> QED BY <2>1, ShapeIsWithin DEF Roaming, Enclosed, Walking
<1> QED BY <1>1, RoamingHolds, ErasesResume, MemoryIsPending, SharedTreeIsTree, InControl, PTL
        DEF SharedSpec

\* A pass without the lock (handler.c:196, 221) never follows a pointer out of what is
\* allocated, whichever stores of an insert it meets.
THEOREM WalksAreSafe == SharedSpec => []WalkIsSafe
<1>1. Roaming => WalkIsSafe
  BY DEF Roaming, Walking, WalkIsSafe
<1> QED BY <1>1, PassesRoam, PTL
-----------------------------------------------------------------------------
(***************************************************************************)
(* What a call sees that no operation overlaps.                            *)
(***************************************************************************)
\* The keys of B that are before all those below n, and those up to n.
Ahead(B, n) == {k \in B : \A m \in Subtree(n) : k < m}
Upto(B, n) == {k \in B : k <= n}

\* The tree between operations, in terms of what is below a node.
Rests ==
  /\ members \subseteq Nat /\ NULL \notin members /\ t.root \in members \cup {NULL}
  /\ Subtree(NULL) = {} /\ Subtree(t.root) = members
  /\ \A n \in members :
       /\ n \in Subtree(n) /\ Subtree(n) \subseteq members
       /\ t.kid[n]["left"] \in members \cup {NULL} /\ t.kid[n]["right"] \in members \cup {NULL}
       /\ Subtree(n) = {n} \cup Subtree(t.kid[n]["left"]) \cup Subtree(t.kid[n]["right"])
       /\ \A m \in Subtree(t.kid[n]["left"]) : m < n
       /\ \A m \in Subtree(t.kid[n]["right"]) : n < m
       /\ t.par[n] = NULL => n = t.root
       /\ t.par[n] # NULL =>
            t.par[n] \in members /\ \E d \in {"left", "right"} : n = t.kid[t.par[n]][d]
       /\ \A k \in members \ Subtree(n) :
            (\A j \in Subtree(n) : k < j) \/ (\A j \in Subtree(n) : j < k)

\* What it says of one node.
LEMMA NodeRests ==
  ASSUME Rests, NEW n \in members
  PROVE  /\ n \in Nat /\ n \in Subtree(n) /\ Subtree(n) \subseteq Nat /\ Subtree(NULL) = {}
         /\ Subtree(n) = {n} \cup Subtree(t.kid[n]["left"]) \cup Subtree(t.kid[n]["right"])
         /\ \A m \in Subtree(t.kid[n]["left"]) : m < n
         /\ \A m \in Subtree(t.kid[n]["right"]) : n < m
<1>1. members \subseteq Nat /\ Subtree(n) \subseteq members /\ n \in Subtree(n) /\ Subtree(NULL) = {}
  BY DEF Rests
<1>2. Subtree(n) = {n} \cup Subtree(t.kid[n]["left"]) \cup Subtree(t.kid[n]["right"])
  BY DEF Rests
<1>3. \A m \in Subtree(t.kid[n]["left"]) : m < n
  BY DEF Rests
<1>4. \A m \in Subtree(t.kid[n]["right"]) : n < m
  BY DEF Rests
<1> QED BY <1>1, <1>2, <1>3, <1>4

\* It is so when no operation is under way.
LEMMA TreeRests ==
  ASSUME IInv, pc = "idle"
  PROVE  Rests
<1>1. PICK b \in Families, h \in Heights : Inv(b, h)
  BY DEF IInv
<1>2. Held = members
  BY DEF Held
<1>3. /\ t \in Trees /\ Shape(t, members, b) /\ NULL \notin Nodes /\ members \in SUBSET Nodes
      /\ b \in [Nodes -> SUBSET Nodes]
  BY <1>1, <1>2, HeldIsShaped
<1>4. Linked = members /\ \A n \in members \cup {NULL} : Subtree(n) = Below(b, n)
  BY <1>1, <1>2, HeldIsLinked
<1>5. /\ members \subseteq Nat /\ NULL \notin members /\ t.root \in members \cup {NULL}
      /\ Subtree(NULL) = {} /\ Subtree(t.root) = members
  BY <1>3, <1>4, NodesAssumption DEF Shape, Rooted, Linked, Below
<1>6. ASSUME NEW n \in members
      PROVE  /\ n \in Subtree(n) /\ Subtree(n) \subseteq members
             /\ t.kid[n]["left"] \in members \cup {NULL} /\ t.kid[n]["right"] \in members \cup {NULL}
             /\ Subtree(n) = {n} \cup Subtree(t.kid[n]["left"]) \cup Subtree(t.kid[n]["right"])
             /\ \A m \in Subtree(t.kid[n]["left"]) : m < n
             /\ \A m \in Subtree(t.kid[n]["right"]) : n < m
  <2>1. /\ n \in b[n] /\ b[n] \subseteq members /\ n # NULL
        /\ b[n] = {n} \cup Below(b, t.kid[n]["left"]) \cup Below(b, t.kid[n]["right"])
        /\ \A m \in Below(b, t.kid[n]["left"]) : m < n
        /\ \A m \in Below(b, t.kid[n]["right"]) : m > n
    BY <1>3 DEF Shape, Sorted, Closed
  <2>2. t.kid[n]["left"] \in members \cup {NULL} /\ t.kid[n]["right"] \in members \cup {NULL}
    BY <1>3, OppIs DEF Shape, Paired
  <2>3. /\ Subtree(n) = b[n] /\ Subtree(t.kid[n]["left"]) = Below(b, t.kid[n]["left"])
        /\ Subtree(t.kid[n]["right"]) = Below(b, t.kid[n]["right"])
    BY <1>4, <2>1, <2>2 DEF Below
  <2>4. \A m \in Below(b, t.kid[n]["right"]) : n < m
    BY <1>3, <1>5, <2>1
  <2> QED BY <2>1, <2>2, <2>3, <2>4
<1>7. ASSUME NEW n \in members
      PROVE  /\ t.par[n] = NULL => n = t.root
             /\ t.par[n] # NULL =>
                  t.par[n] \in members /\ \E d \in {"left", "right"} : n = t.kid[t.par[n]][d]
  BY <1>3 DEF Shape, Paired, Dirs
<1>8. ASSUME NEW n \in members, NEW k \in members \ Subtree(n)
      PROVE  (\A j \in Subtree(n) : k < j) \/ (\A j \in Subtree(n) : j < k)
  <2>1. Convex(members, b, n)
    BY <1>3, SubtreesAreConvex
  <2>2. Subtree(n) = b[n]
    BY <1>4, <1>5 DEF Below
  <2> QED BY <2>1, <2>2 DEF Convex
<1> QED BY <1>5, <1>6, <1>7, <1>8 DEF Rests

\* Nothing new is before a node's left child.
LEMMA LeftIsAhead ==
  ASSUME Rests, NEW n \in members, t.kid[n]["left"] # NULL, NEW B \in SUBSET Nat,
         B \ members \subseteq Ahead(B, n)
  PROVE  Ahead(B, t.kid[n]["left"]) = Ahead(B, n)
<1> DEFINE l == t.kid[n]["left"]
<1>1. /\ l \in members /\ l \in Subtree(l) /\ l < n
      /\ Subtree(n) = {n} \cup Subtree(l) \cup Subtree(t.kid[n]["right"])
      /\ \A m \in Subtree(t.kid[n]["right"]) : n < m
      /\ n \in Nat /\ l \in Nat /\ Subtree(n) \subseteq Nat
  <2>1. l \in members /\ l \in Nat /\ n \in Nat
    BY DEF Rests
  <2>2. l \in Subtree(l)
    BY <2>1 DEF Rests
  <2> HIDE DEF l
  <2>3. l < n /\ Subtree(n) = {n} \cup Subtree(l) \cup Subtree(t.kid[n]["right"])
    BY <2>2 DEF Rests, l
  <2> QED BY <2>1, <2>2, <2>3 DEF Rests
<1>2. \A k \in members \ Subtree(n) : (\A j \in Subtree(n) : k < j) \/ (\A j \in Subtree(n) : j < k)
  BY DEF Rests
<1> HIDE DEF l
<1>3. ASSUME NEW k \in Ahead(B, l), k \in members
      PROVE  k \in Ahead(B, n)
  <2>1. k \in B /\ k < l /\ k \in Nat /\ \A m \in Subtree(l) : k < m
    BY <1>1 DEF Ahead
  <2>2. k \notin Subtree(n)
    <3>1. k # n /\ k \notin Subtree(l)
      BY <1>1, <2>1
    <3>2. k \notin Subtree(t.kid[n]["right"])
      BY <1>1, <2>1
    <3> QED BY <1>1, <3>1, <3>2
  <2>3. ~(l < k) /\ l \in Subtree(n)
    BY <1>1, <2>1
  <2> QED BY <1>2, <1>3, <2>1, <2>2, <2>3 DEF Ahead
<1>4. Ahead(B, n) \subseteq Ahead(B, l)
  BY <1>1 DEF Ahead
<1>5. Ahead(B, l) \subseteq B
  BY DEF Ahead
<1> QED BY <1>3, <1>4, <1>5 DEF l

\* Up to a node without a left child are that node and what is before it.
LEMMA LeftmostIsNext ==
  ASSUME Rests, NEW n \in members, t.kid[n]["left"] = NULL, NEW B \in SUBSET Nat, n \in B
  PROVE  Ahead(B, n) \cup {n} = Upto(B, n)
<1>1. /\ Subtree(n) = {n} \cup Subtree(t.kid[n]["right"]) /\ n \in Nat
      /\ \A m \in Subtree(t.kid[n]["right"]) : n < m
      /\ Subtree(n) \subseteq Nat
  BY NodeRests
<1>2. ASSUME NEW k \in Nat, k < n, NEW m \in Subtree(n)
      PROVE  k < m
  <2>1. m \in Nat /\ (m = n \/ n < m)
    BY <1>1
  <2> QED BY <1>1, <1>2, <2>1
<1>3. ASSUME NEW k \in B
      PROVE  k \in Ahead(B, n) \cup {n} <=> k \in Upto(B, n)
  <2>1. k \in Nat
    OBVIOUS
  <2>2. k \in Ahead(B, n) <=> k < n
    BY <1>1, <1>2, <2>1 DEF Ahead
  <2> QED BY <1>1, <2>1, <2>2 DEF Upto
<1> QED BY <1>3 DEF Ahead, Upto

\* Up to a node are the keys that are before its right child.
LEMMA RightIsNext ==
  ASSUME Rests, NEW n \in members, t.kid[n]["right"] # NULL, NEW B \in SUBSET Nat,
         B \ members \subseteq Upto(B, n)
  PROVE  Ahead(B, t.kid[n]["right"]) = Upto(B, n)
<1> DEFINE r == t.kid[n]["right"]
<1>1. /\ r \in members /\ r \in Subtree(r) /\ n < r /\ n \in Subtree(n)
      /\ Subtree(n) = {n} \cup Subtree(t.kid[n]["left"]) \cup Subtree(r)
      /\ \A m \in Subtree(r) : n < m
      /\ \A m \in Subtree(t.kid[n]["left"]) : m < n
      /\ n \in Nat /\ r \in Nat /\ Subtree(n) \subseteq Nat
  <2>1. r \in members /\ r \in Nat /\ n \in Nat
    BY DEF Rests
  <2>2. r \in Subtree(r)
    BY <2>1 DEF Rests
  <2> HIDE DEF r
  <2>3. /\ n < r /\ Subtree(n) = {n} \cup Subtree(t.kid[n]["left"]) \cup Subtree(r)
        /\ \A m \in Subtree(r) : n < m
    BY <2>2 DEF Rests, r
  <2> QED BY <2>1, <2>2, <2>3 DEF Rests
<1>2. \A k \in members \ Subtree(n) : (\A j \in Subtree(n) : k < j) \/ (\A j \in Subtree(n) : j < k)
  BY DEF Rests
<1> HIDE DEF r
<1>3. ASSUME NEW k \in Ahead(B, r), k \in members
      PROVE  k \in Upto(B, n)
  <2>1. k \in B /\ k \in Nat /\ k < r /\ k \notin Subtree(r)
    BY <1>1 DEF Ahead
  <2>2. CASE k \in Subtree(n)
    <3>1. k = n \/ k < n
      BY <1>1, <2>1, <2>2
    <3> QED BY <1>1, <2>1, <3>1 DEF Upto
  <2>3. CASE k \notin Subtree(n)
    <3>1. ~(r < k) /\ r \in Subtree(n)
      BY <1>1, <2>1
    <3>2. k < n
      BY <1>1, <1>2, <1>3, <2>3, <3>1
    <3> QED BY <1>1, <2>1, <3>2 DEF Upto
  <2> QED BY <2>2, <2>3
<1>4. ASSUME NEW k \in Upto(B, n)
      PROVE  k \in Ahead(B, r)
  <2>1. k \in B /\ k \in Nat /\ k <= n
    BY DEF Upto
  <2>2. ASSUME NEW m \in Subtree(r)
        PROVE  k < m
    <3>1. m \in Nat /\ n < m
      BY <1>1
    <3> QED BY <1>1, <2>1, <3>1
  <2> QED BY <2>1, <2>2 DEF Ahead
<1>5. Ahead(B, r) \subseteq B
  BY DEF Ahead
<1> QED BY <1>3, <1>4, <1>5 DEF r

\* The largest key below n is g, and g is below n.
Topped(n, g) == g \in Subtree(n) /\ \A m \in Subtree(n) : m <= g

\* A climb from a right child leaves the largest key below as it is.
LEMMA ClimbIsTopped ==
  ASSUME Rests, NEW n \in members, t.par[n] # NULL, n = t.kid[t.par[n]]["right"], NEW g, Topped(n, g)
  PROVE  t.par[n] \in members /\ Topped(t.par[n], g)
<1> DEFINE q == t.par[n]
<1>1. /\ q \in members /\ q \in Nat /\ Subtree(q) \subseteq Nat
      /\ Subtree(q) = {q} \cup Subtree(t.kid[q]["left"]) \cup Subtree(n)
      /\ \A m \in Subtree(t.kid[q]["left"]) : m < q
      /\ \A m \in Subtree(n) : q < m
  <2>1. q \in members /\ t.kid[q]["right"] = n
    BY DEF Rests
  <2> HIDE DEF q
  <2> QED BY <2>1, NodeRests
<1> HIDE DEF q
<1>2. q < g /\ g \in Nat /\ g \in Subtree(q)
  BY <1>1 DEF Topped
<1>3. ASSUME NEW m \in Subtree(q)
      PROVE  m <= g
  <2>1. m \in Nat
    BY <1>1
  <2>2. CASE m \in Subtree(n)
    BY <2>2 DEF Topped
  <2>3. CASE m \notin Subtree(n)
    <3>1. m = q \/ m < q
      BY <1>1, <2>3
    <3> QED BY <1>1, <1>2, <2>1, <3>1
  <2> QED BY <2>2, <2>3
<1> QED BY <1>1, <1>2, <1>3 DEF Topped, q

\* A climb from a left child leads to the key after the largest one below.
LEMMA ClimbIsNext ==
  ASSUME Rests, NEW n \in members, NEW q \in members, n = t.kid[q]["left"], NEW g, Topped(n, g),
         NEW B \in SUBSET Nat, q \in B, B \ members \subseteq Upto(B, g)
  PROVE  Upto(B, g) \cup {q} = Upto(B, q)
<1>1. /\ q \in Nat /\ Subtree(q) \subseteq Nat /\ q \in Subtree(q)
      /\ Subtree(q) = {q} \cup Subtree(n) \cup Subtree(t.kid[q]["right"])
      /\ \A m \in Subtree(t.kid[q]["right"]) : q < m
      /\ \A m \in Subtree(n) : m < q
  BY DEF Rests
<1>2. \A k \in members \ Subtree(q) : (\A j \in Subtree(q) : k < j) \/ (\A j \in Subtree(q) : j < k)
  BY DEF Rests
<1>3. g < q /\ g \in Nat /\ g \in Subtree(q)
  BY <1>1 DEF Topped
<1>4. ASSUME NEW k \in Upto(B, q), k \in members, k # q
      PROVE  k \in Upto(B, g)
  <2>1. k \in B /\ k \in Nat /\ k < q
    BY <1>1, <1>4 DEF Upto
  <2>2. CASE k \in Subtree(q)
    <3>1. k \in Subtree(n)
      BY <1>1, <1>4, <2>1, <2>2
    <3> QED BY <2>1, <3>1 DEF Topped, Upto
  <2>3. CASE k \notin Subtree(q)
    <3>1. ~(q < k)
      BY <1>1, <2>1
    <3>2. k < g
      BY <1>1, <1>2, <1>3, <1>4, <2>3, <3>1
    <3> QED BY <1>3, <2>1, <3>2 DEF Upto
  <2> QED BY <2>2, <2>3
<1>5. ASSUME NEW k \in Upto(B, g) \cup {q}
      PROVE  k \in Upto(B, q)
  <2>1. k \in B /\ k \in Nat /\ (k = q \/ k <= g)
    BY <1>1 DEF Upto
  <2> QED BY <1>1, <1>3, <2>1 DEF Upto
<1>6. Upto(B, q) \subseteq B
  BY DEF Upto
<1> QED BY <1>4, <1>5, <1>6

\* A climb past the root leaves nothing unseen.
LEMMA ClimbIsLast ==
  ASSUME Rests, NEW n \in members, t.par[n] = NULL, NEW g, Topped(n, g),
         NEW B, B \ members \subseteq Upto(B, g)
  PROVE  Upto(B, g) = B
<1>1. Subtree(n) = members
  BY DEF Rests
<1> QED BY <1>1 DEF Topped, Upto

\* A search with the key g in state st has node a in hand.
SeekAt(st, a, g) ==
  /\ g \in Nodes
  /\ st = "compare" => a \in members \cup {NULL} /\ (g \in members => g \in Subtree(a))
  /\ st = "done" => a = IF g \in members THEN g ELSE NULL

\* A pass in state st that began with B and has seen S: what is gone from B it has seen,
\* and, of the rest, what is before the subtree in hand or up to the node in hand.
PassAt(st, a, g, u, B, S) ==
  /\ B \subseteq Nodes /\ members \subseteq B /\ B \ members \subseteq S
  /\ st = "root" => S = {} /\ members = B
  /\ st = "down" => IF a = NULL THEN S = B ELSE a \in members /\ S = Ahead(B, a)
  /\ st = "left" => a \in members /\ t.kid[a]["left"] # NULL /\ S = Ahead(B, a)
  /\ st = "visit" => a \in members \cup {NULL} /\ S = IF a = NULL THEN B ELSE Upto(B, a)
  /\ st \in {"climb", "side"} => a \in members /\ Topped(a, g) /\ S = Upto(B, g)
  /\ st = "side" => u = t.par[a]
  /\ st = "erasing" => a \in B /\ S = Upto(B, a)

\* Where an undisturbed call is, and that no operation is under way then but its own.
Undisturbed ==
  /\ calm /\ call = "search" => SeekAt(step, at, goal)
  /\ calm /\ call = "pass" => PassAt(step, at, goal, up, began, seen)
  /\ calm /\ call # "none" => op = "none" \/ step = "erasing"
  /\ call # "pass" => seen = {}

\* The states of a call depend on the tree only.
LEMMA SameSeek ==
  ASSUME UNCHANGED <<t, members>>, NEW st, NEW a, NEW g, SeekAt(st, a, g)
  PROVE  SeekAt(st, a, g)'
<1>1. Subtree(a)' = Subtree(a)
  BY DEF Subtree
<1> QED BY <1>1 DEF SeekAt

\* Those of a pass, too.
LEMMA SamePass ==
  ASSUME UNCHANGED <<t, members>>, NEW st, NEW a, NEW g, NEW u, NEW B, NEW S,
         PassAt(st, a, g, u, B, S)
  PROVE  PassAt(st, a, g, u, B, S)'
<1>1. Subtree(a)' = Subtree(a)
  BY DEF Subtree
<1>2. Ahead(B, a)' = Ahead(B, a)
  BY <1>1 DEF Ahead
<1>3. Topped(a, g)' = Topped(a, g)
  BY <1>1 DEF Topped
<1>4. Upto(B, g)' = Upto(B, g) /\ Upto(B, a)' = Upto(B, a)
  BY DEF Upto
<1> QED BY <1>1, <1>2, <1>3, <1>4 DEF PassAt

\* A search that goes on.
LEMMA SeekGoesOn ==
  ASSUME UNCHANGED <<t, members>>, call' = "search", UNCHANGED <<op, calm, seen>>, op = "none", seen = {},
         NEW st, st = step', NEW a, a = at', NEW g, g = goal', SeekAt(st, a, g)
  PROVE  Undisturbed'
<1>1. SeekAt(st, a, g)'
  BY SameSeek
<1>2. SeekAt(step, at, goal)'
  BY <1>1
<1> QED BY <1>2 DEF Undisturbed

\* A pass that goes on.
LEMMA PassGoesOn ==
  ASSUME UNCHANGED <<t, members>>, call' = "pass", UNCHANGED <<op, began>>, op = "none",
         NEW st, st = step', NEW a, a = at', NEW g, g = goal', NEW u, u = up',
         NEW S, S = seen', NEW B, B = began, PassAt(st, a, g, u, B, S)
  PROVE  Undisturbed'
<1>1. PassAt(st, a, g, u, B, S)'
  BY SamePass
<1>2. PassAt(step, at, goal, up, began, seen)'
  BY <1>1
<1> QED BY <1>2 DEF Undisturbed

\* Between operations the tree in memory is at rest.
Still == Rests /\ mem = t /\ used = members /\ op = "none"

\* That is what an undisturbed call finds.
LEMMA CallIsStill ==
  ASSUME IInv, Control, Pending, Made, op = "none"
  PROVE  Still
<1>1. stores = <<>> /\ pc = "idle"
  BY DEF Pending, Control
<1>2. mem = t /\ used = members
  BY <1>1, AllStored
<1> QED BY <1>1, <1>2, TreeRests DEF Still

\* The root is loaded.
LEMMA LoadRootSeeks ==
  ASSUME Still, NEW g, SeekAt("root", at, g)
  PROVE  SeekAt("compare", mem.root, g)
BY DEF Still, Rests, SeekAt

\* One round of the search.
LEMMA CompareSeeks ==
  ASSUME Still, Compare, SeekAt("compare", at, goal), calm
  PROVE  \E st, a : step' = st /\ at' = a /\ SeekAt(st, a, goal)
<1>1. at \in members \cup {NULL} /\ (goal \in members => goal \in Subtree(at)) /\ goal \in Nodes
  BY DEF SeekAt
<1>2. members \subseteq Nat /\ goal \in Nat /\ Subtree(NULL) = {} /\ NULL \notin members
  BY <1>1, NodesAssumption DEF Still, Rests
<1>3. CASE at \in {NULL} \cup (used \cap {goal})
  <2>1. step' = "done" /\ at' = at
    BY <1>2, <1>3 DEF Compare, Goes, Still
  <2>2. at = IF goal \in members THEN goal ELSE NULL
    BY <1>1, <1>2, <1>3 DEF Still
  <2> QED BY <1>1, <2>1, <2>2 DEF SeekAt
<1>4. CASE at \notin {NULL} \cup (used \cap {goal})
  <2> DEFINE d == IF goal < at THEN "left" ELSE "right"
             a == t.kid[at][d]
  <2>1. at \in members /\ at # goal
    BY <1>1, <1>4 DEF Still
  <2>2. step' = "compare" /\ at' = a
    BY <1>4, <2>1 DEF Compare, Goes, Still
  <2>3. /\ Subtree(at) = {at} \cup Subtree(t.kid[at]["left"]) \cup Subtree(t.kid[at]["right"])
        /\ \A m \in Subtree(t.kid[at]["left"]) : m < at
        /\ \A m \in Subtree(t.kid[at]["right"]) : at < m
        /\ a \in members \cup {NULL}
    BY <2>1 DEF Still, Rests
  <2>4. goal \in members => goal \in Subtree(a)
    BY <1>1, <1>2, <2>1, <2>3
  <2> HIDE DEF a
  <2> QED BY <1>1, <2>2, <2>3, <2>4 DEF SeekAt
<1> QED BY <1>3, <1>4

\* A round of the loop that goes to the leftmost node.
LEMMA TestLeftPasses ==
  ASSUME Still, NEW a, NEW g, NEW u, NEW B, NEW S, PassAt("down", a, g, u, B, S)
  PROVE  IF a # NULL /\ mem.kid[a]["left"] # NULL
         THEN PassAt("left", a, g, u, B, S)
         ELSE PassAt("visit", a, NULL, u, B, S \cup ({a} \ {NULL}))
<1>0. B \in SUBSET Nat /\ mem = t /\ members \subseteq B /\ Rests /\ NULL \notin members
  BY NodesAssumption DEF PassAt, Still, Rests
<1>1. CASE a = NULL
  BY <1>1 DEF PassAt
<1>2. CASE a # NULL /\ mem.kid[a]["left"] # NULL
  BY <1>0, <1>2 DEF PassAt
<1>3. CASE a # NULL /\ mem.kid[a]["left"] = NULL
  <2>1. a \in members /\ S = Ahead(B, a)
    BY <1>3 DEF PassAt
  <2>2. Ahead(B, a) \cup {a} = Upto(B, a)
    BY <1>0, <1>3, <2>1, LeftmostIsNext
  <2>3. S \cup ({a} \ {NULL}) = Upto(B, a)
    BY <1>3, <2>1, <2>2
  <2> DEFINE S2 == S \cup ({a} \ {NULL})
  <2>4. B \subseteq Nodes /\ B \ members \subseteq S2
    BY DEF PassAt
  <2> HIDE DEF S2
  <2>5. PassAt("visit", a, NULL, u, B, S2)
    BY <1>0, <1>3, <2>1, <2>3, <2>4 DEF PassAt, S2
  <2> QED BY <1>3, <2>5 DEF S2
<1> QED BY <1>1, <1>2, <1>3

\* The step to the left.
LEMMA LoadLeftPasses ==
  ASSUME Still, NEW a, NEW g, NEW u, NEW B, NEW S, PassAt("left", a, g, u, B, S)
  PROVE  PassAt("down", mem.kid[a]["left"], g, u, B, S)
<1> DEFINE l == mem.kid[a]["left"]
<1>0. B \in SUBSET Nat /\ mem = t /\ Rests /\ NULL \notin members
  BY NodesAssumption DEF PassAt, Still, Rests
<1>1. a \in members /\ l # NULL /\ S = Ahead(B, a) /\ B \ members \subseteq S
  BY <1>0 DEF PassAt
<1>2. l \in members
  BY <1>0, <1>1 DEF Rests
<1>3. Ahead(B, l) = Ahead(B, a)
  BY <1>0, <1>1, LeftIsAhead
<1>4. B \subseteq Nodes /\ members \subseteq B
  BY DEF PassAt
<1> HIDE DEF l
<1>5. PassAt("down", l, g, u, B, S)
  BY <1>1, <1>2, <1>3, <1>4 DEF PassAt
<1> QED BY <1>5 DEF l

\* The next node is below the right child, or up.
LEMMA AdvancePasses ==
  ASSUME Still, NEW a, NEW g, NEW u, NEW B, NEW S, PassAt("visit", a, g, u, B, S), a # NULL
  PROVE  IF mem.kid[a]["right"] # NULL
         THEN PassAt("down", mem.kid[a]["right"], a, u, B, S)
         ELSE PassAt("climb", a, a, u, B, S)
<1> DEFINE r == mem.kid[a]["right"]
<1>0. B \in SUBSET Nat /\ mem = t /\ Rests /\ NULL \notin members
  BY NodesAssumption DEF PassAt, Still, Rests
<1>1. a \in members /\ S = Upto(B, a) /\ B \ members \subseteq S /\ B \subseteq Nodes /\ members \subseteq B
  BY DEF PassAt
<1>2. CASE r # NULL
  <2>1. r \in members
    BY <1>0, <1>1, <1>2 DEF Rests
  <2>2. Ahead(B, r) = Upto(B, a)
    BY <1>0, <1>1, <1>2, RightIsNext
  <2>3. r # NULL
    BY <1>2
  <2> HIDE DEF r
  <2>4. PassAt("down", r, a, u, B, S)
    BY <1>1, <2>1, <2>2, <2>3 DEF PassAt
  <2> QED BY <2>3, <2>4 DEF r
<1>3. CASE r = NULL
  <2>1. Topped(a, a)
    <3>1. /\ Subtree(a) = {a} \cup Subtree(t.kid[a]["left"]) \cup {}
          /\ a \in Nat /\ a \in Subtree(a) /\ Subtree(a) \subseteq Nat
          /\ \A m \in Subtree(t.kid[a]["left"]) : m < a
      BY <1>0, <1>1, <1>3, NodeRests
    <3>2. ASSUME NEW m \in Subtree(a)
          PROVE  m <= a
      BY <3>1
    <3> QED BY <3>1, <3>2 DEF Topped
  <2>2. PassAt("climb", a, a, u, B, S)
    BY <1>1, <2>1 DEF PassAt
  <2> QED BY <1>3, <2>2
<1> QED BY <1>2, <1>3

\* The parent is loaded.
LEMMA LoadParentPasses ==
  ASSUME Still, NEW a, NEW g, NEW u, NEW B, NEW S, PassAt("climb", a, g, u, B, S)
  PROVE  PassAt("side", a, g, mem.par[a], B, S)
BY DEF Still, PassAt

\* The climb goes on, or ends at the next node.
LEMMA TestSidePasses ==
  ASSUME Still, NEW a, NEW g, NEW u, NEW B, NEW S, PassAt("side", a, g, u, B, S)
  PROVE  IF Climbs(a, u) THEN PassAt("climb", u, g, NULL, B, S)
         ELSE PassAt("visit", u, NULL, NULL, B, S \cup ({u} \ {NULL}))
<1>0. B \in SUBSET Nat /\ mem = t /\ Rests /\ NULL \notin members
  BY NodesAssumption DEF PassAt, Still, Rests
<1>1. /\ a \in members /\ Topped(a, g) /\ S = Upto(B, g) /\ u = t.par[a]
      /\ B \ members \subseteq S /\ B \subseteq Nodes /\ members \subseteq B
  BY DEF PassAt
<1>2. CASE u = NULL
  <2>1. S = B
    BY <1>0, <1>1, <1>2, ClimbIsLast
  <2>2. S \cup ({u} \ {NULL}) = B
    BY <1>2, <2>1
  <2>3. PassAt("visit", NULL, NULL, NULL, B, B)
    BY <1>1 DEF PassAt
  <2> QED BY <1>2, <2>2, <2>3 DEF Climbs
<1>3. CASE u # NULL /\ a = t.kid[u]["right"]
  <2>1. u \in members /\ Topped(u, g)
    <3>1. t.par[a] # NULL /\ a = t.kid[t.par[a]]["right"] /\ a \in members /\ Topped(a, g) /\ Rests
      BY Zenon, <1>0, <1>1, <1>3
    <3>2. t.par[a] \in members /\ Topped(t.par[a], g)
      BY <3>1, ClimbIsTopped
    <3> QED BY <1>1, <3>2
  <2>2. PassAt("climb", u, g, NULL, B, S)
    BY <1>1, <2>1 DEF PassAt
  <2> QED BY <1>0, <1>3, <2>2 DEF Climbs
<1>4. CASE u # NULL /\ a # t.kid[u]["right"]
  <2>1. u \in members /\ a = t.kid[u]["left"]
    BY <1>0, <1>1, <1>4 DEF Rests
  <2>2. Upto(B, g) \cup {u} = Upto(B, u)
    <3>1. /\ u \in B /\ B \ members \subseteq Upto(B, g) /\ Rests /\ B \in SUBSET Nat
          /\ a \in members /\ u \in members /\ a = t.kid[u]["left"] /\ Topped(a, g)
      BY Zenon, <1>0, <1>1, <2>1
    <3> QED BY Zenon, <3>1, ClimbIsNext
  <2> DEFINE S2 == S \cup ({u} \ {NULL})
  <2>3. S2 = Upto(B, u) /\ B \ members \subseteq S2
    BY <1>1, <1>4, <2>2
  <2>4. B \subseteq Nodes /\ members \subseteq B /\ u \in members /\ u # NULL
    BY Zenon, <1>1, <1>4, <2>1
  <2> HIDE DEF S2
  <2>5. PassAt("visit", u, NULL, NULL, B, S2)
    BY <2>3, <2>4 DEF PassAt
  <2> QED BY <1>0, <1>4, <2>5 DEF Climbs, S2
<1> QED BY <1>2, <1>3, <1>4

\* A step that is not that of an undisturbed call.
LEMMA Disturbs ==
  ASSUME calm' => call' = "none", call' # "pass" => seen' = {}
  PROVE  Undisturbed'
BY DEF Undisturbed

\* The lock's owner goes on with the erase of a pass, or has nothing to do with the call.
LEMMA OwnerDisturbs ==
  ASSUME Undisturbed, Control, Resuming, UNCHANGED seeker, op # "none", op' # "none",
         members' = members \/ (pc = "fixerase" /\ members' = members \ {new})
  PROVE  Undisturbed'
<1>1. UNCHANGED <<call, step, goal, at, up, calm, began, seen>>
  BY DEF seeker, history
<1>2. CASE calm /\ call # "none"
  <2>1. step = "erasing" /\ call = "pass" /\ PassAt("erasing", at, goal, up, began, seen)
    BY <1>2 DEF Undisturbed, Control
  <2>2. /\ began \subseteq Nodes /\ members \subseteq began /\ began \ members \subseteq seen
        /\ at \in began /\ seen = Upto(began, at)
    BY <2>1 DEF PassAt
  <2>3. at \in seen
    <3>1. at \in Nat
      BY <2>2, NodesAssumption
    <3> QED BY <2>2, <3>1 DEF Upto
  <2>4. members' = members \/ members' = members \ {at}
    BY <2>1 DEF Resuming
  <2>5. members' \subseteq began /\ began \ members' \subseteq seen
    BY <2>2, <2>3, <2>4
  <2>6. Upto(began, at)' = Upto(began', at')
    BY DEF Upto
  <2>7. PassAt(step, at, goal, up, began, seen)'
    BY <1>1, <2>1, <2>2, <2>5, <2>6 DEF PassAt
  <2> QED BY <1>1, <2>1, <2>7 DEF Undisturbed
<1>3. CASE calm => call = "none"
  BY <1>1, <1>3, Disturbs DEF Undisturbed
<1> QED BY <1>2, <1>3

\* The pass takes the lock for an erase.
LEMMA EraseVisitedPasses ==
  ASSUME IInv, Control, Undisturbed, EraseVisited
  PROVE  Undisturbed'
<1>0. members \subseteq Nodes
  BY ShapeIsWithin
<1>1. /\ step = "visit" /\ at # NULL /\ step' = "erasing" /\ BeginErase(at)
      /\ UNCHANGED <<call, goal, at, up, calm, began, seen>>
  BY DEF EraseVisited, history
<1>2. call = "pass"
  BY <1>1 DEF Control
<1>3. CASE calm
  <2>1. PassAt("visit", at, goal, up, began, seen)
    BY <1>1, <1>2, <1>3 DEF Undisturbed
  <2>2. /\ began \subseteq Nodes /\ members \subseteq began /\ began \ members \subseteq seen
        /\ at \in members /\ seen = Upto(began, at)
    BY <1>1, <2>1 DEF PassAt
  <2>3. at \in seen
    <3>1. at \in Nat /\ at \in began
      BY <2>2, NodesAssumption
    <3> QED BY <2>2, <3>1 DEF Upto
  <2>4. members' = members \/ members' = members \ {at}
    <3>1. EraseNoLeft(at) \/ EraseNoRight(at) \/ EraseTwo(at)
      BY <1>1 DEF BeginErase, Begin
    <3>2. \E s, r : Unlinked(s, r, at)
      <4>1. CASE EraseNoLeft(at)
        BY <4>1 DEF EraseNoLeft
      <4>2. CASE EraseNoRight(at)
        BY <4>2 DEF EraseNoRight
      <4>3. CASE EraseTwo(at)
        BY <4>3 DEF EraseTwo
      <4> QED BY <3>1, <4>1, <4>2, <4>3
    <3> QED BY <3>2 DEF Unlinked
  <2>5. members' \subseteq began /\ began \ members' \subseteq seen
    BY <2>2, <2>3, <2>4
  <2>6. Upto(began, at)' = Upto(began', at')
    BY DEF Upto
  <2>7. PassAt(step, at, goal, up, began, seen)'
    BY <1>1, <2>2, <2>5, <2>6 DEF PassAt
  <2> QED BY <1>1, <1>2, <2>7 DEF Undisturbed
<1>4. CASE ~calm
  BY <1>1, <1>2, <1>4, Disturbs
<1> QED BY <1>3, <1>4

\* The pass goes on at the successor of what it has erased.
LEMMA ResumePasses ==
  ASSUME Control, Resuming, Undisturbed, ResumePass
  PROVE  Undisturbed'
<1>1. /\ step = "erasing" /\ pc = "returned" /\ op' = "none" /\ members' = members
      /\ step' = "visit" /\ at' = result /\ goal' = NULL
      /\ seen' = (IF calm THEN seen \cup ({result} \ {NULL}) ELSE {})
      /\ UNCHANGED <<call, calm, began, up>>
  BY DEF ResumePass, Take, Visit
<1>2. call = "pass"
  BY <1>1 DEF Control
<1>3. CASE calm
  <2>1. PassAt("erasing", at, goal, up, began, seen)
    BY <1>1, <1>2, <1>3 DEF Undisturbed
  <2>2. /\ began \subseteq Nodes /\ members \subseteq began /\ began \ members \subseteq seen
        /\ at \in began /\ seen = Upto(began, at) /\ began \subseteq Nat /\ NULL \notin Nodes
    BY <2>1, NodesAssumption DEF PassAt
  <2>3. at \notin members /\ result \in Contents!First(Contents!After(members, at))
    BY <1>1 DEF Resuming
  <2>4. CASE result = NULL
    <3>1. \A n \in members : ~(n > at)
      BY <2>2, <2>3, <2>4 DEF Contents!First, Contents!After
    <3>2. \A n \in began : n \in seen
      BY <2>2, <3>1 DEF Upto
    <3>3. seen' = began'
      BY <1>1, <1>3, <2>2, <2>4, <3>2 DEF Upto
    <3>4. PassAt(step, at, goal, up, began, seen)'
      BY <1>1, <2>2, <2>4, <3>3 DEF PassAt
    <3> QED BY <1>1, <1>2, <3>4 DEF Undisturbed
  <2>5. CASE result # NULL
    <3>1. result \in members /\ result > at /\ \A n \in members : n > at => result <= n
      BY <2>3, <2>5 DEF Contents!First, Contents!After
    <3>2. ASSUME NEW n \in began
          PROVE  n \in seen \cup {result} <=> n \in Upto(began, result)
      <4>1. n \in Nat /\ at \in Nat /\ result \in Nat /\ (n \in members \/ n \in seen)
        BY <2>2, <3>1
      <4>2. n \in seen <=> n <= at
        BY <2>2 DEF Upto
      <4>3. n \in Upto(began, result) <=> n <= result
        BY DEF Upto
      <4>4. n <= at \/ (n \in members /\ n > at)
        BY <4>1, <4>2
      <4> QED BY <3>1, <4>1, <4>2, <4>3, <4>4
    <3>3. seen \cup {result} = Upto(began, result)
      BY <2>2, <3>1, <3>2 DEF Upto
    <3>4. seen' = Upto(began, result) /\ seen \subseteq seen'
      BY <1>1, <1>3, <2>5, <3>3
    <3>5. Upto(began, at)' = Upto(began', at')
      BY DEF Upto
    <3>6. PassAt(step, at, goal, up, began, seen)'
      BY <1>1, <2>2, <2>5, <3>1, <3>4, <3>5 DEF PassAt
    <3> QED BY <1>1, <1>2, <3>6 DEF Undisturbed
  <2> QED BY <2>4, <2>5
<1>4. CASE ~calm
  BY <1>1, <1>2, <1>4, Disturbs
<1> QED BY <1>3, <1>4

\* A pass begins at the root.
LEMMA LoadRootPasses ==
  ASSUME Still, NEW a, NEW g, NEW u, NEW B, NEW S, PassAt("root", a, g, u, B, S)
  PROVE  PassAt("down", mem.root, g, u, B, S)
<1>1. /\ mem = t /\ t.root \in members \cup {NULL} /\ members \subseteq Nat
      /\ Subtree(NULL) = {} /\ Subtree(t.root) = members
  BY DEF Still, Rests
<1>2. B \subseteq Nodes /\ members = B /\ S = {}
  BY DEF PassAt
<1>3. t.root = NULL => S = B
  BY <1>1, <1>2
<1>4. Ahead(B, t.root) = {}
  <2>1. \A k \in members : ~(k < k)
    BY <1>1
  <2> QED BY <1>1, <1>2, <2>1 DEF Ahead
<1>5. PassAt("down", t.root, g, u, B, S)
  BY <1>1, <1>2, <1>3, <1>4 DEF PassAt
<1> QED BY <1>1, <1>5

\* The thread without the lock takes a step.
LEMMA WalkPasses ==
  ASSUME IInv, Control, Pending, Made, Undisturbed, Walk
  PROVE  Undisturbed'
<1>1. UNCHANGED <<t, members, op>>
  BY WalkMoves DEF Others, owner, vars
<1>2. step # "erasing" /\ call # "none"
  <2>1. step \notin {"erasing", "off"}
    BY DEF Walk, LoadRoot, Compare, EndSearch, TestLeft, LoadLeft, Advance, LoadParent,
           TestSide, EndPass
  <2> QED BY <2>1 DEF Control
<1>3. calm => Still
  BY <1>2, CallIsStill DEF Undisturbed
<1>4. ASSUME NEW st, NEW a, Goes(st, a)
      PROVE  step' = st /\ at' = a /\ UNCHANGED <<call, goal, up, calm, began, seen>>
  BY <1>4 DEF Goes, history
<1>5. ASSUME NEW a, Visit(a)
      PROVE  /\ step' = "visit" /\ at' = a /\ goal' = NULL /\ UNCHANGED <<call, calm, began>>
             /\ seen' = IF calm THEN seen \cup ({a} \ {NULL}) ELSE {}
  BY <1>5 DEF Visit
<1>6. CASE EndSearch
  <2>1. step = "done" /\ call' = "none" /\ seen' = seen
    BY <1>6 DEF EndSearch
  <2>2. seen = {}
    BY <2>1 DEF Control, Undisturbed
  <2> QED BY <2>1, <2>2, Disturbs
<1>7. CASE EndPass
  BY <1>7, Disturbs DEF EndPass
<1>8. CASE LoadRoot /\ call = "search"
  <2>1. step = "root" /\ step' = "compare" /\ at' = mem.root
          /\ UNCHANGED <<call, goal, up, calm, began, seen>>
    BY <1>4, <1>8 DEF LoadRoot
  <2>2. seen = {}
    BY <1>8 DEF Undisturbed
  <2>3. CASE calm
    <3>1. SeekAt("root", at, goal)
      BY <1>8, <2>1, <2>3 DEF Undisturbed
    <3>2. SeekAt("compare", mem.root, goal) /\ op = "none"
      BY <1>3, <2>3, <3>1, LoadRootSeeks DEF Still
    <3> QED BY <1>1, <1>8, <2>1, <2>2, <3>2, SeekGoesOn
  <2>4. CASE ~calm
    BY <1>8, <2>1, <2>2, <2>4, Disturbs
  <2> QED BY <2>3, <2>4
<1>9. CASE Compare
  <2>1. step = "compare" /\ UNCHANGED <<call, goal, up, calm, began, seen>>
    BY <1>4, <1>9 DEF Compare
  <2>2. call = "search" /\ seen = {}
    BY <1>2, <2>1 DEF Control, Undisturbed
  <2>3. CASE calm
    <3>1. SeekAt("compare", at, goal)
      BY <2>1, <2>2, <2>3 DEF Undisturbed
    <3>2. PICK st, a : step' = st /\ at' = a /\ SeekAt(st, a, goal)
      BY <1>3, <1>9, <2>3, <3>1, CompareSeeks
    <3> QED BY <1>1, <1>3, <2>1, <2>2, <2>3, <3>2, SeekGoesOn DEF Still
  <2>4. CASE ~calm
    BY <2>1, <2>2, <2>4, Disturbs
  <2> QED BY <2>3, <2>4
<1>10. ASSUME call = "pass", call' = "pass", calm' = calm, began' = began,
              calm => PassAt(step', at', goal', up', began, seen')
       PROVE  Undisturbed'
  <2>1. CASE calm
    <3>1. op = "none"
      BY <1>3, <2>1 DEF Still
    <3>2. PICK st, a, g, u, B, S :
            st = step' /\ a = at' /\ g = goal' /\ u = up' /\ B = began /\ S = seen'
      OBVIOUS
    <3>3. PassAt(st, a, g, u, B, S)
      BY <1>10, <2>1, <3>2
    <3> QED BY <1>1, <1>10, <3>1, <3>2, <3>3, PassGoesOn
  <2>2. CASE ~calm
    BY <1>10, <2>2, Disturbs
  <2> QED BY <2>1, <2>2
<1>11. ASSUME call = "pass", calm
       PROVE  PassAt(step, at, goal, up, began, seen)
  BY <1>11 DEF Undisturbed
<1>12. CASE LoadRoot /\ call # "search"
  <2>1. step = "root" /\ step' = "down" /\ at' = mem.root
          /\ UNCHANGED <<call, goal, up, calm, began, seen>> /\ call = "pass"
    BY <1>2, <1>4, <1>12 DEF LoadRoot, Control
  <2>2. ASSUME calm
        PROVE  PassAt("down", mem.root, goal, up, began, seen)
    <3>1. PassAt("root", at, goal, up, began, seen) /\ Still
      BY <1>3, <1>11, <2>1, <2>2
    <3> QED BY <3>1, LoadRootPasses
  <2> QED BY <1>10, <2>1, <2>2
<1>13. CASE TestLeft
  <2>1. step = "down" /\ call = "pass"
    BY <1>2, <1>13 DEF TestLeft, Control
  <2>2. IF at # NULL /\ mem.kid[at]["left"] # NULL THEN Goes("left", at) ELSE Visit(at) /\ up' = up
    BY <1>13 DEF TestLeft
  <2>3. calm => IF at # NULL /\ mem.kid[at]["left"] # NULL
                THEN PassAt("left", at, goal, up, began, seen)
                ELSE PassAt("visit", at, NULL, up, began, seen \cup ({at} \ {NULL}))
    BY <1>3, <1>11, <2>1, TestLeftPasses
  <2>4. CASE at # NULL /\ mem.kid[at]["left"] # NULL
    <3>1. step' = "left" /\ at' = at /\ UNCHANGED <<call, goal, up, calm, began, seen>>
      BY <1>4, <2>2, <2>4
    <3> QED BY <1>10, <2>1, <2>3, <2>4, <3>1
  <2>5. CASE ~(at # NULL /\ mem.kid[at]["left"] # NULL)
    <3>1. /\ step' = "visit" /\ at' = at /\ goal' = NULL /\ UNCHANGED <<call, calm, began, up>>
          /\ seen' = IF calm THEN seen \cup ({at} \ {NULL}) ELSE {}
      BY <1>5, <2>2, <2>5
    <3> QED BY <1>10, <2>1, <2>3, <2>5, <3>1
  <2> QED BY <2>4, <2>5
<1>14. CASE LoadLeft
  <2>1. step = "left" /\ step' = "down" /\ at' = mem.kid[at]["left"]
          /\ UNCHANGED <<call, goal, up, calm, began, seen>>
    BY <1>4, <1>14 DEF LoadLeft
  <2>2. call = "pass"
    BY <1>2, <2>1 DEF Control
  <2>3. calm => PassAt("down", mem.kid[at]["left"], goal, up, began, seen)
    BY <1>3, <1>11, <2>1, <2>2, LoadLeftPasses
  <2> QED BY <1>10, <2>1, <2>2, <2>3
<1>15. CASE Advance
  <2>1. /\ step = "visit" /\ at # NULL /\ goal' = at /\ UNCHANGED <<call, up, calm, began, seen>>
        /\ IF mem.kid[at]["right"] # NULL THEN step' = "down" /\ at' = mem.kid[at]["right"]
           ELSE step' = "climb" /\ at' = at
    BY <1>15 DEF Advance, history
  <2>2. call = "pass"
    BY <1>2, <2>1 DEF Control
  <2>3. calm => IF mem.kid[at]["right"] # NULL
                THEN PassAt("down", mem.kid[at]["right"], at, up, began, seen)
                ELSE PassAt("climb", at, at, up, began, seen)
    BY <1>3, <1>11, <2>1, <2>2, AdvancePasses
  <2> QED BY <1>10, <2>1, <2>2, <2>3
<1>16. CASE LoadParent
  <2>1. step = "climb" /\ step' = "side" /\ up' = mem.par[at]
          /\ UNCHANGED <<call, goal, at, calm, began, seen>>
    BY <1>16 DEF LoadParent, history
  <2>2. call = "pass"
    BY <1>2, <2>1 DEF Control
  <2>3. calm => PassAt("side", at, goal, mem.par[at], began, seen)
    BY <1>3, <1>11, <2>1, <2>2, LoadParentPasses
  <2> QED BY <1>10, <2>1, <2>2, <2>3
<1>17. CASE TestSide
  <2>1. step = "side" /\ call = "pass" /\ up' = NULL
    BY <1>2, <1>17 DEF TestSide, Control
  <2>2. calm => IF Climbs(at, up) THEN PassAt("climb", up, goal, NULL, began, seen)
                ELSE PassAt("visit", up, NULL, NULL, began, seen \cup ({up} \ {NULL}))
    BY <1>3, <1>11, <2>1, TestSidePasses
  <2>3. CASE Climbs(at, up)
    <3>1. step' = "climb" /\ at' = up /\ UNCHANGED <<call, goal, calm, began, seen>>
      BY <1>17, <2>3 DEF TestSide, history
    <3> QED BY <1>10, <2>1, <2>2, <2>3, <3>1
  <2>4. CASE ~Climbs(at, up)
    <3>1. Visit(up)
      BY <1>17, <2>4 DEF TestSide
    <3>2. /\ step' = "visit" /\ at' = up /\ goal' = NULL /\ UNCHANGED <<call, calm, began>>
          /\ seen' = IF calm THEN seen \cup ({up} \ {NULL}) ELSE {}
      BY <1>5, <3>1
    <3> QED BY <1>10, <2>1, <2>2, <2>4, <3>2
  <2> QED BY <2>3, <2>4
<1> QED BY <1>6, <1>7, <1>8, <1>9, <1>12, <1>13, <1>14, <1>15, <1>16, <1>17 DEF Walk

\* An undisturbed call stays with the tree.
LEMMA UndisturbedHolds ==
  IInv /\ Control /\ Pending /\ Made /\ Resuming /\ Undisturbed /\ [SharedNext]_all => Undisturbed'
<1> SUFFICES ASSUME IInv, Control, Pending, Made, Resuming, Undisturbed, [SharedNext]_all
             PROVE  Undisturbed'
  OBVIOUS
<1>1. ASSUME NEW n \in Nodes, BeginInsert(n)
      PROVE  Undisturbed'
  <2>1. calm' = (call = "none") /\ seen' = {} /\ call' = call
    BY <1>1 DEF BeginInsert
  <2> QED BY <2>1, Disturbs
<1>2. ASSUME NEW n \in Nodes, EraseAny(n)
      PROVE  Undisturbed'
  <2>1. call # "pass" /\ calm' = (call = "none") /\ seen' = seen /\ call' = call
    BY <1>2 DEF EraseAny
  <2> QED BY <2>1, Disturbs DEF Undisturbed
<1>3. ASSUME NEW n \in Nodes, StartSearch(n)
      PROVE  Undisturbed'
  <2>1. /\ call = "none" /\ call' = "search" /\ goal' = n /\ step' = "root" /\ seen' = seen
        /\ calm' = (op = "none") /\ op' = op
    BY <1>3 DEF StartSearch, Enter, Others, owner
  <2>2. SeekAt(step, at, goal)'
    BY <2>1 DEF SeekAt
  <2> QED BY <2>1, <2>2 DEF Undisturbed
<1>4. CASE StartPass
  <2>1. /\ call = "none" /\ call' = "pass" /\ step' = "root" /\ seen' = seen /\ began' = members
        /\ calm' = (op = "none") /\ op' = op /\ members' = members
    BY <1>4 DEF StartPass, Enter, Others, owner, vars
  <2>2. members \subseteq Nodes /\ seen = {}
    BY <2>1, ShapeIsWithin DEF Undisturbed
  <2>3. PassAt(step, at, goal, up, began, seen)'
    BY <2>1, <2>2 DEF PassAt
  <2> QED BY <2>1, <2>3 DEF Undisturbed
<1>5. CASE EraseVisited
  BY <1>5, EraseVisitedPasses
<1>6. CASE ResumePass
  BY <1>6, ResumePasses
<1>7. CASE Operate /\ UNCHANGED seeker
  <2>1. op' = op /\ pc \in {"descend", "fixinsert", "fixerase"}
    BY <1>7, OperateMoves
  <2>2. op # "none"
    BY <2>1 DEF Control
  <2>3. CASE pc = "fixerase"
    <3>1. EraseRotate \/ EraseFlip \/ EraseRaise
      BY <1>7, <2>3 DEF Operate, Burst, Freeing, Descend, Link, InsertDone, InsertFlip, InsertRotate
    <3>2. members' = members \/ members' = members \ {new}
      BY <3>1 DEF EraseRotate, EraseFlip, EraseRaise, EraseReturn
    <3> QED BY <1>7, <2>1, <2>2, <2>3, <3>2, OwnerDisturbs
  <2>4. CASE pc # "fixerase"
    <3>1. op = "insert" /\ step # "erasing"
      BY <2>1, <2>4 DEF Control
    <3>2. calm => call = "none"
      BY <3>1 DEF Undisturbed
    <3> QED BY <1>7, <3>2, Disturbs DEF Undisturbed, seeker, history
  <2> QED BY <2>3, <2>4
<1>8. CASE Store /\ UNCHANGED seeker
  <2>1. stores # <<>> /\ op' = op /\ members' = members
    BY <1>8 DEF Store, owner, vars
  <2>2. op # "none"
    BY <2>1 DEF Pending
  <2> QED BY <1>8, <2>1, <2>2, OwnerDisturbs
<1>9. CASE Release
  <2>1. pc = "returned" /\ step # "erasing" /\ UNCHANGED <<call, calm, seen>>
    BY <1>9 DEF Release, Take, seeker, history
  <2>2. op # "none"
    BY <2>1 DEF Control
  <2> QED BY <2>1, <2>2, Disturbs DEF Undisturbed
<1>10. CASE Walk
  BY <1>10, WalkPasses
<1>11. CASE UNCHANGED all
  <2>1. UNCHANGED <<t, members, op, call, step, goal, at, up, calm, began, seen>>
    BY <1>11 DEF all, owner, vars, seeker, history
  <2>2. PICK st, a, g, u, B, S :
          st = step /\ a = at /\ g = goal /\ u = up /\ B = began /\ S = seen
    OBVIOUS
  <2>3. ASSUME SeekAt(step, at, goal)
        PROVE  SeekAt(step, at, goal)'
    <3>1. SeekAt(st, a, g)'
      BY <2>1, <2>2, <2>3, SameSeek
    <3> QED BY <2>1, <2>2, <3>1
  <2>4. ASSUME PassAt(step, at, goal, up, began, seen)
        PROVE  PassAt(step, at, goal, up, began, seen)'
    <3>1. PassAt(st, a, g, u, B, S)'
      BY <2>1, <2>2, <2>4, SamePass
    <3> QED BY <2>1, <2>2, <3>1
  <2> QED BY <2>1, <2>3, <2>4 DEF Undisturbed
<1> QED BY <1>1, <1>2, <1>3, <1>4, <1>5, <1>6, <1>7, <1>8, <1>9, <1>10, <1>11 DEF SharedNext, Owner

\* A search or a pass that no operation of the other thread overlaps finds what is
\* there: the search its key if it is in the tree, the pass each node once, in order.
THEOREM UndisturbedIsRight == SharedSpec => []UndisturbedIsExact
<1>1. SharedInit => Undisturbed
  BY DEF SharedInit, Undisturbed
<1>2. Control /\ Undisturbed => UndisturbedIsExact
  <2> SUFFICES ASSUME Control, Undisturbed, calm
               PROVE  /\ step = "done" => at = IF goal \in members THEN goal ELSE NULL
                      /\ step = "visit" => seen = {n \in began : at = NULL \/ n <= at}
    BY DEF UndisturbedIsExact
  <2>1. CASE step = "done"
    BY <2>1 DEF Control, Undisturbed, SeekAt
  <2>2. CASE step = "visit"
    <3>1. seen = IF at = NULL THEN began ELSE Upto(began, at)
      BY <2>2 DEF Control, Undisturbed, PassAt
    <3> QED BY <2>2, <3>1 DEF Upto
  <2> QED BY <2>1, <2>2
<1> QED BY <1>1, <1>2, UndisturbedHolds, ErasesResume, MemoryIsPending, SharedTreeIsTree, InControl, PTL
        DEF SharedSpec
=============================================================================

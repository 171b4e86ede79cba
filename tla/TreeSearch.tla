----------------------------- MODULE TreeSearch -----------------------------
(***************************************************************************)
(* The searches of set_elem, key_elem and tag_elem over the red-black      *)
(* tree, its postorder walk and the replacement of a node.  They run here  *)
(* between two operations on the tree.                                     *)
(***************************************************************************)
EXTENDS RBTree, Sequences

CONSTANT UIntSize \* the number of values of an unsigned int: 2^32

ASSUME UIntAssumption == UIntSize \in Nat \ {0}

\* A key, an unsigned long long, is cut to the unsigned int that a search takes.
AsUInt(k) == k % UIntSize

\* The nodes that a search for k visits, from the root on.
Trail(k) ==
  LET From[m \in Nodes] ==
        LET kid == t.kid[m][IF k < m THEN "left" ELSE "right"]
        IN IF k = m \/ kid = NULL THEN <<m>> ELSE <<m>> \o From[kid]
  IN IF t.root = NULL THEN <<>> ELSE From[t.root]

\* The last of the nodes S that a search met, if any.
LastIn(S, s) ==
  LET met == {i \in DOMAIN s : s[i] \in S}
  IN IF met = {} THEN NULL ELSE s[CHOOSE i \in met : \A j \in met : j <= i]

Last(s) == LastIn(Nodes, s)

\* The last node at which the search turned right: its key is smaller than k.
LastRight(k) == LastIn({m \in Nodes : m < k}, Trail(k))

\* set_rbsearch
Search(k) == IF Last(Trail(k)) = k THEN k ELSE NULL

\* SetTree_FindLastNode_LQ_Key.  Its test of the last left turn, whose key is
\* larger than k, never succeeds.
SetLastNodeLQ(k) == IF Search(k) = k THEN k ELSE LastRight(k)

\* KeyTree_FindLastNode_LQ_Key.  When the search never turned right it falls back
\* on the node it visited last.
KeyLastNodeLQ(key) ==
  LET k == AsUInt(key)
  IN IF Search(k) = k THEN k
     ELSE IF LastRight(k) # NULL THEN LastRight(k)
     ELSE Last(Trail(k))

\* The last node at which the search turned left: its key is larger than k.
LastLeft(k) == LastIn({m \in Nodes : m > k}, Trail(k))

\* Mutant: the node visited last is handed out a second time.
KeyFollow_Both(key, right, left) ==
  LET k == AsUInt(key)
      Stored(m, old) == IF m = NULL THEN old ELSE m
  IN [last |-> Last(Trail(k)), right |-> Stored(LastRight(k), right),
      left |-> Stored(LastLeft(k), left)]

\* Rbtree_FindLastNode_FollowKey: the node visited last and, through *right and *left,
\* the last nodes at which the search turned, unless they are that node.  Where there
\* is no node to store, *right and *left keep what the caller put there.
KeyFollow(key, right, left) ==
  LET k == AsUInt(key)
      last == Last(Trail(k))
      Stored(m, old) == IF m = NULL \/ last \in {m, k} THEN old ELSE m
  IN [last |-> last, right |-> Stored(LastRight(k), right), left |-> Stored(LastLeft(k), left)]

\* Tag_FindLastNode_FollowKey.  The test of the last right turn, whose key is smaller
\* than k, never succeeds; a search that met k ends in the same tests.
TagFollow(key) ==
  LET k == AsUInt(key)
  IN IF LastLeft(k) # NULL THEN LastLeft(k) ELSE Last(Trail(k))

-----------------------------------------------------------------------------
\* rb_left_deepest_node
LeftDeepest(n) ==
  LET Down[m \in Nodes] ==
        IF t.kid[m]["left"] # NULL THEN Down[t.kid[m]["left"]]
        ELSE IF t.kid[m]["right"] # NULL THEN Down[t.kid[m]["right"]]
        ELSE m
  IN Down[n]

\* Mutant: a left child is followed by its parent.
PostNext_Up(n) == t.par[n]

\* rb_next_postorder
PostNext(n) ==
  LET p == t.par[n]
  IN IF p # NULL /\ n = t.kid[p]["left"] /\ t.kid[p]["right"] # NULL
     THEN LeftDeepest(t.kid[p]["right"]) ELSE p

\* rb_first_postorder
PostFirst == IF t.root = NULL THEN NULL ELSE LeftDeepest(t.root)

\* The first steps of the walk, one more than there are nodes.
Postorder ==
  LET Walk[i \in 0..Cardinality(members)] ==
        IF i = 0 THEN PostFirst
        ELSE IF Walk[i - 1] = NULL THEN NULL ELSE PostNext(Walk[i - 1])
  IN Walk

\* Mutant: the children are not told.
ReplaceNode_KeepChildren(s, victim, by) ==
  LET s1 == ChangeChild(s, victim, by, s.par[victim])
  IN [s1 EXCEPT !.kid[by] = s1.kid[victim], !.par[by] = s1.par[victim],
                !.col[by] = s1.col[victim]]

\* rb_replace_node
ReplaceNode(s, victim, by) ==
  LET s1 == ChangeChild(s, victim, by, s.par[victim])
      Told(r, d) == IF r.kid[victim][d] = NULL THEN r ELSE SetParent(r, r.kid[victim][d], by)
      s2 == Told(Told(s1, "left"), "right")
  IN [s2 EXCEPT !.kid[by] = s2.kid[victim], !.par[by] = s2.par[victim],
                !.col[by] = s2.col[victim]]

-----------------------------------------------------------------------------
\* Of set_tree, the search for the last node at or before a key finds it.
SetSearchIsLast ==
  pc = "idle" =>
    \A k \in Nodes :
      LET before == {m \in members : m <= k}
      IN IF before = {} THEN SetLastNodeLQ(k) = NULL
         ELSE SetLastNodeLQ(k) \in {m \in before : \A n \in before : n <= m}

\* The keys that an unsigned int holds.  For another one key_tree and tag_tree search
\* for the key it is cut to.
Uncut == {k \in Nodes : k < UIntSize}

\* key_elem.c:303, "less or equal": the node found has a key less than or equal to
\* the one given.
LessOrEqual ==
  pc = "idle" => \A k \in Uncut : KeyLastNodeLQ(k) # NULL => KeyLastNodeLQ(k) <= k

\* Of key_tree, the search for the place of a key below 2^32 brackets it: the node
\* visited last and the other one handed out are its neighbours, on whichever side they
\* are, provided that the caller has set *right and *left to NULL.
FollowBrackets ==
  pc = "idle" =>
    \A k \in Uncut \ members :
      LET f == KeyFollow(k, NULL, NULL)
          found == {f.last, f.right, f.left} \ {NULL}
          before == {m \in members : m < k}
          after  == {m \in members : m > k}
      IN /\ found = {m \in before : \A n \in before : n <= m}
                      \cup {m \in after : \A n \in after : m <= n}
         /\ f.last # NULL => f.last \notin {f.right, f.left}
         /\ f.right # NULL => f.right < k
         /\ f.left # NULL => f.left > k

\* Of tag_tree, the search for a key below 2^32 that is not there finds the next one, or
\* the last node if there is none.
TagFollowIsNext ==
  pc = "idle" /\ members # {} =>
    \A k \in Uncut \ members :
      LET after == {m \in members : m > k}
      IN IF after = {} THEN \A m \in members : m <= TagFollow(k)
         ELSE TagFollow(k) \in {m \in after : \A n \in after : m <= n}

\* The searches for the neighbours of a key find them, in each of the three containers,
\* whatever keys the tree holds; in key_tree and tag_tree the key searched for must be
\* one that an unsigned int holds.
NeighboursAreFound == SetSearchIsLast /\ FollowBrackets /\ TagFollowIsNext

\* rbtree.h:100, "always visit the parent after its children": the postorder walk
\* visits every node once, a child before its parent.
PostorderIsComplete ==
  pc = "idle" =>
    LET n == Cardinality(members)
    IN /\ {Postorder[i] : i \in 0..n - 1} = members /\ Postorder[n] = NULL
       /\ \A i, j \in 0..n - 1 : t.par[Postorder[i]] = Postorder[j] => i < j

\* Every walk over the tree, forward, backward or postorder, meets every node once, in
\* its order.
WalksAreComplete == WalksAreLogical /\ PostorderIsComplete

\* A node put in the place of another leaves the shape and the colors of the tree as
\* they are, with every pointer to the old node led to the new one.
ReplaceKeepsShape ==
  pc = "idle" =>
    \A victim \in members, by \in Nodes \ members :
      LET s == ReplaceNode(t, victim, by)
          New(n) == IF n = victim THEN by ELSE n
      IN /\ s.root = New(t.root)
         /\ \A n \in members :
              /\ s.par[New(n)] = New(t.par[n]) /\ s.col[New(n)] = t.col[n]
              /\ \A d \in Dirs : s.kid[New(n)][d] = New(t.kid[n][d])
=============================================================================

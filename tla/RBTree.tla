------------------------------- MODULE RBTree -------------------------------
(***************************************************************************)
(* The red-black tree under set_tree and key_tree, pointer by pointer.     *)
(*                                                                         *)
(* A tree is a record of the pointers and colors its nodes hold.  An       *)
(* operation runs under the tree's lock; a step of the model is one        *)
(* iteration of its loop.  C's left and right branches mirror each other:  *)
(* here they are one, over a direction d.                                  *)
(***************************************************************************)
EXTENDS Naturals, FiniteSets

CONSTANTS
  Nodes, \* the nodes, each named by its key
  NULL

ASSUME NodesAssumption == Nodes \subseteq Nat /\ IsFiniteSet(Nodes) /\ NULL \notin Nodes

VARIABLES
  t,            \* the tree: kid[n][d], par[n], col[n] and root
  pc,           \* what the operation under way is about to do
  new,          \* set_rbinsert: the node to be linked in
  node, parent, \* locals of the same name
  next,         \* set_rberase: the node to return
  members,      \* history: the elements of the container between operations
  result        \* history: what the last operation returned

\* What the one caller has asked for.  An erase that needs no repair is called and
\* done in one step.
Asked ==
  CASE pc \in {"descend", "fixinsert"} -> [op |-> "insert", x |-> new]
    [] pc = "fixerase" -> [op |-> "erase", x |-> new]
    [] OTHER -> [op |-> "none", x |-> NULL]

Contents == INSTANCE OrderedSet WITH
  Callers <- {"caller"}, Elements <- Nodes, None <- NULL, AtOnce <- {"erase"},
  pending <- [c \in {"caller"} |-> Asked],
  result <- [c \in {"caller"} |-> IF pc = "returned" THEN {result} ELSE {}]

locals == <<new, node, parent, next>>
vars   == <<t, pc, locals, members, result>>

Dirs == {"left", "right"}

Opp(d) == IF d = "left" THEN "right" ELSE "left"

(***************************************************************************)
(* Stores.                                                                 *)
(***************************************************************************)
SetKid(s, n, d, m) == [s EXCEPT !.kid[n][d] = m]

\* rb_set_parent
SetParent(s, n, p) == [s EXCEPT !.par[n] = p]

\* rb_set_parent_color
SetParentColor(s, n, p, c) == [s EXCEPT !.par[n] = p, !.col[n] = c]

\* ... under if (tmp), as every rotation has it.
AdoptBlack(s, n, p) == IF n = NULL THEN s ELSE SetParentColor(s, n, p, "black")

\* __rb_change_child
ChangeChild(s, old, by, p) ==
  IF p = NULL THEN [s EXCEPT !.root = by]
  ELSE IF s.kid[p]["left"] = old THEN SetKid(s, p, "left", by)
  ELSE SetKid(s, p, "right", by)

\* Mutant: the parent of old is not told.
RotateSetParents_KeepChild(s, old, by, c) ==
  SetParentColor([s EXCEPT !.par[by] = s.par[old], !.col[by] = s.col[old]], old, by, c)

\* __rb_rotate_set_parents
RotateSetParents(s, old, by, c) ==
  LET s1 == [s EXCEPT !.par[by] = s.par[old], !.col[by] = s.col[old]]
  IN ChangeChild(SetParentColor(s1, old, by, c), old, by, s.par[old])

Red(n) == n # NULL /\ t.col[n] = "red"

Black(n) == ~Red(n)

\* The side of p on which n hangs, as both rebalancing loops find out.
Side(p, n) == IF t.kid[p]["right"] # n THEN "left" ELSE "right"

(***************************************************************************)
(* Walks.                                                                  *)
(***************************************************************************)
\* As far as one can go from n in direction d.
Deepest(n, d) ==
  LET Down[m \in Nodes] == IF t.kid[m][d] = NULL THEN m ELSE Down[t.kid[m][d]]
  IN Down[n]

\* rb_first (d = "left") and rb_last
End(d) == IF t.root = NULL THEN NULL ELSE Deepest(t.root, d)

\* The first ancestor of n that has n on the side away from d.
Climb(n, d) ==
  LET Up[m \in Nodes] == IF t.par[m] # NULL /\ m = t.kid[t.par[m]][d]
                         THEN Up[t.par[m]] ELSE t.par[m]
  IN Up[n]

\* rb_next (d = "right") and rb_prev
Neighbour(n, d) ==
  IF t.kid[n][d] # NULL THEN Deepest(t.kid[n][d], Opp(d)) ELSE Climb(n, d)

(***************************************************************************)
(* set_rbinsert and rb_insert_color.                                       *)
(***************************************************************************)
\* A node that is not allocated has no content that is ever looked at: it is kept
\* at one value.
NoKids == [d \in Dirs |-> NULL]

Freed(s, n) == [s EXCEPT !.kid[n] = NoKids, !.par[n] = NULL, !.col[n] = "red"]

Init ==
  /\ t = [kid |-> [n \in Nodes |-> NoKids], par |-> [n \in Nodes |-> NULL],
          col |-> [n \in Nodes |-> "red"], root |-> NULL]
  /\ pc = "idle" /\ new = NULL /\ node = NULL /\ parent = NULL /\ next = NULL
  /\ members = {} /\ result = NULL

\* The operation returns r and forgets its locals.
Return(r) ==
  /\ pc' = "returned" /\ new' = NULL /\ node' = NULL /\ parent' = NULL /\ next' = NULL
  /\ result' = r

\* The caller is done with the result.
Take ==
  /\ pc = "returned" /\ pc' = "idle" /\ result' = NULL
  /\ UNCHANGED <<t, locals, members>>

\* set_rbinsert is called with the element n.
CallInsert(n) ==
  /\ pc = "idle"
  /\ pc' = "descend" /\ new' = n /\ node' = t.root /\ parent' = NULL
  /\ UNCHANGED <<t, next, members, result>>

\* One step down; an equal element ends the search.
Descend ==
  /\ pc = "descend" /\ node # NULL
  /\ \/ /\ new # node
        /\ parent' = node
        /\ node' = t.kid[node][IF new < node THEN "left" ELSE "right"]
        /\ UNCHANGED <<t, pc, new, next, members, result>>
     \/ new = node /\ Return(node) /\ UNCHANGED <<t, members>>

\* The new node, red, is linked where the search ended.
Link ==
  /\ pc = "descend" /\ node = NULL
  /\ LET leaf == [t EXCEPT !.kid[new] = NoKids, !.par[new] = parent, !.col[new] = "red"]
     IN t' = IF parent = NULL THEN [leaf EXCEPT !.root = new]
             ELSE SetKid(leaf, parent, IF new < parent THEN "left" ELSE "right", new)
  /\ pc' = "fixinsert" /\ node' = new
  /\ UNCHANGED <<new, parent, next, members, result>>

\* No red parent: the tree is in order again.
InsertDone ==
  /\ pc = "fixinsert" /\ Black(parent)
  /\ t' = IF parent = NULL THEN SetParentColor(t, node, NULL, "black") ELSE t
  /\ members' = members \cup {new}
  /\ Return(NULL)

Grandparent == t.par[parent]

Uncle == t.kid[Grandparent][Opp(Side(Grandparent, parent))]

\* The grandparent g gives its black to its children p and u.
Flip(s, g, p, u) ==
  LET s1 == SetParentColor(SetParentColor(s, u, g, "black"), p, g, "black")
  IN SetParentColor(s1, g, s.par[g], "red")

\* Case 1: a red uncle; the loop goes on at the grandparent.
InsertFlip ==
  /\ pc = "fixinsert" /\ Red(parent) /\ Red(Uncle)
  /\ t' = Flip(t, Grandparent, parent, Uncle)
  /\ node' = Grandparent /\ parent' = t.par[Grandparent]
  /\ UNCHANGED <<pc, new, next, members, result>>

\* Case 2: n, on the inner side of p, is rotated above p.
RotateAtParent(s, p, n, d) ==
  LET tmp == s.kid[n][d]
      s1 == SetKid(SetKid(s, p, Opp(d), tmp), n, d, p)
  IN SetParentColor(AdoptBlack(s1, tmp, p), p, n, "red")

\* Case 3: p, a d child, is rotated above g.
RotateAtGrandparent(s, g, p, d) ==
  LET tmp == s.kid[p][Opp(d)]
      s1 == SetKid(SetKid(s, g, d, tmp), p, Opp(d), g)
  IN RotateSetParents(AdoptBlack(s1, tmp, g), g, p, "red")

InsertRotate ==
  /\ pc = "fixinsert" /\ Red(parent) /\ ~Red(Uncle)
  /\ LET g == Grandparent
         d == Side(g, parent)
     IN t' = IF node = t.kid[parent][Opp(d)]
             THEN RotateAtGrandparent(RotateAtParent(t, parent, node, d), g, node, d)
             ELSE RotateAtGrandparent(t, g, parent, d)
  /\ members' = members \cup {new}
  /\ Return(NULL)

(***************************************************************************)
(* set_rberase and rb_erase.                                               *)
(***************************************************************************)
\* Mutant: the walk to the successor starts when the subtree of n is already gone.
Successor_Late(n) == Climb(n, "right")

\* What set_rberase looks up before it unlinks n.
Successor(n) == Neighbour(n, "right")

\* Where the repair starts when n is gone from under p.
Repair(n, p) == IF Black(n) THEN p ELSE NULL

\* The node n is out, which left the tree s.  A black count that is now short at
\* rebal calls for repair before n is freed and its successor returned.
Unlinked(s, rebal, n) ==
  IF rebal = NULL
  THEN t' = Freed(s, n) /\ members' = members \ {n} /\ Return(Successor(n))
  ELSE /\ t' = s /\ pc' = "fixerase" /\ node' = NULL /\ parent' = rebal
       /\ new' = n /\ next' = Successor(n)
       /\ UNCHANGED <<members, result>>

\* __rb_erase_augmented, case 1: no left child.
EraseNoLeft(n) ==
  /\ pc = "idle" /\ n \in members /\ t.kid[n]["left"] = NULL
  /\ LET child == t.kid[n]["right"]
         p == t.par[n]
         s == ChangeChild(t, n, child, p)
     IN IF child # NULL
        THEN Unlinked(SetParentColor(s, child, p, t.col[n]), NULL, n)
        ELSE Unlinked(s, Repair(n, p), n)

\* Still case 1: a left child only.
EraseNoRight(n) ==
  /\ pc = "idle" /\ n \in members
  /\ t.kid[n]["left"] # NULL /\ t.kid[n]["right"] = NULL
  /\ LET child == t.kid[n]["left"]
         p == t.par[n]
     IN Unlinked(ChangeChild(SetParentColor(t, child, p, t.col[n]), n, child, p), NULL, n)

\* succ takes n's left subtree, its place and its color.
Replace(s, n, succ) ==
  LET s1 == SetParent(SetKid(s, succ, "left", s.kid[n]["left"]), s.kid[n]["left"], succ)
  IN SetParentColor(ChangeChild(s1, n, succ, s.par[n]), succ, s.par[n], s.col[n])

\* Cases 2 and 3: the successor of n takes the place of n.
EraseTwo(n) ==
  /\ pc = "idle" /\ n \in members
  /\ t.kid[n]["left"] # NULL /\ t.kid[n]["right"] # NULL
  /\ LET child == t.kid[n]["right"]
         succ == Deepest(child, "left")
         child2 == t.kid[succ]["right"]
         p == IF succ = child THEN succ ELSE t.par[succ]
         s1 == IF succ = child THEN t
               ELSE SetParent(SetKid(SetKid(t, p, "left", child2), succ, "right", child),
                              child, succ)
         s2 == Replace(s1, n, succ)
     IN IF child2 # NULL
        THEN Unlinked(SetParentColor(s2, child2, p, "black"), NULL, n)
        ELSE Unlinked(s2, Repair(succ, p), n)

Sibling == t.kid[parent][Opp(Side(parent, node))]

\* The tree s is balanced: the erased node is freed, and its successor, looked up
\* before the node was unlinked, is returned.
EraseReturn(s) ==
  t' = Freed(s, new) /\ members' = members \ {new} /\ Return(next)

\* Mutant: the parent keeps its color.
LowerParent_KeepColor(s, p, sib, d) ==
  LET tmp1 == s.kid[sib][d]
      s1 == SetKid(SetKid(s, p, Opp(d), tmp1), sib, d, p)
  IN RotateSetParents(SetParentColor(s1, tmp1, p, "black"), p, sib, s.col[p])

\* The parent p, red now, goes down below its sibling-side child sib.
LowerParent(s, p, sib, d) ==
  LET tmp1 == s.kid[sib][d]
      s1 == SetKid(SetKid(s, p, Opp(d), tmp1), sib, d, p)
  IN RotateSetParents(SetParentColor(s1, tmp1, p, "black"), p, sib, "red")

\* Case 1: a red sibling is rotated above the parent; the loop body goes on.
EraseRotate ==
  /\ pc = "fixerase" /\ Red(Sibling)
  /\ t' = LowerParent(t, parent, Sibling, Side(parent, node))
  /\ UNCHANGED <<pc, locals, members, result>>

\* Case 2: the sibling turns red; a red parent turns black, and past a black one
\* the loop goes on.
EraseFlip ==
  /\ pc = "fixerase" /\ ~Red(Sibling) /\ \A d \in Dirs : Black(t.kid[Sibling][d])
  /\ LET s == SetParentColor(t, Sibling, parent, "red")
     IN IF Red(parent)
        THEN EraseReturn([s EXCEPT !.col[parent] = "black"])
        ELSE IF t.par[parent] = NULL THEN EraseReturn(s)
        ELSE /\ t' = s /\ node' = parent /\ parent' = t.par[parent]
             /\ UNCHANGED <<pc, new, next, members, result>>

\* Case 3: the sibling's near child, red, is rotated above it.
RotateAtSibling(s, p, sib, near, d) ==
  LET tmp1 == s.kid[near][Opp(d)]
      s1 == SetKid(SetKid(s, sib, d, tmp1), near, Opp(d), sib)
  IN AdoptBlack(SetKid(s1, p, Opp(d), near), tmp1, sib)

\* Mutant: the sibling's far child keeps its color.
RaiseSibling_FarRed(s, p, sib, far, d) ==
  LET tmp2 == s.kid[sib][d]
      s1 == SetKid(SetKid(s, p, Opp(d), tmp2), sib, d, p)
      s2 == SetParent(s1, far, sib)
  IN RotateSetParents(IF tmp2 = NULL THEN s2 ELSE SetParent(s2, tmp2, p), p, sib, "black")

\* Case 4: the sibling is rotated above the parent and the far child turns black.
RaiseSibling(s, p, sib, far, d) ==
  LET tmp2 == s.kid[sib][d]
      s1 == SetKid(SetKid(s, p, Opp(d), tmp2), sib, d, p)
      s2 == SetParentColor(s1, far, sib, "black")
  IN RotateSetParents(IF tmp2 = NULL THEN s2 ELSE SetParent(s2, tmp2, p), p, sib, "black")

EraseRaise ==
  /\ pc = "fixerase" /\ ~Red(Sibling) /\ \E d \in Dirs : Red(t.kid[Sibling][d])
  /\ LET d == Side(parent, node)
         near == t.kid[Sibling][d]
         far == t.kid[Sibling][Opp(d)]
     IN EraseReturn(IF Red(far) THEN RaiseSibling(t, parent, Sibling, far, d)
                    ELSE RaiseSibling(RotateAtSibling(t, parent, Sibling, near, d),
                                      parent, near, Sibling, d))

-----------------------------------------------------------------------------
Next ==
  \/ \E n \in Nodes : CallInsert(n) \/ EraseNoLeft(n) \/ EraseNoRight(n) \/ EraseTwo(n)
  \/ Descend \/ Link \/ InsertDone \/ InsertFlip \/ InsertRotate
  \/ EraseRotate \/ EraseFlip \/ EraseRaise \/ Take

Spec == Init /\ [][Next]_vars
-----------------------------------------------------------------------------
(***************************************************************************)
(* Properties.                                                             *)
(***************************************************************************)
\* The nodes below n, and n.
Subtree(n) ==
  LET Row[i \in 0..Cardinality(Nodes)] ==
        IF i = 0 THEN {n} \ {NULL}
        ELSE {t.kid[m][d] : m \in Row[i-1], d \in Dirs} \ {NULL}
  IN UNION {Row[i] : i \in 0..Cardinality(Nodes)}

Linked == Subtree(t.root)

\* What the tree holds while an operation rebalances it.
Held ==
  CASE pc = "fixinsert" -> members \cup {new}
    [] pc = "fixerase" -> members \ {new}
    [] OTHER -> members

\* No rotation loses, duplicates or misplaces a node: after every iteration the
\* tree holds what it should, smaller keys to the left, larger to the right, and
\* parents and children point to each other.  Walks of the unlocked set_rbsearch
\* and set_next between two iterations rely on this much.
Ordered ==
  /\ Linked = Held
  /\ \A n \in Linked : /\ \A m \in Subtree(t.kid[n]["left"]) : m < n
                       /\ \A m \in Subtree(t.kid[n]["right"]) : m > n
                       /\ \A d \in Dirs : t.kid[n][d] # NULL => t.par[t.kid[n][d]] = n
  /\ t.root # NULL => t.par[t.root] = NULL

\* The black nodes on the path from the root down to n.
BlackCount(n) ==
  LET Up[i \in 0..Cardinality(Nodes)] ==
        IF i = 0 THEN {n} ELSE {t.par[m] : m \in Up[i-1]} \ {NULL}
      path == UNION {Up[i] : i \in 0..Cardinality(Nodes)}
  IN Cardinality({m \in path : t.col[m] = "black"})

\* The leaves, each given by the node and the side where it is missing.
Leaves == {l \in Linked \X Dirs : t.kid[l[1]][l[2]] = NULL}

BlackCounts(S) == {BlackCount(l[1]) : l \in S}

Balanced == \A i, j \in BlackCounts(Leaves) : i = j

NoRedRed(n) == Red(n) => \A d \in Dirs : Black(t.kid[n][d])

\* The five properties in the comment at rbtree.c:26-38, whenever no operation is
\* under way: the root is black, no red node has a red child, and every path to a
\* leaf counts the same black nodes.
RedBlack ==
  pc \in {"idle", "descend", "returned"} =>
    /\ Black(t.root)
    /\ \A n \in Linked : NoRedRed(n)
    /\ Balanced

\* The comment at rbtree.c:78-85: the node of the insert loop is red, and it is the
\* only one that may be a red root or the red child of a red parent.  That parent has
\* a parent, which is used unchecked (rbtree.c:91).
InsertLoop ==
  pc = "fixinsert" =>
    /\ Red(node) /\ parent = t.par[node]
    /\ Red(parent) => Grandparent # NULL
    /\ \A n \in Linked \ {parent} : NoRedRed(n)
    /\ Red(t.root) => node = t.root
    /\ Red(parent) => \A d \in Dirs : t.kid[parent][d] # node => Black(t.kid[parent][d])
    /\ Balanced

\* The leaves below side d of n.
LeavesBelow(n, d) ==
  {l \in Leaves : l = <<n, d>> \/ l[1] \in Subtree(t.kid[n][d])}

\* The comment at rbtree.c:207-213: the node of the erase loop is black or NULL, its
\* parent is not NULL, and leaf paths through the parent and the node count one
\* black node less than the others.  It has a sibling, used unchecked (rbtree.c:214).
EraseLoop ==
  pc = "fixerase" =>
    /\ Black(node) /\ parent # NULL /\ Sibling # NULL
    /\ LET short == LeavesBelow(parent, Side(parent, node))
       IN \A i \in BlackCounts(short), j \in BlackCounts(Leaves \ short) : i + 1 = j

\* Each iteration of a loop leaves to the next one what it counts on.
LoopsAreInvariant == InsertLoop /\ EraseLoop

\* The greatest element of S, if there is one.
Greatest(S) == IF S = {} THEN {NULL} ELSE {x \in S : \A y \in S : y <= x}

\* rbtree.h:94, "Find logical next and previous nodes in a tree", and the first and
\* the last: the walks agree with the order of the keys, in either direction, and
\* return NULL only where there is no node left.
WalksAreLogical ==
  pc = "idle" =>
    /\ End("left") \in Contents!First(members) /\ End("right") \in Greatest(members)
    /\ \A n \in members :
         /\ Neighbour(n, "right") \in Contents!First(Contents!After(members, n))
         /\ Neighbour(n, "left") \in Greatest({m \in members : m < n})

\* The tree implements the ordered set: an insert and an erase take effect in one step,
\* an insert returns the element that was there and links a new one, and set_rberase
\* takes out one element, the one it was called with, and returns its successor.
ImplementsOrderedSet == Contents!Spec
=============================================================================

----------------------------- MODULE SharedTree -----------------------------
(***************************************************************************)
(* inet_frag_settree as its two threads share it: one thread inserts or    *)
(* erases a node under the lock, store by store, while the other one walks *)
(* the tree without the lock, load by load.                                *)
(*                                                                         *)
(* The reader searches (set_rbsearch) and inserts, the maintainer walks    *)
(* (set_first, set_next) and erases.  A thread does one thing at a time:   *)
(* a search meets the stores of an erase only, a walk those of an insert.  *)
(*                                                                         *)
(* The thread that holds the lock takes the steps of RBTree, whose t is    *)
(* the tree as that thread has it; mem is the tree in memory.  Stores      *)
(* reach memory one by one, in the order of the source.                    *)
(***************************************************************************)
EXTENDS RBTree, Sequences

VARIABLES
  mem,    \* the tree in memory: kid, par, col, root
  used,   \* the nodes that are allocated
  stores, \* stores the lock's owner has still to make before its next step
  op,     \* the operation under the lock: "none", "insert" or "erase"
  call,   \* what the other thread is in: "none", "search", or a "pass" over the tree
  step,   \* what it does next
  goal,   \* the key it looks for, or the node it goes on from
  at, up, \* its locals: node (or rb_tmp) and parent
  calm,   \* history: no operation of the other thread has overlapped the call
  began,  \* history: the nodes in the tree when the call began
  seen    \* history: the nodes that a calm pass has visited

memory == <<mem, used, stores>>
owner  == <<vars, op>>
history == <<calm, began, seen>>
seeker == <<call, step, goal, at, up, history>>
all    == <<owner, memory, seeker>>

(***************************************************************************)
(* Stores.                                                                 *)
(***************************************************************************)
Kid(n, d, m) == [do |-> "kid", node |-> n, dir |-> d, to |-> m]

\* __rb_parent_color: the parent and the color are one word.
Par(n, p, c) == [do |-> "par", node |-> n, to |-> p, col |-> c]

\* A new node is private until it is linked: its initialisation is one store.
Leaf(n, p) == [do |-> "leaf", node |-> n, to |-> p]

Root(n) == [do |-> "root", to |-> n]

Free(n) == [do |-> "free", node |-> n]

Apply(s, st) ==
  CASE st.do = "kid"  -> SetKid(s, st.node, st.dir, st.to)
    [] st.do = "par"  -> SetParentColor(s, st.node, st.to, st.col)
    [] st.do = "leaf" -> SetParentColor([s EXCEPT !.kid[st.node] = NoKids], st.node, st.to, "red")
    [] st.do = "root" -> [s EXCEPT !.root = st.to]
    [] st.do = "free" -> Freed(s, st.node)

When(b, seq) == IF b THEN seq ELSE <<>>

\* Mutant: the subtree that changes sides keeps its parent pointer.
Blackened_Never(n, p) == <<>>

\* rb_set_parent
Moved(n, p) == When(n # NULL, <<Par(n, p, t.col[n])>>)

\* if (tmp) rb_set_parent_color(tmp, p, RB_BLACK)
Blackened(n, p) == When(n # NULL, <<Par(n, p, "black")>>)

\* __rb_change_child
Child(old, by, p) ==
  IF p = NULL THEN Root(by)
  ELSE Kid(p, IF t.kid[p]["left"] = old THEN "left" ELSE "right", by)

\* __rb_rotate_set_parents
Swapped(old, by, c) ==
  <<Par(by, t.par[old], t.col[old]), Par(old, by, c), Child(old, by, t.par[old])>>

(***************************************************************************)
(* What each step of RBTree stores.                                        *)
(***************************************************************************)
Hang(n, p) == IF p = NULL THEN Root(n) ELSE Kid(p, IF n < p THEN "left" ELSE "right", n)

\* Mutant: the node is linked before rb_link_node has set its pointers.
LinkStores_Early == <<Hang(new, parent), Leaf(new, parent)>>

\* rb_link_node
LinkStores == <<Leaf(new, parent), Hang(new, parent)>>

InsertDoneStores == When(parent = NULL, <<Par(node, NULL, "black")>>)

InsertFlipStores ==
  <<Par(Uncle, Grandparent, "black"), Par(parent, Grandparent, "black"),
    Par(Grandparent, t.par[Grandparent], "red")>>

\* Case 2 of the insert, if need be, and case 3.
InsertRotateStores ==
  LET g == Grandparent
      d == Side(g, parent)
      inner == node = t.kid[parent][Opp(d)]
      p == IF inner THEN node ELSE parent
      near == t.kid[node][d]
      tmp == t.kid[p][Opp(d)]
  IN When(inner, <<Kid(parent, Opp(d), near), Kid(node, d, parent)>>
                 \o Blackened(near, parent) \o <<Par(parent, node, "red")>>)
     \o <<Kid(g, d, tmp), Kid(p, Opp(d), g)>> \o Blackened(tmp, g) \o Swapped(g, p, "red")

EraseNoLeftStores(n) ==
  LET child == t.kid[n]["right"]
  IN <<Child(n, child, t.par[n])>>
     \o When(child # NULL, <<Par(child, t.par[n], t.col[n])>>)

EraseNoRightStores(n) ==
  LET child == t.kid[n]["left"]
  IN <<Par(child, t.par[n], t.col[n]), Child(n, child, t.par[n])>>

EraseTwoStores(n) ==
  LET child == t.kid[n]["right"]
      succ == Deepest(child, "left")
      child2 == t.kid[succ]["right"]
      p == IF succ = child THEN succ ELSE t.par[succ]
  IN When(succ # child, <<Kid(p, "left", child2), Kid(succ, "right", child)>>
                        \o Moved(child, succ))
     \o <<Kid(succ, "left", t.kid[n]["left"])>> \o Moved(t.kid[n]["left"], succ)
     \o <<Child(n, succ, t.par[n]), Par(succ, t.par[n], t.col[n])>>
     \o Blackened(child2, p)

EraseRotateStores ==
  LET d == Side(parent, node)
      tmp1 == t.kid[Sibling][d]
  IN <<Kid(parent, Opp(d), tmp1), Kid(Sibling, d, parent), Par(tmp1, parent, "black")>>
     \o Swapped(parent, Sibling, "red")

EraseFlipStores ==
  <<Par(Sibling, parent, "red")>>
  \o When(Red(parent), <<Par(parent, t.par[parent], "black")>>)

\* What __rb_erase_augmented stores.
EraseStores(n) ==
  IF t.kid[n]["left"] = NULL THEN EraseNoLeftStores(n)
  ELSE IF t.kid[n]["right"] = NULL THEN EraseNoRightStores(n)
  ELSE EraseTwoStores(n)

\* Case 3 of the erase, if need be, and case 4.
EraseRaiseStores ==
  LET d == Side(parent, node)
      near == t.kid[Sibling][d]
      inner == ~Red(t.kid[Sibling][Opp(d)])
      sib == IF inner THEN near ELSE Sibling
      far == IF inner THEN Sibling ELSE t.kid[Sibling][Opp(d)]
      tmp1 == t.kid[near][Opp(d)]
      tmp2 == t.kid[sib][d]
  IN When(inner, <<Kid(Sibling, d, tmp1), Kid(near, Opp(d), Sibling),
                   Kid(parent, Opp(d), near)>> \o Blackened(tmp1, Sibling))
     \o <<Kid(parent, Opp(d), tmp2), Kid(sib, d, parent), Par(far, sib, "black")>>
     \o Moved(tmp2, parent) \o Swapped(parent, sib, "black")

-----------------------------------------------------------------------------
(***************************************************************************)
(* The thread that holds the lock.                                         *)
(***************************************************************************)
\* A step of RBTree whose stores are to be made before the next one.
Burst(A, seq) == stores = <<>> /\ A /\ stores' = seq /\ UNCHANGED <<mem, used, op>>

\* free(elem) comes last, if the operation returns.
Freeing(A, n, seq) ==
  /\ stores = <<>> /\ A
  /\ stores' = seq \o When(pc' = "returned", <<Free(n)>>)
  /\ UNCHANGED <<mem, used, op>>

Operate ==
  \/ Burst(Descend, <<>>)
  \/ Burst(Link, LinkStores)
  \/ Burst(InsertDone, InsertDoneStores)
  \/ Burst(InsertFlip, InsertFlipStores)
  \/ Burst(InsertRotate, InsertRotateStores)
  \/ Burst(EraseRotate, EraseRotateStores)
  \/ Freeing(EraseFlip, new, EraseFlipStores)
  \/ Freeing(EraseRaise, new, EraseRaiseStores)

Store ==
  /\ stores # <<>>
  /\ mem' = Apply(mem, Head(stores))
  /\ used' = CASE Head(stores).do = "leaf" -> used \cup {Head(stores).node}
               [] Head(stores).do = "free" -> used \ {Head(stores).node}
               [] OTHER -> used
  /\ stores' = Tail(stores)
  /\ UNCHANGED owner

\* The lock is taken for o, and the operation begins with A.
Begin(o, A) == op = "none" /\ op' = o /\ A

\* The reader, which is not searching then, calls set_rbinsert.
BeginInsert(n) ==
  /\ call # "search"
  /\ Begin("insert", CallInsert(n))
  /\ calm' = (call = "none") /\ seen' = {}
  /\ UNCHANGED <<memory, call, step, goal, at, up, began>>

\* The maintainer calls set_rberase.
BeginErase(n) ==
  /\ Begin("erase", EraseNoLeft(n) \/ EraseNoRight(n) \/ EraseTwo(n))
  /\ stores' = EraseStores(n) \o When(pc' = "returned", <<Free(n)>>)
  /\ UNCHANGED <<mem, used>>

\* ... while the reader may be searching.  The pass that led to n is not followed.
EraseAny(n) ==
  /\ call # "pass" /\ BeginErase(n)
  /\ calm' = (call = "none")
  /\ UNCHANGED <<call, step, goal, at, up, began, seen>>

\* The unlock.
Release ==
  /\ stores = <<>> /\ step # "erasing" /\ Take
  /\ op' = "none" /\ UNCHANGED <<memory, seeker>>

Owner == ((Operate \/ Store) /\ UNCHANGED seeker) \/ Release

(***************************************************************************)
(* The thread that walks without the lock.                                 *)
(***************************************************************************)
Others == <<owner, memory>>

Enter(c, k) ==
  /\ call = "none" /\ call' = c /\ goal' = k /\ step' = "root"
  /\ calm' = (op = "none") /\ began' = members
  /\ UNCHANGED <<at, up, seen, Others>>

\* set_rbsearch
StartSearch(k) == op # "insert" /\ Enter("search", k)

\* ipv4_fragment_maintain begins its loop over the set tree.
StartPass == op # "erase" /\ Enter("pass", NULL)

Goes(s, a) == step' = s /\ at' = a /\ UNCHANGED <<call, goal, up, history, Others>>

\* The loop of the pass has node a in hand.
Visit(a) ==
  /\ step' = "visit" /\ at' = a /\ goal' = NULL
  /\ seen' = IF calm THEN seen \cup ({a} \ {NULL}) ELSE {}
  /\ UNCHANGED <<call, calm, began>>

\* node = root->rb_node
LoadRoot ==
  /\ step = "root"
  /\ Goes(IF call = "search" THEN "compare" ELSE "down", mem.root)

\* One round of set_rbsearch.  A node that has been freed holds anything.
Compare ==
  /\ step = "compare"
  /\ \/ at \in {NULL} \cup (used \cap {goal}) /\ Goes("done", at)
     \/ /\ at \in used \ {goal}
        /\ Goes("compare", mem.kid[at][IF goal < at THEN "left" ELSE "right"])
     \/ at \notin used \cup {NULL} /\ Goes("wild", NULL)

\* The search returns; a wild one may not.
EndSearch ==
  /\ step = "done"
  /\ call' = "none" /\ step' = "off" /\ goal' = NULL /\ at' = NULL
  /\ calm' = TRUE /\ began' = {} /\ UNCHANGED <<up, seen, Others>>

\* while (n && n->rb_left): the loop of rb_first, which rb_next has, too.
TestLeft ==
  /\ step = "down"
  /\ IF at # NULL /\ mem.kid[at]["left"] # NULL
     THEN Goes("left", at)
     ELSE Visit(at) /\ UNCHANGED <<up, Others>>

\* n = n->rb_left, which loads the pointer once more.
LoadLeft == step = "left" /\ Goes("down", mem.kid[at]["left"])

\* snode = set_next(snode): rb_tmp = node->rb_right
Advance ==
  /\ step = "visit" /\ at # NULL
  /\ goal' = at
  /\ IF mem.kid[at]["right"] # NULL
     THEN step' = "down" /\ at' = mem.kid[at]["right"]
     ELSE step' = "climb" /\ UNCHANGED at
  /\ UNCHANGED <<call, up, history, Others>>

\* parent = rb_parent(node)
LoadParent ==
  /\ step = "climb" /\ step' = "side"
  /\ up' = mem.par[at]
  /\ UNCHANGED <<call, goal, at, history, Others>>

\* Mutant: the climb goes on from a left child.
Climbs_Left(n, p) == p # NULL /\ n = mem.kid[p]["left"]

\* parent && node == parent->rb_right
Climbs(n, p) == p # NULL /\ n = mem.kid[p]["right"]

TestSide ==
  /\ step = "side" /\ up' = NULL /\ UNCHANGED Others
  /\ IF Climbs(at, up)
     THEN step' = "climb" /\ at' = up /\ UNCHANGED <<call, goal, history>>
     ELSE Visit(up)

\* snode = set_rberase(settree, snode), once the lock is free.
EraseVisited ==
  /\ step = "visit" /\ at # NULL /\ BeginErase(at)
  /\ step' = "erasing"
  /\ UNCHANGED <<call, goal, at, up, history>>

\* The pass goes on with what set_rberase returns.
ResumePass ==
  /\ step = "erasing" /\ stores = <<>> /\ Take /\ op' = "none"
  /\ Visit(result) /\ UNCHANGED <<up, memory>>

EndPass ==
  /\ step = "visit" /\ at = NULL
  /\ call' = "none" /\ step' = "off" /\ calm' = TRUE /\ began' = {} /\ seen' = {}
  /\ UNCHANGED <<goal, at, up, Others>>

Walk ==
  \/ LoadRoot \/ Compare \/ EndSearch \/ TestLeft \/ LoadLeft \/ Advance
  \/ LoadParent \/ TestSide \/ EndPass

-----------------------------------------------------------------------------
SharedInit ==
  /\ Init
  /\ mem = t /\ used = {} /\ stores = <<>> /\ op = "none"
  /\ call = "none" /\ step = "off" /\ goal = NULL /\ at = NULL /\ up = NULL
  /\ calm = TRUE /\ began = {} /\ seen = {}

SharedNext ==
  \/ \E n \in Nodes : BeginInsert(n) \/ EraseAny(n) \/ StartSearch(n)
  \/ StartPass \/ EraseVisited \/ ResumePass \/ Owner \/ Walk

SharedSpec == SharedInit /\ [][SharedNext]_all

\* The thread that walks is scheduled; the one that holds the lock may be preempted
\* in the middle of a rotation and stay so.
WalkSpec == SharedSpec /\ WF_all(Walk)
-----------------------------------------------------------------------------
\* What a burst leaves in memory is the tree that the step of RBTree makes of it, so
\* that nothing in RBTree depends on the order of the stores.
StoresMakeTree ==
  LET From[i \in 0..Len(stores)] == IF i = 0 THEN mem ELSE Apply(From[i-1], stores[i])
  IN From[Len(stores)] = t

\* A pass over the tree without the lock (handler.c:196, 221) never follows a pointer
\* to memory that is not a node, whichever stores of an insert it meets.
WalkIsSafe == call = "pass" /\ step # "erasing" => {at, up} \subseteq used \cup {NULL}

\* A call that no operation overlaps sees the tree as it is: the search finds what is
\* there, the pass has each node in hand once, in order, those it erases included.
UndisturbedIsExact ==
  calm =>
    /\ step = "done" => at = IF goal \in members THEN goal ELSE NULL
    /\ step = "visit" => seen = {n \in began : at = NULL \/ n <= at}

\* However an insert has led a walk astray, the walk comes to its end when the insert
\* is over.  While it is not, the walk may go round in a circle.
WalksEnd == <>[](op = "none") => []<>(call = "none" \/ step = "wild")
=============================================================================

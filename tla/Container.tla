----------------------------- MODULE Container -----------------------------
(***************************************************************************)
(* The operations of set_tree, key_tree and tag_tree, called by several    *)
(* threads.  key_rbinsert_mp, tag_rbinsert_mp and set_rberase_EX_mc take   *)
(* the tree's lock themselves; around the others the caller does.          *)
(*                                                                         *)
(* The three containers differ only in how an element is compared.  The    *)
(* tree under them is a set of linked nodes here: RBTree is that tree.     *)
(***************************************************************************)
EXTENDS Naturals, FiniteSets

CONSTANTS
  Threads,
  Erasers, \* the threads that take nodes out
  Nodes,   \* addresses at which malloc may put a node
  Keys,
  NULL

\* One thread at most takes nodes out, as the maintainer does: the node that an
\* erase hands back may otherwise be gone before it is used.
ASSUME ContainerAssumption ==
  /\ Erasers \subseteq Threads /\ \A s, t \in Erasers : s = t
  /\ IsFiniteSet(Nodes) /\ Keys \subseteq Nat
  /\ NULL \notin Nodes \cup Nat

VARIABLES
  mutex, ncount,    \* of the tree
  linked,           \* the nodes in the tree
  live,             \* the nodes malloc has given out
  key,              \* their keys
  pc, op, arg,      \* of each thread: its step, the operation and the key it is for;
  node, next, temp, \* the locals of the operation and the register of ++ncount
  cursor,           \* the node a caller will go on from
  out               \* history: {} and, once the operation took effect, {its result}

locals == <<op, arg, node, next, temp, cursor>>
vars == <<mutex, ncount, linked, live, key, pc, locals, out>>

At(t, s) == pc[t] = s

GoTo(t, s) == pc' = [pc EXCEPT ![t] = s]

\* A clear has begun to take the nodes out, one after the other.
Clearing(t) == op[t] = "clear" /\ pc[t] \in {"succ", "unlink", "free", "count", "store"}

Members == IF \E t \in Threads : Clearing(t) THEN {} ELSE {key[n] : n \in linked}

\* The operation of thread t, until it takes effect.
Pending(t) ==
  IF op[t] = "none" \/ out[t] # {} THEN [op |-> "none", x |-> NULL]
  ELSE [op |-> IF op[t] = "erase_mc" THEN "erase" ELSE op[t], x |-> arg[t]]

Contents == INSTANCE OrderedSet WITH
  Callers <- Threads, Elements <- Keys, None <- NULL, AtOnce <- {},
  members <- Members, pending <- [t \in Threads |-> Pending(t)], result <- out

KeyOf(n) == IF n = NULL THEN NULL ELSE key[n]

\* The first node of S in the order of the keys.
Least(S) ==
  IF S = {} THEN NULL ELSE CHOOSE n \in S : \A m \in S : key[n] <= key[m]

\* Mutant: an erase hands back the first node that is left.
Successor_First(n) == Least(linked \ {n})

Successor(n) == Least({m \in linked : key[m] > key[n]})

\* The node with key k, if there is one.
Lookup(k) == Least({n \in linked : key[n] = k})

Init ==
  /\ mutex = 0 /\ ncount = 0 /\ linked = {} /\ live = {}
  /\ key = [n \in Nodes |-> 0]
  /\ pc = [t \in Threads |-> "idle"] /\ op = [t \in Threads |-> "none"]
  /\ arg = [t \in Threads |-> NULL] /\ temp = [t \in Threads |-> 0]
  /\ node = [t \in Threads |-> NULL] /\ next = [t \in Threads |-> NULL]
  /\ cursor = [t \in Threads |-> NULL] /\ out = [t \in Threads |-> {}]

-----------------------------------------------------------------------------
(***************************************************************************)
(* Calls.  An operation names its C functions by their ending: _rbinsert   *)
(* and _rbinsert2, _rbsearch, _rberase_by_key and its like, _first, _next, *)
(* _rberase, _rberase_EX_mc, _rbclear_Ex.                                  *)
(***************************************************************************)
Calls(t, o) ==
  /\ At(t, "idle") /\ GoTo(t, "lock")
  /\ op' = [op EXCEPT ![t] = o]
  /\ UNCHANGED <<mutex, ncount, linked, live, key, next, temp, cursor, out>>

CallWithKey(t) ==
  \E k \in Keys, o \in {"insert", "search"} \cup (IF t \in Erasers THEN {"remove"} ELSE {}) :
    Calls(t, o) /\ arg' = [arg EXCEPT ![t] = k] /\ UNCHANGED node

CallWithTree(t) ==
  t \in Erasers /\ \E o \in {"first", "clear"} : Calls(t, o) /\ UNCHANGED <<arg, node>>

CallWithNode(t) ==
  /\ t \in Erasers /\ cursor[t] # NULL
  /\ \E o \in {"next", "erase", "erase_mc"} : Calls(t, o)
  /\ node' = [node EXCEPT ![t] = cursor[t]] /\ arg' = [arg EXCEPT ![t] = key[cursor[t]]]

\* set_tree_lock: until the exchange succeeds the thread yields.
Lock(t) ==
  /\ At(t, "lock") /\ mutex = 0
  /\ mutex' = 1
  /\ GoTo(t, CASE op[t] \in {"insert", "search", "remove"} -> "find"
               [] op[t] \in {"first", "clear"} -> "first"
               [] OTHER -> "succ")
  /\ UNCHANGED <<ncount, linked, live, key, locals, out>>

\* set_tree_unlock
Unlock(t) ==
  /\ At(t, "unlock")
  /\ mutex' = 0
  /\ GoTo(t, IF op[t] = "erase_mc" THEN "free" ELSE "return")
  /\ UNCHANGED <<ncount, linked, live, key, locals, out>>

-----------------------------------------------------------------------------
\* Mutant: the loop of an insert does not end at a node with the key.
AfterFind_Stays(o, n) ==
  CASE o = "insert" /\ n = NULL -> "link"
    [] o = "insert" /\ n # NULL -> "find"
    [] o = "remove" /\ n # NULL -> "unlink"
    [] OTHER -> "unlock"

\* Where the descent leads that ended at n.
AfterFind(o, n) ==
  CASE o = "insert" /\ n = NULL -> "link"
    [] o = "remove" /\ n # NULL -> "unlink"
    [] OTHER -> "unlock"

\* The descent that insert, search and erase by key have in common.  An insert has no
\* effect yet if there is a node to link, nor a remove if there is one to unlink.
Find(t) ==
  /\ At(t, "find")
  /\ LET n == Lookup(arg[t])
     IN /\ node' = [node EXCEPT ![t] = n]
        /\ GoTo(t, AfterFind(op[t], n))
        /\ out' = IF pc'[t] = "unlock" THEN [out EXCEPT ![t] = {KeyOf(n)}] ELSE out
  /\ UNCHANGED <<mutex, ncount, linked, live, key, op, arg, next, temp, cursor>>

\* set_first.  From here on nobody else sees what a clear leaves.
First(t) ==
  /\ At(t, "first")
  /\ LET n == Least(linked)
     IN /\ node' = [node EXCEPT ![t] = n]
        /\ out'  = [out EXCEPT ![t] = {IF op[t] = "first" THEN KeyOf(n) ELSE NULL}]
        /\ GoTo(t, IF op[t] = "clear" /\ n # NULL THEN "succ" ELSE "unlock")
  /\ UNCHANGED <<mutex, ncount, linked, live, key, op, arg, next, temp, cursor>>

\* rb_next, of set_next and of every erase
Succ(t) ==
  /\ At(t, "succ")
  /\ next' = [next EXCEPT ![t] = Successor(node[t])]
  /\ out'  = IF op[t] = "next" THEN [out EXCEPT ![t] = {KeyOf(next'[t])}] ELSE out
  /\ GoTo(t, IF op[t] = "next" THEN "unlock" ELSE "unlink")
  /\ UNCHANGED <<mutex, ncount, linked, live, key, op, arg, node, temp, cursor>>

\* malloc, the node's fields, rb_link_node and rb_insert_color
Link(t) ==
  /\ At(t, "link")
  /\ \E n \in Nodes \ live :
       /\ live' = live \cup {n} /\ linked' = linked \cup {n}
       /\ key' = [key EXCEPT ![n] = arg[t]]
  /\ out' = [out EXCEPT ![t] = {NULL}]
  /\ GoTo(t, "count")
  /\ UNCHANGED <<mutex, ncount, locals>>

\* rb_erase
Unlink(t) ==
  /\ At(t, "unlink")
  /\ linked' = linked \ {node[t]}
  /\ out' = CASE op[t] = "remove" -> [out EXCEPT ![t] = {arg[t]}]
              [] op[t] = "clear" -> out
              [] OTHER -> [out EXCEPT ![t] = {KeyOf(next[t])}]
  /\ GoTo(t, IF op[t] \in {"erase", "clear"} THEN "free" ELSE "count")
  /\ UNCHANGED <<mutex, ncount, live, key, locals>>

\* free or freec: before the count is lowered, after it, or after the unlock.
Free(t) ==
  /\ At(t, "free")
  /\ live' = live \ {node[t]} /\ key' = [key EXCEPT ![node[t]] = 0]
  /\ GoTo(t, CASE op[t] \in {"erase", "clear"} -> "count"
               [] op[t] = "remove" -> "unlock"
               [] OTHER -> "return")
  /\ UNCHANGED <<mutex, ncount, linked, locals, out>>

\* ++ncount and --ncount are a load and a store.
Load(t) ==
  /\ At(t, "count")
  /\ temp' = [temp EXCEPT ![t] = ncount]
  /\ GoTo(t, "store")
  /\ UNCHANGED <<mutex, ncount, linked, live, key, op, arg, node, next, cursor, out>>

\* Mutant: an erase by key leaves the count alone.
Counted_NotRemoved(o, c) == IF o = "insert" THEN c + 1 ELSE IF o = "remove" THEN c ELSE c - 1

Counted(o, c) == IF o = "insert" THEN c + 1 ELSE c - 1

\* Mutant: an erase by key does not free the node.
AfterStore_Leak(o, n) == IF o = "clear" /\ n # NULL THEN "succ" ELSE "unlock"

AfterStore(o, n) ==
  CASE o = "remove" -> "free"
    [] o = "clear" /\ n # NULL -> "succ"
    [] OTHER -> "unlock"

\* A clear goes on with the successor of the node it has erased.
Store(t) ==
  /\ At(t, "store")
  /\ ncount' = Counted(op[t], temp[t]) /\ temp' = [temp EXCEPT ![t] = 0]
  /\ node' = IF op[t] = "clear" THEN [node EXCEPT ![t] = next[t]] ELSE node
  /\ GoTo(t, AfterStore(op[t], next[t]))
  /\ UNCHANGED <<mutex, linked, live, key, op, arg, next, cursor, out>>

\* Mutant: an erase returns the node it has freed.
Kept_Node(o, c, n, x) ==
  CASE o \in {"insert", "search"} -> c
    [] o \in {"first", "erase", "erase_mc"} -> n
    [] o = "next" -> x
    [] OTHER -> NULL

\* The node to go on from after operation o, which found n and its successor x.
Kept(o, c, n, x) ==
  CASE o \in {"insert", "search"} -> c
    [] o = "first" -> n
    [] o \in {"next", "erase", "erase_mc"} -> x
    [] OTHER -> NULL

\* The caller keeps the node to go on from.  A node that an insert or a search found
\* it does not: an eraser may take it out at any time.
\* The locals end with the call.
Return(t) ==
  /\ At(t, "return")
  /\ cursor' = [cursor EXCEPT ![t] = Kept(op[t], @, node[t], next[t])]
  /\ GoTo(t, "idle")
  /\ op' = [op EXCEPT ![t] = "none"] /\ arg' = [arg EXCEPT ![t] = NULL]
  /\ node' = [node EXCEPT ![t] = NULL] /\ next' = [next EXCEPT ![t] = NULL]
  /\ out' = [out EXCEPT ![t] = {}]
  /\ UNCHANGED <<mutex, ncount, linked, live, key, temp>>

Call(t) == CallWithKey(t) \/ CallWithTree(t) \/ CallWithNode(t)

Step(t) ==
  \/ Lock(t) \/ Unlock(t) \/ Find(t) \/ First(t) \/ Succ(t) \/ Link(t)
  \/ Unlink(t) \/ Free(t) \/ Load(t) \/ Store(t) \/ Return(t)

Next == \E t \in Threads : Call(t) \/ Step(t)

Spec == Init /\ [][Next]_vars

\* The scheduler runs every thread again and again.
FairSpec == Spec /\ \A t \in Threads : WF_vars(Step(t))

-----------------------------------------------------------------------------
TypeOK ==
  /\ mutex \in {0, 1} /\ ncount \in Nat
  /\ linked \subseteq Nodes /\ live \subseteq Nodes
  /\ key \in [Nodes -> Nat]
  /\ pc \in [Threads -> {"idle", "lock", "find", "first", "succ", "link", "unlink",
                         "free", "count", "store", "unlock", "return"}]
  /\ op \in [Threads -> {"none", "insert", "search", "remove", "first", "clear",
                         "next", "erase", "erase_mc"}]
  /\ arg \in [Threads -> Nat \cup {NULL}] /\ temp \in [Threads -> Nat]
  /\ node \in [Threads -> Nodes \cup {NULL}] /\ next \in [Threads -> Nodes \cup {NULL}]
  /\ cursor \in [Threads -> Nodes \cup {NULL}] /\ out \in [Threads -> SUBSET (Nat \cup {NULL})]

\* SET_TREE_NODES tells how many nodes the tree has whenever nobody holds its lock: no
\* update of ncount is lost or made twice.
CountIsSize == mutex = 0 => ncount = Cardinality(linked)

\* Two inserts of one key at the same time leave one node, as an insert must look and
\* link under one lock.
KeysAreUnique == \A m, n \in linked : key[m] = key[n] => m = n

\* Between its unlinking and its release.
Doomed(t) ==
  \/ At(t, "free")
  \/ op[t] \in {"remove", "erase_mc"} /\ pc[t] \in {"count", "store"}
  \/ op[t] = "erase_mc" /\ At(t, "unlock")

\* Every node that malloc gave out is in the tree or about to be freed by one thread:
\* no operation leaks a node, frees it twice or frees it while it is linked.
NodesAreOwned ==
  /\ live = linked \cup {node[t] : t \in {s \in Threads : Doomed(s)}}
  /\ \A t \in Threads : Doomed(t) => node[t] \in live \ linked
  /\ \A s, t \in Threads : Doomed(s) /\ Doomed(t) /\ node[s] = node[t] => s = t

\* The node that an erase hands back, found under the lock but used after the unlock,
\* is still in the tree: the walk of its caller goes on from it.
CursorIsLinked == \A t \in Threads : At(t, "idle") /\ cursor[t] # NULL => cursor[t] \in linked

\* Every operation takes effect at one moment between its call and its return: what it
\* returns is the answer of the ordered set at that moment to this operation on this
\* key, and what it leaves of the tree is what the set is left with.  A search does not
\* miss a key, an insert links a key once only, a clear that several steps make up is one
\* to the other threads and leaves nothing.
ImplementsOrderedSet == Contents!Spec

\* Whoever holds the lock gives it back, on every path out of an operation.
LockIsReleased == mutex = 1 ~> mutex = 0
=============================================================================

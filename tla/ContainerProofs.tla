-------------------------- MODULE ContainerProofs --------------------------
(***************************************************************************)
(* Theorems about Container, for any number of threads that insert and one *)
(* that erases.  The inductive invariant IInv says that one thread at most *)
(* is inside the lock, and what its locals have to do with the tree.       *)
(***************************************************************************)
EXTENDS Container, FiniteSetTheorems, WellFoundedInduction, TLAPS

\* The thread has the lock.
Inside(t) ==
  \/ pc[t] \in {"find", "first", "succ", "link", "unlink", "count", "store", "unlock"}
  \/ pc[t] = "free" /\ op[t] # "erase_mc"

Exclusion ==
  /\ \A t \in Threads : Inside(t) => mutex = 1
  /\ \A s, t \in Threads : Inside(s) /\ Inside(t) => s = t

\* The operations each step belongs to.
StepsOfOps == \A t \in Threads :
  /\ pc[t] # "idle" => op[t] # "none"
  /\ op[t] \in {"insert", "search", "remove"} => arg[t] \in Keys
  /\ pc[t] # "idle" /\ op[t] \notin {"insert", "search"} => t \in Erasers
  /\ pc[t] = "find" => op[t] \in {"insert", "search", "remove"}
  /\ pc[t] = "first" => op[t] \in {"first", "clear"}
  /\ pc[t] = "succ" => op[t] \in {"next", "erase", "erase_mc", "clear"}
  /\ pc[t] = "link" => op[t] = "insert"
  /\ pc[t] \in {"unlink", "free"} => op[t] \in {"remove", "erase", "erase_mc", "clear"}
  /\ pc[t] \in {"count", "store"}
       => op[t] \in {"insert", "remove", "erase", "erase_mc", "clear"}

\* The node a step works on is in the tree, and the one handed back will be.
NodesAreKnown == \A t \in Threads :
  /\ pc[t] = "lock" /\ op[t] \in {"next", "erase", "erase_mc"} => node[t] \in linked
  /\ pc[t] \in {"succ", "unlink"} => node[t] \in linked
  /\ pc[t] = "unlink" /\ op[t] # "remove" => next[t] \in (linked \cup {NULL}) \ {node[t]}
  /\ pc[t] \in {"free", "count", "store", "unlock", "return"}
       /\ op[t] \in {"erase", "erase_mc"} => next[t] \in linked \cup {NULL}
  /\ pc[t] \in {"free", "count", "store"} /\ op[t] = "clear" => next[t] \in linked \cup {NULL}
  /\ pc[t] \in {"unlock", "return"} /\ op[t] = "next" => next[t] \in linked \cup {NULL}
  /\ pc[t] \in {"unlock", "return"} /\ op[t] = "first" => node[t] \in linked \cup {NULL}

\* What the descent of an insert has found out is still true.
KeyIsAbsent == \A t \in Threads : pc[t] = "link" => \A n \in linked : key[n] # arg[t]

\* A node has been linked or unlinked and is not counted yet.
Uncounted(t) ==
  \/ pc[t] \in {"count", "store"}
  \/ pc[t] = "free" /\ op[t] \in {"erase", "clear"}

Counts ==
  /\ (\A t \in Threads : ~Uncounted(t)) => ncount = Cardinality(linked)
  /\ \A t \in Threads :
       Uncounted(t) => Counted(op[t], ncount) = Cardinality(linked)
  /\ \A t \in Threads : pc[t] = "store" => temp[t] = ncount

\* Only an eraser keeps a node to go on from.
Cursors == \A t \in Threads : cursor[t] # NULL =>
  /\ t \in Erasers
  /\ pc[t] = "idle" \/ op[t] \in {"insert", "search"} => cursor[t] \in linked

IInv ==
  /\ TypeOK /\ Exclusion /\ StepsOfOps /\ NodesAreKnown /\ KeyIsAbsent
  /\ KeysAreUnique /\ NodesAreOwned /\ Counts /\ Cursors

-----------------------------------------------------------------------------
\* A set of nodes that is not empty has a first one: keys are natural numbers.
LEMMA LeastIsFirst ==
  ASSUME NEW S \in SUBSET Nodes, TypeOK, S # {}
  PROVE  Least(S) \in S /\ \A m \in S : key[Least(S)] <= key[m]
<1> DEFINE T == {key[n] : n \in S}
<1>1. T \subseteq Nat /\ T # {}
  BY DEF TypeOK
<1>2. PICK k \in T : \A j \in T : ~(<<j, k>> \in OpToRel(<, Nat))
  BY Zenon, <1>1, WFMin, NatLessThanWellFounded
<1>3. \A j \in T : ~(j < k)
  BY <1>1, <1>2 DEF OpToRel
<1>4. PICK n \in S : key[n] = k
  OBVIOUS
<1>5. \A m \in S : key[m] \in T
  OBVIOUS
<1>6. \A m \in S : key[n] <= key[m]
  <2> TAKE m \in S
  <2>1. key[n] \in Nat /\ key[m] \in Nat
    BY <1>1, <1>5
  <2>2. ~(key[m] < k)
    BY <1>3, <1>5
  <2> QED
    BY <2>1, <2>2, <1>4
<1> QED
  BY <1>6 DEF Least

LEMMA LeastIsNode ==
  ASSUME NEW S \in SUBSET Nodes, TypeOK
  PROVE  Least(S) \in S \cup {NULL}
BY LeastIsFirst DEF Least

\* The successor of a node is another node of the tree.
LEMMA SuccessorIsLinked ==
  ASSUME TypeOK, NEW n \in Nodes
  PROVE  Successor(n) \in (linked \cup {NULL}) \ {n}
<1> DEFINE S == {m \in linked : key[m] > key[n]}
<1>1. Least(S) \in S \cup {NULL}
  BY LeastIsNode DEF TypeOK
<1>2. n \notin S /\ n # NULL
  BY ContainerAssumption DEF TypeOK
<1> QED
  BY <1>1, <1>2 DEF Successor

\* The descent finds a node with the key exactly if there is one.
LEMMA LookupFinds ==
  ASSUME TypeOK, NEW k \in Nat
  PROVE  /\ Lookup(k) \in linked \cup {NULL}
         /\ Lookup(k) = NULL => \A n \in linked : key[n] # k
<1> DEFINE S == {n \in linked : key[n] = k}
<1>1. Least(S) \in S \cup {NULL} /\ (S # {} => Least(S) \in S)
  BY LeastIsNode, LeastIsFirst DEF TypeOK
<1>2. NULL \notin linked
  BY ContainerAssumption DEF TypeOK
<1> QED
  BY <1>1, <1>2 DEF Lookup

LEMMA LinkedIsFinite ==
  ASSUME TypeOK
  PROVE  IsFiniteSet(linked) /\ Cardinality(linked) \in Nat
BY FS_Subset, FS_CardinalityType, ContainerAssumption DEF TypeOK

\* Initially the tree is empty and every thread is idle.
LEMMA InitIsInvariant == Init => IInv
BY FS_EmptySet, ContainerAssumption
DEF Init, IInv, TypeOK, Exclusion, Inside, StepsOfOps, NodesAreKnown, KeyIsAbsent,
    KeysAreUnique, NodesAreOwned, Doomed, Counts, Counted, Uncounted, Cursors, At

LEMMA CallPreserves ==
  ASSUME IInv, NEW t \in Threads, Call(t)
  PROVE  IInv'
<1> USE DEF Calls, CallWithKey, CallWithTree, CallWithNode, Call, At, GoTo, locals
<1>1. TypeOK'
  <2>1. CASE CallWithKey(t)
    BY <2>1, ContainerAssumption DEF IInv, TypeOK
  <2>2. CASE CallWithTree(t)
    BY <2>2 DEF IInv, TypeOK
  <2>3. CASE CallWithNode(t)
    <3>1. cursor[t] \in Nodes /\ key[cursor[t]] \in Nat \cup {NULL}
      BY <2>3 DEF IInv, TypeOK
    <3>2. arg' \in [Threads -> Nat \cup {NULL}]
      BY <2>3, <3>1 DEF IInv, TypeOK
    <3> QED
      BY <2>3, <3>1, <3>2 DEF IInv, TypeOK
  <2> QED
    BY <2>1, <2>2, <2>3
<1>2. Exclusion'
  BY DEF IInv, TypeOK, Exclusion, Inside
<1>3. StepsOfOps'
  BY DEF IInv, TypeOK, StepsOfOps
<1>4. NodesAreKnown'
  BY DEF IInv, TypeOK, NodesAreKnown, Cursors
<1>5. KeyIsAbsent'
  BY DEF IInv, TypeOK, KeyIsAbsent
<1>6. KeysAreUnique'
  BY DEF IInv, KeysAreUnique
<1>7. NodesAreOwned'
  BY SMTT(30) DEF IInv, TypeOK, NodesAreOwned, Doomed
<1>8. Counts'
  BY DEF IInv, TypeOK, Counts, Uncounted
<1>9. Cursors'
  BY DEF IInv, TypeOK, Cursors
<1> QED
  BY <1>1, <1>2, <1>3, <1>4, <1>5, <1>6, <1>7, <1>8, <1>9 DEF IInv

LEMMA LockPreserves ==
  ASSUME IInv, NEW t \in Threads, Lock(t)
  PROVE  IInv'
<1> USE DEF Lock, At, GoTo, locals
<1>1. TypeOK'
  BY DEF IInv, TypeOK
<1>2. Exclusion'
  BY DEF IInv, Exclusion, Inside
<1>3. StepsOfOps'
  BY DEF IInv, TypeOK, StepsOfOps
<1>4. NodesAreKnown'
  BY DEF IInv, TypeOK, NodesAreKnown, StepsOfOps
<1>5. KeyIsAbsent'
  BY DEF IInv, KeyIsAbsent
<1>6. KeysAreUnique'
  BY DEF IInv, KeysAreUnique
<1>7. NodesAreOwned'
  BY DEF IInv, NodesAreOwned, Doomed
<1>8. Counts'
  BY DEF IInv, Counts, Uncounted
<1>9. Cursors'
  BY DEF IInv, Cursors
<1> QED
  BY <1>1, <1>2, <1>3, <1>4, <1>5, <1>6, <1>7, <1>8, <1>9 DEF IInv

LEMMA UnlockPreserves ==
  ASSUME IInv, NEW t \in Threads, Unlock(t)
  PROVE  IInv'
<1> USE DEF Unlock, At, GoTo, locals
<1>1. TypeOK'
  BY DEF IInv, TypeOK
<1>2. Exclusion'
  BY DEF IInv, TypeOK, Exclusion, Inside
<1>3. StepsOfOps'
  BY DEF IInv, StepsOfOps
<1>4. NodesAreKnown'
  BY DEF IInv, NodesAreKnown
<1>5. KeyIsAbsent'
  BY DEF IInv, KeyIsAbsent
<1>6. KeysAreUnique'
  BY DEF IInv, KeysAreUnique
<1>7. NodesAreOwned'
  BY DEF IInv, NodesAreOwned, Doomed
<1>8. Counts'
  BY DEF IInv, Counts, Uncounted
<1>9. Cursors'
  BY DEF IInv, Cursors
<1> QED
  BY <1>1, <1>2, <1>3, <1>4, <1>5, <1>6, <1>7, <1>8, <1>9 DEF IInv

LEMMA FindPreserves ==
  ASSUME IInv, NEW t \in Threads, Find(t)
  PROVE  IInv'
<1> USE DEF Find, AfterFind, KeyOf, At, GoTo, locals
<1> DEFINE n == Lookup(arg[t])
<1>0. arg[t] \in Nat /\ n \in linked \cup {NULL} /\ (n = NULL => \A m \in linked : key[m] # arg[t])
  BY LookupFinds, ContainerAssumption DEF IInv, StepsOfOps
<1>1. TypeOK'
  <2>1. KeyOf(n) \in Nat \cup {NULL}
    BY <1>0 DEF IInv, TypeOK
  <2> HIDE DEF n
  <2>2. out' \in [Threads -> SUBSET (Nat \cup {NULL})]
    BY <2>1 DEF IInv, TypeOK, n
  <2> QED
    BY <1>0, <2>2 DEF IInv, TypeOK, n
<1>2. Exclusion'
  BY DEF IInv, Exclusion, Inside
<1>3. StepsOfOps'
  BY DEF IInv, StepsOfOps
<1>4. NodesAreKnown'
  BY <1>0 DEF IInv, TypeOK, NodesAreKnown, StepsOfOps
<1>5. KeyIsAbsent'
  BY <1>0 DEF IInv, TypeOK, KeyIsAbsent
<1>6. KeysAreUnique'
  BY DEF IInv, KeysAreUnique
<1>7. NodesAreOwned'
  BY DEF IInv, NodesAreOwned, Doomed, StepsOfOps
<1>8. Counts'
  BY DEF IInv, Counts, Uncounted
<1>9. Cursors'
  BY DEF IInv, Cursors
<1> QED
  BY <1>1, <1>2, <1>3, <1>4, <1>5, <1>6, <1>7, <1>8, <1>9 DEF IInv

LEMMA FirstPreserves ==
  ASSUME IInv, NEW t \in Threads, First(t)
  PROVE  IInv'
<1> USE DEF First, KeyOf, At, GoTo, locals
<1>1. TypeOK'
  BY LeastIsNode DEF IInv, TypeOK
<1>2. Exclusion'
  BY DEF IInv, Exclusion, Inside
<1>3. StepsOfOps'
  BY DEF IInv, StepsOfOps
<1>4. NodesAreKnown'
  BY LeastIsNode DEF IInv, TypeOK, NodesAreKnown, StepsOfOps
<1>5. KeyIsAbsent'
  BY DEF IInv, KeyIsAbsent
<1>6. KeysAreUnique'
  BY DEF IInv, KeysAreUnique
<1>7. NodesAreOwned'
  BY DEF IInv, NodesAreOwned, Doomed, StepsOfOps
<1>8. Counts'
  BY DEF IInv, Counts, Uncounted
<1>9. Cursors'
  BY DEF IInv, Cursors
<1> QED
  BY <1>1, <1>2, <1>3, <1>4, <1>5, <1>6, <1>7, <1>8, <1>9 DEF IInv

LEMMA SuccPreserves ==
  ASSUME IInv, NEW t \in Threads, Succ(t)
  PROVE  IInv'
<1> USE DEF Succ, KeyOf, At, GoTo, locals
<1>1. TypeOK'
  <2>1. node[t] \in Nodes
    BY DEF IInv, TypeOK, NodesAreKnown
  <2>2. next'[t] \in Nodes \cup {NULL}
    BY <2>1, SuccessorIsLinked DEF IInv, TypeOK
  <2>3. out' \in [Threads -> SUBSET (Nat \cup {NULL})]
    BY <2>2 DEF IInv, TypeOK
  <2> QED
    BY <2>2, <2>3 DEF IInv, TypeOK
<1>2. Exclusion'
  BY DEF IInv, Exclusion, Inside
<1>3. StepsOfOps'
  BY DEF IInv, StepsOfOps
<1>4. NodesAreKnown'
  BY SuccessorIsLinked DEF IInv, TypeOK, NodesAreKnown
<1>5. KeyIsAbsent'
  BY DEF IInv, KeyIsAbsent
<1>6. KeysAreUnique'
  BY DEF IInv, KeysAreUnique
<1>7. NodesAreOwned'
  BY DEF IInv, NodesAreOwned, Doomed
<1>8. Counts'
  BY DEF IInv, Counts, Uncounted
<1>9. Cursors'
  BY DEF IInv, Cursors
<1> QED
  BY <1>1, <1>2, <1>3, <1>4, <1>5, <1>6, <1>7, <1>8, <1>9 DEF IInv

LEMMA LinkPreserves ==
  ASSUME IInv, NEW t \in Threads, Link(t)
  PROVE  IInv'
<1> USE DEF Link, At, GoTo, locals
<1>0. arg[t] \in Nat
  BY ContainerAssumption DEF IInv, StepsOfOps
<1>1. TypeOK'
  BY <1>0 DEF IInv, TypeOK
<1>2. Exclusion'
  BY DEF IInv, Exclusion, Inside
<1>3. StepsOfOps'
  BY DEF IInv, StepsOfOps
<1>4. NodesAreKnown'
  BY DEF IInv, NodesAreKnown, StepsOfOps
<1>5. KeyIsAbsent'
  BY DEF IInv, TypeOK, KeyIsAbsent, Exclusion, Inside
<1>6. KeysAreUnique'
  BY DEF IInv, TypeOK, KeysAreUnique, KeyIsAbsent
<1>7. NodesAreOwned'
  BY DEF IInv, NodesAreOwned, Doomed, StepsOfOps
<1>8. Counts'
  <2>1. ncount = Cardinality(linked)
    <3>1. \A s \in Threads : ~Uncounted(s)
      BY DEF IInv, Exclusion, Inside, Uncounted
    <3> QED
      BY <3>1 DEF IInv, Counts
  <2>2. PICK n \in Nodes \ live : linked' = linked \cup {n}
    OBVIOUS
  <2>3. n \notin linked
    BY DEF IInv, NodesAreOwned
  <2>4. Cardinality(linked') = ncount + 1
    BY <2>1, <2>2, <2>3, LinkedIsFinite, FS_AddElement DEF IInv
  <2>5. \A s \in Threads \ {t} : ~Uncounted(s)' /\ pc'[s] # "store"
    BY DEF IInv, Exclusion, Inside, Uncounted
  <2>6. Uncounted(t)' /\ pc'[t] # "store" /\ Counted(op'[t], ncount') = ncount + 1
    BY DEF IInv, TypeOK, StepsOfOps, Uncounted, Counted
  <2> QED
    BY <2>4, <2>5, <2>6 DEF Counts
<1>9. Cursors'
  BY DEF IInv, Cursors
<1> QED
  BY <1>1, <1>2, <1>3, <1>4, <1>5, <1>6, <1>7, <1>8, <1>9 DEF IInv

LEMMA UnlinkPreserves ==
  ASSUME IInv, NEW t \in Threads, Unlink(t)
  PROVE  IInv'
<1> USE DEF Unlink, KeyOf, At, GoTo, locals
<1>1. TypeOK'
  <2>1. arg[t] \in Nat \cup {NULL} /\ KeyOf(next[t]) \in Nat \cup {NULL}
    BY DEF IInv, TypeOK
  <2>2. out' \in [Threads -> SUBSET (Nat \cup {NULL})]
    BY <2>1 DEF IInv, TypeOK
  <2> QED
    BY <2>2 DEF IInv, TypeOK
<1>2. Exclusion'
  BY DEF IInv, Exclusion, Inside
<1>3. StepsOfOps'
  BY DEF IInv, StepsOfOps
<1>4. NodesAreKnown'
  BY ContainerAssumption DEF IInv, TypeOK, NodesAreKnown, StepsOfOps
<1>5. KeyIsAbsent'
  BY DEF IInv, KeyIsAbsent
<1>6. KeysAreUnique'
  BY DEF IInv, KeysAreUnique
<1>7. NodesAreOwned'
  BY DEF IInv, TypeOK, NodesAreOwned, Doomed, StepsOfOps, NodesAreKnown
<1>8. Counts'
  <2>1. ncount = Cardinality(linked) /\ node[t] \in linked
    <3>1. \A s \in Threads : ~Uncounted(s)
      BY DEF IInv, Exclusion, Inside, Uncounted
    <3> QED
      BY <3>1 DEF IInv, Counts, NodesAreKnown
  <2>2. Cardinality(linked') = ncount - 1
    BY <2>1, LinkedIsFinite, FS_RemoveElement DEF IInv
  <2>3. \A s \in Threads \ {t} : ~Uncounted(s)' /\ pc'[s] # "store"
    BY DEF IInv, Exclusion, Inside, Uncounted
  <2>4. Uncounted(t)' /\ pc'[t] # "store" /\ Counted(op'[t], ncount') = ncount - 1
    BY DEF IInv, TypeOK, StepsOfOps, Uncounted, Counted
  <2> QED
    BY <2>2, <2>3, <2>4 DEF Counts
<1>9. Cursors'
  BY ContainerAssumption DEF IInv, Cursors, StepsOfOps
<1> QED
  BY <1>1, <1>2, <1>3, <1>4, <1>5, <1>6, <1>7, <1>8, <1>9 DEF IInv

LEMMA FreePreserves ==
  ASSUME IInv, NEW t \in Threads, Free(t)
  PROVE  IInv'
<1> USE DEF Free, At, GoTo, locals
<1>1. TypeOK'
  BY DEF IInv, TypeOK
<1>2. Exclusion'
  BY DEF IInv, Exclusion, Inside
<1>3. StepsOfOps'
  BY DEF IInv, StepsOfOps
<1>4. NodesAreKnown'
  BY DEF IInv, NodesAreKnown, StepsOfOps
<1>5. KeyIsAbsent'
  BY DEF IInv, KeyIsAbsent, Doomed, NodesAreOwned
<1>6. KeysAreUnique'
  BY DEF IInv, KeysAreUnique, NodesAreOwned, Doomed
<1>7. NodesAreOwned'
  BY DEF IInv, TypeOK, NodesAreOwned, Doomed
<1>8. Counts'
  BY DEF IInv, Counts, Uncounted
<1>9. Cursors'
  BY DEF IInv, Cursors
<1> QED
  BY <1>1, <1>2, <1>3, <1>4, <1>5, <1>6, <1>7, <1>8, <1>9 DEF IInv

LEMMA LoadPreserves ==
  ASSUME IInv, NEW t \in Threads, Load(t)
  PROVE  IInv'
<1> USE DEF Load, At, GoTo, locals
<1>1. TypeOK'
  BY DEF IInv, TypeOK
<1>2. Exclusion'
  BY DEF IInv, Exclusion, Inside
<1>3. StepsOfOps'
  BY DEF IInv, StepsOfOps
<1>4. NodesAreKnown'
  BY DEF IInv, NodesAreKnown
<1>5. KeyIsAbsent'
  BY DEF IInv, KeyIsAbsent
<1>6. KeysAreUnique'
  BY DEF IInv, KeysAreUnique
<1>7. NodesAreOwned'
  BY DEF IInv, NodesAreOwned, Doomed
<1>8. Counts'
  BY DEF IInv, TypeOK, Counts, Uncounted
<1>9. Cursors'
  BY DEF IInv, Cursors
<1> QED
  BY <1>1, <1>2, <1>3, <1>4, <1>5, <1>6, <1>7, <1>8, <1>9 DEF IInv

LEMMA StorePreserves ==
  ASSUME IInv, NEW t \in Threads, Store(t)
  PROVE  IInv'
<1> USE DEF Store, AfterStore, Counted, At, GoTo, locals
<1>1. TypeOK'
  <2>1. Counted(op[t], temp[t]) = Cardinality(linked)
    BY DEF IInv, Counts, Uncounted
  <2> QED
    BY <2>1, LinkedIsFinite DEF IInv, TypeOK
<1>2. Exclusion'
  BY DEF IInv, Exclusion, Inside
<1>3. StepsOfOps'
  BY DEF IInv, StepsOfOps
<1>4. NodesAreKnown'
  BY DEF IInv, TypeOK, NodesAreKnown, StepsOfOps
<1>5. KeyIsAbsent'
  BY DEF IInv, KeyIsAbsent
<1>6. KeysAreUnique'
  BY DEF IInv, KeysAreUnique
<1>7. NodesAreOwned'
  BY DEF IInv, NodesAreOwned, Doomed
<1>8. Counts'
  BY DEF IInv, TypeOK, Counts, Uncounted, Exclusion, Inside
<1>9. Cursors'
  BY DEF IInv, Cursors
<1> QED
  BY <1>1, <1>2, <1>3, <1>4, <1>5, <1>6, <1>7, <1>8, <1>9 DEF IInv

LEMMA ReturnPreserves ==
  ASSUME IInv, NEW t \in Threads, Return(t)
  PROVE  IInv'
<1> USE DEF Return, Kept, At, GoTo, locals
<1>1. TypeOK'
  BY DEF IInv, TypeOK
<1>2. Exclusion'
  BY DEF IInv, Exclusion, Inside
<1>3. StepsOfOps'
  BY DEF IInv, TypeOK, StepsOfOps
<1>4. NodesAreKnown'
  BY DEF IInv, NodesAreKnown
<1>5. KeyIsAbsent'
  BY DEF IInv, KeyIsAbsent
<1>6. KeysAreUnique'
  BY DEF IInv, KeysAreUnique
<1>7. NodesAreOwned'
  BY DEF IInv, NodesAreOwned, Doomed
<1>8. Counts'
  BY DEF IInv, Counts, Uncounted
<1>9. Cursors'
  BY DEF IInv, TypeOK, Cursors, StepsOfOps, NodesAreKnown
<1> QED
  BY <1>1, <1>2, <1>3, <1>4, <1>5, <1>6, <1>7, <1>8, <1>9 DEF IInv

LEMMA StepPreserves == IInv /\ [Next]_vars => IInv'
<1> SUFFICES ASSUME IInv, [Next]_vars PROVE IInv'
  OBVIOUS
<1>1. CASE UNCHANGED vars
  BY <1>1
  DEF IInv, TypeOK, Exclusion, Inside, StepsOfOps, NodesAreKnown, KeyIsAbsent,
      KeysAreUnique, NodesAreOwned, Doomed, Counts, Uncounted, Cursors, At, vars, locals
<1>2. ASSUME NEW t \in Threads, Call(t) PROVE IInv'
  BY <1>2, CallPreserves
<1>3. ASSUME NEW t \in Threads, Step(t) PROVE IInv'
  BY <1>3, LockPreserves, UnlockPreserves, FindPreserves, FirstPreserves, SuccPreserves,
     LinkPreserves, UnlinkPreserves, FreePreserves, LoadPreserves, StorePreserves,
     ReturnPreserves DEF Step
<1> QED
  BY <1>1, <1>2, <1>3 DEF Next

\* IInv is an invariant: the lock keeps every operation from the others.
THEOREM Invariance == Spec => []IInv
BY InitIsInvariant, StepPreserves, PTL DEF Spec

\* The variables have their types for any number of threads, nodes and keys; ncount
\* is never lowered below zero.
THEOREM TypeCorrect == Spec => []TypeOK
BY Invariance, PTL DEF IInv

\* ncount is the number of nodes in the tree whenever the lock is free.
THEOREM CountIsKept == Spec => []CountIsSize
<1>1. IInv => CountIsSize
  BY DEF IInv, Exclusion, Inside, Counts, Uncounted, CountIsSize
<1> QED
  BY <1>1, Invariance, PTL

\* No two nodes of the tree have the same key, however many threads insert it.
THEOREM KeysStayUnique == Spec => []KeysAreUnique
BY Invariance, PTL DEF IInv

\* No node is leaked, freed twice or freed while it is in the tree.
THEOREM NodesStayOwned == Spec => []NodesAreOwned
BY Invariance, PTL DEF IInv

\* The node an erase hands back to the only thread that erases is in the tree.
THEOREM CursorStaysLinked == Spec => []CursorIsLinked
<1>1. IInv => CursorIsLinked
  BY DEF IInv, Cursors, CursorIsLinked, At
<1> QED
  BY <1>1, Invariance, PTL

-----------------------------------------------------------------------------
(***************************************************************************)
(* The container is an ordered set.                                        *)
(***************************************************************************)
\* x is what follows n in the tree, or NULL.
IsSuccessor(x, n) ==
  IF x = NULL THEN \A m \in linked : key[m] <= key[n]
  ELSE /\ x \in linked /\ key[x] > key[n]
       /\ \A m \in linked : key[m] > key[n] => key[x] <= key[m]

\* No key in the tree is smaller than that of n; without n there is none at all.
IsLowest(n) ==
  IF n = NULL THEN linked = {} ELSE n \in linked /\ \A m \in linked : key[n] <= key[m]

\* An operation has its key, no result before its effect and one from then on.
Requested ==
  /\ \A n \in linked : key[n] \in Keys
  /\ \A t \in Threads :
       /\ pc[t] = "idle" => op[t] = "none" /\ arg[t] = NULL
       /\ op[t] \in {"first", "clear"} => arg[t] = NULL
       /\ op[t] \in {"next", "erase", "erase_mc"} => arg[t] \in Keys
       /\ pc[t] \in {"idle", "lock", "find", "first", "link"} => out[t] = {}
       /\ pc[t] \in {"succ", "unlink"} /\ op[t] # "clear" => out[t] = {}
       /\ pc[t] \in {"free", "count", "store", "unlock", "return"} => out[t] # {}
       /\ Clearing(t) => out[t] # {}

\* What an operation is about to do is what the set does.
Effects == \A t \in Threads :
  /\ pc[t] \in {"lock", "succ", "unlink"} /\ op[t] \in {"next", "erase", "erase_mc"}
       => key[node[t]] = arg[t]
  /\ pc[t] = "unlink" => IF op[t] = "remove" THEN key[node[t]] = arg[t]
                        ELSE IsSuccessor(next[t], node[t])
  /\ op[t] = "clear" /\ pc[t] \in {"succ", "unlink"} => IsLowest(node[t])
  /\ op[t] = "clear" /\ pc[t] \in {"free", "count", "store"} => IsLowest(next[t])

RInv == IInv /\ Requested /\ Effects

LEMMA SuccessorIsNext ==
  ASSUME TypeOK, NEW n \in Nodes
  PROVE  IsSuccessor(Successor(n), n)
<1> DEFINE S == {m \in linked : key[m] > key[n]}
<1>1. CASE S = {}
  <2>1. Successor(n) = NULL
    BY <1>1 DEF Successor, Least
  <2>2. \A m \in linked : ~(key[m] > key[n])
    BY <1>1
  <2> QED
    BY <2>1, <2>2 DEF TypeOK, IsSuccessor
<1>2. CASE S # {}
  <2>1. Least(S) \in S /\ \A m \in S : key[Least(S)] <= key[m]
    BY <1>2, LeastIsFirst DEF TypeOK
  <2>2. Least(S) # NULL
    BY <2>1, ContainerAssumption DEF TypeOK
  <2> QED
    BY <2>1, <2>2 DEF Successor, IsSuccessor
<1> QED
  BY <1>1, <1>2

LEMMA LookupIsExact ==
  ASSUME TypeOK, NEW k \in Nat
  PROVE  Lookup(k) # NULL => Lookup(k) \in linked /\ key[Lookup(k)] = k
<1> DEFINE S == {n \in linked : key[n] = k}
<1>1. Least(S) \in S \cup {NULL}
  BY LeastIsNode DEF TypeOK
<1> QED
  BY <1>1 DEF Lookup

\* A clear starts at the first node.
LEMMA FirstIsLowest ==
  ASSUME TypeOK
  PROVE  IsLowest(Least(linked))
<1>1. CASE linked = {}
  BY <1>1 DEF Least, IsLowest
<1>2. CASE linked # {}
  <2>1. Least(linked) \in linked /\ \A m \in linked : key[Least(linked)] <= key[m]
    BY <1>2, LeastIsFirst DEF TypeOK
  <2>2. Least(linked) # NULL
    BY <2>1, ContainerAssumption DEF TypeOK
  <2> QED
    BY <2>1, <2>2 DEF IsLowest
<1> QED
  BY <1>1, <1>2

\* When the first node goes, its successor is the first.
LEMMA NextIsLowest ==
  ASSUME TypeOK, KeysAreUnique, NEW n \in linked, IsLowest(n), NEW x, IsSuccessor(x, n),
         linked' = linked \ {n}, key' = key
  PROVE  IsLowest(x)'
<1>1. n # NULL /\ n \in Nodes /\ \A m \in linked : key[m] \in Nat /\ key[n] <= key[m]
  BY ContainerAssumption DEF TypeOK, IsLowest
<1>2. \A m \in linked' : key[m] > key[n]
  BY <1>1 DEF KeysAreUnique
<1>3. CASE x = NULL
  <2>1. linked' = {}
    BY <1>1, <1>2, <1>3 DEF IsSuccessor
  <2> QED
    BY <1>3, <2>1 DEF IsLowest
<1>4. CASE x # NULL
  <2>1. x \in linked' /\ \A m \in linked' : key[x] <= key[m]
    BY <1>1, <1>2, <1>4 DEF IsSuccessor
  <2> QED
    BY <1>4, <2>1 DEF IsLowest
<1> QED
  BY <1>3, <1>4

LEMMA InitIsRequested == Init => Requested /\ Effects
BY DEF Init, Requested, Effects, Clearing

LEMMA RequestedPreserved ==
  ASSUME RInv, NEW t \in Threads, Call(t) \/ Step(t)
  PROVE  Requested'
<1> USE DEF GoTo, At, RInv, IInv, TypeOK, Requested, Clearing
<1>1. CASE CallWithKey(t)
  BY <1>1, ContainerAssumption DEF CallWithKey, Calls
<1>2. CASE CallWithTree(t)
  BY <1>2 DEF CallWithTree, Calls
<1>3. CASE CallWithNode(t)
  BY <1>3 DEF CallWithNode, Calls, Cursors
<1>4. CASE Lock(t) \/ Unlock(t) \/ Load(t) \/ Store(t)
  BY <1>4 DEF Lock, Unlock, Load, Store, AfterStore, StepsOfOps, locals
<1>5. CASE Find(t)
  BY SMTT(30), <1>5 DEF Find, AfterFind, StepsOfOps
<1>6. CASE First(t)
  BY ZenonT(40), <1>6 DEF First, StepsOfOps
<1>7. CASE Succ(t)
  BY SMTT(30), <1>7 DEF Succ, StepsOfOps
<1>8. CASE Link(t)
  BY <1>8 DEF Link, StepsOfOps, NodesAreOwned, locals
<1>9. CASE Unlink(t)
  BY SMTT(30), <1>9 DEF Unlink, StepsOfOps, locals
<1>10. CASE Free(t)
  BY <1>10 DEF Free, StepsOfOps, NodesAreOwned, Doomed, locals
<1>11. CASE Return(t)
  BY <1>11 DEF Return
<1> QED
  BY <1>1, <1>2, <1>3, <1>4, <1>5, <1>6, <1>7, <1>8, <1>9, <1>10, <1>11 DEF Call, Step

LEMMA EffectsPreserved ==
  ASSUME RInv, NEW t \in Threads, Call(t) \/ Step(t)
  PROVE  Effects'
<1> USE DEF GoTo, At, RInv, IInv, TypeOK, Effects
<1>1. CASE Call(t)
  BY <1>1 DEF Call, CallWithKey, CallWithTree, CallWithNode, Calls, IsSuccessor, IsLowest
<1>2. CASE Lock(t) \/ Unlock(t) \/ Load(t)
  BY <1>2 DEF Lock, Unlock, Load, StepsOfOps, IsSuccessor, IsLowest, locals
<1>3. CASE Find(t)
  <2>1. arg[t] \in Nat
    BY <1>3, ContainerAssumption DEF Find, StepsOfOps
  <2> QED
    BY <1>3, <2>1, LookupIsExact DEF Find, AfterFind, IsSuccessor, IsLowest, StepsOfOps
<1>4. CASE First(t)
  BY <1>4, FirstIsLowest DEF First, IsSuccessor, IsLowest, StepsOfOps
<1>5. CASE Succ(t)
  BY <1>5, SuccessorIsNext DEF Succ, IsSuccessor, IsLowest, StepsOfOps, NodesAreKnown
<1>6. CASE Link(t)
  BY <1>6 DEF Link, IsSuccessor, IsLowest, StepsOfOps, Exclusion, Inside, NodesAreKnown,
              NodesAreOwned, locals
<1>7. CASE Unlink(t)
  BY <1>7, NextIsLowest DEF Unlink, StepsOfOps, Exclusion, Inside, NodesAreKnown, locals
<1>8. CASE Free(t)
  BY <1>8 DEF Free, IsSuccessor, IsLowest, StepsOfOps, NodesAreKnown, NodesAreOwned, Doomed,
              locals
<1>9. CASE Store(t)
  BY <1>9 DEF Store, AfterStore, Exclusion, Inside, StepsOfOps, IsLowest, IsSuccessor
<1>10. CASE Return(t)
  BY <1>10 DEF Return, IsSuccessor, IsLowest
<1> QED
  BY <1>1, <1>2, <1>3, <1>4, <1>5, <1>6, <1>7, <1>8, <1>9, <1>10 DEF Step

\* The keys of the tree.
Contained == {key[n] : n \in linked}

\* Where a clear is under way the set is empty already.
LEMMA MembersAre ==
  /\ (\E t \in Threads : Clearing(t)) => Members = {}
  /\ (\A t \in Threads : ~Clearing(t)) => Members = Contained
BY DEF Members, Contained

\* A thread inside the lock that does not clear sees the set as it is.
LEMMA InsideSeesMembers ==
  ASSUME RInv, NEW t \in Threads, Inside(t), ~Clearing(t)
  PROVE  Members = Contained
<1>1. \A s \in Threads : Clearing(s) => Inside(s)
  BY DEF Clearing, Inside
<1>2. \A s \in Threads : ~Clearing(s)
  BY <1>1 DEF RInv, IInv, Exclusion
<1> QED
  BY <1>2, MembersAre

\* Nothing changed that the set could tell.
Same(t) ==
  /\ Members' = Members /\ out' = out
  /\ \A s \in Threads : Pending(s)' = Pending(s)

LEMMA SameIsStutter ==
  ASSUME NEW t \in Threads, Same(t)
  PROVE  UNCHANGED Contents!vars
<1>1. [s \in Threads |-> Pending(s)'] = [s \in Threads |-> Pending(s)]
  BY DEF Same
<1> QED
  BY <1>1 DEF Same, Contents!vars

\* The operation of t, which asked for q, takes effect.
Done(t, q) ==
  /\ Pending(t) = q /\ q # Contents!Idle
  /\ Pending(t)' = Contents!Idle /\ \A s \in Threads \ {t} : Pending(s)' = Pending(s)
  /\ q.op \in {"next", "erase"} => q.x \in Members
  /\ out' = [out EXCEPT ![t] = Contents!Answer(q, Members)]
  /\ Members' = Contents!Rest(q, Members)

LEMMA DoneIsPerform ==
  ASSUME NEW t \in Threads, NEW q, Done(t, q)
  PROVE  Contents!Next
<1> DEFINE P == [s \in Threads |-> Pending(s)]
           R == [s \in Threads |-> Pending(s)']
<1>1. P[t] = q /\ q # Contents!Idle
  BY DEF Done
<1>2. R = [P EXCEPT ![t] = Contents!Idle]
  <2>1. \A s \in Threads : Pending(s)' = IF s = t THEN Contents!Idle ELSE Pending(s)
    BY DEF Done
  <2> QED
    BY <2>1
<1>3. Contents!Serve(t, P[t])
  BY <1>1 DEF Done, Contents!Serve
<1>4. Contents!Perform(t)
  BY <1>1, <1>2, <1>3 DEF Contents!Perform
<1> QED
  BY <1>4 DEF Contents!Next

\* The steps of t leave the requests of the others alone.
LEMMA OthersKeepAsking ==
  ASSUME RInv, NEW t \in Threads, Call(t) \/ Step(t)
  PROVE  \A s \in Threads \ {t} : Pending(s)' = Pending(s) /\ Clearing(s)' = Clearing(s)
BY DEF RInv, IInv, TypeOK, Call, CallWithKey, CallWithTree, CallWithNode, Calls, Step, Lock, Unlock,
       Find, First, Succ, Link, Unlink, Free, Load, Store, Return, Pending, Clearing, GoTo, locals

LEMMA CallRefines ==
  ASSUME RInv, NEW t \in Threads, Call(t)
  PROVE  Contents!Next
<1> DEFINE P == [s \in Threads |-> Pending(s)]
           R == [s \in Threads |-> Pending(s)']
           q == Pending(t)'
<1>1. P[t] = Contents!Idle /\ out[t] = {}
  BY DEF Call, CallWithKey, CallWithTree, CallWithNode, Calls, At, RInv, Requested, Pending,
         Contents!Idle
<1>2. R = [P EXCEPT ![t] = q]
  <2>1. \A s \in Threads : Pending(s)' = IF s = t THEN q ELSE Pending(s)
    BY OthersKeepAsking
  <2> HIDE DEF q
  <2> QED
    BY <2>1
<1>3. q \in Contents!Requests
  <2>1. op' = [op EXCEPT ![t] = op'[t]] /\ op'[t] # "none" /\ out'[t] = {}
    BY <1>1 DEF Call, CallWithKey, CallWithTree, CallWithNode, Calls, RInv, IInv, TypeOK
  <2>2. q = [op |-> IF op'[t] = "erase_mc" THEN "erase" ELSE op'[t], x |-> arg'[t]]
    BY <2>1 DEF Pending
  <2>3. CASE CallWithKey(t)
    <3>1. op'[t] \in {"insert", "search", "remove"} /\ arg'[t] \in Keys
      BY <2>3 DEF CallWithKey, Calls, RInv, IInv, TypeOK
    <3> QED
      BY <2>2, <3>1 DEF Contents!Requests
  <2>4. CASE CallWithTree(t)
    <3>1. op'[t] \in {"first", "clear"} /\ arg'[t] = NULL
      BY <2>4 DEF CallWithTree, Calls, At, RInv, IInv, TypeOK, Requested
    <3> QED
      BY <2>2, <3>1 DEF Contents!Requests
  <2>5. CASE CallWithNode(t)
    <3>1. op'[t] \in {"next", "erase", "erase_mc"} /\ arg'[t] \in Keys
      BY <2>5 DEF CallWithNode, Calls, At, RInv, IInv, TypeOK, Cursors, Requested
    <3> QED
      BY <2>2, <3>1 DEF Contents!Requests
  <2> QED
    BY <2>3, <2>4, <2>5 DEF Call
<1>4. Members' = Members /\ out' = out
  <2>1. linked' = linked /\ key' = key /\ out' = out
    BY DEF Call, CallWithKey, CallWithTree, CallWithNode, Calls
  <2>2. ~Clearing(t) /\ ~Clearing(t)'
    BY DEF Call, CallWithKey, CallWithTree, CallWithNode, Calls, At, GoTo, Clearing, RInv, IInv,
           TypeOK
  <2> QED
    BY <2>1, <2>2, OthersKeepAsking DEF Members
<1>5. Contents!Invoke(t, q)
  BY <1>1, <1>2, <1>4 DEF Contents!Invoke, Contents!Ready
<1> QED
  BY <1>3, <1>5 DEF Contents!Next

\* A step after which the tree has the same keys and the same threads clear is one
\* after which the set has the same members.
LEMMA MembersStay ==
  ASSUME RInv, NEW t \in Threads, Call(t) \/ Step(t), Clearing(t)' = Clearing(t),
         Clearing(t) \/ Contained' = Contained
  PROVE  Members' = Members
BY OthersKeepAsking DEF Members, Contained

\* The steps that neither begin an operation, nor give it its effect, nor end it.
LEMMA OthersStutter ==
  ASSUME RInv, NEW t \in Threads,
         Lock(t) \/ Unlock(t) \/ Load(t) \/ Store(t) \/ Free(t)
  PROVE  UNCHANGED Contents!vars
<1>1. Pending(t)' = Pending(t) /\ out' = out
  BY DEF Lock, Unlock, Load, Store, Free, Pending, locals
<1>2. Step(t)
  BY DEF Step
<1>3. linked' = linked
  BY DEF Lock, Unlock, Load, Store, Free
<1>4. Contained' = Contained
  <2>1. CASE Free(t)
    BY <1>3, <2>1 DEF Free, At, RInv, IInv, TypeOK, NodesAreOwned, Doomed, Contained
  <2>2. CASE ~Free(t)
    BY <2>2 DEF Lock, Unlock, Load, Store, Contained
  <2> QED
    BY <2>1, <2>2
<1>5. Members' = Members
  <2>1. CASE Clearing(t)' = Clearing(t)
    BY <1>2, <1>4, <2>1, MembersStay
  <2>2. CASE Clearing(t)' # Clearing(t)
    <3>1. Store(t) /\ Clearing(t) /\ next[t] = NULL
      BY <2>2 DEF Lock, Unlock, Load, Store, Free, AfterStore, Clearing, At, GoTo, RInv, IInv,
                  TypeOK, StepsOfOps, locals
    <3>2. linked = {} /\ Contained' = {}
      BY <1>3, <3>1 DEF Store, At, Clearing, RInv, Effects, IsLowest, Contained
    <3>3. Members = {} /\ Members' = {}
      BY <1>3, <3>1, <3>2 DEF Members
    <3> QED
      BY <3>3
  <2> QED
    BY <2>1, <2>2
<1> QED
  BY <1>1, <1>2, <1>5, OthersKeepAsking, SameIsStutter DEF Same

LEMMA ReturnRefines ==
  ASSUME RInv, NEW t \in Threads, Return(t)
  PROVE  Contents!Next
<1>1. Step(t)
  BY DEF Step
<1>2. out[t] # {} /\ out' = [out EXCEPT ![t] = {}]
  BY DEF Return, At, RInv, Requested
<1>3. Pending(t)' = Pending(t)
  BY <1>2 DEF Return, Pending, RInv, IInv, TypeOK
<1>4. [s \in Threads |-> Pending(s)'] = [s \in Threads |-> Pending(s)]
  BY <1>1, <1>3, OthersKeepAsking
<1>5. Clearing(t)' = Clearing(t) /\ Contained' = Contained
  BY DEF Return, At, GoTo, Clearing, Contained, RInv, IInv, TypeOK
<1>6. Contents!Respond(t)
  BY <1>1, <1>2, <1>4, <1>5, MembersStay DEF Contents!Respond
<1> QED
  BY <1>6 DEF Contents!Next

LEMMA FirstIs ==
  ASSUME NEW S \in SUBSET Nat, NEW k \in S, \A j \in S : k <= j
  PROVE  {k} = Contents!First(S)
<1>1. \A i \in S : i # k => ~(i <= k)
  OBVIOUS
<1>2. \A i \in S : (\A j \in S : i <= j) <=> i = k
  BY <1>1
<1>3. {i \in S : \A j \in S : i <= j} = {k}
  BY <1>2
<1> QED
  BY <1>3 DEF Contents!First

\* The key of the successor is the first of the keys after that of the node.
LEMMA SuccessorKey ==
  ASSUME TypeOK, NEW n \in linked, NEW x, IsSuccessor(x, n)
  PROVE  {KeyOf(x)} = Contents!First(Contents!After(Contained, key[n]))
<1> DEFINE S == Contents!After(Contained, key[n])
<1>1. CASE x = NULL
  <2>1. S = {}
    BY <1>1 DEF TypeOK, IsSuccessor, Contained, Contents!After
  <2> QED
    BY <1>1, <2>1 DEF KeyOf, Contents!First
<1>2. CASE x # NULL
  <2>1. key[x] \in S /\ S \subseteq Nat
    BY <1>2 DEF TypeOK, IsSuccessor, Contained, Contents!After
  <2>2. \A k \in S : key[x] <= k
    BY <1>2 DEF TypeOK, IsSuccessor, Contained, Contents!After
  <2> HIDE DEF S
  <2>3. {key[x]} = Contents!First(S)
    BY <2>1, <2>2, FirstIs
  <2> QED
    BY <1>2, <2>3 DEF KeyOf, S
<1> QED
  BY <1>1, <1>2

LEMMA FirstKey ==
  ASSUME TypeOK
  PROVE  {KeyOf(Least(linked))} = Contents!First(Contained)
<1> DEFINE x == Least(linked)
<1>1. CASE linked = {}
  BY <1>1 DEF Least, KeyOf, Contained, Contents!First
<1>2. CASE linked # {}
  <2>1. x \in linked /\ \A m \in linked : key[x] <= key[m]
    BY <1>2, LeastIsFirst DEF TypeOK
  <2>2. x # NULL
    BY <2>1, ContainerAssumption DEF TypeOK
  <2> HIDE DEF x
  <2>3. key[x] \in Contained /\ Contained \subseteq Nat /\ \A k \in Contained : key[x] <= k
    BY <2>1 DEF TypeOK, Contained
  <2>4. {key[x]} = Contents!First(Contained)
    BY <2>3, FirstIs
  <2> QED
    BY <2>2, <2>4 DEF x, KeyOf
<1> QED
  BY <1>1, <1>2

\* A search, an insert of a key that is there and a remove of one that is not are done
\* when the descent ends.
LEMMA FindRefines ==
  ASSUME RInv, NEW t \in Threads, Find(t)
  PROVE  Contents!Next \/ UNCHANGED Contents!vars
<1> DEFINE n == Lookup(arg[t])
           q == [op |-> op[t], x |-> arg[t]]
<1>1. /\ arg[t] \in Keys /\ arg[t] \in Nat /\ out[t] = {} /\ op[t] \in {"insert", "search", "remove"}
      /\ pc[t] = "find"
  BY ContainerAssumption DEF Find, At, RInv, IInv, StepsOfOps, Requested
<1>2. /\ n = NULL => arg[t] \notin Contained
      /\ n # NULL => arg[t] \in Contained /\ key[n] = arg[t]
  BY <1>1, LookupFinds, LookupIsExact DEF RInv, IInv, Contained
<1>3. Step(t) /\ ~Clearing(t) /\ ~Clearing(t)' /\ Contained' = Contained
  BY <1>1 DEF Step, Find, Clearing, Contained
<1>4. Members = Contained /\ Members' = Members
  <2>1. Inside(t) /\ Clearing(t)' = Clearing(t)
    BY <1>1 DEF Inside, Find, Clearing
  <2> QED
    BY <1>3, <2>1, InsideSeesMembers, MembersStay
<1>5. Pending(t) = q /\ q.op = op[t] /\ q.x = arg[t]
  BY <1>1 DEF Pending
<1>6. pc'[t] = AfterFind(op[t], n)
  BY DEF Find, GoTo, RInv, IInv, TypeOK
<1> HIDE DEF n, q
<1>7. CASE pc'[t] = "unlock"
  <2>1. out' = [out EXCEPT ![t] = {KeyOf(n)}]
    BY <1>7 DEF Find, n
  <2>2. {KeyOf(n)} = Contents!Found(Contained, arg[t])
    BY <1>2 DEF KeyOf, Contents!Found
  <2>3. {KeyOf(n)} = Contents!Answer(q, Members)
    BY <1>1, <1>4, <1>5, <2>2 DEF Contents!Answer
  <2>4. op[t] = "insert" => n # NULL
    BY <1>6, <1>7 DEF AfterFind
  <2>5. op[t] = "remove" => n = NULL
    BY <1>6, <1>7 DEF AfterFind
  <2>6. Contents!Rest(q, Members) = Members
    BY <1>1, <1>2, <1>4, <1>5, <2>4, <2>5 DEF Contents!Rest
  <2>7. out'[t] # {}
    BY <2>1 DEF RInv, IInv, TypeOK
  <2>8. Pending(t)' = Contents!Idle /\ q # Contents!Idle
    BY <1>1, <1>5, <2>7 DEF Pending, Contents!Idle
  <2>9. Done(t, q)
    BY <1>1, <1>3, <1>4, <1>5, <2>1, <2>3, <2>6, <2>8, OthersKeepAsking DEF Done
  <2> QED
    BY <2>9, DoneIsPerform
<1>8. CASE pc'[t] # "unlock"
  <2>1. out' = out /\ Pending(t)' = Pending(t)
    BY <1>8 DEF Find, Pending
  <2> QED
    BY <1>3, <1>4, <2>1, OthersKeepAsking, SameIsStutter DEF Same
<1> QED
  BY <1>7, <1>8

\* To the others a clear is done when it starts: it keeps them out until it ends.
LEMMA FirstRefines ==
  ASSUME RInv, NEW t \in Threads, First(t)
  PROVE  Contents!Next
<1> DEFINE n == Least(linked)
           q == [op |-> op[t], x |-> arg[t]]
<1>1. /\ arg[t] = NULL /\ out[t] = {} /\ op[t] \in {"first", "clear"} /\ pc[t] = "first"
      /\ Step(t)
  BY DEF First, At, RInv, IInv, StepsOfOps, Requested, Step
<1>2. Members = Contained /\ ~Clearing(t) /\ Contained' = Contained
  BY <1>1, InsideSeesMembers DEF Inside, Clearing, First, Contained
<1>3. Pending(t) = q /\ q.op = op[t] /\ q.x = arg[t] /\ q # Contents!Idle
  BY <1>1 DEF Pending, Contents!Idle
<1>4. pc'[t] = IF op[t] = "clear" /\ n # NULL THEN "succ" ELSE "unlock"
  BY DEF First, GoTo, RInv, IInv, TypeOK
<1>5. out' = [out EXCEPT ![t] = {IF op[t] = "first" THEN KeyOf(n) ELSE NULL}] /\ op' = op
  BY DEF First
<1>6. {KeyOf(n)} = Contents!First(Contained)
  BY FirstKey DEF RInv, IInv
<1> HIDE DEF n, q
<1>7. out'[t] # {}
  BY <1>5 DEF RInv, IInv, TypeOK
<1>8. Pending(t)' = Contents!Idle
  BY <1>7 DEF Pending, Contents!Idle
<1>9. out' = [out EXCEPT ![t] = Contents!Answer(q, Members)]
  BY <1>1, <1>2, <1>3, <1>5, <1>6 DEF Contents!Answer
<1>10. Members' = Contents!Rest(q, Members)
  <2>1. CASE op[t] = "first"
    <3>1. Clearing(t)' = Clearing(t)
      BY <1>5, <2>1 DEF Clearing
    <3>2. Members' = Members
      BY <1>1, <1>2, <3>1, MembersStay
    <3> QED
      BY <1>3, <2>1, <3>2 DEF Contents!Rest
  <2>2. CASE op[t] = "clear" /\ n # NULL
    <3>1. Clearing(t)'
      BY <1>4, <1>5, <2>2 DEF Clearing
    <3> QED
      BY <1>3, <2>2, <3>1 DEF Members, Contents!Rest
  <2>3. CASE op[t] = "clear" /\ n = NULL
    <3>1. linked = {}
      BY <2>3, FirstIsLowest DEF n, IsLowest, RInv, IInv
    <3>2. Members' = {}
      BY <3>1 DEF First, Members
    <3> QED
      BY <1>3, <2>3, <3>2 DEF Contents!Rest
  <2> QED
    BY <1>1, <2>1, <2>2, <2>3
<1>11. Done(t, q)
  BY <1>1, <1>3, <1>8, <1>9, <1>10, OthersKeepAsking DEF Done
<1> QED
  BY <1>11, DoneIsPerform

LEMMA SuccRefines ==
  ASSUME RInv, NEW t \in Threads, Succ(t)
  PROVE  Contents!Next \/ UNCHANGED Contents!vars
<1> DEFINE q == [op |-> "next", x |-> arg[t]]
           x == Successor(node[t])
<1>1. Step(t) /\ pc[t] = "succ" /\ Contained' = Contained /\ op' = op /\ arg' = arg
  BY DEF Succ, At, Step, Contained
<1>2. CASE op[t] # "next"
  <2>1. out' = out /\ pc'[t] = "unlink"
    BY <1>2 DEF Succ, GoTo, RInv, IInv, TypeOK
  <2>2. Clearing(t)' = Clearing(t) /\ Pending(t)' = Pending(t)
    BY <1>1, <2>1 DEF Clearing, Pending
  <2>3. Members' = Members
    BY <1>1, <2>2, MembersStay
  <2> QED
    BY <1>1, <2>1, <2>2, <2>3, OthersKeepAsking, SameIsStutter DEF Same
<1>3. CASE op[t] = "next"
  <2>1. /\ out[t] = {} /\ node[t] \in linked /\ node[t] \in Nodes /\ key[node[t]] = arg[t]
        /\ arg[t] \in Contained
    BY <1>1, <1>3 DEF RInv, IInv, TypeOK, NodesAreKnown, Requested, Effects, Contained
  <2>2. Members = Contained /\ Members' = Members
    <3>1. Inside(t) /\ ~Clearing(t) /\ Clearing(t)' = Clearing(t)
      BY <1>1, <1>3 DEF Inside, Clearing
    <3> QED
      BY <1>1, <3>1, InsideSeesMembers, MembersStay
  <2>3. Pending(t) = q /\ q.op = "next" /\ q.x = arg[t] /\ q # Contents!Idle
    BY <1>3, <2>1 DEF Pending, Contents!Idle
  <2>4. {KeyOf(x)} = Contents!First(Contents!After(Contained, arg[t]))
    BY <2>1, SuccessorIsNext, SuccessorKey DEF RInv, IInv
  <2>5. out' = [out EXCEPT ![t] = {KeyOf(x)}]
    BY <1>3 DEF Succ, RInv, IInv, TypeOK, KeyOf
  <2> HIDE DEF q, x
  <2>6. Pending(t)' = Contents!Idle
    BY <2>5 DEF Pending, Contents!Idle, RInv, IInv, TypeOK
  <2>7. {KeyOf(x)} = Contents!Answer(q, Members) /\ Contents!Rest(q, Members) = Members
    BY <2>2, <2>3, <2>4 DEF Contents!Answer, Contents!Rest
  <2>8. \A s \in Threads \ {t} : Pending(s)' = Pending(s)
    BY <1>1, OthersKeepAsking
  <2>9. q.x \in Members
    BY <2>1, <2>2, <2>3
  <2>10. out' = [out EXCEPT ![t] = Contents!Answer(q, Members)]
    BY <2>5, <2>7
  <2>11. Done(t, q)
    BY <2>2, <2>3, <2>6, <2>7, <2>8, <2>9, <2>10 DEF Done
  <2> QED
    BY <2>11, DoneIsPerform
<1> QED
  BY <1>2, <1>3

LEMMA LinkRefines ==
  ASSUME RInv, NEW t \in Threads, Link(t)
  PROVE  Contents!Next
<1> DEFINE q == [op |-> "insert", x |-> arg[t]]
<1>1. /\ Step(t) /\ pc[t] = "link" /\ op[t] = "insert" /\ out[t] = {}
      /\ arg[t] \in Nat /\ arg[t] \notin Contained
  BY ContainerAssumption
  DEF Link, At, Step, RInv, IInv, StepsOfOps, KeyIsAbsent, Requested, Contained
<1>2. Contained' = Contained \cup {arg[t]}
  <2>1. PICK n \in Nodes \ live : linked' = linked \cup {n} /\ key' = [key EXCEPT ![n] = arg[t]]
    BY DEF Link
  <2>2. n \notin linked
    BY <2>1 DEF RInv, IInv, NodesAreOwned
  <2> QED
    BY <2>1, <2>2 DEF RInv, IInv, TypeOK, Contained
<1>3. Members = Contained /\ Members' = Contained'
  <2>1. Inside(t) /\ ~Clearing(t) /\ ~Clearing(t)'
    BY <1>1 DEF Inside, Clearing, Link, locals
  <2>2. \A s \in Threads : ~Clearing(s)
    <3>1. \A s \in Threads : Clearing(s) => Inside(s)
      BY DEF Clearing, Inside
    <3> QED
      BY <2>1, <3>1 DEF RInv, IInv, Exclusion
  <2>3. \A s \in Threads : ~Clearing(s)'
    BY <1>1, <2>1, <2>2, OthersKeepAsking
  <2> QED
    BY <2>2, <2>3 DEF Members, Contained
<1>4. Pending(t) = q /\ q.op = "insert" /\ q.x = arg[t] /\ q # Contents!Idle
  BY <1>1 DEF Pending, Contents!Idle
<1> HIDE DEF q
<1>5. out' = [out EXCEPT ![t] = {NULL}] /\ out'[t] = {NULL}
  BY DEF Link, RInv, IInv, TypeOK
<1>6. Pending(t)' = Contents!Idle
  BY <1>5 DEF Pending, Contents!Idle
<1>7. Contents!Answer(q, Members) = {NULL} /\ Contents!Rest(q, Members) = Members'
  BY <1>1, <1>2, <1>3, <1>4 DEF Contents!Answer, Contents!Found, Contents!Rest
<1>8. \A s \in Threads \ {t} : Pending(s)' = Pending(s)
  BY <1>1, OthersKeepAsking
<1>9. Done(t, q)
  BY <1>4, <1>5, <1>6, <1>7, <1>8 DEF Done
<1> QED
  BY <1>9, DoneIsPerform

LEMMA UnlinkRefines ==
  ASSUME RInv, NEW t \in Threads, Unlink(t)
  PROVE  Contents!Next \/ UNCHANGED Contents!vars
<1> DEFINE q == [op |-> IF op[t] = "erase_mc" THEN "erase" ELSE op[t], x |-> arg[t]]
<1>1. /\ Step(t) /\ pc[t] = "unlink" /\ op' = op /\ arg' = arg /\ key' = key
      /\ op[t] \in {"remove", "erase", "erase_mc", "clear"}
  BY DEF Unlink, At, Step, RInv, IInv, StepsOfOps, locals
<1>2. CASE op[t] = "clear"
  <2>1. out' = out /\ pc'[t] = "free"
    BY <1>2 DEF Unlink, GoTo, RInv, IInv, TypeOK
  <2>2. Clearing(t) /\ Clearing(t)' = Clearing(t) /\ Pending(t)' = Pending(t)
    BY <1>1, <1>2, <2>1 DEF Clearing, Pending
  <2>3. Members' = Members
    BY <1>1, <2>2, MembersStay
  <2>4. \A s \in Threads : Pending(s)' = Pending(s)
    BY <1>1, <2>2, OthersKeepAsking
  <2> QED
    BY <2>1, <2>3, <2>4, SameIsStutter DEF Same
<1>3. CASE op[t] # "clear"
  <2>1. /\ node[t] \in linked /\ key[node[t]] = arg[t] /\ out[t] = {}
        /\ op[t] # "remove" => IsSuccessor(next[t], node[t])
    BY <1>1, <1>3 DEF RInv, IInv, NodesAreKnown, Requested, Effects
  <2>2. arg[t] \in Contained /\ Contained' = Contained \ {arg[t]}
    BY <2>1 DEF Unlink, RInv, IInv, TypeOK, KeysAreUnique, Contained
  <2>3. Members = Contained /\ Members' = Contained'
    <3>1. Inside(t) /\ ~Clearing(t) /\ ~Clearing(t)'
      BY <1>1, <1>3 DEF Inside, Clearing
    <3>2. \A s \in Threads : ~Clearing(s)
      <4>1. \A s \in Threads : Clearing(s) => Inside(s)
        BY DEF Clearing, Inside
      <4> QED
        BY <3>1, <4>1 DEF RInv, IInv, Exclusion
    <3>3. \A s \in Threads : ~Clearing(s)'
      BY <1>1, <3>1, <3>2, OthersKeepAsking
    <3> QED
      BY <3>2, <3>3 DEF Members, Contained
  <2>4. /\ Pending(t) = q /\ q.x = arg[t] /\ q # Contents!Idle
        /\ q.op = IF op[t] = "remove" THEN "remove" ELSE "erase"
    BY <1>1, <1>3, <2>1 DEF Pending, Contents!Idle
  <2> HIDE DEF q
  <2>5. PICK r : r = IF op[t] = "remove" THEN arg[t] ELSE KeyOf(next[t])
    OBVIOUS
  <2>6. out' = [out EXCEPT ![t] = {r}] /\ out'[t] = {r}
    BY <1>3, <2>5 DEF Unlink, RInv, IInv, TypeOK
  <2>7. {r} = Contents!Answer(q, Members)
    <3>1. CASE op[t] = "remove"
      BY <2>2, <2>3, <2>4, <2>5, <3>1 DEF Contents!Answer, Contents!Found
    <3>2. CASE op[t] # "remove"
      <4>1. {r} = Contents!First(Contents!After(Contained, arg[t]))
        BY <2>1, <2>5, <3>2, SuccessorKey DEF RInv, IInv
      <4> QED
        BY <2>3, <2>4, <3>2, <4>1 DEF Contents!Answer
    <3> QED
      BY <3>1, <3>2
  <2>8. Members' = Contents!Rest(q, Members)
    BY <2>2, <2>3, <2>4 DEF Contents!Rest
  <2>9. Pending(t)' = Contents!Idle
    BY <2>6 DEF Pending, Contents!Idle
  <2>10. \A s \in Threads \ {t} : Pending(s)' = Pending(s)
    BY <1>1, OthersKeepAsking
  <2>11. out' = [out EXCEPT ![t] = Contents!Answer(q, Members)] /\ q.x \in Members
    BY <2>2, <2>3, <2>4, <2>6, <2>7
  <2>12. Done(t, q)
    BY <2>4, <2>8, <2>9, <2>10, <2>11 DEF Done
  <2> QED
    BY <2>12, DoneIsPerform
<1> QED
  BY <1>2, <1>3

\* The set is empty and nobody has asked for anything.
LEMMA InitRefines == Init => Contents!Init
BY DEF Init, Contents!Init, Members, Pending, Clearing, Contents!Idle

\* The operations of the container, interleaved step by step, are those of an ordered
\* set, each at one moment between its call and its return: its result is the answer
\* of the set to that operation on that key, and the tree is left as the set is.
THEOREM Refinement == Spec => ImplementsOrderedSet
<1>1. RInv /\ [Next]_vars => (Requested /\ Effects)'
  <2> SUFFICES ASSUME RInv, [Next]_vars PROVE (Requested /\ Effects)'
    OBVIOUS
  <2>1. CASE UNCHANGED vars
    BY <2>1 DEF RInv, Requested, Effects, IsSuccessor, IsLowest, Clearing, vars, locals
  <2>2. CASE Next
    BY <2>2, RequestedPreserved, EffectsPreserved DEF Next
  <2> QED
    BY <2>1, <2>2
<1>2. RInv /\ [Next]_vars => [Contents!Next]_(Contents!vars)
  <2> SUFFICES ASSUME RInv, [Next]_vars PROVE Contents!Next \/ UNCHANGED Contents!vars
    OBVIOUS
  <2>1. CASE UNCHANGED vars
    BY <2>1 DEF vars, locals, Contents!vars, Members, Pending, Clearing
  <2>2. CASE Next
    BY <2>2, CallRefines, FindRefines, FirstRefines, SuccRefines, LinkRefines, UnlinkRefines,
       ReturnRefines, OthersStutter DEF Next, Step
  <2> QED
    BY <2>1, <2>2
<1>3. Spec => []RInv
  BY <1>1, InitIsRequested, Invariance, PTL DEF Spec, RInv
<1> QED
  BY <1>2, <1>3, InitRefines, PTL DEF Spec, ImplementsOrderedSet, Contents!Spec
=============================================================================

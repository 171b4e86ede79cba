-------------------------- MODULE ReassemblyProofs --------------------------
(***************************************************************************)
(* Theorems about Reassembly and its mapping to Service, in three parts.   *)
(* The inductive invariant IInv says who owns each queue: the tree, the    *)
(* trash or the reader, and how long a queue the reader holds has been in  *)
(* the trash.  FlagInv says what the flags of a queue mean, CountInv and   *)
(* OutcomeInv what its count of bytes and its end mean.                    *)
(***************************************************************************)
EXTENDS ReassemblyService, ArithmeticProofs

UsingSteps == {"admit", "enqueue", "count", "mark", "markstore", "seal",
               "sealstore", "return"}

VisitSteps == MaintainerSteps \ {"asleep", "first"}

\* What the reader's locals hold at each step.
Locals ==
  /\ rpc # "idle" => rfrag \in Wire
  /\ rpc \in {"idle", "search", "deref", "alloc"} => rq = None
  /\ rpc \in {"lock", "insert", "unlock", "adopt"} \cup UsingSteps => rq \in Queues
  /\ rpc \in {"idle", "search", "alloc", "lock", "insert"} \cup UsingSteps
       => rnode = None
  /\ rpc \in {"deref", "adopt"} => rnode \in Queues

\* Every queue has one owner.  Only the maintainer moves a queue, from the tree to
\* the trash, and between its two steps the queue is in both.
Ownership ==
  /\ heap = tree \cup trash \cup PrivateQueue
  /\ PrivateQueue \cap (tree \cup trash) = {}
  /\ \A q \in tree \cap trash : q = wq /\ wpc \in {"lock", "erase"}
  /\ wpc \in {"lock", "erase"} => wq \in trash
  /\ wpc \in VisitSteps => wq \in tree

\* The queue the reader has taken from the tree, or has put there.
Held ==
  IF rpc \in {"deref", "adopt"} \/ (rpc = "unlock" /\ rnode # None) THEN {rnode}
  ELSE IF rpc \in UsingSteps \cup {"unlock"} THEN {rq} ELSE {}

\* A queue the reader holds has been in the trash for no more passes than have
\* begun since the reader entered ipv4_handler.
Grace ==
  /\ \A q \in Queues : q \in tree \/ q \notin trash => fq[q].erase = 0
  /\ \A q \in Held : q \in tree \cup trash /\ fq[q].erase <= rlag

\* The reader's new queue is keyed by the fragment it was made for.
Keyed == rpc \in {"lock", "insert"} => fq[rq].key = rfrag.key

\* The reader's new queue holds no fragment.
PrivateIsEmpty == \A q \in PrivateQueue : fq[q].frags = {}

\* The inductive invariant.
IInv ==
  /\ TypeOK /\ Locals /\ Ownership /\ Grace
  /\ OneQueuePerKey /\ Keyed
  /\ MbufsAreAccounted /\ PrivateIsEmpty

\* The steps of ipv4_handler that move the reader without touching trees or heap,
\* once it has a queue.
Filling == Enqueue \/ Count \/ SetFirst \/ SetLen \/ LoadFlags \/ StoreFlags
           \/ Judge \/ Return

\* The reader's locals hold at each step what the step uses.
LEMMA LocalsStep == IInv /\ [Next]_vars => Locals'
<1> SUFFICES ASSUME IInv, [Next]_vars PROVE Locals'
    OBVIOUS
<1> USE DEF IInv, TypeOK, Locals, UsingSteps
<1>1. ASSUME NEW f \in Wire, Receive(f) PROVE Locals'
      BY <1>1, NoneAssumption DEF Receive
<1>2. CASE ReceiveOther
      BY <1>2 DEF ReceiveOther, rlocals
<1>3. CASE Search
      BY <1>3, NoneAssumption DEF Search, Found
<1>4. CASE Deref
      BY <1>4 DEF Deref
<1>5. ASSUME NEW q \in Queues, Alloc(q) PROVE Locals'
      BY <1>5 DEF Alloc
<1>6. CASE ReaderLock \/ ReaderUnlock
      BY <1>6 DEF ReaderLock, ReaderUnlock, rlocals
<1>7. CASE Insert
      BY <1>7 DEF Insert, Collision
<1>8. CASE Adopt
      BY <1>8 DEF Adopt
<1>9. CASE Admit
      BY <1>9 DEF Admit, Leave, rlocals
<1>10. CASE Filling
      BY <1>10 DEF Filling, Enqueue, Count, SetFirst, SetLen, LoadFlags,
                  StoreFlags, Judge, Return, Leave, rlocals
<1>11. CASE MaintainerNext
      BY <1>11 DEF MaintainerNext, TrashMaintain, FirstNode, Visit, Reassemble,
         Emit, LoadComplete, StoreComplete, CheckAge, StoreExpire, Decide, Recycle,
         MaintainerLock, EraseNode, NextNode, reader, rlocals
<1>12. CASE Tick \/ UNCHANGED vars
      BY <1>12 DEF Tick, vars, reader, rlocals
<1> QED
    BY <1>1, <1>2, <1>3, <1>4, <1>5, <1>6, <1>7, <1>8, <1>9, <1>10, <1>11, <1>12
       DEF Next, ReaderNext, Handle, Filling

\* The maintainer's steps that change neither trees nor the heap.
Visiting == FirstNode \/ Visit \/ Reassemble \/ Emit \/ LoadComplete \/ StoreComplete
            \/ CheckAge \/ StoreExpire \/ Decide \/ NextNode

\* Queues change owner only in Alloc, Insert, Adopt, Recycle, EraseNode and
\* TrashMaintain, and always have exactly one, but for the move to the trash.
LEMMA OwnershipStep == IInv /\ [Next]_vars => Ownership'
<1> SUFFICES ASSUME IInv, [Next]_vars PROVE Ownership'
    OBVIOUS
<1> USE NoneAssumption
        DEF IInv, Locals, Ownership, PrivateQueue, UsingSteps, VisitSteps, MaintainerSteps
<1>1. ASSUME NEW f \in Wire, Receive(f) PROVE Ownership'
      BY <1>1 DEF Receive, trees, writer
<1>2. CASE ReceiveOther
      BY <1>2 DEF ReceiveOther, memory, trees, rlocals, writer
<1>3. CASE Search
      BY <1>3 DEF Search, memory, trees, writer
<1>4. CASE Deref
      BY <1>4 DEF Deref, memory, trees, writer
<1>5. ASSUME NEW q \in Queues, Alloc(q) PROVE Ownership'
      BY <1>5 DEF Alloc, trees, writer, TypeOK
<1>6. CASE ReaderLock \/ ReaderUnlock
      BY <1>6 DEF ReaderLock, ReaderUnlock, rlocals, memory, writer
<1>7. CASE Insert
      BY <1>7 DEF Insert, Collision, memory, writer, TypeOK
<1>8. CASE Adopt
      BY <1>8 DEF Adopt, Destroy, memory, trees
<1>9. CASE Admit
      BY <1>9 DEF Admit, Leave, trees, writer
<1>10. CASE Filling
      BY <1>10 DEF Filling, Enqueue, Count, SetFirst, SetLen, LoadFlags,
                  StoreFlags, Judge, Return, Leave, rlocals, memory, trees, writer
<1>11. CASE TrashMaintain
      BY <1>11 DEF TrashMaintain, Destroy, rlocals
<1>12. CASE Visiting
      BY <1>12 DEF Visiting, FirstNode, Visit, Reassemble,
         Emit, LoadComplete, StoreComplete, CheckAge, StoreExpire, Decide,
         NextNode, Walk, GoTo, Least, Following, memory, trees, reader, rlocals
<1>13. CASE Recycle
      BY <1>13 DEF Recycle, memory, reader, rlocals
<1>14. CASE MaintainerLock
      BY <1>14 DEF MaintainerLock, memory, reader, rlocals
<1>15. CASE EraseNode
  <2>1. wq \in tree /\ wq \in trash /\ fq[wq].key \in Nat
        BY <1>15 DEF EraseNode, TypeOK, QueueRecord
  <2>2. wq \notin Following(wq) /\ Following(wq) \subseteq tree
        BY <2>1 DEF Following
  <2>3. \/ wpc' = "asleep"
        \/ wpc' = "visit" /\ wq' \in Following(wq)
        BY <1>15 DEF EraseNode, GoTo, Least
  <2>4. tree' = tree \ {wq} /\ UNCHANGED <<heap, trash, rpc, rq, rnode>>
        BY <1>15 DEF EraseNode, reader, rlocals
  <2>5. wpc = "erase"
        BY <1>15 DEF EraseNode
  <2> QED
      BY <2>1, <2>2, <2>3, <2>4, <2>5
<1>16. CASE Tick \/ UNCHANGED vars
      BY <1>16 DEF Tick, vars, memory, trees, reader, rlocals, writer
<1> QED
    BY <1>1, <1>2, <1>3, <1>4, <1>5, <1>6, <1>7, <1>8, <1>9, <1>10, <1>11, <1>12,
       <1>13, <1>14, <1>15, <1>16
       DEF Next, ReaderNext, Handle, MaintainerNext, Filling, Visiting

\* What the reader's stores leave alone in a queue.
LEMMA FillingKeeps ==
  ASSUME IInv, Filling
  PROVE  \A q \in Queues : /\ fq'[q].erase = fq[q].erase
                          /\ fq'[q].key = fq[q].key
<1> USE DEF IInv, TypeOK, QueueRecord
<1>1. CASE Enqueue
      BY <1>1 DEF Enqueue
<1>2. CASE Count
      BY <1>2 DEF Count
<1>3. CASE SetFirst
      BY <1>3 DEF SetFirst
<1>4. CASE SetLen
      BY <1>4 DEF SetLen
<1>5. CASE LoadFlags \/ Judge \/ Return
      BY <1>5 DEF LoadFlags, Judge, Return, memory
<1>6. CASE StoreFlags
      BY <1>6 DEF StoreFlags
<1> QED
    BY <1>1, <1>2, <1>3, <1>4, <1>5, <1>6 DEF Filling

\* The maintainer's visits change no more than the flags.
LEMMA VisitingKeeps ==
  ASSUME IInv, Visiting
  PROVE  \A q \in Queues : /\ fq'[q].erase = fq[q].erase
                          /\ fq'[q].key = fq[q].key
                          /\ fq'[q].frags = fq[q].frags
<1> USE DEF IInv, TypeOK, QueueRecord
<1>1. CASE StoreComplete
      BY <1>1 DEF StoreComplete
<1>2. CASE StoreExpire
      BY <1>2 DEF StoreExpire
<1>3. CASE UNCHANGED fq
      BY <1>3
<1> QED
    BY <1>1, <1>2, <1>3 DEF Visiting, FirstNode, Visit, Reassemble, Emit,
       LoadComplete, CheckAge, Decide, NextNode, memory

\* The clock changes no more than the ages.
LEMMA TickKeeps ==
  ASSUME IInv, Tick
  PROVE  \A q \in Queues : /\ fq'[q].erase = fq[q].erase
                          /\ fq'[q].key = fq[q].key
                          /\ fq'[q].frags = fq[q].frags
BY DEF Tick, IInv, TypeOK, QueueRecord

\* No held queue is due when a pass begins: this is where GraceAssumption is used.
LEMMA TrashSparesHeld ==
  ASSUME IInv, TrashMaintain, NEW q \in Held
  PROVE  /\ q \in tree' \cup trash'
         /\ fq'[q].erase <= rlag'
<1> DEFINE due == {p \in trash : EraseDue(fq[p].erase + 1)}
<1>1. /\ tree' = tree /\ trash' = trash \ due
      /\ fq' = [p \in Queues |->
                 IF p \in due THEN Blank
                 ELSE IF p \in trash THEN [fq[p] EXCEPT !.erase = @ + 1] ELSE fq[p]]
      BY DEF TrashMaintain, Destroy, trees
<1>2. rpc \notin {"idle", "wild"} /\ rlag' = rlag + 1 /\ rlag < MaxLag
      BY DEF TrashMaintain, LagAllows, Held, UsingSteps, IInv
<1>3. /\ q \in Queues /\ fq[q] \in QueueRecord
      /\ rlag \in Nat /\ MaxLag \in Nat /\ EraseLimit \in Nat
      BY BoundsAssumption DEF IInv, TypeOK, Locals, Held, UsingSteps, Ownership, Grace
<1>4. q \in tree \cup trash /\ fq[q].erase <= rlag /\ fq[q].erase \in Nat
      BY <1>3 DEF IInv, Grace, QueueRecord
<1>5. q \notin due
      BY <1>2, <1>3, <1>4, GraceAssumption DEF EraseDue
<1>6. fq'[q].erase \in {fq[q].erase, fq[q].erase + 1}
  <2>1. CASE q \in trash
        BY <1>1, <1>3, <1>5, <2>1 DEF QueueRecord
  <2>2. CASE q \notin trash
        BY <1>1, <1>3, <1>5, <2>2
  <2> QED
      BY <2>1, <2>2
<1> QED
    BY <1>1, <1>2, <1>3, <1>4, <1>5, <1>6

\* A queue the reader holds cannot have been in the trash for longer than the
\* reader has been at work: it was in the tree when the reader found it.
LEMMA GraceStep == IInv /\ [Next]_vars => Grace'
<1> SUFFICES ASSUME IInv, [Next]_vars PROVE Grace'
    OBVIOUS
<1> USE NoneAssumption DEF IInv, Locals, Grace, Held, UsingSteps
<1>0. \A q \in Queues : fq[q].erase \in Nat
      BY DEF TypeOK, QueueRecord
<1>1. ASSUME NEW f \in Wire, Receive(f) PROVE Grace'
      BY <1>1 DEF Receive, trees
<1>2. CASE ReceiveOther
      BY <1>2 DEF ReceiveOther, memory, trees, rlocals
<1>3. CASE Search
  <2>1. \A q \in tree : q \in Queues /\ fq[q].erase = 0
        BY DEF TypeOK
  <2> QED
      BY <1>3, <2>1 DEF Search, Found, memory, trees, TypeOK
<1>4. CASE Deref
      BY <1>4 DEF Deref, memory, trees
<1>5. ASSUME NEW q \in Queues, Alloc(q) PROVE Grace'
  <2>1. \A p \in Queues : p # q => fq'[p] = fq[p]
        BY <1>5 DEF Alloc, TypeOK
  <2>2. fq'[q].erase = 0
        BY <1>5 DEF Alloc, Blank, TypeOK
  <2> QED
      BY <1>5, <2>1, <2>2 DEF Alloc, trees
<1>6. CASE ReaderLock \/ ReaderUnlock
      BY <1>6 DEF ReaderLock, ReaderUnlock, rlocals, memory
<1>7. CASE Insert
  <2>1. \A q \in tree \cup {rq} : q \in Queues /\ fq[q].erase = 0
        BY <1>7 DEF Insert, TypeOK, Ownership, PrivateQueue
  <2>2. UNCHANGED <<fq, trash, rlag, rq>> /\ rpc' = "unlock" /\ rnode = None
        BY <1>7 DEF Insert, memory
  <2>3. \/ rnode' \in tree /\ UNCHANGED tree
        \/ UNCHANGED rnode /\ tree' = tree \cup {rq}
        BY <1>7 DEF Insert, Collision
  <2> QED
      BY <2>1, <2>2, <2>3 DEF TypeOK
<1>8. CASE Adopt
  <2>1. rq \in PrivateQueue /\ rq \in Queues
        BY <1>8 DEF Adopt, PrivateQueue
  <2>2. rq \notin tree \cup trash
        BY <2>1 DEF Ownership
  <2>3. CASE Destroy({rq}, fq)
    <3>1. \A q \in Queues : q # rq => fq'[q] = fq[q]
          BY <2>3 DEF Destroy
    <3>2. fq'[rq].erase = 0
          BY <2>1, <2>3 DEF Destroy, Blank
    <3> QED
        BY <1>8, <2>1, <2>2, <3>1, <3>2 DEF Adopt, trees
  <2>4. CASE rpc' = "wild"
        BY <1>8, <2>4 DEF Adopt, trees, memory
  <2> QED
      BY <1>8, <2>3, <2>4 DEF Adopt
<1>9. CASE Admit
      BY <1>9 DEF Admit, Leave, trees, rlocals
<1>10. CASE Filling
  <2>1. UNCHANGED <<tree, trash>> /\ (rpc' = "idle" \/ UNCHANGED <<rq, rnode, rlag>>)
        BY <1>10 DEF Filling, Enqueue, Count, SetFirst, SetLen, LoadFlags,
           StoreFlags, Judge, Return, Leave, trees, rlocals
  <2>2. rpc \in UsingSteps /\ rpc' \in UsingSteps \cup {"idle"}
        BY <1>10 DEF Filling, Enqueue, Count, SetFirst, SetLen, LoadFlags,
           StoreFlags, Judge, Return, Leave
  <2> QED
      BY <1>10, <2>1, <2>2, FillingKeeps
<1>11. CASE TrashMaintain
  <2>1. \A q \in Queues : q \notin trash \/ q \notin trash' => fq'[q].erase = 0
        BY <1>11 DEF TrashMaintain, Destroy, Blank
  <2>2. \A q \in tree : q \notin trash
        BY <1>11 DEF TrashMaintain, Ownership
  <2>3. UNCHANGED <<tree, rpc, rq, rnode>> /\ trash' \subseteq trash
        BY <1>11 DEF TrashMaintain, rlocals
  <2> QED
      BY <1>11, <2>1, <2>2, <2>3, TrashSparesHeld
<1>12. CASE Visiting
  <2>1. UNCHANGED <<tree, trash, rpc, rq, rnode, rlag>>
        BY <1>12 DEF Visiting, FirstNode, Visit, Reassemble,
           Emit, LoadComplete, StoreComplete, CheckAge, StoreExpire, Decide,
           NextNode, trees, reader, rlocals
  <2> QED
      BY <1>12, <2>1, VisitingKeeps DEF TypeOK
<1>13. CASE Recycle
  <2>1. wq \in tree /\ wq \in Queues /\ fq[wq].erase = 0
        BY <1>13 DEF Recycle, Ownership, VisitSteps, MaintainerSteps, TypeOK
  <2> QED
      BY <1>13, <2>1 DEF Recycle, memory, reader, rlocals
<1>14. CASE MaintainerLock
      BY <1>14 DEF MaintainerLock, memory, reader, rlocals
<1>15. CASE EraseNode
      BY <1>15 DEF EraseNode, reader, rlocals, Ownership
<1>16. CASE Tick
      BY <1>16, TickKeeps DEF Tick, trees, reader, rlocals, TypeOK
<1>17. CASE UNCHANGED vars
      BY <1>17 DEF vars, memory, trees, reader, rlocals
<1> QED
    BY <1>1, <1>2, <1>3, <1>4, <1>5, <1>6, <1>7, <1>8, <1>9, <1>10, <1>11, <1>12,
       <1>13, <1>14, <1>15, <1>16, <1>17
       DEF Next, ReaderNext, Handle, MaintainerNext, Filling, Visiting

\* Only Insert links a queue into the tree, and only when it has found no other.
LEMMA KeyedStep == IInv /\ [Next]_vars => OneQueuePerKey' /\ Keyed'
<1> SUFFICES ASSUME IInv, [Next]_vars PROVE OneQueuePerKey' /\ Keyed'
    OBVIOUS
<1> USE DEF IInv, Keyed, OneQueuePerKey
<1>0. tree \subseteq Queues
      BY DEF TypeOK
<1>1. ASSUME NEW f \in Wire, Receive(f) PROVE OneQueuePerKey' /\ Keyed'
      BY <1>1 DEF Receive, trees
<1>2. CASE ReceiveOther \/ Search \/ Deref
      BY <1>2 DEF ReceiveOther, Search, Deref, memory, trees, rlocals
<1>3. ASSUME NEW q \in Queues, Alloc(q) PROVE OneQueuePerKey' /\ Keyed'
  <2>1. q \notin tree /\ UNCHANGED <<tree, rfrag>> /\ rq' = q
        BY <1>3 DEF Alloc, trees, Ownership
  <2>2. fq'[q].key = rfrag.key
        BY <1>3 DEF Alloc, Blank, TypeOK
  <2>3. \A p \in Queues : p # q => fq'[p] = fq[p]
        BY <1>3 DEF Alloc, TypeOK
  <2> QED
      BY <1>0, <2>1, <2>2, <2>3
<1>4. CASE ReaderLock \/ ReaderUnlock
      BY <1>4 DEF ReaderLock, ReaderUnlock, rlocals, memory
<1>5. CASE Insert
      BY <1>5 DEF Insert, Collision, memory
<1>6. CASE Adopt
  <2>1. rq \notin tree
        BY <1>6 DEF Adopt, Ownership, PrivateQueue
  <2>2. CASE Destroy({rq}, fq)
        BY <1>0, <1>6, <2>1, <2>2 DEF Adopt, Destroy, trees
  <2>3. CASE UNCHANGED memory
        BY <1>6, <2>3 DEF Adopt, memory, trees
  <2> QED
      BY <1>6, <2>2, <2>3 DEF Adopt
<1>7. CASE Admit
      BY <1>7 DEF Admit, Leave, trees
<1>8. CASE Filling
  <2>1. UNCHANGED tree /\ rpc' \notin {"lock", "insert"}
        BY <1>8 DEF Filling, Enqueue, Count, SetFirst, SetLen, LoadFlags,
           StoreFlags, Judge, Return, Leave, trees
  <2> QED
      BY <1>0, <1>8, <2>1, FillingKeeps
<1>9. CASE TrashMaintain
  <2>1. \A q \in Queues : q \notin trash => fq'[q] = fq[q]
        BY <1>9 DEF TrashMaintain, Destroy
  <2>2. \A q \in tree : q \notin trash
        BY <1>9 DEF TrashMaintain, Ownership
  <2>3. rpc \in {"lock", "insert"} => rq \in Queues /\ rq \notin trash
        BY DEF Locals, Ownership, PrivateQueue
  <2> QED
      BY <1>0, <1>9, <2>1, <2>2, <2>3 DEF TrashMaintain, rlocals
<1>10. CASE Visiting
  <2>1. UNCHANGED <<tree, rpc, rq, rfrag>>
        BY <1>10 DEF Visiting, FirstNode, Visit, Reassemble,
           Emit, LoadComplete, StoreComplete, CheckAge, StoreExpire, Decide,
           NextNode, trees, reader, rlocals
  <2> QED
      BY <1>0, <1>10, <2>1, VisitingKeeps DEF Locals
<1>11. CASE Recycle \/ MaintainerLock \/ EraseNode
      BY <1>11 DEF Recycle, MaintainerLock, EraseNode, memory, reader, rlocals
<1>12. CASE Tick
      BY <1>0, <1>12, TickKeeps DEF Tick, trees, reader, rlocals, Locals
<1>13. CASE UNCHANGED vars
      BY <1>13 DEF vars, memory, trees, reader, rlocals
<1> QED
    BY <1>1, <1>2, <1>3, <1>4, <1>5, <1>6, <1>7, <1>8, <1>9, <1>10, <1>11, <1>12,
       <1>13
       DEF Next, ReaderNext, Handle, MaintainerNext, Filling, Visiting

\* The fragments stored in queues of S are finitely many.
LEMMA StoredIsFinite ==
  ASSUME NEW S \in SUBSET Queues
  PROVE  IsFiniteSet(Stored(S)) /\ HeldMbufs(S) \in Nat
<1>1. IsFiniteSet(S)
      BY FinitenessAssumption, FS_Subset
<1>2. IsFiniteSet(S \X Wire)
      BY <1>1, FinitenessAssumption, FS_Product
<1>3. Stored(S) \in SUBSET (S \X Wire)
      BY DEF Stored
<1> QED
    BY <1>2, <1>3, FS_Subset, FS_CardinalityType DEF HeldMbufs

\* Only the queues of S lose their fragments when S is destroyed.
LEMMA DestroyFrees ==
  ASSUME IInv, NEW S \in SUBSET heap, NEW updated \in [Queues -> QueueRecord],
         \A q \in Queues : updated[q].frags = fq[q].frags,
         Destroy(S, updated)
  PROVE  HeldMbufs(heap)' = HeldMbufs(heap) - HeldMbufs(S)
<1>1. heap \subseteq Queues /\ fq \in [Queues -> QueueRecord]
      BY DEF IInv, TypeOK
<1>2. Stored(S) \subseteq Stored(heap)
      BY DEF Stored
<1>3. Stored(heap)' = Stored(heap) \ Stored(S)
  <2>1. \A q \in heap \ S : fq'[q].frags = fq[q].frags
        BY <1>1 DEF Destroy
  <2> QED
      BY <2>1 DEF Stored, Destroy
<1>4. IsFiniteSet(Stored(heap)) /\ IsFiniteSet(Stored(S))
      BY <1>1, StoredIsFinite
<1>5. Stored(heap) \cap Stored(S) = Stored(S)
      BY <1>2
<1> QED
    BY <1>3, <1>4, <1>5, FS_Difference DEF HeldMbufs

\* Fragments enter a queue in Enqueue alone.
LEMMA FragsKept ==
  ASSUME IInv, [Next]_vars, ~Enqueue, ~Adopt, ~TrashMaintain,
         ~\E q \in Queues : Alloc(q)
  PROVE  /\ heap' = heap
         /\ \A q \in Queues : fq'[q].frags = fq[q].frags
         /\ HeldMbufs(heap)' = HeldMbufs(heap)
<1>1. heap' = heap /\ heap \subseteq Queues
      BY DEF Next, ReaderNext, Handle, MaintainerNext, Receive, ReceiveOther, Search,
         Deref, ReaderLock, Insert, ReaderUnlock, Admit, Count, SetFirst, SetLen,
         LoadFlags, StoreFlags, Judge, Return, FirstNode, Visit, Reassemble, Emit,
         LoadComplete, StoreComplete, CheckAge, StoreExpire, Decide, Recycle,
         MaintainerLock, EraseNode, NextNode, Tick, vars, memory, IInv, TypeOK
<1>2. \A q \in Queues : fq'[q].frags = fq[q].frags
  <2> USE DEF IInv, TypeOK, QueueRecord
  <2>1. CASE UNCHANGED fq
        BY <2>1
  <2>2. CASE Count
        BY <2>2 DEF Count
  <2>3. CASE SetFirst
        BY <2>3 DEF SetFirst
  <2>4. CASE SetLen
        BY <2>4 DEF SetLen
  <2>5. CASE StoreFlags
        BY <2>5 DEF StoreFlags
  <2>6. CASE Visiting
        BY <2>6, VisitingKeeps
  <2>7. CASE Tick
        BY <2>7, TickKeeps
  <2> QED
      BY <2>1, <2>2, <2>3, <2>4, <2>5, <2>6, <2>7
         DEF Next, ReaderNext, Handle, MaintainerNext, Visiting, Receive, ReceiveOther,
         Search, Deref, ReaderLock, Insert, ReaderUnlock, Admit, LoadFlags, Judge,
         Return, Recycle, MaintainerLock, EraseNode, vars, memory
<1>3. Stored(heap)' = Stored(heap)
      BY <1>1, <1>2 DEF Stored
<1> QED
    BY <1>1, <1>2, <1>3 DEF HeldMbufs

\* A queue gets its first fragment only after it is in the tree.
LEMMA EmptyStep == IInv /\ [Next]_vars => PrivateIsEmpty'
<1> SUFFICES ASSUME IInv, [Next]_vars PROVE PrivateIsEmpty'
    OBVIOUS
<1> USE DEF IInv, PrivateIsEmpty, PrivateQueue
<1>1. ASSUME NEW q \in Queues, Alloc(q) PROVE PrivateIsEmpty'
      BY <1>1 DEF Alloc, Blank, TypeOK
<1>2. CASE Adopt
  <2>1. CASE rpc' = "admit"
        BY <2>1
  <2>2. CASE UNCHANGED memory /\ rpc' = "wild"
        BY <1>2, <2>2 DEF Adopt, memory, trees
  <2> QED
      BY <1>2, <2>1, <2>2 DEF Adopt
<1>3. CASE TrashMaintain
  <2>1. \A q \in PrivateQueue : q \in Queues /\ q \notin trash
        BY DEF Ownership, TypeOK
  <2>2. \A q \in Queues : q \notin trash => fq'[q] = fq[q]
        BY <1>3 DEF TrashMaintain, Destroy
  <2>3. UNCHANGED <<rpc, rnode, rq>>
        BY <1>3 DEF TrashMaintain, rlocals
  <2> QED
      BY <2>1, <2>2, <2>3
<1>4. CASE Enqueue
      BY <1>4 DEF Enqueue, Leave
<1>5. CASE ~Enqueue /\ ~Adopt /\ ~TrashMaintain /\ ~(\E q \in Queues : Alloc(q))
  <2>1. PrivateQueue' \subseteq PrivateQueue
        BY <1>5 DEF Next, ReaderNext, Handle, MaintainerNext, Receive, ReceiveOther,
           Search, Deref, ReaderLock, Insert, ReaderUnlock, Admit, Count, SetFirst,
           SetLen, LoadFlags, StoreFlags, Judge, Return, FirstNode, Visit, Reassemble,
           Emit, LoadComplete, StoreComplete, CheckAge, StoreExpire, Decide, Recycle,
           MaintainerLock, EraseNode, NextNode, Tick, Leave, vars, reader, rlocals,
           Locals
  <2>2. PrivateQueue \subseteq Queues
        BY DEF Ownership, TypeOK
  <2> QED
      BY <1>5, <2>1, <2>2, FragsKept
<1> QED
    BY <1>1, <1>2, <1>3, <1>4, <1>5

\* The reader's steps at which it owns the mbuf of the current frame.
Carrying == {"search", "deref", "alloc", "lock", "insert", "unlock", "adopt", "admit",
             "enqueue", "wild"}

\* The mbuf of a frame goes from the reader to a queue or is freed.
LEMMA MbufsStep == IInv /\ [Next]_vars => MbufsAreAccounted'
<1> SUFFICES ASSUME IInv, [Next]_vars PROVE MbufsAreAccounted'
    OBVIOUS
<1> DEFINE n == IF rpc \in Carrying THEN 1 ELSE 0
<1>0. /\ heap \subseteq Queues /\ fq \in [Queues -> QueueRecord]
      /\ HeldMbufs(heap) \in Nat
      /\ mbufs = HeldMbufs(heap) + n
      BY StoredIsFinite DEF IInv, TypeOK, MbufsAreAccounted, Carrying
<1>1. ASSUME NEW q \in Queues, Alloc(q) PROVE MbufsAreAccounted'
  <2>1. \A p \in heap : p # q /\ fq'[p] = fq[p]
        BY <1>0, <1>1 DEF Alloc
  <2>2. fq'[q].frags = {} /\ heap' = heap \cup {q}
        BY <1>0, <1>1 DEF Alloc, Blank
  <2>3. Stored(heap)' = Stored(heap)
        BY <2>1, <2>2 DEF Stored
  <2> QED
      BY <1>0, <1>1, <2>3 DEF Alloc, MbufsAreAccounted, HeldMbufs, Carrying
<1>2. CASE Adopt
  <2>1. CASE Destroy({rq}, fq)
    <3>1. rq \in heap /\ fq[rq].frags = {}
          BY <1>2 DEF Adopt, IInv, Ownership, PrivateQueue, PrivateIsEmpty
    <3>2. HeldMbufs({rq}) = 0
          BY <3>1, FS_EmptySet DEF HeldMbufs, Stored
    <3>3. HeldMbufs(heap)' = HeldMbufs(heap) - HeldMbufs({rq})
          BY <1>0, <2>1, <3>1, DestroyFrees
    <3> QED
        BY <1>0, <1>2, <2>1, <3>2, <3>3
           DEF Adopt, Destroy, MbufsAreAccounted, Carrying
  <2>2. CASE UNCHANGED memory /\ rpc' = "wild"
        BY <1>0, <1>2, <2>2
           DEF Adopt, memory, MbufsAreAccounted, HeldMbufs, Stored, Carrying
  <2> QED
      BY <1>2, <2>1, <2>2 DEF Adopt
<1>3. CASE TrashMaintain
  <2> DEFINE due == {q \in trash : EraseDue(fq[q].erase + 1)}
             older == [q \in Queues |-> IF q \in trash
                                       THEN [fq[q] EXCEPT !.erase = @ + 1]
                                       ELSE fq[q]]
  <2>1. Destroy(due, older) /\ UNCHANGED rpc
        BY <1>3 DEF TrashMaintain
  <2>2. due \subseteq heap
        BY DEF IInv, Ownership
  <2>3. older \in [Queues -> QueueRecord]
        BY <1>0 DEF QueueRecord
  <2>4. \A q \in Queues : older[q].frags = fq[q].frags
        BY <1>0 DEF QueueRecord
  <2>5. HeldMbufs(heap)' = HeldMbufs(heap) - HeldMbufs(due)
        BY <2>1, <2>2, <2>3, <2>4, DestroyFrees
  <2>6. HeldMbufs(due) \in Nat
        BY <1>0, <2>2, StoredIsFinite
  <2>7. mbufs' = mbufs - HeldMbufs(due)
        BY <2>1 DEF Destroy
  <2> QED
      BY <1>0, <2>1, <2>5, <2>6, <2>7 DEF MbufsAreAccounted, Carrying
<1>4. CASE Enqueue
  <2>0. rq \in Queues /\ rq \in heap /\ rfrag \in Wire /\ rpc = "enqueue"
        BY <1>4 DEF Enqueue, IInv, Locals, Ownership, Grace, Held, UsingSteps
  <2>1. CASE SameOffset(fq[rq].frags, rfrag)
    <3>1. HeldMbufs(heap)' = HeldMbufs(heap)
          BY <1>4, <2>1 DEF Enqueue, HeldMbufs, Stored
    <3> QED
        BY <1>0, <1>4, <2>0, <2>1, <3>1 DEF Enqueue, Leave, MbufsAreAccounted, Carrying
  <2>2. CASE ~SameOffset(fq[rq].frags, rfrag)
    <3>1. rfrag \notin fq[rq].frags
          BY <2>2 DEF SameOffset
    <3>2. /\ fq'[rq].frags = fq[rq].frags \cup {rfrag}
          /\ \A q \in Queues : q # rq => fq'[q].frags = fq[q].frags
          BY <1>0, <1>4, <2>0, <2>2 DEF Enqueue, QueueRecord
    <3>3. Stored(heap)' = Stored(heap) \cup {<<rq, rfrag>>}
          BY <1>0, <1>4, <2>0, <3>2 DEF Stored, Enqueue
    <3>4. <<rq, rfrag>> \notin Stored(heap)
          BY <3>1 DEF Stored
    <3>5. HeldMbufs(heap)' = HeldMbufs(heap) + 1
          BY <1>0, <3>3, <3>4, StoredIsFinite, FS_AddElement DEF HeldMbufs
    <3> QED
        BY <1>0, <1>4, <2>0, <2>2, <3>5 DEF Enqueue, MbufsAreAccounted, Carrying
  <2> QED
      BY <2>1, <2>2
<1>5. CASE ~Enqueue /\ ~Adopt /\ ~TrashMaintain /\ ~(\E q \in Queues : Alloc(q))
  <2>1. HeldMbufs(heap)' = HeldMbufs(heap)
        BY <1>5, FragsKept
  <2>2. mbufs' - mbufs = (IF rpc' \in Carrying THEN 1 ELSE 0) - n
        BY <1>0, <1>5 DEF Next, ReaderNext, Handle, MaintainerNext, Receive, ReceiveOther,
           Search, Deref, ReaderLock, Insert, ReaderUnlock, Admit, Count, SetFirst,
           SetLen, LoadFlags, StoreFlags, Judge, Return, FirstNode, Visit, Reassemble,
           Emit, LoadComplete, StoreComplete, CheckAge, StoreExpire, Decide, Recycle,
           MaintainerLock, EraseNode, NextNode, Tick, Leave, vars, memory, reader,
           Carrying
  <2>3. mbufs' \in Int
        BY <1>0, <1>5 DEF Next, ReaderNext, Handle, MaintainerNext, Receive, ReceiveOther,
           Search, Deref, ReaderLock, Insert, ReaderUnlock, Admit, Count, SetFirst,
           SetLen, LoadFlags, StoreFlags, Judge, Return, FirstNode, Visit, Reassemble,
           Emit, LoadComplete, StoreComplete, CheckAge, StoreExpire, Decide, Recycle,
           MaintainerLock, EraseNode, NextNode, Tick, vars, memory
  <2> QED
      BY <1>0, <2>1, <2>2, <2>3 DEF MbufsAreAccounted, Carrying
<1> QED
    BY <1>1, <1>2, <1>3, <1>4, <1>5

\* No step takes a queue's record out of its type.
LEMMA QueueTypeStep == IInv /\ [Next]_vars => fq' \in [Queues -> QueueRecord]
<1> SUFFICES ASSUME IInv, [Next]_vars PROVE fq' \in [Queues -> QueueRecord]
    OBVIOUS
<1>0. /\ fq \in [Queues -> QueueRecord]
      /\ \A q \in Queues : fq[q].meat \in Nat /\ fq[q].age \in Nat
                        /\ fq[q].erase \in Nat /\ fq[q].flags \subseteq Bits
                        /\ fq[q].frags \subseteq Wire
      /\ rreg \subseteq Bits /\ wreg \subseteq Bits
      BY DEF IInv, TypeOK, QueueRecord
<1>1. Blank \in QueueRecord
      BY DEF Blank, QueueRecord
<1>2. ASSUME NEW f \in Wire
      PROVE  f.key \in Nat /\ f.plen \in Nat /\ End(f) \in Nat
  <2>1. f \in Fragment
        BY <1>2, WireAssumption
  <2>2. f.key \in Nat /\ f.plen \in Lengths /\ f.off \in Offsets
        BY <2>1 DEF Fragment
  <2>3. Lengths \subseteq Nat /\ Offsets \subseteq Nat
        BY DEF Lengths, Offsets
  <2>4. f.plen \in Nat /\ f.off \in Nat
        BY <2>2, <2>3
  <2> QED
      BY <2>2, <2>4 DEF End
<1>3. ASSUME NEW q \in Queues, Alloc(q) PROVE fq' \in [Queues -> QueueRecord]
  <2>1. rfrag \in Wire
        BY <1>3 DEF Alloc, IInv, Locals
  <2>2. [Blank EXCEPT !.key = rfrag.key] \in QueueRecord
        BY <1>1, <1>2, <2>1 DEF QueueRecord
  <2> QED
      BY <1>0, <1>3, <2>2 DEF Alloc
<1>4. CASE Adopt
      BY <1>0, <1>1, <1>4 DEF Adopt, Destroy, memory
<1>5. CASE Filling
  <2>1. rfrag \in Wire /\ rq \in Queues
        BY <1>5 DEF IInv, Locals, UsingSteps, Filling, Enqueue, Count, SetFirst,
           SetLen, LoadFlags, StoreFlags, Judge, Return
  <2>2. CASE Enqueue
        BY <1>0, <2>1, <2>2 DEF Enqueue, QueueRecord
  <2>3. CASE Count
        BY <1>0, <1>2, <2>1, <2>3 DEF Count, QueueRecord
  <2>4. CASE SetFirst
        BY <1>0, <2>1, <2>4 DEF SetFirst, QueueRecord
  <2>5. CASE SetLen
        BY <1>0, <1>2, <2>1, <2>5 DEF SetLen, QueueRecord
  <2>6. CASE StoreFlags
        BY <1>0, <2>1, <2>6 DEF StoreFlags, QueueRecord, MarkBit, SealBit, Bits
  <2>7. CASE LoadFlags \/ Judge \/ Return
        BY <1>0, <2>7 DEF LoadFlags, Judge, Return, memory
  <2> QED
      BY <1>5, <2>2, <2>3, <2>4, <2>5, <2>6, <2>7 DEF Filling
<1>6. CASE TrashMaintain
      BY <1>0, <1>1, <1>6 DEF TrashMaintain, Destroy, QueueRecord
<1>7. CASE StoreComplete \/ StoreExpire
      BY <1>0, <1>7 DEF StoreComplete, StoreExpire, QueueRecord
<1>8. CASE Tick
      BY <1>0, <1>8 DEF Tick, QueueRecord
<1>9. CASE UNCHANGED fq
      BY <1>0, <1>9
<1> QED
    BY <1>3, <1>4, <1>5, <1>6, <1>7, <1>8, <1>9
       DEF Next, ReaderNext, Handle, MaintainerNext, Receive, ReceiveOther,
           Search, Deref, ReaderLock, Insert, ReaderUnlock, Admit, Filling,
           FirstNode, Visit, Reassemble, Emit, LoadComplete, CheckAge, Decide, Recycle,
           MaintainerLock, EraseNode, NextNode, vars, memory

\* No step takes a variable out of its type; the count of mbufs stays a natural
\* number because no more are freed than are accounted for.
LEMMA TypeStep == IInv /\ [Next]_vars => TypeOK'
<1> SUFFICES ASSUME IInv, [Next]_vars PROVE TypeOK'
    OBVIOUS
<1>1. fq' \in [Queues -> QueueRecord]
      BY QueueTypeStep
<1>2. TypeOK /\ Locals /\ Ownership /\ \A q \in Queues : fq[q].flags \subseteq Bits
      BY DEF IInv, TypeOK, QueueRecord
<1>3. heap' \subseteq Queues /\ tree' \subseteq Queues /\ trash' \subseteq Queues
  <2>1. heap' \subseteq Queues
        BY <1>2 DEF TypeOK, Next, ReaderNext, Handle, MaintainerNext, Receive,
         ReceiveOther, Search, Deref, Alloc, ReaderLock, Insert, ReaderUnlock, Adopt,
         Destroy, Admit, Enqueue, Count, SetFirst, SetLen, LoadFlags, StoreFlags, Judge,
         Return, TrashMaintain, FirstNode, Visit, Reassemble, Emit, LoadComplete,
         StoreComplete, CheckAge, StoreExpire, Decide, Recycle, MaintainerLock,
         EraseNode, NextNode, Tick, vars, memory
  <2>2. Ownership'
        BY OwnershipStep
  <2> QED
      BY <2>1, <2>2 DEF Ownership
<1>4. mbufs' \in Nat
  <2>1. MbufsAreAccounted' /\ HeldMbufs(heap)' \in Nat
    <3>1. IsFiniteSet(heap' \X Wire)
          BY <1>3, FinitenessAssumption, FS_Subset, FS_Product
    <3>2. Stored(heap)' \in SUBSET (heap' \X Wire)
          BY DEF Stored
    <3> QED
        BY <3>1, <3>2, MbufsStep, FS_Subset, FS_CardinalityType DEF HeldMbufs
  <2> QED
      BY <2>1 DEF MbufsAreAccounted
<1>5. CASE ReaderNext
  <2>1. /\ rpc' \in ReaderSteps /\ rfrag' \in Wire \cup {None}
        /\ rnode' \in Queues \cup {None} /\ rq' \in Queues \cup {None}
        /\ rtodo' \subseteq {"first", "len", "bit"} /\ rreg' \subseteq Bits
        BY <1>2, <1>5 DEF ReaderNext, Handle, Receive, ReceiveOther, Search, Found,
           Deref, Alloc, ReaderLock, Insert, Collision, ReaderUnlock, Adopt, Admit,
           Enqueue, Count, SetFirst, SetLen, LoadFlags, StoreFlags, Judge, Return,
           Leave, rlocals, TypeOK, Locals, ReaderSteps, UsingSteps
  <2>2. rlag' \in 0..MaxLag /\ left' \in 0..MaxRecv
        BY <1>2, <1>5, BoundsAssumption DEF ReaderNext, Handle, Receive, ReceiveOther,
           Search, Deref, Alloc, ReaderLock, Insert, ReaderUnlock, Adopt, Admit,
           Enqueue, Count, SetFirst, SetLen, LoadFlags, StoreFlags, Judge, Return,
           Leave, TypeOK
  <2>3. /\ lock' \in {"free", "reader", "maintainer"} /\ relinking' \in BOOLEAN
        /\ wpc' \in MaintainerSteps /\ wq' \in Queues \cup {None}
        /\ wreg' \subseteq Bits /\ sent' \subseteq Queues
        BY <1>2, <1>5 DEF ReaderNext, Handle, Receive, ReceiveOther, Search,
           Deref, Alloc, ReaderLock, Insert, ReaderUnlock, Adopt, Destroy, Admit,
           Enqueue, Count, SetFirst, SetLen, LoadFlags, StoreFlags, Judge, Return,
           trees, writer, TypeOK
  <2> QED
      BY <1>1, <1>3, <1>4, <2>1, <2>2, <2>3 DEF TypeOK
<1>6. CASE MaintainerNext
  <2>1. /\ rpc' \in ReaderSteps /\ rfrag' \in Wire \cup {None}
        /\ rnode' \in Queues \cup {None} /\ rq' \in Queues \cup {None}
        /\ rtodo' \subseteq {"first", "len", "bit"} /\ rreg' \subseteq Bits
        /\ left' \in 0..MaxRecv
        BY <1>2, <1>6 DEF MaintainerNext, TrashMaintain, FirstNode, Visit, Reassemble,
           Emit, LoadComplete, StoreComplete, CheckAge, StoreExpire, Decide, Recycle,
           MaintainerLock, EraseNode, NextNode, reader, rlocals, TypeOK
  <2>2. rlag' \in 0..MaxLag
        BY <1>2, <1>6, BoundsAssumption DEF MaintainerNext, TrashMaintain, LagAllows,
           FirstNode, Visit, Reassemble, Emit, LoadComplete, StoreComplete, CheckAge,
           StoreExpire, Decide, Recycle, MaintainerLock, EraseNode, NextNode, reader,
           TypeOK
  <2>3. /\ lock' \in {"free", "reader", "maintainer"} /\ relinking' \in BOOLEAN
        /\ wpc' \in MaintainerSteps /\ wq' \in Queues \cup {None}
        BY <1>2, <1>6 DEF MaintainerNext, TrashMaintain, FirstNode, Visit,
           Reassemble, Emit, LoadComplete, StoreComplete, CheckAge, StoreExpire, Decide,
           Recycle, MaintainerLock, EraseNode, NextNode, Walk, GoTo, Least, Following,
           trees, TypeOK, MaintainerSteps
  <2>4. /\ wreg' \subseteq Bits /\ sent' \subseteq Queues
    <3>1. wpc \in VisitSteps => wq \in Queues
          BY <1>2 DEF TypeOK, Ownership
    <3>2. CASE LoadComplete \/ CheckAge
          BY <1>2, <3>1, <3>2 DEF LoadComplete, CheckAge, TypeOK, Bits, VisitSteps,
             MaintainerSteps
    <3>3. CASE ~LoadComplete /\ ~CheckAge
          BY <1>2, <1>6, <3>1, <3>3 DEF MaintainerNext, TrashMaintain, Destroy,
             FirstNode, Visit, Reassemble, Emit, StoreComplete, StoreExpire, Decide,
             Recycle, MaintainerLock, EraseNode, NextNode, Walk, GoTo, TypeOK,
             VisitSteps, MaintainerSteps
    <3> QED
        BY <3>2, <3>3
  <2> QED
      BY <1>1, <1>3, <1>4, <2>1, <2>2, <2>3, <2>4 DEF TypeOK
<1>7. CASE Tick \/ UNCHANGED vars
      BY <1>1, <1>2, <1>3, <1>4, <1>7 DEF Tick, vars, trees, reader, rlocals, writer, TypeOK
<1> QED
    BY <1>5, <1>6, <1>7 DEF Next

-----------------------------------------------------------------------------
\* The inductive invariant holds before either thread has run.
LEMMA InitIInv == Init => IInv
<1> SUFFICES ASSUME Init PROVE IInv
    OBVIOUS
<1> USE DEF Init
<1>1. TypeOK
  <2>1. Blank \in QueueRecord
        BY DEF Blank, QueueRecord
  <2>2. fq \in [Queues -> QueueRecord]
        BY <2>1
  <2>3. rlag \in 0..MaxLag /\ left \in 0..MaxRecv
        BY BoundsAssumption
  <2> QED
      BY <2>2, <2>3 DEF TypeOK, ReaderSteps, MaintainerSteps
<1>2. Locals /\ Ownership /\ OneQueuePerKey /\ Keyed /\ PrivateIsEmpty
      BY DEF Locals, Ownership, OneQueuePerKey, Keyed, PrivateIsEmpty, PrivateQueue,
         UsingSteps, VisitSteps, MaintainerSteps
<1>3. Grace
      BY DEF Grace, Held, UsingSteps, Blank
<1>4. MbufsAreAccounted
      BY FS_EmptySet DEF MbufsAreAccounted, HeldMbufs, Stored
<1> QED
    BY <1>1, <1>2, <1>3, <1>4 DEF IInv

\* IInv is an inductive invariant of both threads.
THEOREM Invariance == Spec => []IInv
<1>1. IInv /\ [Next]_vars => IInv'
      BY TypeStep, LocalsStep, OwnershipStep, GraceStep, KeyedStep, MbufsStep,
         EmptyStep DEF IInv
<1> QED
    BY InitIInv, <1>1, PTL DEF Spec

\* Every variable of the two threads keeps its type; in particular no mbuf is
\* freed that was not allocated.
THEOREM TypeCorrect == Spec => []TypeOK
<1>1. IInv => TypeOK
      BY DEF IInv
<1> QED
    BY Invariance, <1>1, PTL

\* ipv4_handler never works on a queue that ipv4_fragment_trash_maintain has
\* freed, provided a call overlaps fewer passes than the trash waits.
THEOREM GraceSuffices == Spec => []HeldQueueIsAllocated
<1>1. IInv => HeldQueueIsAllocated
      BY DEF IInv, Grace, Held, Ownership, HeldQueueIsAllocated, UsingQueue, UsingSteps
<1> QED
    BY Invariance, <1>1, PTL

\* frag_queue_find never links a second queue for a datagram into the set tree,
\* although its search takes no lock.
THEOREM FindIsUnique == Spec => []OneQueuePerKey
<1>1. IInv => OneQueuePerKey
      BY DEF IInv
<1> QED
    BY Invariance, <1>1, PTL

\* No frag_queue_t is leaked, freed twice or recycled twice.
THEOREM QueuesAreOwned == Spec => []QueuesAreReachable
<1>1. IInv => QueuesAreReachable
      BY DEF IInv, Ownership, QueuesAreReachable
<1> QED
    BY Invariance, <1>1, PTL

\* No rte_mbuf_t of a received frame is leaked or freed twice.
THEOREM MbufsAreOwned == Spec => []MbufsAreAccounted
<1>1. IInv => MbufsAreAccounted
      BY DEF IInv
<1> QED
    BY Invariance, <1>1, PTL
-----------------------------------------------------------------------------
(***************************************************************************)
(* What the flags of a queue say about its contents.  Both threads update  *)
(* fqueue->flags by a load and a store, so each may take back a bit of the *)
(* other; FlagInv says which bits can be lost, and when that matters.      *)
(***************************************************************************)
ReaderBits == {"FIRST_IN", "LAST_IN", "FULL"}

NotingSteps == {"mark", "markstore", "seal", "sealstore"}

\* The reader has counted its fragment and is noting that in q.
Noting(q) == rq = q /\ rpc \in NotingSteps

\* It has still to store the named field or bit.
Marking(q, what) == rq = q /\ rpc \in {"mark", "markstore"} /\ what \in rtodo

Pending(q) == Marking(q, "bit") \/ (rq = q /\ rpc = "count")

\* The reader is between the load and the store of the flags.
Storing == rpc \in {"markstore", "sealstore"}

HasFirst(q) == \E f \in fq[q].frags : IsFirst(f)

HasLast(q) == \E f \in fq[q].frags : IsLast(f)

\* More bytes were counted than the datagram has, or it is too long: such a
\* queue is never written out.
Overfull(q) == fq[q].len # 0 /\ fq[q].meat > fq[q].len

Hopeless(q) == fq[q].len # 0 /\ (fq[q].meat > fq[q].len \/ fq[q].len > MaxLen)

\* Every flag of fl, a value the flags of q have or had, is true of q.
Grounded(q, fl) ==
  /\ "FIRST_IN" \in fl => /\ HasFirst(q)
                          /\ fq[q].first \in fq[q].frags \/ Marking(q, "first")
  /\ "LAST_IN" \in fl => HasLast(q)
  /\ "FULL" \in fl => /\ fq[q].len # 0 /\ fq[q].meat >= fq[q].len
                      /\ Noting(q) => fq[q].meat >= fq[q].len + rfrag.plen
  /\ "ERROR" \in fl => Overfull(q)
  /\ "COMPLETE" \in fl => q \in sent \/ Hopeless(q)
  /\ "EXPIRE" \in fl => Expired(q)

\* And fl lacks none, but for those the reader is about to add; EXPIRE may have
\* overwritten some, which does no harm since the queue is discarded then.
Complete(q, fl) ==
  "EXPIRE" \notin fl =>
    /\ HasFirst(q) => "FIRST_IN" \in fl \/ (Pending(q) /\ IsFirst(rfrag))
    /\ HasLast(q) => "LAST_IN" \in fl \/ (Pending(q) /\ IsLast(rfrag))
    /\ "FULL" \in fl => "LAST_IN" \in fl
    /\ fq[q].len # 0 /\ fq[q].meat = fq[q].len => "FULL" \in fl \/ Noting(q)
    /\ Noting(q) /\ ~IsFirst(rfrag) => ~DoReassembly(fl)

FlagsAreTrue ==
  \A q \in Queues : Grounded(q, fq[q].flags) /\ Complete(q, fq[q].flags)

\* The reader's register holds every bit of its own that memory has.
ReaderRegister ==
  Storing =>
    /\ Grounded(rq, rreg) /\ Complete(rq, rreg)
    /\ fq[rq].flags \cap ReaderBits \subseteq rreg
    /\ "EXPIRE" \in rreg => "EXPIRE" \in fq[rq].flags

\* The maintainer's register holds no bit of the reader's that memory lacks.
WriterRegister ==
  /\ wpc \in {"completestore", "expire", "decide"} => Grounded(wq, wreg)
  /\ wpc \in {"completestore", "expire"} =>
       wreg \cap ReaderBits \subseteq fq[wq].flags
  /\ wpc = "completestore" => DoReassembly(wreg) /\ "EXPIRE" \notin wreg
  /\ wpc = "expire" => "EXPIRE" \in wreg

\* A queue of the tree shows EXPIRE only in the visit that discards it.
Expiring ==
  \A q \in tree :
    "EXPIRE" \in fq[q].flags =>
      /\ wq = q /\ wpc \in {"decide", "recycle", "lock", "erase"}
      /\ wpc = "decide" => "EXPIRE" \in wreg

\* The queue the reader holds is the one of its fragment.
HeldHasKey == \A q \in Held : fq[q].key = rfrag.key

\* The length of a datagram is where a last fragment ends.
LengthIsEnd ==
  \A q \in Queues :
    fq[q].len # 0 => \E f \in fq[q].frags :
                       IsLast(f) /\ f.key = fq[q].key /\ End(f) = fq[q].len

\* What the reader has left to do fits its fragment.
TodoFits ==
  /\ rpc \in {"count"} \cup NotingSteps => rfrag \in fq[rq].frags
  /\ rpc \in {"mark", "markstore"} =>
       /\ "bit" \in rtodo => IsFirst(rfrag) \/ IsLast(rfrag)
       /\ "first" \in rtodo => IsFirst(rfrag)
       /\ "len" \in rtodo => IsLast(rfrag)
       /\ IsFirst(rfrag) => fq[rq].first \in fq[rq].frags \/ "first" \in rtodo
  /\ rpc = "markstore" => "bit" \in rtodo
  /\ rpc \in {"seal", "sealstore"} => Counted(rq)

\* The reader has just linked its queue into the tree.
Linked == rpc = "unlock" /\ rnode = None

\* The reader adds no fragment to a queue that is due for reassembly, and a queue
\* it has just linked is not.
AdmittedIsNotDue ==
  rpc \in {"enqueue", "count"} \/ Linked => ~DoReassembly(fq[rq].flags)

\* What the maintainer knows of the queue it visits.
Judged ==
  /\ wpc \in {"assemble", "emit", "complete", "completestore"}
       => DoReassembly(fq[wq].flags)
  /\ wpc \in {"complete", "completestore"} => wq \in sent \/ Hopeless(wq)
  /\ wpc = "recycle" => wq \in sent \/ Hopeless(wq) \/ Expired(wq)

PrivateIsBlank ==
  \A q \in PrivateQueue : fq[q].flags = {} /\ fq[q].len = 0

FlagInv ==
  /\ FlagsAreTrue /\ ReaderRegister /\ WriterRegister /\ Expiring
  /\ HeldHasKey /\ LengthIsEnd /\ TodoFits /\ AdmittedIsNotDue /\ Judged
  /\ PrivateIsBlank

-----------------------------------------------------------------------------
\* The types the arithmetic below needs.
LEMMA WireTypes ==
  \A f \in Wire : f.plen \in Nat /\ f.off \in Nat /\ f.key \in Nat /\ End(f) \in Nat
<1> SUFFICES ASSUME NEW f \in Wire
             PROVE  f.plen \in Nat /\ f.off \in Nat /\ f.key \in Nat /\ End(f) \in Nat
    OBVIOUS
<1>1. f \in Fragment
      BY WireAssumption
<1>2. f.key \in Nat /\ f.plen \in Lengths /\ f.off \in Offsets
      BY <1>1 DEF Fragment
<1>3. Lengths \subseteq Nat /\ Offsets \subseteq Nat
      BY DEF Lengths, Offsets
<1>4. f.plen \in Nat /\ f.off \in Nat
      BY <1>2, <1>3
<1> QED
    BY <1>2, <1>4 DEF End

LEMMA QueueTypes ==
  ASSUME IInv
  PROVE  /\ \A q \in Queues :
              /\ fq[q].frags \subseteq Wire /\ fq[q].len \in Nat
              /\ fq[q].meat \in Nat /\ fq[q].age \in Nat /\ fq[q].key \in Nat
         /\ rpc # "idle" => rfrag \in Wire
         /\ rpc \in UsingSteps => rq \in Queues
         /\ wpc \in VisitSteps => wq \in Queues /\ wq \in tree
<1>1. \A q \in Queues :
        /\ fq[q].frags \subseteq Wire /\ fq[q].len \in Nat
        /\ fq[q].meat \in Nat /\ fq[q].age \in Nat /\ fq[q].key \in Nat
      BY DEF IInv, TypeOK, QueueRecord
<1> QED
    BY <1>1 DEF IInv, TypeOK, Locals, Ownership

\* Two last fragments of a datagram end at the same place.
LEMMA LastsAgree ==
  ASSUME NEW f \in Wire, NEW g \in Wire, f.key = g.key, IsLast(f), IsLast(g)
  PROVE  End(f) = End(g)
<1>1. End(f) <= End(g) /\ End(g) <= End(f)
      BY WireAssumption DEF IsLast
<1> QED
    BY <1>1, WireTypes

\* A first fragment is not a last one.
LEMMA FirstIsNotLast == \A f \in Wire : IsFirst(f) => ~IsLast(f)
BY WireAssumption DEF IsFirst, IsLast

\* The step leaves q's contents alone, apart from its flags and its counters.
Keeps(q) ==
  /\ fq'[q].key = fq[q].key /\ fq'[q].frags = fq[q].frags
  /\ fq'[q].first = fq[q].first /\ fq'[q].len = fq[q].len
  /\ fq'[q].meat = fq[q].meat
  /\ Expired(q) => Expired(q)'
  /\ q \in sent => q \in sent'

\* The reader stands where it stood, as far as it notes something in q.
ReaderKeeps(q) ==
  \/ UNCHANGED <<rpc, rq, rfrag, rtodo>>
  \/ /\ ~(rq = q /\ rpc \in {"count"} \cup NotingSteps)
     /\ ~(rq' = q /\ rpc' \in {"count"} \cup NotingSteps)

Steady(q) == Keeps(q) /\ fq'[q].flags = fq[q].flags /\ ReaderKeeps(q)

\* The step leaves q blank, and the reader not at work on it.
Fresh(q) ==
  /\ fq'[q].frags = {} /\ fq'[q].flags = {} /\ fq'[q].len = 0 /\ fq'[q].meat = 0
  /\ q \notin Held'
  /\ ~(rq' = q /\ rpc' \in {"count"} \cup NotingSteps)

\* What the maintainer's and the clock's steps do to a queue.
LEMMA MaintainerFootprint ==
  ASSUME IInv, MaintainerNext \/ Tick \/ UNCHANGED vars, NEW q \in Queues
  PROVE  \/ Steady(q)
         \/ Fresh(q) /\ q \notin tree' /\ q \notin Held
         \/ wq = q /\ (StoreComplete \/ StoreExpire) /\ Keeps(q) /\ fq'[q].flags = wreg
            /\ ReaderKeeps(q)
<1> USE QueueTypes, BoundsAssumption DEF Steady, Keeps, ReaderKeeps, Expired
<1>0. fq \in [Queues -> QueueRecord]
      BY DEF IInv, TypeOK
<1>1. CASE UNCHANGED <<fq, sent, reader>>
      BY <1>1 DEF reader, rlocals
<1>2. CASE Emit
      BY <1>2 DEF Emit, memory, reader, rlocals
<1>3. CASE StoreComplete \/ StoreExpire
      BY <1>0, <1>3 DEF StoreComplete, StoreExpire, reader, rlocals, QueueRecord
<1>4. CASE TrashMaintain
  <2>1. UNCHANGED <<rpc, rlocals, tree>>
        BY <1>4 DEF TrashMaintain
  <2> DEFINE due == {p \in trash : EraseDue(fq[p].erase + 1)}
  <2>2. /\ fq' = [p \in Queues |->
                   IF p \in due THEN Blank
                   ELSE IF p \in trash THEN [fq[p] EXCEPT !.erase = @ + 1] ELSE fq[p]]
        /\ sent' = sent \ due /\ trash' = trash \ due
        BY <1>4 DEF TrashMaintain, Destroy
  <2>3. CASE q \in due
    <3>1. q \notin tree
          BY <1>4, <2>3 DEF TrashMaintain, IInv, Ownership
    <3>2. q \notin Held
          BY <1>4, <2>1, <2>2, <2>3, <3>1, TrashSparesHeld DEF IInv
    <3>3. q \notin Held' /\ ~(rq' = q /\ rpc' \in {"count"} \cup NotingSteps)
          BY <2>1, <3>2 DEF Held, rlocals, UsingSteps, NotingSteps
    <3> QED
        BY <2>1, <2>2, <2>3, <3>1, <3>2, <3>3 DEF Fresh, Blank
  <2>4. CASE q \notin due
        BY <1>0, <2>1, <2>2, <2>4 DEF QueueRecord, rlocals
  <2> QED
      BY <2>3, <2>4
<1>5. CASE Tick
      BY <1>0, <1>5 DEF Tick, QueueRecord, reader, rlocals, writer
<1> QED
    BY <1>1, <1>2, <1>3, <1>4, <1>5 DEF MaintainerNext, FirstNode, Visit, Reassemble,
       LoadComplete, CheckAge, Decide, Recycle, MaintainerLock, EraseNode, NextNode,
       memory, vars, writer

\* The reader's steps that touch no queue but a private one.
Finding ==
  (\E f \in Wire : Receive(f)) \/ ReceiveOther \/ Search \/ Deref
  \/ (\E q \in Queues : Alloc(q)) \/ ReaderLock \/ Insert \/ ReaderUnlock \/ Adopt
  \/ Admit

\* What the reader's steps do to a queue, until it adds its fragment.
LEMMA FindingFootprint ==
  ASSUME IInv, Finding, NEW q \in Queues
  PROVE  Steady(q) \/ (Fresh(q) /\ q \notin tree')
<1> USE DEF Steady, Keeps, ReaderKeeps, NotingSteps, Expired
<1>0. fq \in [Queues -> QueueRecord] /\ fq[q].age \in Nat
      BY DEF IInv, TypeOK, QueueRecord
<1>1. CASE UNCHANGED <<fq, sent>>
      BY <1>0, <1>1 DEF Finding, Receive, ReceiveOther, Search, Deref, Alloc, ReaderLock,
         Insert, ReaderUnlock, Adopt, Admit, Leave, rlocals
<1>2. ASSUME NEW p \in Queues, Alloc(p) PROVE Steady(q) \/ (Fresh(q) /\ q \notin tree')
  <2>1. CASE q = p
    <3>1. fq'[q] = [Blank EXCEPT !.key = rfrag.key]
          BY <1>0, <1>2, <2>1 DEF Alloc
    <3>2. q \notin tree'
          BY <1>2, <2>1 DEF Alloc, IInv, Ownership, trees
    <3>3. q \notin Held'
          BY <1>2 DEF Alloc, Held, UsingSteps
    <3> QED
        BY <1>2, <3>1, <3>2, <3>3 DEF Fresh, Blank, Alloc
  <2>2. CASE q # p
        BY <1>0, <1>2, <2>2 DEF Alloc, writer
  <2> QED
      BY <2>1, <2>2
<1>3. CASE Adopt /\ Destroy({rq}, fq)
  <2>1. CASE q = rq
    <3>1. q \notin tree /\ q # rnode
          BY <1>3, <2>1 DEF Adopt, IInv, Ownership, PrivateQueue, Grace, Held
    <3>2. (rq' = rnode /\ rpc' = "admit") \/ (rpc' = "wild" /\ rnode' = rnode)
          BY <1>3 DEF Adopt
    <3>3. fq'[q] = Blank
          BY <1>3, <2>1 DEF Destroy
    <3> QED
        BY <1>3, <3>1, <3>2, <3>3 DEF Fresh, Blank, Held, UsingSteps, Adopt, trees
  <2>2. CASE q # rq
        BY <1>0, <1>3, <2>2 DEF Adopt, Destroy
  <2> QED
      BY <2>1, <2>2
<1> QED
    BY <1>1, <1>2, <1>3 DEF Finding, Receive, ReceiveOther, Search, Deref, ReaderLock,
       Insert, ReaderUnlock, Adopt, Admit, memory, writer

\* What the reader's steps leave alone once it adds its fragment.
LEMMA FillingFootprint ==
  ASSUME IInv, Filling, NEW q \in Queues
  PROVE  /\ rpc \in UsingSteps /\ UNCHANGED <<sent, tree, wpc, wq, wreg>>
         /\ q # rq => Steady(q)
         /\ fq'[q].key = fq[q].key /\ fq'[q].age = fq[q].age
<1>0. fq \in [Queues -> QueueRecord] /\ fq[q].age \in Nat
      BY DEF IInv, TypeOK, QueueRecord
<1>1. rpc \in UsingSteps /\ UNCHANGED <<sent, tree, wpc, wq, wreg>>
      BY DEF Filling, Enqueue, Count, SetFirst, SetLen, LoadFlags, StoreFlags, Judge,
         Return, UsingSteps, trees, writer
<1>2. fq'[q].key = fq[q].key /\ fq'[q].age = fq[q].age
      BY <1>0 DEF Filling, Enqueue, Count, SetFirst, SetLen, LoadFlags, StoreFlags, Judge,
         Return, memory, QueueRecord
<1>3. ASSUME q # rq PROVE Steady(q)
  <2>1. fq'[q] = fq[q]
        BY <1>0, <1>3 DEF Filling, Enqueue, Count, SetFirst, SetLen, LoadFlags,
           StoreFlags, Judge, Return, memory
  <2>2. rq' = rq \/ rpc' = "idle"
        BY DEF Filling, Enqueue, Count, SetFirst, SetLen, LoadFlags,
           StoreFlags, Judge, Return, Leave, rlocals
  <2> QED
      BY <1>0, <1>1, <1>3, <2>1, <2>2 DEF Steady, Keeps, ReaderKeeps, NotingSteps, Expired
<1> QED
    BY <1>1, <1>2, <1>3

-----------------------------------------------------------------------------
\* What was true of a queue stays true while nobody adds to it.
LEMMA KeptIsGrounded ==
  ASSUME IInv, NEW q \in Queues, NEW fl, Keeps(q), ReaderKeeps(q)
  PROVE  /\ Grounded(q, fl) => Grounded(q, fl)'
         /\ Complete(q, fl) => Complete(q, fl)'
<1> USE DEF Keeps, ReaderKeeps, HasFirst, HasLast, Noting, NotingSteps, Marking, Pending
<1>1. ASSUME Grounded(q, fl) PROVE Grounded(q, fl)'
      BY <1>1 DEF Grounded, Overfull, Hopeless
<1>2. ASSUME Complete(q, fl) PROVE Complete(q, fl)'
      BY <1>2 DEF Complete
<1> QED
    BY <1>1, <1>2

LEMMA FreshIsTrue ==
  ASSUME NEW q \in Queues, Fresh(q)
  PROVE  Grounded(q, fq[q].flags)' /\ Complete(q, fq[q].flags)'
BY DEF Fresh, Grounded, Complete, HasFirst, HasLast, Noting, DoReassembly

\* A flag that was true of a queue stays true while the reader adds to it: its
\* length is set once, and its bytes only grow.
LEMMA FillingIsGrounded ==
  ASSUME IInv, FlagInv, Filling, NEW q \in Queues, NEW fl, q = rq, Grounded(q, fl)
  PROVE  Grounded(q, fl)'
<1>0. /\ rfrag \in Wire /\ rfrag.plen \in Nat /\ rpc \in UsingSteps
      /\ fq \in [Queues -> QueueRecord]
      /\ fq[q].frags \subseteq Wire /\ fq[q].len \in Nat /\ fq[q].meat \in Nat
  <2>1. rpc \in UsingSteps /\ rpc # "idle"
        BY FillingFootprint DEF UsingSteps
  <2> QED
      BY <2>1, QueueTypes, WireTypes DEF IInv, TypeOK
<1> USE <1>0 DEF Grounded, HasFirst, HasLast, Noting, NotingSteps, Marking, Overfull,
                 Hopeless, Expired, QueueRecord
<1>2. CASE LoadFlags
      BY <1>2 DEF LoadFlags, memory, writer
<1>3. CASE Judge
      BY <1>3 DEF Judge, memory, writer
<1>4. CASE Return
      BY <1>4, NoneAssumption DEF Return, Leave, memory, writer
<1>5. CASE Enqueue
  <2>1. CASE UNCHANGED fq
        BY <1>5, <2>1, NoneAssumption DEF Enqueue, Leave, writer
  <2>2. CASE fq' = [fq EXCEPT ![rq].frags = @ \cup {rfrag}]
             /\ rpc' = "count" /\ UNCHANGED rlocals
    <3>1. /\ fq[q].frags \subseteq fq'[q].frags /\ fq'[q].first = fq[q].first
          /\ fq'[q].len = fq[q].len /\ fq'[q].meat = fq[q].meat
          /\ fq'[q].age = fq[q].age
          BY <2>2
    <3>2. rpc = "enqueue" /\ rpc' \notin NotingSteps /\ UNCHANGED <<rq, sent>>
          BY <1>5, <2>2 DEF Enqueue, writer, rlocals
    <3> QED
        BY <3>1, <3>2
  <2> QED
      BY <1>5, <2>1, <2>2 DEF Enqueue
<1>6. CASE Count
      BY <1>6 DEF Count, writer
<1>7. CASE SetFirst
  <2>1. rfrag \in fq[q].frags
        BY <1>7 DEF FlagInv, TodoFits, SetFirst
  <2> QED
      BY <1>7, <2>1 DEF SetFirst, writer
<1>8. CASE SetLen
  <2>1. fq[q].len # 0 => fq[q].len = End(rfrag)
    <3>1. IsLast(rfrag) /\ rfrag.key = fq[q].key
          BY <1>8 DEF FlagInv, TodoFits, HeldHasKey, Held, UsingSteps, SetLen
    <3>2. SUFFICES ASSUME NEW f \in fq[q].frags, IsLast(f), f.key = fq[q].key,
                          End(f) = fq[q].len
                   PROVE  fq[q].len = End(rfrag)
          BY DEF FlagInv, LengthIsEnd
    <3> QED
        BY <3>1, <3>2, LastsAgree
  <2> QED
      BY <1>8, <2>1 DEF SetLen, writer
<1>9. CASE StoreFlags
      BY <1>9 DEF StoreFlags, writer
<1> QED
    BY <1>2, <1>3, <1>4, <1>5, <1>6, <1>7, <1>8, <1>9 DEF Filling

\* Until the reader stores the flags, they lack what its fragment is about to add.
LEMMA FillingIsComplete ==
  ASSUME IInv, FlagInv, Filling, ~StoreFlags, NEW q \in Queues, q = rq,
         Complete(q, fq[q].flags)
  PROVE  fq'[q].flags = fq[q].flags /\ Complete(q, fq[q].flags)'
<1>0. /\ fq \in [Queues -> QueueRecord] /\ fq[q].len \in Nat /\ fq[q].meat \in Nat
      BY QueueTypes DEF IInv, TypeOK
<1> USE <1>0 DEF Complete, HasFirst, HasLast, Noting, NotingSteps, Marking, Pending,
                 QueueRecord
<1>1. CASE LoadFlags
      BY <1>1 DEF LoadFlags, memory
<1>2. CASE Judge
      BY <1>2 DEF Judge, Counted, memory
<1>3. CASE Return
      BY <1>3, NoneAssumption DEF Return, Leave, memory
<1>4. CASE Enqueue
  <2>1. CASE UNCHANGED fq /\ Leave
        BY <1>4, <2>1, NoneAssumption DEF Enqueue, Leave
  <2>2. CASE fq' = [fq EXCEPT ![rq].frags = @ \cup {rfrag}]
             /\ rpc' = "count" /\ UNCHANGED rlocals
    <3>1. /\ fq'[q].frags = fq[q].frags \cup {rfrag} /\ fq'[q].flags = fq[q].flags
          /\ fq'[q].len = fq[q].len /\ fq'[q].meat = fq[q].meat
          BY <2>2
    <3>2. rpc = "enqueue" /\ UNCHANGED <<rq, rfrag>>
          BY <1>4, <2>2 DEF Enqueue, rlocals
    <3> QED
        BY <2>2, <3>1, <3>2
  <2> QED
      BY <1>4, <2>1, <2>2 DEF Enqueue, rlocals
<1>5. CASE Count
  <2>1. ~DoReassembly(fq[q].flags)
        BY <1>5 DEF Count, FlagInv, AdmittedIsNotDue
  <2>2. /\ fq'[q].frags = fq[q].frags /\ fq'[q].flags = fq[q].flags
        /\ fq'[q].len = fq[q].len
        BY <1>5 DEF Count
  <2>3. /\ IsFirst(rfrag) \/ IsLast(rfrag) => "bit" \in rtodo'
        /\ rpc = "count" /\ rpc' = "mark" /\ UNCHANGED <<rq, rfrag>>
        BY <1>5 DEF Count
  <2> QED
      BY <2>1, <2>2, <2>3
<1>6. CASE SetFirst
      BY <1>6 DEF SetFirst
<1>7. CASE SetLen
      BY <1>7 DEF SetLen
<1> QED
    BY <1>1, <1>2, <1>3, <1>4, <1>5, <1>6, <1>7 DEF Filling

\* The bit the reader stores is true, and restores any of its own that memory lost.
LEMMA StoringIsTrue ==
  ASSUME IInv, FlagInv, StoreFlags, NEW q \in Queues, q = rq
  PROVE  Grounded(q, fq[q].flags)' /\ Complete(q, fq[q].flags)'
<1> SUFFICES ASSUME NEW fl, fl = rreg
             PROVE  Grounded(q, fq[q].flags)' /\ Complete(q, fq[q].flags)'
    OBVIOUS
<1>1. /\ Grounded(q, fl) /\ Complete(q, fl)
      BY DEF FlagInv, ReaderRegister, Storing, StoreFlags
<1>2. Filling
      BY DEF Filling
<1>3. Grounded(q, fl)'
      BY <1>1, <1>2, FillingIsGrounded
<1>4. /\ fq \in [Queues -> QueueRecord] /\ fq[q].len \in Nat /\ fq[q].meat \in Nat
      /\ fq[q].frags \subseteq Wire /\ rfrag \in Wire
  <2>1. rpc # "idle"
        BY DEF StoreFlags
  <2> QED
      BY <2>1, QueueTypes DEF IInv, TypeOK
<1>5. /\ fq'[q].frags = fq[q].frags /\ fq'[q].first = fq[q].first
      /\ fq'[q].len = fq[q].len /\ fq'[q].meat = fq[q].meat
      /\ UNCHANGED <<rq, rfrag, sent>> /\ rtodo' = rtodo \ {"bit"}
      BY <1>4 DEF StoreFlags, QueueRecord, writer
<1>6. /\ rfrag \in fq[q].frags
      /\ rpc = "markstore" => "bit" \in rtodo /\ (IsFirst(rfrag) \/ IsLast(rfrag))
      /\ rpc = "sealstore" => fq[q].len # 0 /\ fq[q].meat >= fq[q].len
      BY DEF FlagInv, TodoFits, StoreFlags, NotingSteps, Counted
<1>7. CASE rpc = "markstore" /\ rpc' = "mark" /\ IsFirst(rfrag)
           /\ fq'[q].flags = fl \cup {"FIRST_IN"}
  <2>0. ~IsLast(rfrag)
        BY <1>4, <1>7, FirstIsNotLast
  <2>1. fq[q].first \in fq[q].frags \/ "first" \in rtodo
        BY <1>7 DEF FlagInv, TodoFits
  <2>2. Grounded(q, fq[q].flags)'
        BY <1>3, <1>5, <1>6, <1>7, <2>1 DEF Grounded, HasFirst, HasLast, Noting, Marking,
           NotingSteps, Overfull, Hopeless, Expired
  <2>3. Complete(q, fq[q].flags)'
        BY <1>1, <1>5, <1>6, <1>7, <2>0 DEF Complete, HasFirst, HasLast, Noting, Marking,
           Pending, NotingSteps, DoReassembly
  <2> QED
      BY <2>2, <2>3
<1>8. CASE rpc = "markstore" /\ rpc' = "mark" /\ ~IsFirst(rfrag) /\ IsLast(rfrag)
           /\ fq'[q].flags = fl \cup {"LAST_IN"}
  <2>2. Grounded(q, fq[q].flags)'
        BY <1>3, <1>5, <1>6, <1>8 DEF Grounded, HasFirst, HasLast, Noting, Marking,
           NotingSteps, Overfull, Hopeless, Expired
  <2>3. Complete(q, fq[q].flags)'
        BY <1>1, <1>5, <1>6, <1>8 DEF Complete, HasFirst, HasLast, Noting, Marking,
           Pending, NotingSteps, DoReassembly
  <2> QED
      BY <2>2, <2>3
<1>9. CASE rpc = "sealstore" /\ rpc' = "return" /\ fq[q].meat = fq[q].len
           /\ fq'[q].flags = fl \cup {"FULL"}
  <2>2. Grounded(q, fq[q].flags)'
        BY <1>3, <1>4, <1>5, <1>6, <1>9 DEF Grounded, HasFirst, HasLast, Noting, Marking,
           NotingSteps, Overfull, Hopeless, Expired
  <2>3. HasLast(q)
        BY <1>6, <1>9 DEF FlagInv, LengthIsEnd, HasLast
  <2>4. Complete(q, fq[q].flags)'
        BY <1>1, <1>5, <1>6, <1>9, <2>3 DEF Complete, HasFirst, HasLast, Noting, Marking,
           Pending, NotingSteps, DoReassembly
  <2> QED
      BY <2>2, <2>4
<1>10. CASE rpc = "sealstore" /\ rpc' = "return" /\ fq[q].meat # fq[q].len
           /\ fq'[q].flags = fl \cup {"ERROR"}
  <2>2. Grounded(q, fq[q].flags)'
        BY <1>3, <1>4, <1>5, <1>6, <1>10 DEF Grounded, HasFirst, HasLast, Noting, Marking,
           NotingSteps, Overfull, Hopeless, Expired
  <2>4. Complete(q, fq[q].flags)'
        BY <1>1, <1>5, <1>6, <1>10 DEF Complete, HasFirst, HasLast, Noting, Marking,
           Pending, NotingSteps, DoReassembly
  <2> QED
      BY <2>2, <2>4
<1> QED
    BY <1>4, <1>6, <1>7, <1>8, <1>9, <1>10
       DEF StoreFlags, MarkBit, SealBit, QueueRecord

-----------------------------------------------------------------------------
\* While the maintainer holds a register, its own bits are the only ones the
\* register has and memory lacks.
LEMMA WriterStoresTruth ==
  ASSUME IInv, FlagInv, StoreComplete \/ StoreExpire, NEW q \in Queues, q = wq,
         Keeps(q), ReaderKeeps(q), fq'[q].flags = wreg
  PROVE  Grounded(q, fq[q].flags)' /\ Complete(q, fq[q].flags)'
<1> SUFFICES ASSUME NEW fl, fl = wreg
             PROVE  Grounded(q, fq[q].flags)' /\ Complete(q, fq[q].flags)'
    OBVIOUS
<1>1. Grounded(q, fl)
      BY DEF FlagInv, WriterRegister, StoreComplete, StoreExpire
<1>2. Complete(q, fl)
  <2>1. CASE StoreExpire
        BY <2>1 DEF FlagInv, WriterRegister, StoreExpire, Complete
  <2>2. CASE StoreComplete
    <3>1. "EXPIRE" \notin fq[q].flags
          BY <2>2, QueueTypes DEF FlagInv, Expiring, StoreComplete, VisitSteps,
             MaintainerSteps
    <3>2. /\ DoReassembly(fl) /\ "FULL" \in fl /\ "FIRST_IN" \in fl /\ "LAST_IN" \in fl
          /\ DoReassembly(fq[q].flags)
          BY <2>2 DEF FlagInv, WriterRegister, StoreComplete, DoReassembly, ReaderBits
    <3>3. Complete(q, fq[q].flags)
          BY DEF FlagInv, FlagsAreTrue
    <3> QED
        BY <3>1, <3>2, <3>3 DEF Complete
  <2> QED
      BY <2>1, <2>2
<1>3. Grounded(q, fl)' /\ Complete(q, fl)'
      BY <1>1, <1>2, KeptIsGrounded
<1> QED
    BY <1>3

\* The flags of every queue are true after a step, and complete but for EXPIRE.
LEMMA FlagsStep == IInv /\ FlagInv /\ [Next]_vars => FlagsAreTrue'
<1> SUFFICES ASSUME IInv, FlagInv, [Next]_vars, NEW q \in Queues
             PROVE  Grounded(q, fq[q].flags)' /\ Complete(q, fq[q].flags)'
    BY DEF FlagsAreTrue
<1>0. Grounded(q, fq[q].flags) /\ Complete(q, fq[q].flags)
      BY DEF FlagInv, FlagsAreTrue
<1>1. CASE Steady(q)
  <2> SUFFICES ASSUME NEW fl, fl = fq[q].flags
               PROVE  Grounded(q, fq[q].flags)' /\ Complete(q, fq[q].flags)'
      OBVIOUS
  <2>1. Grounded(q, fl)' /\ Complete(q, fl)'
        BY <1>0, <1>1, KeptIsGrounded DEF Steady
  <2> QED
      BY <1>1, <2>1 DEF Steady
<1>2. CASE Fresh(q)
      BY <1>2, FreshIsTrue
<1>3. CASE Filling /\ q = rq
  <2>1. CASE StoreFlags
        BY <1>3, <2>1, StoringIsTrue
  <2>2. CASE ~StoreFlags
    <3> SUFFICES ASSUME NEW fl, fl = fq[q].flags
                 PROVE  Grounded(q, fq[q].flags)'
        BY <1>0, <1>3, <2>2, FillingIsComplete
    <3>1. Grounded(q, fl)'
          BY <1>0, <1>3, FillingIsGrounded
    <3> QED
        BY <1>0, <1>3, <2>2, <3>1, FillingIsComplete
  <2> QED
      BY <2>1, <2>2
<1>4. CASE Filling /\ q # rq
      BY <1>1, <1>4, FillingFootprint
<1>5. CASE Finding
      BY <1>1, <1>2, <1>5, FindingFootprint
<1>6. CASE MaintainerNext \/ Tick \/ UNCHANGED vars
      BY <1>1, <1>2, <1>6, MaintainerFootprint, WriterStoresTruth
<1> QED
    BY <1>3, <1>4, <1>5, <1>6 DEF Next, ReaderNext, Handle, Filling, Finding

\* What the reader does to a queue of the tree takes back no bit of its own, and
\* makes no flag untrue.
LEMMA ReaderIsHarmless ==
  ASSUME IInv, FlagInv, ReaderNext, NEW q \in Queues, q \in tree, NEW fl
  PROVE  /\ Grounded(q, fl) => Grounded(q, fl)'
         /\ fq[q].flags \cap ReaderBits \subseteq fq'[q].flags
         /\ "EXPIRE" \in fq'[q].flags => "EXPIRE" \in fq[q].flags
         /\ UNCHANGED <<wpc, wq, wreg>>
<1>1. CASE Steady(q) /\ UNCHANGED <<wpc, wq, wreg>>
      BY <1>1, KeptIsGrounded DEF Steady
<1>2. CASE Finding
  <2>1. UNCHANGED <<wpc, wq, wreg>> /\ tree \subseteq tree'
        BY <1>2 DEF Finding, Receive, ReceiveOther, Search, Deref, Alloc, ReaderLock,
           Insert, ReaderUnlock, Adopt, Admit, trees, writer
  <2> QED
      BY <1>1, <1>2, <2>1, FindingFootprint
<1>3. CASE Filling /\ q # rq
      BY <1>1, <1>3, FillingFootprint
<1>4. CASE Filling /\ q = rq
  <2>1. Grounded(q, fl) => Grounded(q, fl)'
        BY <1>4, FillingIsGrounded
  <2>2. CASE ~StoreFlags
        BY <1>4, <2>1, <2>2, FillingIsComplete, FillingFootprint DEF FlagInv, FlagsAreTrue
  <2>3. CASE StoreFlags
    <3>1. \/ fq'[q].flags = rreg \cup {"FIRST_IN"} \/ fq'[q].flags = rreg \cup {"LAST_IN"}
          \/ fq'[q].flags = rreg \cup {"FULL"} \/ fq'[q].flags = rreg \cup {"ERROR"}
          BY <1>4, <2>3 DEF StoreFlags, MarkBit, SealBit, IInv, TypeOK, QueueRecord
    <3>2. /\ fq[q].flags \cap ReaderBits \subseteq rreg
          /\ "EXPIRE" \in rreg => "EXPIRE" \in fq[q].flags
          BY <1>4, <2>3 DEF FlagInv, ReaderRegister, Storing, StoreFlags
    <3> QED
        BY <1>4, <2>1, <3>1, <3>2, FillingFootprint
  <2> QED
      BY <2>2, <2>3
<1> QED
    BY <1>2, <1>3, <1>4 DEF ReaderNext, Handle, Finding, Filling

\* While the maintainer or the clock moves, the queue the reader works on stays,
\* and the reader where it is.
LEMMA MaintainerSparesReader ==
  ASSUME IInv, MaintainerNext \/ Tick \/ UNCHANGED vars,
         rpc \in UsingSteps \/ Linked
  PROVE  /\ UNCHANGED <<rpc, rq, rfrag, rtodo, rreg>>
         /\ rq \in Queues /\ Keeps(rq) /\ ReaderKeeps(rq)
         /\ \/ fq'[rq].flags = fq[rq].flags
            \/ rq = wq /\ (StoreComplete \/ StoreExpire) /\ fq'[rq].flags = wreg
<1>1. UNCHANGED <<rpc, rq, rfrag, rtodo, rreg>>
      BY DEF MaintainerNext, TrashMaintain, FirstNode, Visit, Reassemble, Emit,
         LoadComplete, StoreComplete, CheckAge, StoreExpire, Decide, Recycle,
         MaintainerLock, EraseNode, NextNode, Tick, vars, reader, rlocals
<1>2. rq \in Queues /\ rq \in Held
      BY DEF Held, UsingSteps, Linked, IInv, Locals
<1> QED
    BY <1>1, <1>2, MaintainerFootprint DEF Steady

\* The reader's queue keeps its key, and a new one has the fragment's.
LEMMA HeldHasKeyStep == IInv /\ FlagInv /\ [Next]_vars => HeldHasKey'
<1> SUFFICES ASSUME IInv, FlagInv, [Next]_vars, NEW q \in Held'
             PROVE  fq'[q].key = rfrag'.key
    BY DEF HeldHasKey
<1>0. q \in Queues
  <2>1. Locals' /\ TypeOK'
        BY LocalsStep, TypeStep
  <2> QED
      BY <2>1 DEF Locals, TypeOK, Held, UsingSteps
<1>1. CASE Filling
  <2>1. q = rq /\ q \in Held /\ rfrag' = rfrag
        BY <1>1 DEF Held, UsingSteps, Filling, Enqueue, Count, SetFirst, SetLen, LoadFlags,
           StoreFlags, Judge, Return, Leave, rlocals
  <2> QED
      BY <1>0, <1>1, <2>1, FillingFootprint DEF FlagInv, HeldHasKey
<1>2. CASE Finding
  <2>1. fq'[q].key = fq[q].key
        BY <1>0, <1>2, FindingFootprint DEF Fresh, Steady, Keeps
  <2>2. (q \in Held \/ q \in Found(rfrag.key) \/ (rpc = "insert" /\ q = rq))
        /\ rfrag' = rfrag
    <3> USE DEF Held, UsingSteps
    <3>1. CASE Search \/ Deref \/ ReaderUnlock \/ Adopt \/ Admit
          BY <3>1, NoneAssumption
             DEF Search, Deref, ReaderUnlock, Adopt, Admit, Leave, rlocals, IInv, Locals
    <3>2. CASE Insert
          BY <3>2 DEF Insert, Found, Collision, IInv, Locals
    <3>3. CASE ReceiveOther
          BY <3>3 DEF ReceiveOther, rlocals
    <3>4. ~ReaderLock
          BY DEF ReaderLock
    <3>5. ASSUME NEW f \in Wire PROVE ~Receive(f)
          BY DEF Receive
    <3>6. ASSUME NEW p \in Queues PROVE ~Alloc(p)
          BY DEF Alloc
    <3> QED
        BY <1>2, <3>1, <3>2, <3>3, <3>4, <3>5, <3>6 DEF Finding
  <2>3. CASE q \in Held
        BY <2>1, <2>2, <2>3 DEF FlagInv, HeldHasKey
  <2>4. CASE q \in Found(rfrag.key)
        BY <2>1, <2>2, <2>4 DEF Found
  <2>5. CASE rpc = "insert" /\ q = rq
        BY <2>1, <2>2, <2>5 DEF IInv, Keyed
  <2> QED
      BY <2>2, <2>3, <2>4, <2>5
<1>3. CASE MaintainerNext \/ Tick \/ UNCHANGED vars
  <2>1. UNCHANGED <<rpc, rq, rnode, rfrag>>
        BY <1>3 DEF MaintainerNext, TrashMaintain, FirstNode, Visit, Reassemble, Emit,
           LoadComplete, StoreComplete, CheckAge, StoreExpire, Decide, Recycle,
           MaintainerLock, EraseNode, NextNode, Tick, vars, reader, rlocals
  <2>2. q \in Held
        BY <2>1 DEF Held
  <2> QED
      BY <1>0, <1>3, <2>1, <2>2, MaintainerFootprint
         DEF Steady, Keeps, FlagInv, HeldHasKey
<1> QED
    BY <1>1, <1>2, <1>3 DEF Next, ReaderNext, Handle, Finding, Filling

\* A length that is set stays the end of a stored last fragment.
LEMMA LengthStep == IInv /\ FlagInv /\ [Next]_vars => LengthIsEnd'
<1> SUFFICES ASSUME IInv, FlagInv, [Next]_vars, NEW q \in Queues, fq'[q].len # 0
             PROVE  \E f \in fq'[q].frags :
                      IsLast(f) /\ f.key = fq'[q].key /\ End(f) = fq'[q].len
    BY DEF LengthIsEnd
<1>0. fq[q].len # 0 => \E f \in fq[q].frags :
                         IsLast(f) /\ f.key = fq[q].key /\ End(f) = fq[q].len
      BY DEF FlagInv, LengthIsEnd
<1>1. CASE Keeps(q)
      BY <1>0, <1>1 DEF Keeps
<1>2. CASE Filling /\ q = rq
  <2>0. fq'[q].key = fq[q].key /\ fq \in [Queues -> QueueRecord]
        BY <1>2, FillingFootprint DEF IInv, TypeOK
  <2>1. CASE SetLen
    <3>1. rfrag \in fq[q].frags /\ IsLast(rfrag) /\ rfrag.key = fq[q].key
          BY <1>2, <2>1 DEF SetLen, FlagInv, TodoFits, NotingSteps, HeldHasKey, Held,
             UsingSteps
    <3>2. fq'[q].frags = fq[q].frags /\ fq'[q].len = End(rfrag)
          BY <1>2, <2>0, <2>1 DEF SetLen, QueueRecord
    <3> QED
        BY <2>0, <3>1, <3>2
  <2>2. CASE ~SetLen
    <3>1. fq[q].frags \subseteq fq'[q].frags /\ fq'[q].len = fq[q].len
          BY <1>2, <2>0, <2>2 DEF Filling, Enqueue, Count, SetFirst, LoadFlags, StoreFlags,
             Judge, Return, memory, QueueRecord
    <3> QED
        BY <1>0, <2>0, <3>1
  <2> QED
      BY <2>1, <2>2
<1>3. CASE Filling /\ q # rq
      BY <1>1, <1>3, FillingFootprint DEF Steady
<1>4. CASE Finding
      BY <1>1, <1>4, FindingFootprint DEF Steady, Fresh
<1>5. CASE MaintainerNext \/ Tick \/ UNCHANGED vars
      BY <1>1, <1>5, MaintainerFootprint DEF Steady, Fresh
<1> QED
    BY <1>2, <1>3, <1>4, <1>5 DEF Next, ReaderNext, Handle, Finding, Filling

\* The reader's list of what is left to store fits its fragment.
LEMMA TodoStep == IInv /\ FlagInv /\ [Next]_vars => TodoFits'
<1> SUFFICES ASSUME IInv, FlagInv, [Next]_vars PROVE TodoFits'
    OBVIOUS
<1>0. TodoFits /\ fq \in [Queues -> QueueRecord]
      BY DEF FlagInv, IInv, TypeOK
<1>1. CASE Finding
      BY <1>1 DEF TodoFits, NotingSteps, Finding, Receive, ReceiveOther, Search, Deref,
         Alloc, ReaderLock, Insert, ReaderUnlock, Adopt, Admit, Leave, rlocals
<1>2. CASE Filling
  <2>0. rq \in Queues /\ fq[rq].frags \subseteq Wire /\ rfrag \in Wire
    <3>1. rpc \in UsingSteps /\ rpc # "idle"
          BY <1>2, FillingFootprint DEF Filling, Enqueue, Count, SetFirst, SetLen, LoadFlags,
             StoreFlags, Judge, Return, UsingSteps
    <3> QED
        BY <3>1, QueueTypes
  <2> USE <1>0, <2>0 DEF TodoFits, NotingSteps, Counted, QueueRecord
  <2>1. CASE Enqueue
        BY <2>1 DEF Enqueue, Leave, rlocals
  <2>2. CASE Count
        BY <2>2, FirstIsNotLast DEF Count
  <2>3. CASE SetFirst
        BY <2>3 DEF SetFirst
  <2>4. CASE SetLen
        BY <2>4 DEF SetLen
  <2>5. CASE LoadFlags \/ Judge \/ Return
        BY <2>5 DEF LoadFlags, Judge, Return, Leave, memory
  <2>6. CASE StoreFlags
        BY <2>6 DEF StoreFlags
  <2> QED
      BY <1>2, <2>1, <2>2, <2>3, <2>4, <2>5, <2>6 DEF Filling
<1>3. CASE MaintainerNext \/ Tick \/ UNCHANGED vars
  <2>1. CASE rpc \in UsingSteps
        BY <1>0, <1>3, <2>1, MaintainerSparesReader
           DEF Keeps, TodoFits, NotingSteps, Counted
  <2>2. CASE rpc \notin UsingSteps /\ UNCHANGED rpc
        BY <2>2 DEF TodoFits, NotingSteps, UsingSteps
  <2>3. UNCHANGED rpc
        BY <1>3 DEF MaintainerNext, TrashMaintain, FirstNode, Visit, Reassemble, Emit,
           LoadComplete, StoreComplete, CheckAge, StoreExpire, Decide, Recycle,
           MaintainerLock, EraseNode, NextNode, Tick, vars, reader, rlocals
  <2> QED
      BY <2>1, <2>2, <2>3
<1> QED
    BY <1>1, <1>2, <1>3 DEF Next, ReaderNext, Handle, Finding, Filling

\* The reader's register keeps every bit of the reader's, whatever the maintainer
\* stores meanwhile.
LEMMA ReaderRegisterStep == IInv /\ FlagInv /\ [Next]_vars => ReaderRegister'
<1> SUFFICES ASSUME IInv, FlagInv, [Next]_vars, Storing' PROVE ReaderRegister'
    BY DEF ReaderRegister
<1>1. CASE Finding
      BY <1>1 DEF Storing, Finding, Receive, ReceiveOther, Search, Deref, Alloc, ReaderLock,
         Insert, ReaderUnlock, Adopt, Admit, Leave, rlocals
<1>2. CASE Filling
  <2>1. LoadFlags
        BY <1>2 DEF Storing, Filling, Enqueue, Count, SetFirst, SetLen, LoadFlags,
           StoreFlags, Judge, Return, Leave, rlocals
  <2>2. rq \in Queues /\ rq' = rq /\ rreg' = fq[rq].flags /\ fq' = fq /\ ~StoreFlags
        BY <2>1, QueueTypes DEF LoadFlags, memory, UsingSteps, StoreFlags
  <2>3. Grounded(rq, fq[rq].flags)' /\ Complete(rq, fq[rq].flags)'
        BY <2>2, FlagsStep DEF FlagsAreTrue
  <2> QED
      BY <2>2, <2>3 DEF ReaderRegister
<1>3. CASE MaintainerNext \/ Tick \/ UNCHANGED vars
  <2>1. rpc \in UsingSteps /\ Storing
    <3>1. UNCHANGED rpc
          BY <1>3 DEF MaintainerNext, TrashMaintain, FirstNode, Visit, Reassemble, Emit,
             LoadComplete, StoreComplete, CheckAge, StoreExpire, Decide, Recycle,
             MaintainerLock, EraseNode, NextNode, Tick, vars, reader, rlocals
    <3> QED
        BY <3>1 DEF Storing, UsingSteps
  <2>2. /\ UNCHANGED <<rpc, rq, rfrag, rtodo, rreg>>
        /\ rq \in Queues /\ Keeps(rq) /\ ReaderKeeps(rq)
        /\ \/ fq'[rq].flags = fq[rq].flags
           \/ rq = wq /\ (StoreComplete \/ StoreExpire) /\ fq'[rq].flags = wreg
        BY <1>3, <2>1, MaintainerSparesReader
  <2>3. /\ Grounded(rq, rreg) /\ Complete(rq, rreg)
        /\ fq[rq].flags \cap ReaderBits \subseteq rreg
        /\ "EXPIRE" \in rreg => "EXPIRE" \in fq[rq].flags
        BY <2>1 DEF FlagInv, ReaderRegister
  <2>4. ASSUME NEW q \in Queues, NEW fl, q = rq, fl = rreg
        PROVE  Grounded(q, fl)' /\ Complete(q, fl)'
        BY <2>2, <2>3, <2>4, KeptIsGrounded
  <2>5. Grounded(rq, rreg)' /\ Complete(rq, rreg)'
        BY <2>2, <2>4
  <2>6. CASE StoreComplete /\ rq = wq /\ fq'[rq].flags = wreg
    <3>1. "EXPIRE" \notin fq[rq].flags
          BY <2>2, <2>6, QueueTypes DEF FlagInv, Expiring, StoreComplete, VisitSteps,
             MaintainerSteps
    <3>2. wreg \cap ReaderBits \subseteq fq[wq].flags
          BY <2>6 DEF FlagInv, WriterRegister, StoreComplete
    <3> QED
        BY <2>2, <2>3, <2>5, <2>6, <3>1, <3>2 DEF ReaderRegister
  <2>7. CASE StoreExpire /\ rq = wq /\ fq'[rq].flags = wreg
    <3>1. wreg \cap ReaderBits \subseteq fq[wq].flags /\ "EXPIRE" \in wreg
          BY <2>7 DEF FlagInv, WriterRegister, StoreExpire
    <3> QED
        BY <2>2, <2>3, <2>5, <2>7, <3>1 DEF ReaderRegister
  <2>8. CASE fq'[rq].flags = fq[rq].flags
        BY <2>2, <2>3, <2>5, <2>8 DEF ReaderRegister
  <2> QED
      BY <2>2, <2>6, <2>7, <2>8
<1> QED
    BY <1>1, <1>2, <1>3 DEF Next, ReaderNext, Handle, Finding, Filling

\* The flags admit a fragment until the reader has stored it.
LEMMA AdmittedStep == IInv /\ FlagInv /\ [Next]_vars => AdmittedIsNotDue'
<1> SUFFICES ASSUME IInv, FlagInv, [Next]_vars, (rpc \in {"enqueue", "count"} \/ Linked)'
             PROVE  ~DoReassembly(fq'[rq'].flags)
    BY DEF AdmittedIsNotDue
<1> USE DEF Linked
<1>1. CASE Finding
  <2>1. CASE Insert
        BY <2>1, NoneAssumption DEF Insert, Collision, memory, FlagInv, PrivateIsBlank, PrivateQueue,
           DoReassembly, IInv, TypeOK
  <2>2. CASE ~Insert
        BY <1>1, <2>2 DEF Finding, Receive, ReceiveOther, Search, Deref,
           Alloc, ReaderLock, ReaderUnlock, Adopt, Admit, Admits, Leave, rlocals, memory,
           FlagInv, AdmittedIsNotDue
  <2> QED
      BY <2>1, <2>2
<1>2. CASE Filling
  <2>1. Enqueue /\ rq' = rq /\ ~StoreFlags
        BY <1>2 DEF Filling, Enqueue, Count, SetFirst, SetLen, LoadFlags,
           StoreFlags, Judge, Return, Leave, rlocals
  <2>2. rq \in Queues /\ ~DoReassembly(fq[rq].flags)
        BY <2>1, QueueTypes DEF FlagInv, AdmittedIsNotDue, Enqueue, UsingSteps
  <2> QED
      BY <1>2, <2>1, <2>2, FillingIsComplete DEF FlagInv, FlagsAreTrue
<1>3. CASE MaintainerNext \/ Tick \/ UNCHANGED vars
  <2>1. rpc \in {"enqueue", "count"} \/ Linked
        BY <1>3 DEF MaintainerNext, TrashMaintain, FirstNode, Visit, Reassemble, Emit,
           LoadComplete, StoreComplete, CheckAge, StoreExpire, Decide, Recycle,
           MaintainerLock, EraseNode, NextNode, Tick, vars, reader, rlocals
  <2>2. /\ UNCHANGED <<rpc, rq>>
        /\ \/ fq'[rq].flags = fq[rq].flags
           \/ rq = wq /\ (StoreComplete \/ StoreExpire) /\ fq'[rq].flags = wreg
        BY <1>3, <2>1, MaintainerSparesReader DEF UsingSteps
  <2>3. ~DoReassembly(fq[rq].flags)
        BY <2>1 DEF FlagInv, AdmittedIsNotDue
  <2>4. StoreComplete \/ StoreExpire => wreg \cap ReaderBits \subseteq fq[wq].flags
        BY DEF FlagInv, WriterRegister, StoreComplete, StoreExpire
  <2> QED
      BY <2>2, <2>3, <2>4 DEF DoReassembly, ReaderBits
<1> QED
    BY <1>1, <1>2, <1>3 DEF Next, ReaderNext, Handle, Finding, Filling

\* A queue is blank while only the reader knows of it.
LEMMA PrivateStep == IInv /\ FlagInv /\ [Next]_vars => PrivateIsBlank'
<1> SUFFICES ASSUME IInv, FlagInv, [Next]_vars, NEW q \in PrivateQueue'
             PROVE  fq'[q].flags = {} /\ fq'[q].len = 0
    BY DEF PrivateIsBlank
<1>0. q \in Queues
  <2>1. (heap \subseteq Queues)' /\ Ownership'
        BY OwnershipStep, TypeStep DEF TypeOK
  <2> QED
      BY <2>1 DEF Ownership
<1>1. CASE Fresh(q)
      BY <1>1 DEF Fresh
<1>2. CASE Steady(q) /\ q \in PrivateQueue
      BY <1>2 DEF Steady, Keeps, FlagInv, PrivateIsBlank
<1>3. CASE Finding
  <2>1. q \in PrivateQueue \/ Fresh(q)
    <3>1. ASSUME NEW p \in Queues, Alloc(p) PROVE Fresh(q)
          BY <1>0, <3>1 DEF Alloc, PrivateQueue, Fresh, Held, UsingSteps, Blank,
             NotingSteps, IInv, TypeOK
    <3>2. CASE ~(\E p \in Queues : Alloc(p))
          BY <1>3, <3>2 DEF PrivateQueue, Finding, Receive, ReceiveOther, Search, Deref,
             ReaderLock, Insert, ReaderUnlock, Adopt, Admit, Leave, rlocals, IInv, Locals
    <3> QED
        BY <3>1, <3>2
  <2> QED
      BY <1>0, <1>1, <1>2, <1>3, <2>1, FindingFootprint
<1>4. CASE Filling
      BY <1>4 DEF PrivateQueue, Filling, Enqueue, Count, SetFirst, SetLen, LoadFlags,
           StoreFlags, Judge, Return, Leave, rlocals
<1>5. CASE MaintainerNext \/ Tick \/ UNCHANGED vars
  <2>1. q \in PrivateQueue
        BY <1>5 DEF PrivateQueue, MaintainerNext, TrashMaintain, FirstNode, Visit,
           Reassemble, Emit, LoadComplete, StoreComplete, CheckAge, StoreExpire, Decide,
           Recycle, MaintainerLock, EraseNode, NextNode, Tick, vars, reader, rlocals
  <2>2. StoreComplete \/ StoreExpire => q # wq
        BY <2>1, QueueTypes DEF IInv, Ownership, StoreComplete, StoreExpire, VisitSteps,
           MaintainerSteps
  <2> QED
      BY <1>0, <1>1, <1>2, <1>5, <2>1, <2>2, MaintainerFootprint
<1> QED
    BY <1>3, <1>4, <1>5 DEF Next, ReaderNext, Handle, Finding, Filling

\* The maintainer's register stays true, and ahead of memory in no reader's bit.
LEMMA WriterRegisterStep == IInv /\ FlagInv /\ [Next]_vars => WriterRegister'
<1> SUFFICES ASSUME IInv, FlagInv, [Next]_vars PROVE WriterRegister'
    OBVIOUS
<1>0. /\ wpc \in VisitSteps => wq \in Queues /\ wq \in tree
      /\ WriterRegister /\ FlagsAreTrue /\ Expiring
      /\ fq \in [Queues -> QueueRecord]
      BY QueueTypes DEF FlagInv, IInv, TypeOK
<1>1. CASE ReaderNext
  <2>1. UNCHANGED <<wpc, wq, wreg>>
        BY <1>1 DEF ReaderNext, Handle, Receive, ReceiveOther, Search, Deref, Alloc,
           ReaderLock, Insert, ReaderUnlock, Adopt, Admit, Enqueue, Count, SetFirst, SetLen,
           LoadFlags, StoreFlags, Judge, Return, writer
  <2> SUFFICES ASSUME wpc \in {"completestore", "expire", "decide"} PROVE WriterRegister'
      BY <2>1 DEF WriterRegister
  <2>2. wq \in Queues /\ wq \in tree
        BY <1>0 DEF VisitSteps, MaintainerSteps
  <2>3. ASSUME NEW q \in Queues, NEW fl, q = wq, fl = wreg
        PROVE  Grounded(q, fl)' /\ fq[q].flags \cap ReaderBits \subseteq fq'[q].flags
        BY <1>0, <1>1, <2>2, <2>3, ReaderIsHarmless DEF WriterRegister
  <2>4. Grounded(wq, wreg)' /\ fq[wq].flags \cap ReaderBits \subseteq fq'[wq].flags
        BY <2>1, <2>2, <2>3
  <2> QED
      BY <1>0, <2>1, <2>4 DEF WriterRegister
<1>2. CASE LoadComplete
  <2>1. /\ wq \in Queues /\ wq \in tree /\ UNCHANGED <<fq, wq>>
        /\ wpc' = "completestore" /\ wreg' = fq[wq].flags \cup {"COMPLETE"}
        BY <1>0, <1>2 DEF LoadComplete, VisitSteps, MaintainerSteps, memory
  <2>2. /\ DoReassembly(fq[wq].flags) /\ (wq \in sent \/ Hopeless(wq))
        /\ "EXPIRE" \notin fq[wq].flags
        BY <1>0, <1>2, <2>1 DEF LoadComplete, FlagInv, Judged, Expiring
  <2>3. Grounded(wq, fq[wq].flags)'
        BY <2>1, FlagsStep DEF FlagsAreTrue
  <2>4. (wq \in sent \/ Hopeless(wq))'
        BY <1>2, <2>1, <2>2 DEF LoadComplete, Hopeless
  <2>5. Grounded(wq, wreg)'
        BY <2>1, <2>3, <2>4 DEF Grounded
  <2> QED
      BY <2>1, <2>2, <2>5 DEF WriterRegister, DoReassembly, ReaderBits
<1>3. CASE CheckAge
  <2>1. /\ wq \in Queues /\ UNCHANGED <<fq, wq>>
        /\ \/ /\ Expired(wq) /\ wpc' = "expire"
              /\ wreg' = fq[wq].flags \cup {"EXPIRE"}
           \/ wpc' = "decide" /\ wreg' = fq[wq].flags
        BY <1>0, <1>3 DEF CheckAge, VisitSteps, MaintainerSteps, memory
  <2>2. Grounded(wq, fq[wq].flags)' /\ (Expired(wq) => Expired(wq)')
        BY <2>1, FlagsStep DEF FlagsAreTrue, Expired
  <2>3. Grounded(wq, wreg)'
        BY <2>1, <2>2 DEF Grounded
  <2> QED
      BY <2>1, <2>3 DEF WriterRegister, ReaderBits
<1>4. CASE StoreExpire
  <2>1. /\ wq \in Queues /\ UNCHANGED <<wq, wreg>> /\ wpc' = "decide" /\ fq'[wq].flags = wreg
        BY <1>0, <1>4 DEF StoreExpire, VisitSteps, MaintainerSteps, QueueRecord
  <2>2. Grounded(wq, wreg)'
        BY <2>1, FlagsStep DEF FlagsAreTrue
  <2> QED
      BY <2>1, <2>2 DEF WriterRegister
<1>5. CASE Tick \/ UNCHANGED vars
  <2>1. UNCHANGED <<wpc, wq, wreg, tree>> /\ ~StoreComplete /\ ~StoreExpire
        BY <1>5, <1>0 DEF Tick, vars, writer, trees, StoreComplete, StoreExpire
  <2> SUFFICES ASSUME wpc \in {"completestore", "expire", "decide"} PROVE WriterRegister'
      BY <2>1 DEF WriterRegister
  <2>2. wq \in Queues /\ wq \in tree
        BY <1>0 DEF VisitSteps, MaintainerSteps
  <2>3. Steady(wq)
        BY <1>5, <2>1, <2>2, MaintainerFootprint
  <2>4. ASSUME NEW q \in Queues, NEW fl, q = wq, fl = wreg PROVE Grounded(q, fl)'
        BY <1>0, <2>2, <2>3, <2>4, KeptIsGrounded DEF WriterRegister, Steady
  <2>5. Grounded(wq, wreg)'
        BY <2>1, <2>2, <2>4
  <2> QED
      BY <1>0, <2>1, <2>3, <2>5 DEF WriterRegister, Steady
<1>6. CASE \/ TrashMaintain \/ FirstNode \/ Visit \/ Reassemble \/ Emit \/ StoreComplete
           \/ Decide \/ Recycle \/ MaintainerLock \/ EraseNode \/ NextNode
      BY <1>6 DEF WriterRegister, TrashMaintain, FirstNode, Visit, Reassemble, Emit,
         StoreComplete, Decide, Recycle, MaintainerLock, EraseNode, NextNode, Walk, GoTo
<1> QED
    BY <1>1, <1>2, <1>3, <1>4, <1>5, <1>6 DEF Next, MaintainerNext

\* EXPIRE shows in the tree only in the visit that ends in the trash.
LEMMA ExpiringStep == IInv /\ FlagInv /\ [Next]_vars => Expiring'
<1> SUFFICES ASSUME IInv, FlagInv, [Next]_vars, NEW q \in tree', "EXPIRE" \in fq'[q].flags
             PROVE  /\ wq' = q /\ wpc' \in {"decide", "recycle", "lock", "erase"}
                    /\ wpc' = "decide" => "EXPIRE" \in wreg'
    BY DEF Expiring
<1>0. /\ q \in Queues
      /\ wpc \in VisitSteps => wq \in Queues /\ wq \in tree
      /\ \A p \in tree : "EXPIRE" \in fq[p].flags =>
           /\ wq = p /\ wpc \in {"decide", "recycle", "lock", "erase"}
           /\ wpc = "decide" => "EXPIRE" \in wreg
      BY QueueTypes, TypeStep DEF FlagInv, Expiring, TypeOK
<1>1. CASE ReaderNext
  <2>1. "EXPIRE" \in fq[q].flags /\ q \in tree
    <3>1. q \in tree \/ (Insert /\ q = rq)
          BY <1>1 DEF ReaderNext, Handle, Receive, ReceiveOther, Search, Deref, Alloc,
             ReaderLock, Insert, ReaderUnlock, Adopt, Admit, Enqueue, Count, SetFirst,
             SetLen, LoadFlags, StoreFlags, Judge, Return, trees
    <3>2. CASE Insert /\ q = rq
      <4>1. fq[q].flags = {} /\ fq' = fq
            BY <3>2 DEF Insert, FlagInv, PrivateIsBlank, PrivateQueue, memory
      <4> QED
          BY <4>1
    <3>3. CASE q \in tree
          BY <1>0, <1>1, <3>3, ReaderIsHarmless
    <3> QED
        BY <3>1, <3>2, <3>3
  <2> QED
      BY <1>0, <1>1, <2>1, ReaderIsHarmless
<1>2. CASE StoreComplete
  <2>1. "EXPIRE" \notin wreg /\ wpc = "completestore"
        BY <1>2 DEF FlagInv, WriterRegister, StoreComplete
  <2> QED
      BY <1>0, <1>2, <2>1 DEF StoreComplete, trees, IInv, TypeOK, QueueRecord
<1>3. CASE StoreExpire
  <2>1. "EXPIRE" \in wreg /\ wpc = "expire"
        BY <1>3 DEF FlagInv, WriterRegister, StoreExpire
  <2> QED
      BY <1>0, <1>3, <2>1 DEF StoreExpire, trees, IInv, TypeOK, QueueRecord
<1>4. CASE UNCHANGED <<fq, tree, wpc, wq, wreg>>
      BY <1>0, <1>4
<1>5. CASE TrashMaintain \/ Tick
  <2>1. q \in tree /\ fq'[q].flags = fq[q].flags
        BY <1>0, <1>5, MaintainerFootprint
           DEF MaintainerNext, Steady, TrashMaintain, Tick, StoreComplete, StoreExpire,
               trees, writer
  <2> QED
      BY <1>0, <1>5, <2>1 DEF TrashMaintain, Tick, writer
<1>6. CASE Decide
      BY <1>0, <1>6 DEF Decide, DoErase, memory, trees
<1>7. CASE Recycle \/ MaintainerLock
      BY <1>0, <1>7 DEF Recycle, MaintainerLock, memory
<1>8. CASE EraseNode
      BY <1>0, <1>8 DEF EraseNode
<1>9. CASE FirstNode \/ Visit \/ Reassemble \/ Emit \/ LoadComplete \/ CheckAge \/ NextNode
      BY <1>0, <1>9 DEF FirstNode, Visit, Reassemble, Emit, LoadComplete, CheckAge, NextNode,
         memory, trees
<1> QED
    BY <1>1, <1>2, <1>3, <1>4, <1>5, <1>6, <1>7, <1>8, <1>9
       DEF Next, MaintainerNext, vars, memory, trees, writer

\* What the maintainer knows of its queue stays true while the reader works.
LEMMA JudgedStep == IInv /\ FlagInv /\ [Next]_vars => Judged'
<1> SUFFICES ASSUME IInv, FlagInv, [Next]_vars PROVE Judged'
    OBVIOUS
<1>0. /\ wpc \in VisitSteps => wq \in Queues /\ wq \in tree
      /\ Judged /\ fq \in [Queues -> QueueRecord]
      BY QueueTypes DEF FlagInv, IInv, TypeOK
<1>1. CASE ReaderNext \/ Tick \/ UNCHANGED vars
  <2>1. UNCHANGED <<wpc, wq>>
        BY <1>1 DEF ReaderNext, Handle, Receive, ReceiveOther, Search, Deref, Alloc,
           ReaderLock, Insert, ReaderUnlock, Adopt, Admit, Enqueue, Count, SetFirst, SetLen,
           LoadFlags, StoreFlags, Judge, Return, Tick, vars, writer
  <2> SUFFICES ASSUME wpc \in VisitSteps PROVE Judged'
      BY <2>1 DEF Judged, VisitSteps, MaintainerSteps
  <2>2. wq \in Queues /\ wq \in tree
        BY <1>0
  <2>3. /\ fq[wq].flags \cap ReaderBits \subseteq fq'[wq].flags
        /\ \A fl : Grounded(wq, fl) => Grounded(wq, fl)'
    <3>1. CASE ReaderNext
      <4>1. ASSUME NEW q \in Queues, NEW fl, q = wq
            PROVE  /\ Grounded(q, fl) => Grounded(q, fl)'
                   /\ fq[q].flags \cap ReaderBits \subseteq fq'[q].flags
            BY <2>2, <3>1, <4>1, ReaderIsHarmless
      <4> QED
          BY <2>1, <2>2, <4>1
    <3>2. CASE Tick \/ UNCHANGED vars
      <4>1. Steady(wq)
            BY <2>2, <3>2, MaintainerFootprint DEF Tick, vars, trees, writer, StoreComplete,
               StoreExpire
      <4>2. ASSUME NEW q \in Queues, NEW fl, q = wq
            PROVE  Grounded(q, fl) => Grounded(q, fl)'
            BY <4>1, <4>2, KeptIsGrounded DEF Steady
      <4> QED
          BY <2>1, <2>2, <4>1, <4>2 DEF Steady
    <3> QED
        BY <1>1, <3>1, <3>2
  <2>4. (wq \in sent \/ Hopeless(wq)) => (wq \in sent \/ Hopeless(wq))'
    <3>1. Grounded(wq, {"COMPLETE"}) => Grounded(wq, {"COMPLETE"})'
          BY <2>3
    <3> QED
        BY <3>1 DEF Grounded
  <2>5. Expired(wq) => Expired(wq)'
    <3>1. Grounded(wq, {"EXPIRE"}) => Grounded(wq, {"EXPIRE"})'
          BY <2>3
    <3> QED
        BY <3>1 DEF Grounded
  <2> QED
      BY <1>0, <2>1, <2>3, <2>4, <2>5 DEF Judged, DoReassembly, ReaderBits
<1>2. CASE Visit
      BY <1>0, <1>2 DEF Visit, Judged, memory
<1>3. CASE Reassemble
  <2>1. /\ wq \in Queues /\ DoReassembly(fq[wq].flags) /\ UNCHANGED <<fq, wq, sent>>
        /\ wpc' = IF Assembles(wq) THEN "emit" ELSE "complete"
        BY <1>0, <1>3 DEF Reassemble, Judged, memory, VisitSteps, MaintainerSteps
  <2>2. fq[wq].len # 0 /\ fq[wq].meat >= fq[wq].len
        BY <2>1 DEF FlagInv, FlagsAreTrue, Grounded, DoReassembly
  <2>3. fq[wq].len \in Nat /\ fq[wq].meat \in Nat /\ MaxLen \in Nat
        BY <2>1, QueueTypes, BoundsAssumption
  <2>4. ~Assembles(wq) => Hopeless(wq)
        BY <2>2, <2>3 DEF Assembles, Hopeless
  <2> QED
      BY <2>1, <2>4 DEF Judged, Hopeless
<1>4. CASE Emit
      BY <1>0, <1>4 DEF Emit, Judged, memory
<1>5. CASE LoadComplete
      BY <1>0, <1>5 DEF LoadComplete, Judged, memory, Hopeless
<1>6. CASE Decide
  <2>1. wq \in Queues /\ UNCHANGED <<fq, wq, sent>>
        BY <1>0, <1>6 DEF Decide, memory, VisitSteps, MaintainerSteps
  <2>2. PICK seen \in {wreg, fq[wq].flags} :
             wpc' = IF DoErase(seen) THEN "recycle" ELSE "advance"
        BY <1>6 DEF Decide
  <2>3. Grounded(wq, seen)
        BY <1>6, <2>1, <2>2 DEF FlagInv, FlagsAreTrue, WriterRegister, Decide
  <2>4. DoErase(seen) => wq \in sent \/ Hopeless(wq) \/ Expired(wq)
        BY <2>3 DEF Grounded, DoErase, Overfull, Hopeless
  <2> QED
      BY <2>1, <2>2, <2>4 DEF Judged, Hopeless, Expired
<1>7. CASE \/ TrashMaintain \/ FirstNode \/ StoreComplete \/ CheckAge \/ StoreExpire
           \/ Recycle \/ MaintainerLock \/ EraseNode \/ NextNode
      BY <1>7 DEF Judged, TrashMaintain, FirstNode, StoreComplete, CheckAge, StoreExpire,
         Recycle, MaintainerLock, EraseNode, NextNode, Walk, GoTo
<1> QED
    BY <1>1, <1>2, <1>3, <1>4, <1>5, <1>6, <1>7 DEF Next, MaintainerNext

-----------------------------------------------------------------------------
LEMMA InitFlagInv == Init => FlagInv
<1> SUFFICES ASSUME Init PROVE FlagInv
    OBVIOUS
<1>1. FlagsAreTrue
      BY DEF Init, FlagsAreTrue, Grounded, Complete, HasFirst, HasLast, Noting,
         NotingSteps, Blank, DoReassembly
<1> QED
    BY <1>1 DEF Init, FlagInv, ReaderRegister, Storing, WriterRegister, Expiring,
       HeldHasKey, Held, UsingSteps, LengthIsEnd, TodoFits, NotingSteps, AdmittedIsNotDue,
       Linked,
       Judged, PrivateIsBlank, PrivateQueue, Blank

\* FlagInv holds of every state: the two threads' unlocked updates of the flags
\* lose nothing but on a queue that is about to be discarded.
THEOREM FlagInvariance == Spec => [](IInv /\ FlagInv)
<1>1. IInv /\ FlagInv /\ [Next]_vars => FlagInv'
      BY FlagsStep, ReaderRegisterStep, WriterRegisterStep, ExpiringStep,
         HeldHasKeyStep, LengthStep, TodoStep, AdmittedStep, JudgedStep, PrivateStep
         DEF FlagInv
<1> QED
    BY Invariance, InitFlagInv, <1>1, PTL DEF Spec

\* No update of the flags is lost on a queue that stays, although both threads
\* load and store them without a lock.
THEOREM FlagsSurvive == Spec => []NoLostUpdate
<1>1. IInv /\ FlagInv => NoLostUpdate
  <2> SUFFICES ASSUME IInv, FlagInv, NEW q \in tree, Quiet(q)
               PROVE
                 /\ ("FIRST_IN" \in fq[q].flags <=> \E f \in fq[q].frags : IsFirst(f))
                 /\ ("LAST_IN" \in fq[q].flags <=> \E f \in fq[q].frags : IsLast(f))
                 /\ (fq[q].len # 0 /\ fq[q].meat = fq[q].len => "FULL" \in fq[q].flags)
      BY DEF NoLostUpdate
  <2>1. q \in Queues /\ Grounded(q, fq[q].flags) /\ Complete(q, fq[q].flags)
        BY DEF IInv, TypeOK, FlagInv, FlagsAreTrue
  <2>2. "EXPIRE" \notin fq[q].flags
        BY DEF FlagInv, Expiring, Quiet
  <2>3. ~Pending(q) /\ ~Noting(q)
        BY DEF Quiet, UsingQueue, Pending, Marking, Noting, NotingSteps
  <2> QED
      BY <2>1, <2>2, <2>3 DEF Grounded, Complete, HasFirst, HasLast
<1> QED
    BY FlagInvariance, <1>1, PTL

\* A queue that has its whole datagram is recycled unsent only when it is too old,
\* whenever the last fragment comes in.
THEOREM WholeIsKept == Spec => []WholeIsNotDropped
<1>1. IInv /\ FlagInv => WholeIsNotDropped
  <2> SUFFICES ASSUME IInv, FlagInv, wpc = "recycle", wq \notin sent,
                      fq[wq].meat = fq[wq].len, fq[wq].len <= MaxLen
               PROVE  Expired(wq)
      BY DEF WholeIsNotDropped
  <2>1. Hopeless(wq) \/ Expired(wq)
        BY DEF FlagInv, Judged
  <2>2. fq[wq].len \in Nat /\ fq[wq].meat \in Nat /\ MaxLen \in Nat
        BY QueueTypes, BoundsAssumption DEF VisitSteps, MaintainerSteps
  <2> QED
      BY <2>1, <2>2 DEF Hopeless
<1> QED
    BY FlagInvariance, <1>1, PTL

-----------------------------------------------------------------------------
\* What is assumed of the capture below: a first fragment carries data.  With an
\* empty one that completes an overlapping datagram, the queue falls due while
\* the reader is still storing, and COMPLETE may be lost.
FirstIsNotEmpty == \A f \in Wire : IsFirst(f) => f.plen > 0

\* The reader has no store left to do in q.
Idling(q) == UsingQueue /\ rq = q => rpc \in {"admit", "return"}

SentSteps == {"complete", "completestore", "age", "expire", "decide"}

\* A queue is written out when the reader is done with it, and then stays marked
\* until the same visit has discarded it.
SentInv ==
  /\ wpc = "emit" => Idling(wq)
  /\ \A q \in sent \cap tree :
       /\ wq = q /\ wpc \in SentSteps \cup {"recycle", "lock", "erase"}
       /\ wpc \in SentSteps => DoReassembly(fq[q].flags) /\ Idling(q)
       /\ wpc \in {"age", "expire", "decide"} => "COMPLETE" \in fq[q].flags
       /\ wpc \in {"completestore", "expire", "decide"} =>
            "COMPLETE" \in wreg /\ DoReassembly(wreg)
  /\ sent \subseteq tree \cup trash

\* A queue that is due, and whose counts agree, is one the reader is done with.
LEMMA DueIsIdle ==
  ASSUME FirstIsNotEmpty, IInv, FlagInv, wpc = "assemble", Assembles(wq)
  PROVE  Idling(wq)
<1> SUFFICES ASSUME UsingQueue, rq = wq PROVE rpc \in {"admit", "return"}
    BY DEF Idling
<1>1. /\ wq \in Queues /\ wq \in tree /\ rfrag \in Wire /\ rfrag.plen \in Nat
      /\ fq[wq].meat \in Nat /\ fq[wq].len \in Nat
  <2>1. rpc # "idle" /\ wpc \in VisitSteps
        BY DEF UsingQueue, VisitSteps, MaintainerSteps
  <2> QED
      BY <2>1, QueueTypes, WireTypes
<1>2. /\ DoReassembly(fq[wq].flags) /\ "EXPIRE" \notin fq[wq].flags
      /\ Grounded(wq, fq[wq].flags) /\ Complete(wq, fq[wq].flags)
      BY <1>1 DEF FlagInv, Judged, Expiring, FlagsAreTrue
<1>3. rpc \notin {"enqueue", "count"}
      BY <1>2 DEF FlagInv, AdmittedIsNotDue
<1>4. ~Noting(wq)
  <2> SUFFICES ASSUME Noting(wq) PROVE FALSE
      OBVIOUS
  <2>1. IsFirst(rfrag)
        BY <1>2 DEF Complete
  <2>2. fq[wq].meat >= fq[wq].len + rfrag.plen
        BY <1>2 DEF Grounded, DoReassembly
  <2>3. rfrag.plen > 0
        BY <1>1, <2>1 DEF FirstIsNotEmpty
  <2> QED
      BY <1>1, <2>2, <2>3 DEF Assembles
<1> QED
    BY <1>3, <1>4 DEF UsingQueue, Noting, NotingSteps

\* And he stays so, since the flags refuse every further fragment.
LEMMA IdleStays ==
  ASSUME IInv, FlagInv, ReaderNext, NEW q \in Queues, q \in tree, Idling(q),
         DoReassembly(fq[q].flags)
  PROVE  Idling(q)' /\ fq'[q].flags = fq[q].flags
<1>1. CASE Filling /\ q = rq
  <2>1. Return
        BY <1>1 DEF Idling, UsingQueue, Filling, Enqueue, Count, SetFirst, SetLen,
           LoadFlags, StoreFlags, Judge, Return
  <2> QED
      BY <2>1 DEF Return, Leave, Idling, UsingQueue, memory
<1>2. CASE Filling /\ q # rq
  <2>1. rq' = rq \/ rpc' = "idle"
        BY <1>2 DEF Filling, Enqueue, Count, SetFirst, SetLen, LoadFlags,
           StoreFlags, Judge, Return, Leave, rlocals
  <2> QED
      BY <1>2, <2>1, FillingFootprint DEF Steady, Idling, UsingQueue
<1>3. CASE Finding
  <2>1. q \in tree'
        BY <1>3 DEF Finding, Receive, ReceiveOther, Search, Deref, Alloc, ReaderLock,
           Insert, ReaderUnlock, Adopt, Admit, trees
  <2>2. fq'[q].flags = fq[q].flags
        BY <1>3, <2>1, FindingFootprint DEF Steady
  <2>3. Idling(q)'
    <3>1. CASE Admit
          BY <3>1 DEF Admit, Admits, Leave, Idling, UsingQueue, rlocals
    <3>2. CASE ReceiveOther
          BY <3>2 DEF ReceiveOther, Idling, UsingQueue, rlocals
    <3>3. CASE ~Admit /\ ~ReceiveOther
          BY <1>3, <3>3 DEF Finding, Receive, Search, Deref, Alloc, ReaderLock,
             Insert, ReaderUnlock, Adopt, Idling, UsingQueue
    <3> QED
        BY <3>1, <3>2, <3>3
  <2> QED
      BY <2>2, <2>3
<1> QED
    BY <1>1, <1>2, <1>3 DEF ReaderNext, Handle, Finding, Filling

LEMMA SentStep ==
  ASSUME FirstIsNotEmpty, IInv, FlagInv, SentInv, [Next]_vars
  PROVE  SentInv'
<1>0. /\ wpc \in VisitSteps => wq \in Queues /\ wq \in tree
      /\ tree \subseteq Queues /\ fq \in [Queues -> QueueRecord]
      BY QueueTypes DEF IInv, TypeOK
<1> USE DEF SentInv, SentSteps
<1>1. CASE ReaderNext
  <2>1. UNCHANGED <<wpc, wq, wreg, trash>> /\ tree \subseteq tree'
        BY <1>1 DEF ReaderNext, Handle, Receive, ReceiveOther, Search, Deref, Alloc,
           ReaderLock, Insert, ReaderUnlock, Adopt, Admit, Enqueue, Count, SetFirst, SetLen,
           LoadFlags, StoreFlags, Judge, Return, trees, writer
  <2>2. sent' \subseteq sent
        BY <1>1 DEF ReaderNext, Handle, Receive, ReceiveOther, Search, Deref, Alloc,
           ReaderLock, Insert, ReaderUnlock, Adopt, Destroy, Admit, Enqueue, Count, SetFirst,
           SetLen, LoadFlags, StoreFlags, Judge, Return, writer
  <2>3. ASSUME NEW q \in sent, q \in tree' PROVE q \in tree
    <3>1. q \in tree \/ (Insert /\ q = rq)
          BY <1>1, <2>3 DEF ReaderNext, Handle, Receive, ReceiveOther, Search, Deref, Alloc,
             ReaderLock, Insert, ReaderUnlock, Adopt, Admit, Enqueue, Count, SetFirst,
             SetLen, LoadFlags, StoreFlags, Judge, Return, trees
    <3>2. ~(Insert /\ q = rq /\ q \notin tree)
          BY <2>3 DEF Insert, IInv, Ownership, PrivateQueue
    <3> QED
        BY <3>1, <3>2
  <2>4. wpc = "emit" => Idling(wq)'
    <3>1. wpc = "emit" => wq \in Queues /\ wq \in tree /\ DoReassembly(fq[wq].flags)
          BY <1>0 DEF FlagInv, Judged, VisitSteps, MaintainerSteps
    <3>2. ASSUME NEW q \in Queues, q = wq, wpc = "emit" PROVE Idling(q)'
          BY <1>1, <3>1, <3>2, IdleStays
    <3> QED
        BY <2>1, <3>1, <3>2
  <2>5. ASSUME NEW q \in sent \cap tree, wpc \in SentSteps
        PROVE  fq'[q].flags = fq[q].flags /\ Idling(q)'
        BY <1>0, <1>1, <2>5, IdleStays
  <2> QED
      BY <2>1, <2>2, <2>3, <2>4, <2>5
<1>2. UNCHANGED <<rpc, rq>> => \A q \in Queues : Idling(q) => Idling(q)'
      BY DEF Idling, UsingQueue
<1>3. CASE Tick \/ UNCHANGED vars
  <2>1. /\ UNCHANGED <<wpc, wq, wreg, tree, trash, sent, rpc, rq>>
        /\ \A q \in Queues : fq'[q].flags = fq[q].flags
        BY <1>0, <1>3 DEF Tick, vars, memory, reader, rlocals, writer, trees, QueueRecord
  <2> QED
      BY <1>0, <1>2, <2>1 DEF VisitSteps, MaintainerSteps, Idling, UsingQueue
<1>4. CASE Reassemble
  <2>1. Assembles(wq) => Idling(wq)
        BY <1>4, DueIsIdle DEF Reassemble
  <2> QED
      BY <1>4, <2>1 DEF Reassemble, memory, trees, reader, rlocals, Idling, UsingQueue
<1>5. CASE Emit
  <2>1. DoReassembly(fq[wq].flags) /\ wq \in tree
        BY <1>0, <1>5 DEF Emit, FlagInv, Judged, VisitSteps, MaintainerSteps
  <2> QED
      BY <1>5, <2>1 DEF Emit, memory, trees, reader, rlocals, Idling, UsingQueue
<1>6. CASE LoadComplete \/ CheckAge
      BY <1>6 DEF LoadComplete, CheckAge, memory, trees, reader, rlocals, Idling, UsingQueue,
         DoReassembly
<1>7. CASE StoreComplete \/ StoreExpire
  <2>1. /\ wq \in Queues /\ fq'[wq].flags = wreg
        /\ UNCHANGED <<wq, tree, trash, sent, rpc, rq>>
        BY <1>0, <1>7 DEF StoreComplete, StoreExpire, VisitSteps, MaintainerSteps,
           QueueRecord, trees, reader, rlocals
  <2> QED
      BY <1>7, <2>1 DEF StoreComplete, StoreExpire, Idling, UsingQueue
<1>8. CASE Decide
      BY <1>8 DEF Decide, DoErase, memory, trees, reader, rlocals, Idling, UsingQueue
<1>9. CASE Recycle \/ MaintainerLock
      BY <1>9 DEF Recycle, MaintainerLock, memory, reader, rlocals
<1>10. CASE EraseNode
      BY <1>10 DEF EraseNode, GoTo, IInv, Ownership, reader, rlocals
<1>11. CASE TrashMaintain
      BY <1>11 DEF TrashMaintain, Destroy
<1>12. CASE FirstNode \/ Visit \/ NextNode
      BY <1>12 DEF FirstNode, Visit, NextNode, Walk, GoTo, memory, trees, reader, rlocals
<1> QED
    BY <1>1, <1>3, <1>4, <1>5, <1>6, <1>7, <1>8, <1>9, <1>10, <1>11, <1>12
       DEF Next, MaintainerNext

\* SentInv holds of every state, for captures without empty first fragments.
LEMMA SentInvariance ==
  ASSUME FirstIsNotEmpty
  PROVE  Spec => [](IInv /\ FlagInv /\ SentInv)
<1>1. Init => SentInv
      BY DEF Init, SentInv
<1>2. IInv /\ FlagInv /\ SentInv /\ [Next]_vars => SentInv'
      BY FirstIsNotEmpty, SentStep
<1> QED
    BY FlagInvariance, <1>1, <1>2, PTL DEF Spec

\* No datagram is written out twice, although the reader's store may take COMPLETE
\* back: when a queue is written out, the reader has no store left to do in it.
THEOREM NeverSentTwice ==
  ASSUME FirstIsNotEmpty
  PROVE  Spec => []SentOnce
<1>1. IInv /\ SentInv => SentOnce
      BY QueueTypes DEF SentInv, SentOnce, SentSteps, VisitSteps, MaintainerSteps
<1> QED
    BY FirstIsNotEmpty, SentInvariance, <1>1, PTL

\* ipv4_handle_reassembly reads the queue without a lock, but the reader does not
\* change meanwhile what it reads.
THEOREM ReassemblyIsExclusive ==
  ASSUME FirstIsNotEmpty
  PROVE  Spec => []ReassemblyIsUndisturbed
<1>1. IInv /\ FlagInv /\ SentInv => ReassemblyIsUndisturbed
  <2> SUFFICES ASSUME IInv, FlagInv, SentInv, wpc \in {"assemble", "emit"}
               PROVE  /\ (rq = wq => rpc \notin {"enqueue", "count"})
                      /\ (rq = wq /\ rpc = "mark" => "len" \notin rtodo)
                      /\ wpc = "emit" =>
                           /\ fq[wq].first \in fq[wq].frags
                           /\ (rq = wq => rpc \in {"admit", "return"})
      BY DEF ReassemblyIsUndisturbed
  <2>1. wq \in Queues /\ wq \in tree /\ DoReassembly(fq[wq].flags)
        BY QueueTypes DEF FlagInv, Judged, VisitSteps, MaintainerSteps
  <2>2. /\ Grounded(wq, fq[wq].flags) /\ Complete(wq, fq[wq].flags)
        /\ "EXPIRE" \notin fq[wq].flags
        BY <2>1 DEF FlagInv, FlagsAreTrue, Expiring
  <2>3. rq = wq => rpc \notin {"enqueue", "count"}
        BY <2>1 DEF FlagInv, AdmittedIsNotDue
  <2>4. rq = wq /\ rpc = "mark" => "len" \notin rtodo
    <3>1. rq = wq /\ rpc = "mark" => rfrag \in Wire
          BY QueueTypes
    <3>2. rq = wq /\ rpc = "mark" => IsFirst(rfrag)
          BY <2>1, <2>2 DEF Complete, Noting, NotingSteps
    <3> QED
        BY <3>1, <3>2, FirstIsNotLast DEF FlagInv, TodoFits
  <2>5. wpc = "emit" /\ rq = wq => rpc \in {"admit", "return"}
    <3>1. wpc = "emit" /\ rq = wq => rq \in tree /\ ~Linked
          BY <2>1 DEF FlagInv, AdmittedIsNotDue
    <3>2. rpc \in {"idle", "search", "deref", "alloc"} => rq # wq
          BY <2>1, NoneAssumption DEF IInv, Locals
    <3>3. rq \in tree => \/ rpc \in {"idle", "search", "deref", "alloc"} \/ UsingQueue
                        \/ Linked \/ rq = None
          BY DEF IInv, Ownership, PrivateQueue, TypeOK, ReaderSteps, UsingQueue, Linked
    <3> QED
        BY <2>1, <3>1, <3>2, <3>3, NoneAssumption DEF SentInv, Idling
  <2>6. wpc = "emit" => fq[wq].first \in fq[wq].frags
        BY <2>1, <2>2, <2>5 DEF Grounded, DoReassembly, Marking
  <2> QED
      BY <2>3, <2>4, <2>5, <2>6
<1> QED
    BY FirstIsNotEmpty, SentInvariance, <1>1, PTL
-----------------------------------------------------------------------------
(***************************************************************************)
(* The two threads implement the service, and what they write out is       *)
(* whole.  CountInv says what meat counts, OutcomeInv why a queue leaves   *)
(* the tree.                                                               *)
(***************************************************************************)
\* The payload bytes of the fragments of S.
Payload(S) == Weigh(Plen(Wire), S)

\* The fragment the reader has stored in q and not counted yet.
Uncounted(q) == IF rpc = "count" /\ rq = q THEN rfrag.plen ELSE 0

MeatIsSum == \A q \in Queues : fq[q].meat + Uncounted(q) = Payload(fq[q].frags)

OneDatagram == \A q \in Queues : \A f \in fq[q].frags : f.key = fq[q].key

StrangersAreEmpty == \A q \in Queues : q \notin Known => fq[q].frags = {}

\* A queue that has a last fragment has a length, but for the one the reader is about
\* to store.
LengthIsKnown ==
  \A q \in Queues :
    HasLast(q) => \/ fq[q].len # 0 \/ Marking(q, "len")
                  \/ rq = q /\ rpc = "count" /\ IsLast(rfrag)

CountInv == MeatIsSum /\ OneDatagram /\ StrangersAreEmpty /\ LengthIsKnown

\* A queue that has been written out takes no more fragments, even when it is in
\* the trash and the reader still has it.
SentIsDue ==
  /\ sent \subseteq Known
  /\ \A q \in sent :
       /\ DoReassembly(fq[q].flags)
       /\ wq = q /\ wpc \in {"completestore", "expire"} => DoReassembly(wreg)

EmitReady == wpc = "emit" => Assembles(wq)

Doomed ==
  wpc \in {"recycle", "lock", "erase"} => wq \in sent \/ Hopeless(wq) \/ Expired(wq)

OutcomeInv == SentIsDue /\ EmitReady /\ Doomed

-----------------------------------------------------------------------------
LEMMA PlenType == \A f \in Wire : Plen(Wire)[f] = f.plen /\ f.plen \in Nat
BY WireTypes DEF Plen

\* Fragments of the capture: their sum is a number, and grows with each by its length.
LEMMA PayloadGrows ==
  ASSUME NEW S, S \subseteq Wire
  PROVE  /\ IsFiniteSet(S) /\ Payload(S) \in Nat
         /\ \A f \in Wire \ S : Payload(S \cup {f}) = f.plen + Payload(S)
<1>1. IsFiniteSet(S)
      BY FinitenessAssumption, FS_Subset
<1>2. \A f \in S : Plen(Wire)[f] \in Nat
      BY PlenType
<1>3. Payload(S) \in Nat
      BY <1>1, <1>2, WeighType DEF Payload
<1>4. ASSUME NEW f \in Wire \ S
      PROVE  Payload(S \cup {f}) = f.plen + Payload(S)
  <2>1. \A g \in S \cup {f} : Plen(Wire)[g] \in Nat
        BY PlenType
  <2>2. Payload(S \cup {f}) = Plen(Wire)[f] + Payload(S)
        BY <1>1, <2>1, WeighAdd DEF Payload
  <2> QED
      BY <2>2, PlenType
<1> QED
    BY <1>1, <1>3, <1>4

LEMMA PayloadEmpty == Payload({}) = 0
BY WeighEmpty DEF Payload

\* It is what the service calls the bytes of S.
LEMMA PayloadIsBytes ==
  ASSUME NEW S, S \subseteq Wire
  PROVE  Datagrams!Bytes(S) = Payload(S)
<1>1. IsFiniteSet(S)
      BY PayloadGrows
<1>2. \A f \in S : f.plen \in Nat
      BY PlenType
<1>3. Datagrams!Bytes(S) = Weigh(Plen(S), S)
      BY <1>1, <1>2, BytesIsSum DEF Datagrams!Bytes, Datagrams!MapThenSumSet,
         Datagrams!MapThenFoldSet, MapThenSumSet, MapThenFoldSet
<1>4. \A f \in S : Plen(S)[f] \in Nat /\ Plen(Wire)[f] = Plen(S)[f]
      BY <1>2 DEF Plen
<1>5. Weigh(Plen(Wire), S) = Weigh(Plen(S), S)
      BY <1>1, <1>4, WeighSame
<1> QED
    BY <1>3, <1>5 DEF Payload

-----------------------------------------------------------------------------
\* Where the reader stores its fragment.
LEMMA ReaderHolds ==
  ASSUME IInv, FlagInv, rpc \in UsingSteps
  PROVE  /\ rq \in Queues /\ rq \in Known /\ fq[rq].key = rfrag.key
         /\ rfrag \in Wire /\ fq[rq].frags \subseteq Wire
<1>1. rq \in Held
      BY DEF Held, UsingSteps
<1>2. rq \in Known /\ fq[rq].key = rfrag.key
      BY <1>1 DEF IInv, Grace, FlagInv, HeldHasKey, Known
<1>3. rpc # "idle"
      BY DEF UsingSteps
<1> QED
    BY <1>2, <1>3, QueueTypes

\* What is known stays so, but for what the trash frees.
LEMMA OnlyTrashForgets ==
  ASSUME IInv, [Next]_vars, NEW q \in Known, q \notin Known'
  PROVE  TrashMaintain /\ q \in trash /\ q \notin trash' /\ q \notin tree
<1>1. CASE TrashMaintain
      BY <1>1 DEF Known, TrashMaintain
<1>2. CASE EraseNode
  <2>1. wq \in trash
        BY <1>2 DEF EraseNode, IInv, Ownership
  <2> QED
      BY <1>2, <2>1 DEF EraseNode, Known
<1>3. CASE ~TrashMaintain /\ ~EraseNode
  <2>1. tree \subseteq tree' /\ trash \subseteq trash'
        BY <1>3 DEF Next, ReaderNext, Handle, Receive, ReceiveOther, Search, Deref, Alloc,
           ReaderLock, Insert, ReaderUnlock, Adopt, Admit, Enqueue, Count, SetFirst,
           SetLen, LoadFlags, StoreFlags, Judge, Return, MaintainerNext, FirstNode, Visit,
           Reassemble, Emit, LoadComplete, StoreComplete, CheckAge, StoreExpire, Decide,
           Recycle, MaintainerLock, NextNode, Tick, trees, vars
  <2> QED
      BY <2>1 DEF Known
<1> QED
    BY <1>1, <1>2, <1>3

LEMMA ForgottenIsFresh ==
  ASSUME IInv, [Next]_vars, NEW q \in Known, q \notin Known'
  PROVE  Fresh(q)
<1>1. TrashMaintain /\ q \in trash /\ q \notin trash' /\ q \in Queues /\ q \notin tree'
      BY OnlyTrashForgets DEF IInv, TypeOK, Known
<1>2. fq'[q] = Blank /\ UNCHANGED <<rpc, rlocals>>
      BY <1>1 DEF TrashMaintain, Destroy
<1>3. q \notin Held
      BY <1>1, TrashSparesHeld
<1>4. q \notin Held' /\ ~(rq' = q /\ rpc' \in {"count"} \cup NotingSteps)
      BY <1>2, <1>3 DEF Held, rlocals, UsingSteps, NotingSteps
<1> QED
    BY <1>2, <1>4 DEF Fresh, Blank

\* What a step does to a queue, unless it stores the reader's fragment there.
LEMMA Footprint ==
  ASSUME IInv, [Next]_vars, NEW q \in Queues, ~(Filling /\ q = rq)
  PROVE  Fresh(q) \/ (Keeps(q) /\ ReaderKeeps(q))
<1>1. CASE Filling
      BY <1>1, FillingFootprint DEF Steady
<1>2. CASE Finding
      BY <1>2, FindingFootprint DEF Steady
<1>3. CASE MaintainerNext \/ Tick \/ UNCHANGED vars
      BY <1>3, MaintainerFootprint DEF Steady
<1> QED
    BY <1>1, <1>2, <1>3 DEF Next, ReaderNext, Handle, Finding, Filling

\* meat is the sum of what is stored, but for the fragment the reader has stored and
\* not yet counted.
LEMMA MeatStep ==
  IInv /\ FlagInv /\ CountInv /\ [Next]_vars => (MeatIsSum /\ OneDatagram /\ StrangersAreEmpty)'
<1> SUFFICES ASSUME IInv, FlagInv, CountInv, [Next]_vars, NEW q \in Queues
             PROVE  /\ fq'[q].meat + Uncounted(q)' = Payload(fq'[q].frags)
                    /\ \A f \in fq'[q].frags : f.key = fq'[q].key
                    /\ q \notin Known' => fq'[q].frags = {}
    BY DEF MeatIsSum, OneDatagram, StrangersAreEmpty, Payload
<1>0. /\ fq[q].meat + Uncounted(q) = Payload(fq[q].frags)
      /\ \A f \in fq[q].frags : f.key = fq[q].key
      /\ q \notin Known => fq[q].frags = {}
      BY DEF CountInv, MeatIsSum, OneDatagram, StrangersAreEmpty
<1>1. CASE Fresh(q)
      BY <1>1, PayloadEmpty DEF Fresh, Uncounted
<1>2. CASE Keeps(q) /\ ReaderKeeps(q) /\ ~Fresh(q)
  <2>1. Uncounted(q)' = Uncounted(q)
        BY <1>2 DEF ReaderKeeps, Uncounted
  <2>2. q \notin Known' => q \notin Known
        BY <1>2, ForgottenIsFresh
  <2> QED
      BY <1>0, <1>2, <2>1, <2>2 DEF Keeps
<1>3. CASE Filling /\ q = rq
  <2>0. fq \in [Queues -> QueueRecord] /\ rpc \in UsingSteps
        BY <1>3, FillingFootprint DEF IInv, TypeOK
  <2>1. /\ q \in Known /\ fq[q].key = rfrag.key /\ rfrag \in Wire
        /\ fq[q].frags \subseteq Wire /\ fq[q].meat \in Nat /\ rfrag.plen \in Nat
        BY <1>3, <2>0, ReaderHolds, QueueTypes, WireTypes
  <2>2. q \in Known' /\ fq'[q].key = fq[q].key
        BY <1>3, <2>1, FillingFootprint DEF Filling, Enqueue, Count, SetFirst, SetLen,
           LoadFlags, StoreFlags, Judge, Return, trees, Known
  <2>3. CASE Enqueue /\ ~SameOffset(fq[rq].frags, rfrag)
    <3>1. fq'[q].frags = fq[q].frags \cup {rfrag} /\ fq'[q].meat = fq[q].meat
          BY <1>3, <2>0, <2>3 DEF Enqueue, QueueRecord
    <3>2. Uncounted(q) = 0 /\ Uncounted(q)' = rfrag.plen
          BY <1>3, <2>3 DEF Enqueue, Uncounted, rlocals
    <3>3. rfrag \notin fq[q].frags
          BY <1>3, <2>3 DEF SameOffset
    <3>4. Payload(fq'[q].frags) = rfrag.plen + Payload(fq[q].frags)
          BY <2>1, <3>1, <3>3, PayloadGrows
    <3> QED
        BY <1>0, <2>1, <2>2, <3>1, <3>2, <3>4
  <2>4. CASE Enqueue /\ SameOffset(fq[rq].frags, rfrag)
        BY <1>0, <1>3, <2>2, <2>4 DEF Enqueue, Uncounted, Leave
  <2>5. CASE Count
    <3>1. fq'[q].frags = fq[q].frags /\ fq'[q].meat = fq[q].meat + rfrag.plen
          BY <1>3, <2>0, <2>5 DEF Count, QueueRecord
    <3>2. Uncounted(q) = rfrag.plen /\ Uncounted(q)' = 0
          BY <1>3, <2>5 DEF Count, Uncounted
    <3> QED
        BY <1>0, <2>1, <2>2, <3>1, <3>2
  <2>6. CASE SetFirst \/ SetLen \/ LoadFlags \/ StoreFlags \/ Judge \/ Return
    <3>1. fq'[q].frags = fq[q].frags /\ fq'[q].meat = fq[q].meat
          BY <1>3, <2>0, <2>6 DEF SetFirst, SetLen, LoadFlags, StoreFlags, Judge, Return,
             memory, QueueRecord
    <3>2. Uncounted(q) = 0 /\ Uncounted(q)' = 0
          BY <2>6 DEF SetFirst, SetLen, LoadFlags, StoreFlags, Judge, Return, Leave,
             Uncounted
    <3> QED
        BY <1>0, <2>2, <3>1, <3>2
  <2> QED
      BY <1>3, <2>3, <2>4, <2>5, <2>6 DEF Filling
<1> QED
    BY <1>1, <1>2, <1>3, Footprint

\* A last fragment does not end at 0, and its end is stored before the reader leaves.
LEMMA LengthKnownStep == IInv /\ FlagInv /\ CountInv /\ [Next]_vars => LengthIsKnown'
<1> SUFFICES ASSUME IInv, FlagInv, CountInv, [Next]_vars, NEW q \in Queues, HasLast(q)'
             PROVE  \/ fq'[q].len # 0 \/ Marking(q, "len")'
                    \/ rq' = q /\ rpc' = "count" /\ IsLast(rfrag')
    BY DEF LengthIsKnown, IsLast
<1>0. HasLast(q) => \/ fq[q].len # 0 \/ Marking(q, "len")
                    \/ rq = q /\ rpc = "count" /\ IsLast(rfrag)
      BY DEF CountInv, LengthIsKnown
<1>1. CASE Fresh(q)
      BY <1>1 DEF Fresh, HasLast
<1>2. CASE Keeps(q) /\ ReaderKeeps(q)
      BY <1>0, <1>2 DEF Keeps, ReaderKeeps, HasLast, Marking, NotingSteps
<1>3. CASE Filling /\ q = rq
  <2>0. fq \in [Queues -> QueueRecord] /\ rpc \in UsingSteps
        BY <1>3, FillingFootprint DEF IInv, TypeOK
  <2>1. rfrag \in Wire
        BY <2>0, ReaderHolds
  <2>2. CASE Enqueue
    <3>1. CASE SameOffset(fq[rq].frags, rfrag)
          BY <1>0, <1>3, <2>2, <3>1 DEF Enqueue, HasLast, Marking
    <3>2. CASE ~SameOffset(fq[rq].frags, rfrag)
      <4>1. fq'[q].frags = fq[q].frags \cup {rfrag} /\ fq'[q].len = fq[q].len
            BY <1>3, <2>0, <2>2, <3>2 DEF Enqueue, QueueRecord
      <4>2. rpc' = "count" /\ rq' = rq /\ rfrag' = rfrag
            BY <2>2, <3>2 DEF Enqueue, rlocals
      <4> QED
          BY <1>0, <1>3, <2>2, <4>1, <4>2 DEF Enqueue, HasLast, Marking
    <3> QED
        BY <3>1, <3>2
  <2>3. CASE Count
    <3>1. fq'[q].frags = fq[q].frags /\ fq'[q].len = fq[q].len
          BY <1>3, <2>0, <2>3 DEF Count, QueueRecord
    <3>2. IsLast(rfrag) => "len" \in rtodo'
          BY <2>1, <2>3, FirstIsNotLast DEF Count
    <3> QED
        BY <1>0, <1>3, <2>3, <3>1, <3>2 DEF Count, HasLast, Marking
  <2>4. CASE SetLen
    <3>1. fq'[q].len = End(rfrag) /\ IsLast(rfrag)
          BY <1>3, <2>0, <2>4 DEF SetLen, QueueRecord, FlagInv, TodoFits
    <3>2. rfrag.off # 0
          BY <2>1, <3>1, WireAssumption DEF IsLast
    <3> QED
        BY <2>1, <3>1, <3>2, WireTypes DEF End
  <2>5. CASE SetFirst \/ LoadFlags \/ StoreFlags \/ Judge \/ Return
    <3>1. fq'[q].frags = fq[q].frags /\ fq'[q].len = fq[q].len
          BY <1>3, <2>0, <2>5 DEF SetFirst, LoadFlags, StoreFlags, Judge, Return,
             memory, QueueRecord
    <3> QED
        BY <1>0, <1>3, <2>5, <3>1 DEF SetFirst, LoadFlags, StoreFlags, Judge, Return,
           HasLast, Marking
  <2> QED
      BY <1>3, <2>2, <2>3, <2>4, <2>5 DEF Filling
<1> QED
    BY <1>1, <1>2, <1>3, Footprint

LEMMA CountStep == IInv /\ FlagInv /\ CountInv /\ [Next]_vars => CountInv'
BY MeatStep, LengthKnownStep DEF CountInv

-----------------------------------------------------------------------------
\* Once a queue has been written out it stays due.  The reader's stores keep its three
\* bits, and what the maintainer stores it has loaded from a queue that was due.
LEMMA SentStaysDue ==
  IInv /\ FlagInv /\ OutcomeInv /\ [Next]_vars => SentIsDue'
<1> SUFFICES ASSUME IInv, FlagInv, OutcomeInv, [Next]_vars, NEW q \in sent'
             PROVE  /\ q \in Known' /\ DoReassembly(fq'[q].flags)
                    /\ wq' = q /\ wpc' \in {"completestore", "expire"}
                         => DoReassembly(wreg')
    BY DEF SentIsDue
<1>0. /\ sent \subseteq Known /\ Known \subseteq Queues
      /\ fq \in [Queues -> QueueRecord]
      /\ wpc \in VisitSteps => wq \in tree
      /\ q \in sent => /\ DoReassembly(fq[q].flags)
                       /\ wq = q /\ wpc \in {"completestore", "expire"}
                            => DoReassembly(wreg)
      BY QueueTypes DEF OutcomeInv, SentIsDue, IInv, TypeOK, Known
<1>1. CASE q \notin sent
  <2>1. Emit /\ q = wq
        BY <1>1 DEF Next, ReaderNext, Handle, Receive, ReceiveOther, Search, Deref, Alloc,
           ReaderLock, Insert, ReaderUnlock, Adopt, Destroy, Admit, Enqueue, Count, SetFirst,
           SetLen, LoadFlags, StoreFlags, Judge, Return, MaintainerNext, TrashMaintain,
           FirstNode, Visit, Reassemble, Emit, LoadComplete, StoreComplete, CheckAge,
           StoreExpire, Decide, Recycle, MaintainerLock, EraseNode, NextNode, Tick, writer,
           vars
  <2>2. q \in tree /\ DoReassembly(fq[q].flags)
        BY <1>0, <2>1 DEF Emit, FlagInv, Judged, VisitSteps, MaintainerSteps
  <2> QED
      BY <2>1, <2>2 DEF Emit, memory, trees, Known
<1>2. CASE q \in sent
  <2>0. q \in Known /\ q \in Queues /\ DoReassembly(fq[q].flags)
        BY <1>0, <1>2
  <2>1. q \in Known'
    <3>1. q \notin Known' => q \notin sent'
          BY <2>0, OnlyTrashForgets DEF TrashMaintain, Destroy
    <3> QED
        BY <3>1
  <2>2. q \in heap
        BY <2>0 DEF Known, IInv, Ownership
  <2>3. \/ fq'[q].flags = fq[q].flags
        \/ StoreFlags /\ q = rq
        \/ (StoreComplete \/ StoreExpire) /\ q = wq
    <3>1. CASE TrashMaintain \/ Adopt
          BY <1>0, <2>0, <3>1 DEF TrashMaintain, Adopt, Destroy, QueueRecord, memory
    <3>2. CASE Tick
          BY <1>0, <2>0, <3>2 DEF Tick, QueueRecord
    <3>3. ASSUME NEW p \in Queues, Alloc(p) PROVE fq'[q].flags = fq[q].flags
          BY <1>0, <2>0, <2>2, <3>3 DEF Alloc
    <3>4. CASE UNCHANGED fq
          BY <3>4
    <3>5. CASE StoreFlags \/ StoreComplete \/ StoreExpire
          BY <1>0, <2>0, <3>5 DEF StoreFlags, StoreComplete, StoreExpire
    <3>6. CASE Enqueue \/ Count \/ SetFirst \/ SetLen
          BY <1>0, <2>0, <3>6 DEF Enqueue, Count, SetFirst, SetLen, QueueRecord
    <3> QED
        BY <3>1, <3>2, <3>3, <3>4, <3>5, <3>6 DEF Next, ReaderNext, Handle, Receive,
           ReceiveOther, Search, Deref, ReaderLock, Insert, ReaderUnlock, Admit, LoadFlags,
           Judge, Return, MaintainerNext, FirstNode, Visit, Reassemble, Emit, LoadComplete,
           CheckAge, Decide, Recycle, MaintainerLock, EraseNode, NextNode, memory, vars
  <2>4. CASE StoreFlags /\ q = rq
    <3>1. fq[q].flags \cap ReaderBits \subseteq rreg
          BY <2>4 DEF FlagInv, ReaderRegister, Storing, StoreFlags
    <3>2. rreg \subseteq fq'[q].flags
          BY <1>0, <2>0, <2>4 DEF StoreFlags
    <3> QED
        BY <2>0, <2>1, <2>4, <3>1, <3>2, <1>0, <1>2
           DEF DoReassembly, ReaderBits, StoreFlags, writer
  <2>5. CASE (StoreComplete \/ StoreExpire) /\ q = wq
    <3>1. fq'[q].flags = wreg /\ wpc' \notin {"completestore", "expire"}
          BY <1>0, <2>0, <2>5 DEF StoreComplete, StoreExpire, QueueRecord
    <3> QED
        BY <1>0, <1>2, <2>1, <2>5, <3>1 DEF StoreComplete, StoreExpire
  <2>6. CASE fq'[q].flags = fq[q].flags
    <3>1. \/ wpc' \notin {"completestore", "expire"} \/ UNCHANGED <<wpc, wq, wreg>>
          \/ wq' = wq /\ fq[wq].flags \subseteq wreg'
          BY DEF Next, ReaderNext, Handle, Receive, ReceiveOther, Search, Deref, Alloc,
             ReaderLock, Insert, ReaderUnlock, Adopt, Admit, Enqueue, Count, SetFirst,
             SetLen, LoadFlags, StoreFlags, Judge, Return, MaintainerNext, TrashMaintain,
             FirstNode, Visit, Reassemble, Emit, LoadComplete, StoreComplete, CheckAge,
             StoreExpire, Decide, Recycle, MaintainerLock, EraseNode, NextNode, Walk, GoTo,
             Tick, writer, vars
    <3> QED
        BY <1>0, <1>2, <2>0, <2>1, <2>6, <3>1 DEF DoReassembly
  <2> QED
      BY <2>3, <2>4, <2>5, <2>6
<1> QED
    BY <1>1, <1>2

\* A queue that is due does not change its counts: the reader stores no fragment in it
\* and is not about to set its length.
LEMMA DueIsSettled ==
  ASSUME IInv, FlagInv, [Next]_vars, NEW q \in tree, DoReassembly(fq[q].flags),
         "EXPIRE" \notin fq[q].flags
  PROVE  /\ fq'[q].frags = fq[q].frags /\ fq'[q].meat = fq[q].meat
         /\ fq'[q].len = fq[q].len /\ Uncounted(q) = 0
<1>0. /\ q \in Queues /\ fq \in [Queues -> QueueRecord]
      /\ Complete(q, fq[q].flags)
      BY DEF IInv, TypeOK, FlagInv, FlagsAreTrue
<1>1. rq = q => rpc \notin {"enqueue", "count"}
      BY DEF FlagInv, AdmittedIsNotDue
<1>2. CASE Filling /\ q = rq
  <2>1. ~SetLen
    <3> SUFFICES ASSUME SetLen PROVE FALSE
        OBVIOUS
    <3>1. rfrag \in Wire /\ IsLast(rfrag)
          BY QueueTypes DEF SetLen, FlagInv, TodoFits
    <3>2. IsFirst(rfrag)
          BY <1>0, <1>2 DEF SetLen, Complete, Noting, NotingSteps
    <3> QED
        BY <3>1, <3>2, FirstIsNotLast
  <2>2. CASE SetFirst \/ LoadFlags \/ StoreFlags \/ Judge \/ Return
        BY <1>0, <1>1, <1>2, <2>2 DEF SetFirst, LoadFlags, StoreFlags, Judge, Return,
           memory, QueueRecord, Uncounted
  <2> QED
      BY <1>1, <1>2, <2>1, <2>2 DEF Filling, Enqueue, Count
<1>3. CASE ~(Filling /\ q = rq)
  <2>1. Keeps(q)
    <3>1. CASE Filling
          BY <1>0, <1>3, <3>1, FillingFootprint DEF Steady
    <3>2. CASE Finding
      <4>1. tree \subseteq tree'
            BY <3>2 DEF Finding, Receive, ReceiveOther, Search, Deref, Alloc, ReaderLock,
               Insert, ReaderUnlock, Adopt, Admit, trees
      <4> QED
          BY <1>0, <3>2, <4>1, FindingFootprint DEF Steady
    <3>3. CASE EraseNode
          BY <3>3 DEF EraseNode, Keeps, Expired
    <3>4. CASE (MaintainerNext /\ ~EraseNode) \/ Tick \/ UNCHANGED vars
      <4>1. tree \subseteq tree'
            BY <3>4 DEF MaintainerNext, TrashMaintain, FirstNode, Visit, Reassemble, Emit,
               LoadComplete, StoreComplete, CheckAge, StoreExpire, Decide, Recycle,
               MaintainerLock, NextNode, Tick, trees, vars
      <4> QED
          BY <1>0, <3>4, <4>1, MaintainerFootprint DEF Steady
    <3> QED
        BY <3>1, <3>2, <3>3, <3>4 DEF Next, ReaderNext, Handle, Finding, Filling
  <2> QED
      BY <1>1, <2>1 DEF Keeps, Uncounted
<1> QED
    BY <1>2, <1>3

\* Between the checks of ipv4_handle_reassembly and the copy nothing changes.
LEMMA EmitStaysReady == IInv /\ FlagInv /\ OutcomeInv /\ [Next]_vars => EmitReady'
<1> SUFFICES ASSUME IInv, FlagInv, OutcomeInv, [Next]_vars, wpc' = "emit"
             PROVE  Assembles(wq)'
    BY DEF EmitReady
<1>1. Reassemble \/ (wpc = "emit" /\ wq' = wq)
      BY DEF Next, ReaderNext, Handle, Receive, ReceiveOther, Search, Deref, Alloc,
         ReaderLock, Insert, ReaderUnlock, Adopt, Admit, Enqueue, Count, SetFirst,
         SetLen, LoadFlags, StoreFlags, Judge, Return, MaintainerNext, TrashMaintain,
         FirstNode, Visit, Reassemble, Emit, LoadComplete, StoreComplete, CheckAge,
         StoreExpire, Decide, Recycle, MaintainerLock, EraseNode, NextNode, Walk, GoTo,
         Tick, writer, vars
<1>2. CASE Reassemble
      BY <1>2 DEF Reassemble, Assembles, memory
<1>3. CASE wpc = "emit" /\ wq' = wq
  <2>1. wq \in tree /\ DoReassembly(fq[wq].flags) /\ "EXPIRE" \notin fq[wq].flags
        BY <1>3 DEF IInv, Ownership, VisitSteps, MaintainerSteps, FlagInv, Judged, Expiring
  <2>2. Assembles(wq)
        BY <1>3 DEF OutcomeInv, EmitReady
  <2>3. fq'[wq].meat = fq[wq].meat /\ fq'[wq].len = fq[wq].len
        BY <2>1, DueIsSettled
  <2> QED
      BY <1>3, <2>2, <2>3 DEF Assembles
<1> QED
    BY <1>1, <1>2, <1>3

\* A reason to discard a queue is not taken back.
LEMMA DoomedStays == IInv /\ FlagInv /\ OutcomeInv /\ [Next]_vars => Doomed'
<1> SUFFICES ASSUME IInv, FlagInv, OutcomeInv, [Next]_vars,
                    wpc' \in {"recycle", "lock", "erase"}
             PROVE  (wq \in sent \/ Hopeless(wq) \/ Expired(wq))'
    BY DEF Doomed
<1>1. CASE wpc' = "recycle"
      BY <1>1, JudgedStep DEF Judged
<1>2. CASE wpc' # "recycle"
  <2>1. wpc \in {"recycle", "lock"} \/ (wpc = "erase" /\ ~EraseNode)
        BY <1>2 DEF Next, ReaderNext, Handle, Receive, ReceiveOther, Search, Deref, Alloc,
           ReaderLock, Insert, ReaderUnlock, Adopt, Admit, Enqueue, Count, SetFirst,
           SetLen, LoadFlags, StoreFlags, Judge, Return, MaintainerNext, TrashMaintain,
           FirstNode, Visit, Reassemble, Emit, LoadComplete, StoreComplete, CheckAge,
           StoreExpire, Decide, Recycle, MaintainerLock, EraseNode, NextNode, Walk, GoTo,
           Tick, writer, vars
  <2>2. wq' = wq /\ wq \in tree /\ wq \in Queues /\ wq \in tree'
    <3>1. wq \in tree /\ wq \in Queues
          BY <2>1 DEF IInv, TypeOK, Ownership, VisitSteps, MaintainerSteps
    <3>2. wq' = wq /\ ~EraseNode
          BY <1>2, <2>1 DEF Next, ReaderNext, Handle, Receive, ReceiveOther, Search, Deref,
             Alloc, ReaderLock, Insert, ReaderUnlock, Adopt, Admit, Enqueue, Count, SetFirst,
             SetLen, LoadFlags, StoreFlags, Judge, Return, MaintainerNext, TrashMaintain,
             FirstNode, Visit, Reassemble, Emit, LoadComplete, StoreComplete, CheckAge,
             StoreExpire, Decide, Recycle, MaintainerLock, EraseNode, NextNode, Walk, GoTo,
             Tick, writer, vars
    <3>3. tree \subseteq tree'
          BY <3>2 DEF Next, ReaderNext, Handle, Receive, ReceiveOther, Search, Deref, Alloc,
             ReaderLock, Insert, ReaderUnlock, Adopt, Admit, Enqueue, Count, SetFirst,
             SetLen, LoadFlags, StoreFlags, Judge, Return, MaintainerNext, TrashMaintain,
             FirstNode, Visit, Reassemble, Emit, LoadComplete, StoreComplete, CheckAge,
             StoreExpire, Decide, Recycle, MaintainerLock, NextNode, Tick, trees, vars
    <3> QED
        BY <3>1, <3>2, <3>3
  <2>3. Grounded(wq, {"COMPLETE"}) \/ Grounded(wq, {"EXPIRE"})
        BY <2>1 DEF OutcomeInv, Doomed, Grounded
  <2>4. ASSUME NEW q \in tree, q \in Queues, q \in tree', NEW fl, Grounded(q, fl)
        PROVE  Grounded(q, fl)'
    <3>1. CASE ReaderNext
          BY <2>4, <3>1, ReaderIsHarmless
    <3>2. CASE MaintainerNext \/ Tick \/ UNCHANGED vars
      <4>1. CASE EraseNode
            BY <2>4, <4>1, KeptIsGrounded
               DEF EraseNode, Keeps, ReaderKeeps, Expired, reader, rlocals
      <4>2. Keeps(q) /\ ReaderKeeps(q)
            BY <2>4, <3>2, MaintainerFootprint DEF Steady
      <4> QED
          BY <2>4, <4>2, KeptIsGrounded
    <3> QED
        BY <3>1, <3>2 DEF Next
  <2>5. ASSUME NEW q \in Queues, q = wq
        PROVE  q \in sent' \/ Hopeless(q)' \/ Expired(q)'
    <3>1. Grounded(q, {"COMPLETE"})' \/ Grounded(q, {"EXPIRE"})'
          BY <2>2, <2>3, <2>4, <2>5
    <3> QED
        BY <3>1 DEF Grounded
  <2> QED
      BY <2>2, <2>5 DEF Hopeless, Expired
<1> QED
    BY <1>1, <1>2

LEMMA InitService == Init => CountInv /\ OutcomeInv
<1> SUFFICES ASSUME Init PROVE CountInv /\ OutcomeInv
    OBVIOUS
<1>1. CountInv
      BY SMTT(30), PayloadEmpty DEF Init, CountInv, MeatIsSum, OneDatagram, StrangersAreEmpty,
         Uncounted, Blank, LengthIsKnown, HasLast
<1> QED
    BY <1>1 DEF Init, OutcomeInv, SentIsDue, EmitReady, Doomed

\* Both invariants hold of every state, without a condition on the capture but those of
\* Reassembly.
THEOREM ServiceInvariance == Spec => [](IInv /\ FlagInv /\ CountInv /\ OutcomeInv)
<1>1. IInv /\ FlagInv /\ OutcomeInv /\ [Next]_vars => OutcomeInv'
      BY SentStaysDue, EmitStaysReady, DoomedStays DEF OutcomeInv
<1> QED
    BY FlagInvariance, InitService, CountStep, <1>1, PTL DEF Spec

-----------------------------------------------------------------------------
\* What a queue holds whose reassembly goes ahead: as many bytes as its last fragment
\* ends at.
LEMMA DueHolds ==
  ASSUME IInv, FlagInv, CountInv, wpc \in {"assemble", "emit"}, Assembles(wq)
  PROVE  /\ wq \in tree /\ wq \in Queues /\ fq[wq].frags \subseteq Wire
         /\ DoReassembly(fq[wq].flags) /\ HasFirst(wq)
         /\ fq[wq].len \in Nat /\ fq[wq].len <= MaxLen
         /\ Payload(fq[wq].frags) = fq[wq].len
         /\ \E l \in fq[wq].frags : IsLast(l) /\ End(l) = fq[wq].len
<1>1. /\ wq \in tree /\ wq \in Queues /\ fq[wq].frags \subseteq Wire
      /\ fq[wq].len \in Nat /\ fq[wq].meat \in Nat
      BY QueueTypes DEF VisitSteps, MaintainerSteps
<1>2. DoReassembly(fq[wq].flags)
      BY DEF FlagInv, Judged
<1>3. HasFirst(wq) /\ fq[wq].len # 0
      BY <1>1, <1>2 DEF FlagInv, FlagsAreTrue, Grounded, DoReassembly
<1>4. fq[wq].meat = fq[wq].len /\ fq[wq].len <= MaxLen
      BY DEF Assembles
<1>5. Uncounted(wq) = 0
      BY <1>2 DEF FlagInv, AdmittedIsNotDue, Uncounted
<1>6. Payload(fq[wq].frags) = fq[wq].len
      BY <1>1, <1>4, <1>5 DEF CountInv, MeatIsSum
<1>7. \E l \in fq[wq].frags : IsLast(l) /\ End(l) = fq[wq].len
      BY <1>1, <1>3 DEF FlagInv, LengthIsEnd
<1> QED
    BY <1>1, <1>2, <1>3, <1>4, <1>6, <1>7

LEMMA EmittedHolds ==
  ASSUME IInv, FlagInv, CountInv, OutcomeInv, wpc = "emit"
  PROVE  /\ wq \in tree /\ wq \in Queues /\ fq[wq].frags \subseteq Wire
         /\ DoReassembly(fq[wq].flags) /\ HasFirst(wq)
         /\ fq[wq].len \in Nat /\ fq[wq].len <= MaxLen
         /\ Payload(fq[wq].frags) = fq[wq].len
         /\ \E l \in fq[wq].frags : IsLast(l) /\ End(l) = fq[wq].len
BY DueHolds DEF OutcomeInv, EmitReady

\* Fragments of the capture that do not overlap have n bytes up to n exactly if they
\* leave no hole.
LEMMA CoversIsSum ==
  ASSUME NEW S, S \subseteq Wire, NEW n \in Nat, Apart(S), \A f \in S : End(f) <= n
  PROVE  Covers(S, n) <=> Payload(S) = n
<1> DEFINE start == [f \in Wire |-> f.off * 8]
<1>1. \A f \in S : /\ Plen(Wire)[f] = f.plen /\ f.plen \in Nat
                   /\ start[f] = f.off * 8 /\ f.off \in Nat /\ start[f] \in Nat
                   /\ start[f] + Plen(Wire)[f] = End(f)
      BY PlenType, WireTypes DEF End
<1>2. IsFiniteSet(S) /\ Payload(S) = Weigh(Plen(Wire), S)
      BY PayloadGrows DEF Payload
<1> HIDE DEF start
<1>3. Separate(start, Plen(Wire), S)
  <2> SUFFICES ASSUME NEW f \in S, NEW g \in S, f # g
               PROVE  Extent(start[f], Plen(Wire)[f]) \cap Extent(start[g], Plen(Wire)[g])
                        = {}
      BY DEF Separate
  <2>1. Disjoint(f, g)
        BY DEF Apart
  <2>2. End(f) <= start[g] \/ End(g) <= start[f]
        BY <1>1, <2>1 DEF Disjoint
  <2> QED
      BY <1>1, <2>2 DEF Extent
<1>4. ASSUME Payload(S) = n PROVE Covers(S, n)
  <2>0. /\ \A f \in S : start[f] + Plen(Wire)[f] <= n
        /\ \A f \in S : Plen(Wire)[f] \in Nat /\ start[f] \in Nat
        /\ Weigh(Plen(Wire), S) = n
        BY <1>1, <1>2, <1>4
  <2>1. \A b \in 0..(n - 1) : \E f \in S : b \in Extent(start[f], Plen(Wire)[f])
        BY <1>2, <1>3, <2>0, AllCovered
  <2> QED
      BY <1>1, <2>1 DEF Extent, Covers
<1>5. ASSUME Covers(S, n) PROVE Payload(S) = n
  <2>1. Cardinality(Covered(start, Plen(Wire), S)) = Payload(S)
        BY <1>1, <1>2, <1>3, CoveredSize
  <2>2. \A b : b \in Covered(start, Plen(Wire), S) => b \in 0..(n - 1)
        BY <1>1 DEF Covered, Extent
  <2>3. \A b : b \in 0..(n - 1) => b \in Covered(start, Plen(Wire), S)
        BY <1>1, <1>5 DEF Covered, Extent, Covers
  <2>4. Cardinality(0..(n - 1)) = n
        BY FS_Interval
  <2> QED
      BY <2>1, <2>2, <2>3, <2>4
<1> QED
    BY <1>4, <1>5

\* What is written out is whole: fragments that do not overlap and count as many bytes as
\* the datagram has leave no hole in it.
THEOREM WholeIsEmitted == Spec => []EmittedIsWhole
<1>1. IInv /\ FlagInv /\ CountInv /\ OutcomeInv => EmittedIsWhole
  <2> SUFFICES ASSUME IInv, FlagInv, CountInv, OutcomeInv, wpc = "emit",
                      Apart(fq[wq].frags)
               PROVE  Covers(fq[wq].frags, fq[wq].len)
      BY DEF EmittedIsWhole
  <2> DEFINE S == fq[wq].frags
             n == fq[wq].len
  <2>1. S \subseteq Wire /\ n \in Nat /\ Payload(S) = n /\ wq \in Queues
        BY EmittedHolds
  <2>2. \A f \in S : End(f) <= n
    <3>1. PICK l \in S : IsLast(l) /\ End(l) = n
          BY EmittedHolds
    <3>2. \A f \in S : f.key = l.key
          BY <2>1 DEF CountInv, OneDatagram
    <3> QED
        BY <2>1, <3>1, <3>2, WireAssumption DEF IsLast
  <2> QED
      BY <2>1, <2>2, CoversIsSum
<1> QED
    BY ServiceInvariance, <1>1, PTL

\* And what is whole is recognised.  Its bytes add up to its length, so FULL is set by
\* the fragment that comes last, whichever that is; no flag of it is lost.
THEOREM WholeIsRecognised == Spec => []WholeIsDue
<1>1. IInv /\ FlagInv /\ CountInv /\ NoLostUpdate => WholeIsDue
  <2> SUFFICES ASSUME IInv, FlagInv, CountInv, NoLostUpdate, NEW q \in tree,
                      NEW l \in fq[q].frags, Quiet(q), IsLast(l), End(l) <= MaxLen,
                      Apart(fq[q].frags), Covers(fq[q].frags, End(l))
               PROVE  DoReassembly(fq[q].flags) /\ Assembles(q)
      BY DEF WholeIsDue
  <2> DEFINE S == fq[q].frags
             n == End(l)
  <2>1. /\ q \in Queues /\ S \subseteq Wire /\ l \in Wire /\ n \in Nat
        /\ fq[q].meat \in Nat
        BY QueueTypes, WireTypes DEF IInv, TypeOK
  <2>2. ~(rq = q /\ rpc \in {"count"} \cup NotingSteps)
        BY DEF Quiet, UsingQueue, NotingSteps
  <2>3. fq[q].len # 0
        BY <2>1, <2>2 DEF CountInv, LengthIsKnown, HasLast, Marking, NotingSteps
  <2>4. fq[q].len = n
    <3>1. PICK f \in S : IsLast(f) /\ f.key = fq[q].key /\ End(f) = fq[q].len
          BY <2>1, <2>3 DEF FlagInv, LengthIsEnd
    <3>2. l.key = f.key
          BY <2>1, <3>1 DEF CountInv, OneDatagram
    <3> QED
        BY <2>1, <3>1, <3>2, LastsAgree
  <2>5. Payload(S) = n
        BY <2>1, CoversIsSum DEF Covers
  <2>6. fq[q].meat = n
        BY <2>1, <2>2, <2>5 DEF CountInv, MeatIsSum, Uncounted
  <2>7. \E f \in S : IsFirst(f)
    <3>1. 0 \in 0..(n - 1)
          BY <2>1, <2>3, <2>4
    <3>2. PICK f \in S : f.off * 8 <= 0
          BY <3>1 DEF Covers
    <3> QED
        BY <2>1, <3>2, WireTypes DEF IsFirst
  <2> QED
      BY <2>3, <2>4, <2>6, <2>7 DEF NoLostUpdate, DoReassembly, Assembles
<1> QED
    BY ServiceInvariance, FlagsSurvive, <1>1, PTL

\* The fragments a datagram of n bytes becomes when the program writes it.
OwnPieces(k, n, ihl, mtu) ==
  {[key |-> k, off |-> p.off, plen |-> p.plen, mf |-> p.mf] :
     p \in Pieces(n, ihl, FragmentSize(mtu))}

LEMMA OwnPiecesAreWhole ==
  ASSUME NEW k, NEW n \in Nat, n <= 65535, NEW ihl, NEW mtu \in Nat, 28 <= mtu, mtu <= 65535
  PROVE  /\ Apart(OwnPieces(k, n, ihl, mtu)) /\ Covers(OwnPieces(k, n, ihl, mtu), n)
         /\ \E l \in OwnPieces(k, n, ihl, mtu) : IsLast(l) /\ End(l) = n
<1> DEFINE size == FragmentSize(mtu)
           count == FragmentCount(n, size)
           piece(i) == Piece(n, ihl, size, i)
           frag(i) == [key |-> k, off |-> piece(i).off, plen |-> piece(i).plen,
                       mf |-> piece(i).mf]
           S == OwnPieces(k, n, ihl, mtu)
<1>1. size \in Nat /\ size >= 8 /\ size % 8 = 0
      BY SizeIsMultiple
<1> HIDE DEF size
<1>2. count \in Nat /\ count >= 1
      BY <1>1, CountIsExact
<1>3. S = {frag(i) : i \in 1..count}
      BY DEF OwnPieces, Pieces, size
<1>4. ASSUME NEW i \in 1..count
      PROVE  /\ frag(i).off * 8 = piece(i).from /\ End(frag(i)) = piece(i).from + piece(i).plen
             /\ piece(i).from \in Nat /\ piece(i).plen \in Nat /\ End(frag(i)) <= n
             /\ frag(i).mf = piece(i).mf
  <2>1. i \in Nat /\ i >= 1 /\ i <= FragmentCount(n, size)
        BY <1>2
  <2>2. Exact(piece(i), n, ihl, size, i)
        BY <1>1, <2>1, PieceIsExact
  <2> HIDE DEF piece
  <2>3. /\ piece(i).from \in Nat /\ piece(i).plen \in Nat
        /\ piece(i).off * 8 = piece(i).from /\ piece(i).from + piece(i).plen <= n
        BY <2>2 DEF Exact
  <2>4. /\ frag(i).off = piece(i).off /\ frag(i).plen = piece(i).plen
        /\ frag(i).mf = piece(i).mf
        OBVIOUS
  <2> QED
      BY <2>3, <2>4 DEF End
<1> HIDE DEF piece, frag
<1>5. ASSUME NEW i \in 1..count, NEW j \in 1..count, i < j
      PROVE  End(frag(i)) <= frag(j).off * 8
  <2>1. piece(i).from + piece(i).plen <= piece(j).from
        BY <1>1, <1>2, <1>5, PiecesAreApart DEF piece
  <2> QED
      BY <1>4, <2>1
<1>6. Apart(S)
  <2> SUFFICES ASSUME NEW f \in S, NEW g \in S, f # g
               PROVE  Disjoint(f, g)
      BY DEF Apart
  <2>1. PICK i \in 1..count : f = frag(i)
        BY <1>3
  <2>2. PICK j \in 1..count : g = frag(j)
        BY <1>3
  <2>3. i < j \/ j < i
        BY <1>2, <2>1, <2>2
  <2> QED
      BY <1>5, <2>1, <2>2, <2>3 DEF Disjoint
<1>7. Covers(S, n)
  <2>1. \A f \in S : End(f) <= n
        BY <1>3, <1>4
  <2>2. ASSUME NEW b \in 0..(n - 1)
        PROVE  \E f \in S : f.off * 8 <= b /\ b < End(f)
    <3>1. Reaches(n, ihl, size)
          BY <1>1, PiecesReach
    <3>2. PICK i \in 1..count : piece(i).from <= b /\ b < piece(i).from + piece(i).plen
          BY <3>1 DEF Reaches, piece
    <3>3. frag(i).off * 8 <= b /\ b < End(frag(i)) /\ frag(i) \in S
          BY <1>3, <1>4, <3>2
    <3> QED
        BY <3>3
  <2> QED
      BY <2>1, <2>2 DEF Covers
<1>8. \E l \in S : IsLast(l) /\ End(l) = n
  <2>1. count \in 1..count
        BY <1>2
  <2>2. ~piece(count).mf /\ piece(count).from + piece(count).plen = n
        BY <1>1, LastPieceEnds DEF piece
  <2>3. IsLast(frag(count)) /\ End(frag(count)) = n
        BY <1>4, <2>1, <2>2 DEF IsLast
  <2> QED
      BY <1>3, <2>1, <2>3
<1> QED
    BY <1>6, <1>7, <1>8

\* The program understands its own output: a queue that holds what it wrote of a
\* datagram is due, for any length, header and mtu, the empty last piece included.
THEOREM OwnOutputIsDue ==
  ASSUME NEW k, NEW n \in Nat, n <= 65535, n <= MaxLen, NEW ihl,
         NEW mtu \in Nat, 28 <= mtu, mtu <= 65535
  PROVE  Spec => [](\A q \in tree :
                      Quiet(q) /\ fq[q].frags = OwnPieces(k, n, ihl, mtu)
                        => DoReassembly(fq[q].flags) /\ Assembles(q))
<1>1. WholeIsDue => \A q \in tree :
                      Quiet(q) /\ fq[q].frags = OwnPieces(k, n, ihl, mtu)
                        => DoReassembly(fq[q].flags) /\ Assembles(q)
      BY OwnPiecesAreWhole DEF WholeIsDue
<1> QED
    BY <1>1, WholeIsRecognised, PTL

-----------------------------------------------------------------------------
(***************************************************************************)
(* The refinement: each step is one of the service, or changes nothing the *)
(* service sees.                                                           *)
(***************************************************************************)
Of == [q \in Queues |-> IF q \in Known THEN fq[q].key ELSE 0]

Have == [q \in Queues |-> fq[q].frags]

Late == {q \in Known : Expired(q)}

\* The step changes neither who is known nor what the service sees of a queue.
Unseen ==
  /\ UNCHANGED <<tree, Sending, sent>> /\ (trash \ tree)' = trash \ tree
  /\ \A q \in Queues : fq'[q].frags = fq[q].frags
  /\ \A q \in Known : fq'[q].key = fq[q].key /\ fq'[q].age = fq[q].age

LEMMA UnseenStutters ==
  ASSUME Unseen, Known \subseteq Queues
  PROVE  UNCHANGED <<tree, trash \ tree, Of, Have, Sending, sent, Late>>
<1>1. Known' = Known
      BY DEF Unseen, Known
<1>2. Of' = Of /\ Have' = Have
      BY <1>1 DEF Unseen, Of, Have
<1>3. Late' = Late
      BY <1>1 DEF Unseen, Late, Expired
<1> QED
    BY <1>2, <1>3 DEF Unseen

\* What is being written out changes when the copy begins and when it is done.
LEMMA SendingStays ==
  ASSUME IInv, [Next]_vars, ~Reassemble, ~Emit
  PROVE  Sending' = Sending
<1>1. UNCHANGED <<wpc, wq>> \/ (wpc # "emit" /\ wpc' # "emit")
      BY DEF Next, ReaderNext, Handle, Receive, ReceiveOther, Search, Deref, Alloc,
         ReaderLock, Insert, ReaderUnlock, Adopt, Admit, Enqueue, Count, SetFirst,
         SetLen, LoadFlags, StoreFlags, Judge, Return, MaintainerNext, TrashMaintain,
         FirstNode, Visit, LoadComplete, StoreComplete, CheckAge, StoreExpire, Decide,
         Recycle, MaintainerLock, EraseNode, NextNode, Walk, GoTo, Tick, writer, vars
<1> QED
    BY <1>1 DEF Sending

\* Most steps are unseen.
LEMMA MostAreUnseen ==
  ASSUME IInv, FlagInv, CountInv, OutcomeInv, [Next]_vars,
         ~Insert, ~Enqueue, ~Reassemble, ~Emit, ~EraseNode, ~TrashMaintain, ~Tick
  PROVE  Unseen
<1> Sending' = Sending
    BY SendingStays
<1>0. /\ fq \in [Queues -> QueueRecord] /\ Known \subseteq Queues
      /\ sent \subseteq Known /\ Known \subseteq heap
      BY DEF IInv, TypeOK, Known, OutcomeInv, SentIsDue, Ownership
<1>1. CASE Adopt \/ \E q \in Queues : Alloc(q)
  <2>1. ASSUME NEW p \in Queues, Alloc(p)
        PROVE  Unseen
    <3>1. p \notin Known /\ fq[p].frags = {}
          BY <1>0, <2>1 DEF Alloc, CountInv, StrangersAreEmpty
    <3>2. fq'[p].frags = {} /\ \A q \in Queues : q # p => fq'[q] = fq[q]
          BY <1>0, <2>1 DEF Alloc, Blank
    <3> QED
        BY <1>0, <2>1, <3>1, <3>2 DEF Alloc, Unseen, trees, writer
  <2>2. CASE Adopt
    <3>1. rq \notin Known /\ rq \in Queues
          BY <1>0, <2>2 DEF Adopt, IInv, Ownership, PrivateQueue, Locals, Known
    <3>2. fq[rq].frags = {}
          BY <3>1 DEF CountInv, StrangersAreEmpty
    <3>3. /\ \A q \in Queues : q # rq => fq'[q] = fq[q]
          /\ fq'[rq].frags = {} /\ sent' = sent
          BY SMTT(30), <1>0, <2>2, <3>1, <3>2 DEF Adopt, Destroy, Blank, memory
    <3> QED
        BY <1>0, <2>2, <3>1, <3>2, <3>3 DEF Adopt, Unseen, trees
  <2> QED
      BY <1>1, <2>1, <2>2
<1>2. CASE Recycle
  <2>1. wq \in tree
        BY <1>2 DEF Recycle, IInv, Ownership, VisitSteps, MaintainerSteps
  <2> QED
      BY <1>2, <2>1 DEF Recycle, Unseen, memory
<1>3. CASE Count \/ SetFirst \/ SetLen \/ StoreFlags \/ StoreComplete \/ StoreExpire
  <2>1. UNCHANGED <<tree, trash, sent>>
        BY <1>3 DEF Count, SetFirst, SetLen, StoreFlags, StoreComplete, StoreExpire,
           trees, writer
  <2>2. \A q \in Queues : /\ fq'[q].frags = fq[q].frags /\ fq'[q].key = fq[q].key
                          /\ fq'[q].age = fq[q].age
        BY <1>0, <1>3 DEF Count, SetFirst, SetLen, StoreFlags, StoreComplete, StoreExpire,
           QueueRecord
  <2> QED
      BY <1>0, <2>1, <2>2 DEF Unseen
<1>4. CASE UNCHANGED <<fq, tree, trash, sent>>
      BY <1>4 DEF Unseen
<1> QED
    BY <1>1, <1>2, <1>3, <1>4 DEF Next, ReaderNext, Handle, Receive, ReceiveOther, Search,
       Deref, ReaderLock, ReaderUnlock, Admit, LoadFlags, Judge, Return, MaintainerNext,
       FirstNode, Visit, LoadComplete, CheckAge, Decide, MaintainerLock,
       NextNode, memory, trees, writer, vars

\* set_rbinsert links a new queue in: an attempt is opened.
LEMMA InsertOpens ==
  ASSUME IInv, FlagInv, CountInv, OutcomeInv, Insert
  PROVE  Unseen \/ \E a \in Queues, f \in Wire : Datagrams!Open(a, f.key)
<1> Sending' = Sending
    BY DEF Insert, writer, Sending
<1>0. /\ Known \subseteq Queues /\ rq \in Queues /\ rfrag \in Wire
      BY DEF IInv, TypeOK, Known, Insert, Locals
<1>1. CASE tree' = tree
  <2>1. UNCHANGED <<fq, tree, trash, sent>>
        BY <1>1 DEF Insert, memory, writer
  <2> QED
      BY <2>1 DEF Unseen
<1>2. CASE Collision(rfrag.key) = {} /\ tree' = tree \cup {rq}
  <2>1. rq \notin Known /\ fq[rq].key = rfrag.key
        BY DEF Insert, IInv, Ownership, PrivateQueue, Keyed, Known
  <2>2. UNCHANGED <<fq, trash, sent>>
        BY DEF Insert, memory, writer
  <2>3. Known' = Known \cup {rq} /\ (trash \ tree)' = trash \ tree
        BY <1>2, <2>1, <2>2 DEF Known
  <2>4. \A b \in tree : Of[b] # rfrag.key
        BY <1>0, <1>2 DEF Collision, Of, Known
  <2>5. Of' = [Of EXCEPT ![rq] = rfrag.key]
        BY <1>0, <2>1, <2>2, <2>3 DEF Of
  <2>6. Late' \in {Late, Late \cup {rq}}
        BY <2>1, <2>2, <2>3 DEF Late, Expired
  <2>7. Have' = Have
        BY <2>2 DEF Have
  <2>8. rq \notin tree \cup (trash \ tree)
        BY <2>1 DEF Known
  <2>9. PICK a \in Queues, f \in Wire : a = rq /\ f = rfrag
        BY <1>0
  <2>10. Datagrams!Open(a, f.key)
        BY <1>2, <2>2, <2>3, <2>4, <2>5, <2>6, <2>7, <2>8, <2>9
           DEF Datagrams!Open, Of, Have, Late
  <2> QED
      BY <2>10
<1> QED
    BY <1>1, <1>2 DEF Insert

\* frag_queue_insert stores a fragment: an attempt collects it.
LEMMA EnqueueCollects ==
  ASSUME IInv, FlagInv, CountInv, OutcomeInv, Enqueue
  PROVE  Unseen \/ \E a \in Queues, f \in Wire : Datagrams!Collect(a, f)
<1> Sending' = Sending
    BY DEF Enqueue, writer, Sending
<1>0. /\ Known \subseteq Queues /\ fq \in [Queues -> QueueRecord]
      /\ rq \in Queues /\ rq \in Known /\ fq[rq].key = rfrag.key /\ rfrag \in Wire
      BY ReaderHolds DEF IInv, TypeOK, Known, Enqueue, UsingSteps
<1>1. CASE fq' = fq
  <2>1. UNCHANGED <<fq, tree, trash, sent>>
        BY <1>1 DEF Enqueue, trees, writer
  <2> QED
      BY <2>1 DEF Unseen
<1>2. CASE /\ ~SameOffset(fq[rq].frags, rfrag)
           /\ fq' = [fq EXCEPT ![rq].frags = @ \cup {rfrag}]
  <2>1. rq \notin sent /\ rq \notin Sending
    <3>1. ~DoReassembly(fq[rq].flags)
          BY DEF Enqueue, FlagInv, AdmittedIsNotDue
    <3> QED
        BY <3>1, EmittedHolds DEF OutcomeInv, SentIsDue, Sending
  <2>2. UNCHANGED <<tree, trash, sent>>
        BY DEF Enqueue, trees, writer
  <2>3. \A q \in Queues : fq'[q].key = fq[q].key /\ fq'[q].age = fq[q].age
        BY <1>0, <1>2 DEF QueueRecord
  <2>4. Known' = Known
        BY <2>2 DEF Known
  <2>5. Of' = Of /\ Late' = Late
        BY <1>0, <2>3, <2>4 DEF Of, Late, Expired
  <2>6. Have' = [Have EXCEPT ![rq] = @ \cup {rfrag}]
        BY <1>0, <1>2 DEF Have, QueueRecord
  <2>7. Of[rq] = rfrag.key /\ \A g \in Have[rq] : g.off # rfrag.off
        BY <1>0, <1>2 DEF Of, Have, SameOffset
  <2>8. rq \in (tree \cup (trash \ tree)) \ (Sending \cup sent)
        BY <1>0, <2>1 DEF Known
  <2>9. PICK a \in Queues, f \in Wire : a = rq /\ f = rfrag
        BY <1>0
  <2>10. Datagrams!Collect(a, f)
        BY <2>2, <2>5, <2>6, <2>7, <2>8, <2>9 DEF Datagrams!Collect, Of, Have, Late
  <2> QED
      BY <2>10
<1> QED
    BY <1>1, <1>2 DEF Enqueue

\* ipv4_handle_reassembly begins to copy: an attempt that has not delivered starts to.
LEMMA ReassembleStarts ==
  ASSUME IInv, FlagInv, CountInv, OutcomeInv, SentInv, Reassemble
  PROVE  Unseen \/ \E a \in Queues : Datagrams!Start(a)
<1>0. wpc = "assemble" /\ Sending = {}
      BY DEF Reassemble, Sending
<1>1. UNCHANGED <<fq, tree, trash, sent, wq>>
      BY DEF Reassemble, memory, trees
<1>2. CASE ~Assembles(wq)
  <2>1. Sending' = {}
        BY <1>2 DEF Reassemble, Sending
  <2> QED
      BY <1>0, <1>1, <2>1 DEF Unseen
<1>3. CASE Assembles(wq)
  <2>1. Have[wq] = fq[wq].frags
        BY <1>0, <1>3, DueHolds DEF Have
  <2>2. \E f \in Have[wq] : f.off = 0
        BY <1>0, <1>3, <2>1, DueHolds DEF HasFirst, IsFirst
  <2>3. Datagrams!Bytes(Have[wq]) = fq[wq].len
        BY <1>0, <1>3, <2>1, DueHolds, PayloadIsBytes
  <2>4. PICK l \in fq[wq].frags : IsLast(l) /\ End(l) = fq[wq].len
        BY <1>0, <1>3, DueHolds
  <2>5. Datagrams!EndOf(l) = fq[wq].len /\ ~l.mf
        BY <2>4 DEF Datagrams!EndOf, End, IsLast
  <2>6. Datagrams!Whole(Have[wq])
        BY <1>0, <1>3, <2>1, <2>2, <2>3, <2>5, DueHolds DEF Datagrams!Whole
  <2>7. Of' = Of /\ Have' = Have /\ Late' = Late
        BY <1>1 DEF Of, Have, Late, Known, Expired
  <2>8. wq \in tree \ sent
        BY <1>0, <1>3, DueHolds DEF SentInv, SentSteps
  <2>9. Sending' = {wq}
        BY <1>3 DEF Reassemble, Sending
  <2>10. Datagrams!Start(wq)
        BY <1>0, <1>1, <2>6, <2>7, <2>8, <2>9 DEF Datagrams!Start, Of, Have, Late
  <2> QED
      BY <1>0, <1>3, <2>10, DueHolds
<1> QED
    BY <1>2, <1>3

\* The last piece is written: the attempt has delivered.
LEMMA EmitDelivers ==
  ASSUME IInv, FlagInv, CountInv, OutcomeInv, Emit
  PROVE  \E a \in Queues : Datagrams!Deliver(a)
<1>0. wpc = "emit" /\ Sending = {wq} /\ Sending' = {}
      BY DEF Emit, Sending
<1>1. UNCHANGED <<fq, tree, trash>> /\ sent' = sent \cup {wq}
      BY DEF Emit, memory, trees
<1>2. Of' = Of /\ Have' = Have /\ Late' = Late
      BY <1>1 DEF Of, Have, Late, Known, Expired
<1>3. Datagrams!Deliver(wq)
      BY <1>0, <1>1, <1>2 DEF Datagrams!Deliver, Of, Have, Late
<1> QED
    BY <1>0, <1>3, EmittedHolds

\* set_rberase takes a queue out of the tree: the attempt is closed, for a reason.
LEMMA EraseCloses ==
  ASSUME IInv, FlagInv, CountInv, OutcomeInv, EraseNode
  PROVE  \E a \in Queues : Datagrams!Close(a)
<1> Sending = {} /\ Sending' = {}
    BY DEF EraseNode, GoTo, Sending
<1>0. /\ wq \in tree /\ wq \in trash /\ wq \in Queues /\ wq \in Known
      /\ fq[wq].frags \subseteq Wire /\ fq[wq].meat \in Nat /\ fq[wq].len \in Nat
      BY QueueTypes DEF EraseNode, IInv, Ownership, VisitSteps, MaintainerSteps, Known
<1>1. UNCHANGED <<fq, trash, sent>> /\ tree' = tree \ {wq}
      BY DEF EraseNode
<1>2. Known' = Known /\ (trash \ tree)' = (trash \ tree) \cup {wq}
      BY <1>0, <1>1 DEF Known
<1>3. Of' = Of /\ Have' = Have /\ Late' = Late
      BY <1>1, <1>2 DEF Of, Have, Late, Expired
<1>4. wq \in sent \cup Late \/ Datagrams!Hopeless(Have[wq])
  <2>1. wq \in sent \/ Hopeless(wq) \/ Expired(wq)
        BY DEF EraseNode, OutcomeInv, Doomed
  <2>2. CASE wq \in sent \/ Expired(wq)
        BY <1>0, <2>2 DEF Late
  <2>3. CASE Hopeless(wq)
    <3>1. PICK l \in fq[wq].frags : IsLast(l) /\ End(l) = fq[wq].len
          BY <1>0, <2>3 DEF Hopeless, FlagInv, LengthIsEnd
    <3>2. Have[wq] = fq[wq].frags
          BY <1>0 DEF Have
    <3>3. Datagrams!EndOf(l) = fq[wq].len /\ ~l.mf
          BY <3>1 DEF Datagrams!EndOf, End, IsLast
    <3>4. Datagrams!Bytes(Have[wq]) = fq[wq].meat + Uncounted(wq)
          BY <1>0, <3>2, PayloadIsBytes DEF CountInv, MeatIsSum
    <3>5. Uncounted(wq) \in Nat
          BY QueueTypes, WireTypes DEF Uncounted
    <3>6. \/ Datagrams!Bytes(Have[wq]) > Datagrams!EndOf(l)
          \/ Datagrams!EndOf(l) > MaxLen
          BY <1>0, <2>3, <3>3, <3>4, <3>5, BoundsAssumption DEF Hopeless
    <3> QED
        BY <3>1, <3>2, <3>3, <3>6 DEF Datagrams!Hopeless
  <2> QED
      BY <2>1, <2>2, <2>3
<1>5. Datagrams!Close(wq)
      BY <1>0, <1>1, <1>2, <1>3, <1>4 DEF Datagrams!Close, Of, Have, Late
<1> QED
    BY <1>0, <1>5

\* The trash frees the queues that are due: attempts are forgotten.
LEMMA TrashForgets ==
  ASSUME IInv, FlagInv, CountInv, OutcomeInv, TrashMaintain
  PROVE  Unseen \/ \E S \in SUBSET (trash \ tree) : Datagrams!Forget(S)
<1> Sending' = Sending
    BY DEF TrashMaintain, Sending
<1> DEFINE due == {q \in trash : EraseDue(fq[q].erase + 1)}
<1>0. /\ fq \in [Queues -> QueueRecord] /\ Known \subseteq Queues
      /\ sent \subseteq Known /\ trash \cap tree = {}
      BY DEF IInv, TypeOK, Known, OutcomeInv, SentIsDue, Ownership, TrashMaintain
<1>1. /\ tree' = tree /\ trash' = trash \ due /\ sent' = sent \ due
      /\ fq' = [q \in Queues |-> IF q \in due THEN Blank
                                ELSE IF q \in trash THEN [fq[q] EXCEPT !.erase = @ + 1]
                                ELSE fq[q]]
      BY DEF TrashMaintain, Destroy
<1>2. due \subseteq trash \ tree /\ due \subseteq Known
      BY <1>0 DEF Known
<1> HIDE DEF due
<1>3. Known' = Known \ due /\ (trash \ tree)' = (trash \ tree) \ due
      BY <1>1, <1>2 DEF Known
<1>4. \A q \in Queues \ due : /\ fq'[q].frags = fq[q].frags /\ fq'[q].key = fq[q].key
                              /\ fq'[q].age = fq[q].age
      BY <1>0, <1>1 DEF QueueRecord
<1>5. CASE due = {}
      BY <1>0, <1>1, <1>4, <1>5 DEF Unseen
<1>6. CASE due # {}
  <2>1. Late' = Late \ due
        BY <1>0, <1>3, <1>4 DEF Late, Expired
  <2>2. Of' = [q \in Queues |-> IF q \in due THEN 0 ELSE Of[q]]
        BY <1>0, <1>3, <1>4 DEF Of
  <2>3. Have' = [q \in Queues |-> IF q \in due THEN {} ELSE Have[q]]
    <3>1. \A q \in due : fq'[q].frags = {}
          BY <1>0, <1>1, <1>2 DEF Blank
    <3> QED
        BY <1>4, <3>1 DEF Have
  <2>4. PICK S \in SUBSET (trash \ tree) : S = due
        BY <1>2
  <2>5. Datagrams!Forget(S)
        BY <1>1, <1>2, <1>3, <1>6, <2>1, <2>2, <2>3, <2>4
           DEF Datagrams!Forget, Of, Have, Late
  <2> QED
      BY <2>5
<1> QED
    BY <1>5, <1>6

\* Time passes: attempts become late.
LEMMA TickAges ==
  ASSUME IInv, FlagInv, CountInv, OutcomeInv, Tick
  PROVE  Unseen \/ UNCHANGED <<tree, trash \ tree, Of, Have, Sending, sent, Late>>
         \/ \E S \in SUBSET (tree \cup (trash \ tree)) : Datagrams!Age(S)
<1> Sending' = Sending
    BY DEF Tick, writer, Sending
<1>0. /\ fq \in [Queues -> QueueRecord] /\ Known \subseteq Queues /\ Interval \in Nat
      BY BoundsAssumption DEF IInv, TypeOK, Known
<1>1. UNCHANGED <<tree, trash, sent>>
      BY DEF Tick, trees, writer
<1>2. Known' = Known
      BY <1>1 DEF Known
<1>3. \A q \in Queues : /\ fq'[q].frags = fq[q].frags /\ fq'[q].key = fq[q].key
                        /\ Expired(q) => Expired(q)'
      BY <1>0 DEF Tick, QueueRecord, Expired
<1>4. Of' = Of /\ Have' = Have
      BY <1>0, <1>2, <1>3 DEF Of, Have
<1> DEFINE S == Late' \ Late
<1>5. Late' = Late \cup S /\ S \subseteq tree \cup (trash \ tree)
      BY <1>0, <1>2, <1>3 DEF Late, Known
<1>6. CASE S = {}
      BY <1>1, <1>4, <1>5, <1>6
<1>7. CASE S # {}
  <2> HIDE DEF S
  <2>1. Datagrams!Age(S)
        BY <1>1, <1>4, <1>5, <1>7 DEF Datagrams!Age, Of, Have, Late
  <2> QED
      BY <1>5, <2>1
<1> QED
    BY <1>6, <1>7

\* The two threads implement the service: whatever the interleaving, a queue is opened once
\* per datagram, begins to be written out at most once and only when its fragments are
\* whole, and is given up only for a reason.
THEOREM ThreadsImplementService ==
  ASSUME FirstIsNotEmpty
  PROVE  Spec => ImplementsService
<1>1. Init => Datagrams!Init
  <2> SUFFICES ASSUME Init PROVE Datagrams!Init
      OBVIOUS
  <2>1. tree = {} /\ trash = {} /\ sent = {} /\ fq = [q \in Queues |-> Blank]
        BY DEF Init
  <2>2. Sending = {}
        BY DEF Init, Sending
  <2> QED
      BY <2>1, <2>2 DEF Datagrams!Init, Known, Blank
<1>2. IInv /\ FlagInv /\ CountInv /\ OutcomeInv /\ SentInv /\ [Next]_vars
        => [Datagrams!Next]_(Datagrams!vars)
  <2> SUFFICES ASSUME IInv, FlagInv, CountInv, OutcomeInv, SentInv, [Next]_vars
               PROVE  Datagrams!Next \/ UNCHANGED Datagrams!vars
      OBVIOUS
  <2>1. Known \subseteq Queues
        BY DEF IInv, TypeOK, Known
  <2>2. UNCHANGED <<tree, trash \ tree, Of, Have, Sending, sent, Late>>
          => UNCHANGED Datagrams!vars
        BY DEF Datagrams!vars, Of, Have, Late
  <2>3. Unseen => UNCHANGED Datagrams!vars
        BY <2>1, <2>2, UnseenStutters
  <2>4. CASE Insert \/ Enqueue
        BY <2>3, <2>4, InsertOpens, EnqueueCollects DEF Datagrams!Next
  <2>5. CASE Reassemble \/ Emit \/ EraseNode
        BY <2>3, <2>5, ReassembleStarts, EmitDelivers, EraseCloses DEF Datagrams!Next
  <2>6. CASE TrashMaintain
        BY <2>3, <2>6, TrashForgets DEF Datagrams!Next
  <2>7. CASE Tick
        BY <2>2, <2>3, <2>7, TickAges DEF Datagrams!Next
  <2> QED
      BY <2>3, <2>4, <2>5, <2>6, <2>7, MostAreUnseen
<1> QED
    BY FirstIsNotEmpty, SentInvariance, ServiceInvariance, <1>1, <1>2, PTL
       DEF Spec, ImplementsService, Datagrams!Spec
=============================================================================

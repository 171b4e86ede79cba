----------------------------- MODULE Reassembly -----------------------------
(***************************************************************************)
(* The two threads of the program around the table of fragment queues.     *)
(*                                                                         *)
(* The reader (main.c, ipv4_read_fragment_thread) takes frames from the    *)
(* capture and calls ipv4_handler: it finds or creates the frag_queue_t of *)
(* the datagram, stores the fragment and raises the queue's flags.  The    *)
(* maintainer (main.c, ipv4_write_fragment_thread) calls                   *)
(* ipv4_fragment_maintain forever: it reassembles finished queues, expires *)
(* old ones, moves both to the trash tree and frees the trash some passes  *)
(* later.                                                                  *)
(*                                                                         *)
(* A step is one access to memory the other thread also uses, or one       *)
(* critical section.  The two trees are sets here; what an unlocked walk   *)
(* may return while the other thread is relinking nodes is a choice.       *)
(***************************************************************************)
EXTENDS Naturals, FiniteSets

CONSTANTS
  Queues,     \* addresses malloc may return for a frag_queue_t
  Wire,       \* the fragments that occur in the capture
  None,       \* the NULL pointer
  Interval,   \* IPFRAG_INSPIRE_INTERVAL, in clock ticks
  EraseLimit, \* trash passes a queue survives (20 in the code)
  MaxLag,     \* maintenance passes that may begin during one ipv4_handler call
  MaxLen,     \* the longest payload that is reassembled (65535)
  MaxRecv     \* bound on the frames taken from the capture

\* A fragment keeps of the IP header what the code looks at: the queue key
\* (addresses, id and protocol as one number), the offset in units of 8 bytes,
\* the payload length in bytes and the more-fragments bit.
Offsets == 0..8191

Lengths == 0..65535

Fragment == [key : Nat, off : Offsets, plen : Lengths, mf : BOOLEAN]

End(f) == f.off * 8 + f.plen

\* Fragments of one key belong to one datagram, possibly fragmented in several
\* ways: none reaches beyond a last fragment.  A packet with offset 0 and no
\* more-fragments bit is not a fragment.
ASSUME WireAssumption ==
  /\ Wire \subseteq Fragment
  /\ \A f \in Wire : f.off = 0 => f.mf
  /\ \A f, g \in Wire : f.key = g.key /\ ~g.mf => End(f) <= End(g)

ASSUME BoundsAssumption ==
  /\ Interval \in Nat /\ MaxLen \in Nat /\ MaxRecv \in Nat
  /\ EraseLimit \in Nat /\ MaxLag \in Nat

\* The capture and the address space are finite.
ASSUME FinitenessAssumption == IsFiniteSet(Wire) /\ IsFiniteSet(Queues)

\* What the trash tree relies on: one call of ipv4_handler never lasts as long as
\* the passes a recycled queue survives (20 passes, at least 2 ms).
ASSUME GraceAssumption == MaxLag < EraseLimit

ASSUME NoneAssumption == None \notin Queues /\ None \notin Wire

VARIABLES
  heap,      \* allocated frag_queue_t
  fq,        \* their contents
  mbufs,     \* number of rte_mbuf_t allocated and not freed
  tree,      \* queues with a set_node in inet_frag_settree
  trash,     \* queues with a key_node in inet_frag_trash
  lock,      \* inet_frag_settree.mutex: "free", "reader" or "maintainer"
  relinking, \* TRUE while the lock's owner is rewriting links of the set tree
  rpc, rfrag, rnode, rq, rtodo, rreg, \* the reader's program counter and locals
  rlag,      \* passes begun since the reader entered ipv4_handler
  left,      \* frames the capture still holds
  wpc, wq, wreg, \* the maintainer's program counter and locals
  sent       \* history: queues whose datagram has been written out

memory  == <<heap, fq, mbufs>>
trees   == <<tree, trash, lock, relinking>>
rlocals == <<rfrag, rnode, rq, rtodo, rreg>>
reader  == <<rpc, rlocals, rlag, left>>
writer  == <<wpc, wq, wreg, sent>>
vars    == <<memory, trees, reader, writer>>

Bits == {"FIRST_IN", "LAST_IN", "FULL", "EXPIRE", "ERROR", "COMPLETE"}

Keys == {f.key : f \in Wire} \cup {0}

\* A frag_queue_t: what frag_queue_alloc leaves after its memset.  The content
\* of memory that is not allocated is never looked at and kept at this value.
Blank == [key |-> 0, frags |-> {}, first |-> None, flags |-> {}, len |-> 0,
          meat |-> 0, age |-> 0, erase |-> 0]

(***************************************************************************)
(* Tests the code makes.                                                   *)
(***************************************************************************)
IsFirst(f) == f.off = 0

IsLast(f) == ~f.mf

\* IPFRAG_DO_REASSEMBLY
DoReassembly(fl) == {"FIRST_IN", "LAST_IN", "FULL"} \subseteq fl

\* Mutants: COMPLETE forgotten, EXPIRE forgotten, FULL taken for COMPLETE.
DoErase_NoComplete(fl) == {"EXPIRE", "ERROR"} \cap fl # {}
DoErase_NoExpire(fl) == {"ERROR", "COMPLETE"} \cap fl # {}
DoErase_Full(fl) == {"EXPIRE", "ERROR", "COMPLETE", "FULL"} \cap fl # {}

\* IPFRAG_DO_ERASE
DoErase(fl) == {"EXPIRE", "ERROR", "COMPLETE"} \cap fl # {}

\* Mutant: the reader adds fragments to a queue that is being reassembled.
Admits_Always(fl) == TRUE

\* The handler stores a fragment only in a queue not yet due for reassembly.
Admits(fl) == ~DoReassembly(fl)

\* Mutant: no duplicate is recognised.
SameOffset_Never(S, f) == FALSE

\* key_rbinsert finds a node with this offset.
SameOffset(S, f) == \E g \in S : g.off = f.off

\* The nodes of the set tree that frag_queue_cmp calls equal to k, as the unlocked
\* search finds them.
Found(k) == {q \in tree : fq[q].key = k}

\* Mutant: the insert trusts the unlocked search that came before it.
Collision_Ignored(k) == {}

\* The node that makes set_rbinsert, under the lock, give up.
Collision(k) == {q \in tree : fq[q].key = k}

\* Mutant: the trash entry goes one pass early.
EraseDue_Early(n) == n + 1 >= EraseLimit

EraseDue(n) == n >= EraseLimit

Expired(q) == fq[q].age > Interval

\* Mutant: FULL is raised only by a byte too many.
Counted_Over(q) == fq[q].len # 0 /\ fq[q].meat > fq[q].len

\* The payload bytes counted so far reach the datagram's length, once known.
Counted(q) == fq[q].len # 0 /\ fq[q].meat >= fq[q].len

\* ipv4_handle_reassembly goes ahead.
Assembles(q) == fq[q].meat = fq[q].len /\ fq[q].len <= MaxLen

\* Mutants: the fragments of a destroyed queue are not freed, or freed twice.
HeldMbufs_Leaked(S) == 0
HeldMbufs_Twice(S) == 2 * Cardinality({p \in S \X Wire : p[2] \in fq[p[1]].frags})

\* The mbufs that frag_queue_destory frees along with the queues of S.
Stored(S) == {p \in S \X Wire : p[2] \in fq[p[1]].frags}

HeldMbufs(S) == Cardinality(Stored(S))

\* Mutant: free(fqueue) is missing.
Destroy_Fragments(S, updated) ==
  /\ mbufs' = mbufs - HeldMbufs(S)
  /\ fq' = updated /\ UNCHANGED <<heap, sent>>

\* frag_queue_destory, of every queue in S; updated is what the others contain.
Destroy(S, updated) ==
  /\ heap' = heap \ S
  /\ mbufs' = mbufs - HeldMbufs(S)
  /\ fq' = [q \in Queues |-> IF q \in S THEN Blank ELSE updated[q]]
  /\ sent' = sent \ S

(***************************************************************************)
(* The reader: ipv4_handler and what it calls.                             *)
(***************************************************************************)
Init ==
  /\ heap = {} /\ fq = [q \in Queues |-> Blank] /\ mbufs = 0
  /\ tree = {} /\ trash = {} /\ lock = "free" /\ relinking = FALSE
  /\ rpc = "idle" /\ rfrag = None /\ rnode = None /\ rq = None
  /\ rtodo = {} /\ rreg = {} /\ rlag = 0 /\ left = MaxRecv
  /\ wpc = "asleep" /\ wq = None /\ wreg = {}
  /\ sent = {}

\* pcap_next returns a fragment, which is copied into a fresh mbuf.
Receive(f) ==
  /\ rpc = "idle" /\ left > 0
  /\ left' = left - 1 /\ mbufs' = mbufs + 1
  /\ rfrag' = f /\ rpc' = "search"
  /\ UNCHANGED <<heap, fq, trees, rnode, rq, rtodo, rreg, rlag, writer>>

\* Not IP, or IP and not a fragment: the mbuf is freed by the loop at once.
ReceiveOther ==
  /\ rpc = "idle" /\ left > 0
  /\ left' = left - 1
  /\ UNCHANGED <<memory, trees, rpc, rlocals, rlag, writer>>

\* The handler ends; its locals die.
Leave ==
  /\ rpc' = "idle" /\ rfrag' = None /\ rnode' = None /\ rq' = None
  /\ rtodo' = {} /\ rreg' = {} /\ rlag' = 0
  /\ UNCHANGED left

\* set_rbsearch takes no lock.  While the maintainer relinks the tree to erase
\* a node, the walk may miss the key or step onto the node being freed.
Search ==
  /\ rpc = "search"
  /\ \/ \E q \in Found(rfrag.key) : rnode' = q /\ rpc' = "deref"
     \/ /\ Found(rfrag.key) = {} \/ relinking
        /\ rnode' = None /\ rpc' = "alloc"
     \/ relinking /\ rnode' = None /\ rpc' = "wild"
  /\ UNCHANGED <<memory, trees, rfrag, rq, rtodo, rreg, rlag, left, writer>>

\* snode->data after the search.  A set_node erased in between is free memory:
\* its old content, or whatever the allocator put there.
Deref ==
  /\ rpc = "deref"
  /\ \/ rq' = rnode /\ rnode' = None /\ rpc' = "admit"
     \/ rnode \notin tree /\ rpc' = "wild" /\ UNCHANGED <<rnode, rq>>
  /\ UNCHANGED <<memory, trees, rfrag, rtodo, rreg, rlag, left, writer>>

\* frag_queue_alloc
Alloc(q) ==
  /\ rpc = "alloc" /\ q \notin heap
  /\ heap' = heap \cup {q}
  /\ fq' = [fq EXCEPT ![q] = [Blank EXCEPT !.key = rfrag.key]]
  /\ rq' = q /\ rpc' = "lock"
  /\ UNCHANGED <<mbufs, trees, rfrag, rnode, rtodo, rreg, rlag, left, writer>>

ReaderLock ==
  /\ rpc = "lock" /\ lock = "free"
  /\ lock' = "reader" /\ rpc' = "insert"
  /\ UNCHANGED <<memory, tree, trash, relinking, rlocals, rlag, left, writer>>

\* set_rbinsert, up to the point where the new node is linked in.
Insert ==
  /\ rpc = "insert" /\ rpc' = "unlock"
  /\ \/ \E q \in Collision(rfrag.key) :
          rnode' = q /\ UNCHANGED <<tree, relinking>>
     \/ /\ Collision(rfrag.key) = {}
        /\ tree' = tree \cup {rq} /\ relinking' = TRUE
        /\ UNCHANGED rnode
  /\ UNCHANGED <<memory, trash, lock, rfrag, rq, rtodo, rreg, rlag, left, writer>>

\* rb_insert_color is done and the mutex released.
ReaderUnlock ==
  /\ rpc = "unlock"
  /\ lock' = "free" /\ relinking' = FALSE
  /\ rpc' = IF rnode = None THEN "admit" ELSE "adopt"
  /\ UNCHANGED <<memory, tree, trash, rlocals, rlag, left, writer>>

\* The queue exists already: the new one is destroyed and snode->data, read
\* after the unlock, is used instead.
Adopt ==
  /\ rpc = "adopt"
  /\ \/ /\ Destroy({rq}, fq)
        /\ rq' = rnode /\ rnode' = None /\ rpc' = "admit"
     \/ /\ rnode \notin tree /\ rpc' = "wild"
        /\ UNCHANGED <<memory, rnode, rq, sent>>
  /\ UNCHANGED <<trees, rfrag, rtodo, rreg, rlag, left, wpc, wq, wreg>>

\* The test before the insert; a queue due for reassembly takes no fragment and
\* the caller frees the mbuf.
Admit ==
  /\ rpc = "admit"
  /\ \/ /\ Admits(fq[rq].flags)
        /\ rpc' = "enqueue"
        /\ UNCHANGED <<mbufs, rlocals, rlag, left>>
     \/ ~Admits(fq[rq].flags) /\ mbufs' = mbufs - 1 /\ Leave
  /\ UNCHANGED <<heap, fq, trees, writer>>

\* frag_queue_insert.  Only the reader takes the lock of a fragments tree.
Enqueue ==
  /\ rpc = "enqueue"
  /\ \/ /\ ~SameOffset(fq[rq].frags, rfrag)
        /\ fq' = [fq EXCEPT ![rq].frags = @ \cup {rfrag}]
        /\ rpc' = "count"
        /\ UNCHANGED <<mbufs, rlocals, rlag, left>>
     \/ /\ SameOffset(fq[rq].frags, rfrag)
        /\ mbufs' = mbufs - 1 /\ Leave
        /\ UNCHANGED fq
  /\ UNCHANGED <<heap, trees, writer>>

\* fqueue->meat += payloadlen, and what there is to note about the fragment.
Count ==
  /\ rpc = "count" /\ rpc' = "mark"
  /\ fq' = [fq EXCEPT ![rq].meat = @ + rfrag.plen]
  /\ rtodo' = CASE IsFirst(rfrag) -> {"first", "bit"}
                [] ~IsFirst(rfrag) /\ IsLast(rfrag) -> {"len", "bit"}
                [] OTHER -> {}
  /\ UNCHANGED <<heap, mbufs, trees, rfrag, rnode, rq, rreg, rlag, left, writer>>

\* The compiler may swap the flag and the field that goes with it.
SetFirst ==
  /\ rpc = "mark" /\ "first" \in rtodo
  /\ fq' = [fq EXCEPT ![rq].first = rfrag]
  /\ rtodo' = rtodo \ {"first"}
  /\ UNCHANGED <<heap, mbufs, trees, rpc, rfrag, rnode, rq, rreg, rlag, left, writer>>

SetLen ==
  /\ rpc = "mark" /\ "len" \in rtodo
  /\ fq' = [fq EXCEPT ![rq].len = End(rfrag)]
  /\ rtodo' = rtodo \ {"len"}
  /\ UNCHANGED <<heap, mbufs, trees, rpc, rfrag, rnode, rq, rreg, rlag, left, writer>>

\* fqueue->flags |= bit is a load and a store.
LoadFlags ==
  /\ rpc \in {"mark", "seal"} /\ "bit" \in rtodo
  /\ rreg' = fq[rq].flags
  /\ rpc' = IF rpc = "mark" THEN "markstore" ELSE "sealstore"
  /\ UNCHANGED <<memory, trees, rfrag, rnode, rq, rtodo, rlag, left, writer>>

MarkBit == IF IsFirst(rfrag) THEN "FIRST_IN" ELSE "LAST_IN"

SealBit == IF fq[rq].meat = fq[rq].len THEN "FULL" ELSE "ERROR"

StoreFlags ==
  /\ rpc \in {"markstore", "sealstore"}
  /\ fq' = [fq EXCEPT ![rq].flags =
                 rreg \cup {IF rpc = "markstore" THEN MarkBit ELSE SealBit}]
  /\ rpc' = IF rpc = "markstore" THEN "mark" ELSE "return"
  /\ rtodo' = rtodo \ {"bit"} /\ rreg' = {}
  /\ UNCHANGED <<heap, mbufs, trees, rfrag, rnode, rq, rlag, left, writer>>

Judge ==
  /\ rpc = "mark" /\ rtodo = {}
  /\ IF Counted(rq) THEN rpc' = "seal" /\ rtodo' = {"bit"}
                    ELSE rpc' = "return" /\ UNCHANGED rtodo
  /\ UNCHANGED <<memory, trees, rfrag, rnode, rq, rreg, rlag, left, writer>>

\* Return 0: the mbuf now belongs to the queue.  Every mbuf and so every queue
\* has direction 0, and the direction test never fails.
Return ==
  /\ rpc = "return" /\ Leave
  /\ UNCHANGED <<memory, trees, writer>>

(***************************************************************************)
(* The maintainer: ipv4_fragment_maintain and what it calls.               *)
(***************************************************************************)
\* A pass may begin while the reader is inside ipv4_handler, but not more than
\* MaxLag of them: each is followed by usleep(100), and this is the time the
\* trash tree gives the reader.
LagAllows == rpc \in {"idle", "wild"} \/ rlag < MaxLag

\* ipv4_fragment_trash_maintain, with which every pass begins.
TrashMaintain ==
  /\ wpc = "asleep" /\ LagAllows
  /\ LET due == {q \in trash : EraseDue(fq[q].erase + 1)}
         older == [q \in Queues |-> IF q \in trash
                                    THEN [fq[q] EXCEPT !.erase = @ + 1]
                                    ELSE fq[q]]
     IN Destroy(due, older) /\ trash' = trash \ due
  /\ rlag' = IF rpc \in {"idle", "wild"} THEN rlag ELSE rlag + 1
  /\ wpc' = "first"
  /\ UNCHANGED <<tree, lock, relinking, rpc, rlocals, left, wq, wreg>>

\* The loop goes on with node n, or ends and the thread sleeps.
GoTo(n) ==
  /\ wq' = n /\ wreg' = {}
  /\ wpc' = IF n = None THEN "asleep" ELSE "visit"

\* The nodes that follow none of S: what rb_first finds, what rb_next finds.
Least(S) == {q \in S : \A p \in S : fq[q].key <= fq[p].key}

\* Mutant: the walk goes past a node with the key next to that of q.
Following_Skips(q) == {p \in tree : fq[p].key > fq[q].key + 1}

Following(q) == {p \in tree : fq[p].key > fq[q].key}

\* A walk without the lock ends where it should, or, while the reader relinks
\* the tree, at any node or too early.
Walk(S) ==
  \/ \E n \in Least(S) : GoTo(n)
  \/ S = {} /\ GoTo(None)
  \/ relinking /\ \E n \in tree \cup {None} : GoTo(n)

\* set_first
FirstNode ==
  /\ wpc = "first" /\ Walk(tree)
  /\ UNCHANGED <<memory, trees, reader, sent>>

\* The loop head: is this queue due for reassembly?
Visit ==
  /\ wpc = "visit"
  /\ wpc' = IF DoReassembly(fq[wq].flags) THEN "assemble" ELSE "age"
  /\ UNCHANGED <<memory, trees, reader, wq, wreg, sent>>

\* The early returns of ipv4_handle_reassembly.
Reassemble ==
  /\ wpc = "assemble"
  /\ wpc' = IF Assembles(wq) THEN "emit" ELSE "complete"
  /\ UNCHANGED <<memory, trees, reader, wq, wreg, sent>>

\* The fragments are copied into one packet, which is cut to the mtu and
\* written; its mbuf and those of the pieces are freed on the way.
Emit ==
  /\ wpc = "emit" /\ wpc' = "complete"
  /\ sent' = sent \cup {wq}
  /\ UNCHANGED <<memory, trees, reader, wq, wreg>>

\* fqueue->flags |= IPFRAG_COMPLETE
LoadComplete ==
  /\ wpc = "complete" /\ wpc' = "completestore"
  /\ wreg' = fq[wq].flags \cup {"COMPLETE"}
  /\ UNCHANGED <<memory, trees, reader, wq, sent>>

StoreComplete ==
  /\ wpc = "completestore" /\ wpc' = "age"
  /\ fq' = [fq EXCEPT ![wq].flags = wreg]
  /\ wreg' = {}
  /\ UNCHANGED <<heap, mbufs, trees, reader, wq, sent>>

\* time(0) - firststamp > IPFRAG_INSPIRE_INTERVAL, and the load of the flags.
CheckAge ==
  /\ wpc = "age"
  /\ IF Expired(wq)
     THEN wreg' = fq[wq].flags \cup {"EXPIRE"} /\ wpc' = "expire"
     ELSE wreg' = fq[wq].flags /\ wpc' = "decide"
  /\ UNCHANGED <<memory, trees, reader, wq, sent>>

StoreExpire ==
  /\ wpc = "expire" /\ wpc' = "decide"
  /\ fq' = [fq EXCEPT ![wq].flags = wreg]
  /\ UNCHANGED <<heap, mbufs, trees, reader, wq, wreg, sent>>

\* IPFRAG_DO_ERASE, on the register just stored or on the flags read again.
Decide ==
  /\ wpc = "decide"
  /\ \E seen \in {wreg, fq[wq].flags} :
       wpc' = IF DoErase(seen) THEN "recycle" ELSE "advance"
  /\ wreg' = {}
  /\ UNCHANGED <<memory, trees, reader, wq, sent>>

\* ipv4_fragment_recycle; the trash id is new each time, so the insert succeeds.
Recycle ==
  /\ wpc = "recycle" /\ wpc' = "lock"
  /\ trash' = trash \cup {wq}
  /\ UNCHANGED <<memory, tree, lock, relinking, reader, wq, wreg, sent>>

MaintainerLock ==
  /\ wpc = "lock" /\ lock = "free"
  /\ lock' = "maintainer" /\ relinking' = TRUE /\ wpc' = "erase"
  /\ UNCHANGED <<memory, tree, trash, reader, wq, wreg, sent>>

\* set_rberase: rb_next, rb_erase and free of the node, then the unlock.
EraseNode ==
  /\ wpc = "erase"
  /\ tree' = tree \ {wq}
  /\ lock' = "free" /\ relinking' = FALSE
  /\ IF Following(wq) = {} THEN GoTo(None)
                           ELSE \E n \in Least(Following(wq)) : GoTo(n)
  /\ UNCHANGED <<heap, trash, mbufs, fq, reader, sent>>

\* set_next
NextNode ==
  /\ wpc = "advance" /\ Walk(Following(wq))
  /\ UNCHANGED <<memory, trees, reader, sent>>

\* time() moves on; ages beyond the interval are not told apart.
Tick ==
  /\ \E q \in heap : fq[q].age <= Interval
  /\ fq' = [q \in Queues |-> IF q \in heap /\ fq[q].age <= Interval
                             THEN [fq[q] EXCEPT !.age = @ + 1] ELSE fq[q]]
  /\ UNCHANGED <<heap, mbufs, trees, reader, writer>>

-----------------------------------------------------------------------------
\* ipv4_handler once it has been called, and the reader's loop around it.
Handle ==
  \/ Search \/ Deref \/ (\E q \in Queues : Alloc(q)) \/ ReaderLock \/ Insert
  \/ ReaderUnlock \/ Adopt \/ Admit \/ Enqueue \/ Count \/ SetFirst \/ SetLen
  \/ LoadFlags \/ StoreFlags \/ Judge \/ Return

ReaderNext == (\E f \in Wire : Receive(f)) \/ ReceiveOther \/ Handle

MaintainerNext ==
  \/ TrashMaintain \/ FirstNode \/ Visit \/ Reassemble \/ Emit \/ LoadComplete
  \/ StoreComplete \/ CheckAge \/ StoreExpire \/ Decide \/ Recycle
  \/ MaintainerLock \/ EraseNode \/ NextNode

Next == ReaderNext \/ MaintainerNext \/ Tick

Spec == Init /\ [][Next]_vars

\* Both threads are scheduled; nothing makes frames arrive.
FairSpec == Spec /\ WF_vars(Handle) /\ WF_vars(MaintainerNext)

TimePasses == WF_vars(Tick)

-----------------------------------------------------------------------------
(***************************************************************************)
(* Properties.                                                             *)
(***************************************************************************)
ReaderSteps ==
  {"idle", "wild", "search", "deref", "alloc", "lock", "insert", "unlock",
   "adopt", "admit", "enqueue", "count", "mark", "markstore", "seal",
   "sealstore", "return"}

MaintainerSteps ==
  {"asleep", "first", "visit", "assemble", "emit", "complete", "completestore",
   "age", "expire", "decide", "recycle", "lock", "erase", "advance"}

QueueRecord ==
  [key : Nat, frags : SUBSET Wire, first : Wire \cup {None},
   flags : SUBSET Bits, len : Nat, meat : Nat, age : Nat, erase : Nat]

\* Every variable has its type.
TypeOK ==
  /\ heap \subseteq Queues /\ tree \subseteq Queues /\ trash \subseteq Queues
  /\ fq \in [Queues -> QueueRecord]
  /\ mbufs \in Nat
  /\ lock \in {"free", "reader", "maintainer"} /\ relinking \in BOOLEAN
  /\ rpc \in ReaderSteps /\ rfrag \in Wire \cup {None}
  /\ rnode \in Queues \cup {None} /\ rq \in Queues \cup {None}
  /\ rtodo \subseteq {"first", "len", "bit"} /\ rreg \subseteq Bits
  /\ rlag \in 0..MaxLag /\ left \in 0..MaxRecv
  /\ wpc \in MaintainerSteps /\ wq \in Queues \cup {None}
  /\ wreg \subseteq Bits
  /\ sent \subseteq Queues

\* The steps of ipv4_handler at which the reader works on the queue rq.
UsingQueue == rpc \in {"admit", "enqueue", "count", "mark", "markstore", "seal",
                       "sealstore", "return"}

\* The reader never uses a queue the maintainer has freed: whatever it got from
\* the unlocked search stays allocated until ipv4_handler returns, because a
\* recycled queue survives EraseLimit passes in the trash.
HeldQueueIsAllocated ==
  /\ UsingQueue => rq \in heap
  /\ rpc \in {"deref", "adopt"} => rnode \in heap

\* At most one queue per datagram is in the tree, although the reader decides
\* to create one after a search that may have missed it.
OneQueuePerKey == \A p, q \in tree : fq[p].key = fq[q].key => p = q

\* The queue the reader has allocated and not linked into the tree.
PrivateQueue ==
  IF \/ rpc \in {"lock", "insert", "adopt"}
     \/ rpc = "unlock" /\ rnode # None
     \/ rpc = "wild" /\ rq # None
  THEN {rq} ELSE {}

\* Every allocated queue is in the tree, in the trash or still private to the
\* reader, and nothing else is: no queue is leaked or recycled twice.
QueuesAreReachable ==
  /\ heap = tree \cup trash \cup PrivateQueue
  /\ tree \cap trash \subseteq (IF wpc \in {"lock", "erase"} THEN {wq} ELSE {})

\* ipv4_handle_reassembly reads the queue without a lock: while it does, the
\* reader does not change the fragments, the counts or first_fragment, and
\* first_fragment is one of the fragments.
ReassemblyIsUndisturbed ==
  wpc \in {"assemble", "emit"} =>
    /\ (rq = wq => rpc \notin {"enqueue", "count"})
    /\ (rq = wq /\ rpc = "mark" => "len" \notin rtodo)
    /\ wpc = "emit" =>
         /\ fq[wq].first \in fq[wq].frags
         /\ (rq = wq => rpc \in {"admit", "return"})

Disjoint(f, g) == End(f) <= g.off * 8 \/ End(g) <= f.off * 8

Apart(S) == \A f, g \in S : f # g => Disjoint(f, g)

\* The fragments of S cover n bytes without a hole and without excess.
Covers(S, n) ==
  /\ \A f \in S : End(f) <= n
  /\ \A b \in 0..(n - 1) : \E f \in S : f.off * 8 <= b /\ b < End(f)

\* What is written out is whole: if the stored fragments do not overlap, they
\* cover the payload from 0 to len.
EmittedIsWhole ==
  wpc = "emit" /\ Apart(fq[wq].frags) => Covers(fq[wq].frags, fq[wq].len)

\* No queue is written out twice, whatever the reader's stores do to COMPLETE.
SentOnce == wpc = "emit" => wq \notin sent

\* Neither is the reader working on q, nor is q in the visit that will erase it.
Quiet(q) ==
  /\ UsingQueue => rq # q
  /\ ~(wq = q /\ wpc \in {"completestore", "age", "expire", "decide", "recycle",
                          "lock", "erase"})

\* No update of the flags is lost on a queue that stays: outside the visit that
\* is about to erase it, a queue the reader is not working on shows exactly the
\* first and the last fragment it holds, and FULL when the counts agree.
NoLostUpdate ==
  \A q \in tree :
    Quiet(q) =>
      /\ ("FIRST_IN" \in fq[q].flags <=> \E f \in fq[q].frags : IsFirst(f))
      /\ ("LAST_IN" \in fq[q].flags <=> \E f \in fq[q].frags : IsLast(f))
      /\ (fq[q].len # 0 /\ fq[q].meat = fq[q].len => "FULL" \in fq[q].flags)

\* What is whole is recognised: when a queue in the tree holds all of a datagram, in
\* whatever order it came, with an empty last piece or with two last ones, its
\* flags call for reassembly and its counts let it go ahead.
WholeIsDue ==
  \A q \in tree : \A l \in fq[q].frags :
    Quiet(q) /\ IsLast(l) /\ End(l) <= MaxLen
    /\ Apart(fq[q].frags) /\ Covers(fq[q].frags, End(l))
      => DoReassembly(fq[q].flags) /\ Assembles(q)

\* A queue that has received its whole datagram is thrown away unsent only when
\* it has outlived the interval, even if the last fragment comes in during the
\* very visit that discards it.
WholeIsNotDropped ==
  wpc = "recycle" /\ wq \notin sent /\ fq[wq].meat = fq[wq].len
  /\ fq[wq].len <= MaxLen /\ (\E f \in fq[wq].frags : IsFirst(f))
  /\ (\E f \in fq[wq].frags : IsLast(f)) => Expired(wq)

\* Every mbuf is owned once: by the queue that stores it, or by the reader from
\* the moment it is received until it is stored or freed.
MbufsAreAccounted ==
  mbufs = HeldMbufs(heap)
          + (IF rpc \in {"search", "deref", "alloc", "lock", "insert", "unlock",
                         "adopt", "admit", "enqueue", "wild"} THEN 1 ELSE 0)

\* As long as time passes every queue is reclaimed in the end, whatever became of its
\* datagram.
QueuesAreReclaimed == TimePasses => \A q \in Queues : q \in tree ~> q \notin heap

\* A queue due for reassembly is written out, wherever in the tree it is and even when
\* the last fragment comes in during the visit that found the queue unfinished: as long
\* as the clock lets it live, the maintainer gets to it.  Nothing in FairSpec makes the
\* clock move, so a maintainer that passes over a queue until it expires breaks this.
DueIsSent ==
  \A q \in Queues :
    q \in tree /\ DoReassembly(fq[q].flags) /\ Assembles(q)
      ~> q \in sent \/ Expired(q)
=============================================================================

# A model of ip-fragment-reassembly

The program reads IPv4 fragments from a capture file, puts datagrams together
and writes them to another capture, cut to a given mtu. Two threads share a
table of half-finished datagrams. These modules model both threads, the code
that copies and cuts with its buffers, the containers and red-black trees under
the table, and the file that is written. TLC checks them on small instances.
TLAPS proves for all of them what the threads promise about queues and flags,
that they implement an abstract service, that every byte of a datagram gets through once,
which datagrams fit the buffers, that the containers are ordered sets, that
the red-black tree under them is one, stays balanced and keeps its loop invariants,
that the single stores of its rotations make it and never lead an unlocked walk astray
into freed memory, and which packets survive when the process is killed.

## The system

| Component | State | Operations | Source |
|---|---|---|---|
| fragment queues | `frag_queue_t`: key, tree of fragments, `first_fragment`, `flags`, `len`, `meat`, `firststamp`, `erase` | `ipv4_handler`, `frag_queue_find`, `frag_queue_insert`, `frag_queue_alloc`, `frag_queue_destory` | handler.c, handler.h |
| maintenance | the trash tree `inet_frag_trash` | `ipv4_fragment_maintain`, `ipv4_fragment_recycle`, `ipv4_fragment_trash_maintain` | handler.c |
| threads | the set tree `inet_frag_settree` they share | `ipv4_read_fragment_thread`, `ipv4_write_fragment_thread`, `main` | main.c |
| reassembly | none | `ipv4_handle_reassembly` | ipv4-reassembly.c |
| fragmentation | none | `ipv4_handle_fragment` and the header tests | ipv4-fragment.c |
| containers | nodes, a lock, a count | insert, search, erase, erase by key, first, next, clear of `set_elem`, `key_elem` and `tag_elem` (compiled, never used) | rbtree2/ |
| red-black tree | pointers and colors | `rb_insert_color`, `rb_erase`, `rb_first`, `rb_last`, `rb_next`, `rb_prev`, `rb_replace_node`, the postorder walk | rbtree2/ |
| mbufs | a buffer and offsets into it | `rte_mbuf_malloc`, `rte_mbuf_free` | handler.c |
| capture output | a file descriptor and the file | `pcap_handle_open`, `_write`, `_close` | main.c |

**Interaction.** The reader calls `ipv4_handler` for each frame. It searches the
set tree without the lock, creates a queue under the lock when it finds none,
stores the mbuf in the queue and raises the queue's flags. The maintainer
wakes every 100 microseconds and walks the set tree, again without the lock.
It hands finished queues to `ipv4_handle_reassembly`, whose packet
`ipv4_handle_fragment` cuts and writes. It marks queues `COMPLETE` or
`EXPIRE`, puts them into the trash and erases their nodes under the lock. Each
pass begins with the trash: a queue is freed on its twentieth pass there.

**What is hard.** The only lock guards insertion and erasure of nodes in the
set tree. Searches and walks do not take it, the fields of a queue have none,
and `flags |= bit` is a load and a store in both threads. Freed memory is kept
away from the reader by the twenty passes of the trash, that is by time. Fragments
come in any order, twice, overlapping, or never. Offsets, lengths and the mtu are
16 bits wide. The tree code is written twice, once for either side. A rotation
is a dozen stores, and an unlocked walk may meet any of them. Buffers are sized
without the headers and rely on rounding. The process ends only by being
killed or by a failed write.

**What makes each part correct.**
- queues: one queue per datagram; no queue or mbuf leaked or freed twice; nothing
  used after it is freed; no flag lost;
- maintenance: a whole datagram is written once, and is not discarded unless
  it expired; every queue is reclaimed;
- reassembly: every byte of the payload is written exactly once;
- fragmentation: the pieces tile the payload and their headers say so;
- containers and tree: an ordered set, balanced, with walks in key order, whose
  count is right and whose nodes are each freed once;
- the shared tree: an unlocked walk ends and touches only nodes;
- mbufs: nothing is written past a buffer, nothing is used that was not written;
- capture output: whatever the moment it is killed, all packets but the last can
  be read back.

## The modules

| Module | Models | Kind |
|---|---|---|
| `Reassembly` | both threads around the set tree, the trash and the queues | state machine, one shared access per step |
| `Service` | what they do, seen from outside: attempts to collect a datagram and write it out | abstract specification |
| `ReassemblyService` | `Reassembly` mapped to `Service` | refinement mapping |
| `ReassemblyProofs` | | theorems about `Reassembly` and its mapping |
| `Cutting` | arithmetic of `ipv4_handle_fragment` | operators |
| `ArithmeticProofs` | | lemmas about its 16-bit arithmetic and about sums |
| `Fragmentation` | its loop, one piece per step | state machine |
| `Assembly` | the copy loop of `ipv4_handle_reassembly` | state machine |
| `Delivery` | `Assembly`, and `Fragmentation` of the packet it returns | composition |
| `DeliveryProofs` | | theorems about `Fragmentation` and `Delivery` |
| `Mbuf` | the buffers of a datagram from frame to piece | state machine, one buffer or copy per step |
| `MbufProofs` | | theorems about `Mbuf` |
| `OrderedSet` | what the containers promise | abstract specification |
| `Container` | the operations of the three containers, called by several threads | state machine |
| `ContainerProofs` | | theorems about `Container` |
| `RBTree` | insertion, erasure and walks of the red-black tree, one loop iteration per step | state machine |
| `TreeSearch` | searches, postorder walk and node replacement over a state of `RBTree` | operators and properties |
| `RBTreeProofs` | | theorems about `RBTree` and the replacement of `TreeSearch` |
| `SharedTree` | `RBTree` store by store under an unlocked walk or search | state machine |
| `WalkProofs` | | theorems about the searches and walks of `TreeSearch` and about `SharedTree` |
| `Capture` | the process, its output file, writes that fail or fall short | state machine |
| `CaptureProofs` | | theorems about `Capture` |
| `MC...` | | values of the constants for TLC |

How they compose:

- `RBTree` and `Container` both implement `OrderedSet`. In `RBTree` an operation
  is alone and the tree is pointers; in `Container` threads overlap and the tree is a
  set of nodes. Together: under the lock the tree is a set, and with the lock
  its operations are atomic. `Reassembly` uses both facts, its trees are sets.
- `SharedTree` extends `RBTree`: the lock's owner takes the steps of `RBTree`, each
  of which leaves a list of stores that reach memory one at a time, while the other
  thread loads.
- `ReassemblyService` maps `Reassembly` to `Service`: a queue is an attempt, open
  while it is in the set tree and closed while it is only in the trash.
- `MCRoundTrip` composes `Cutting` with `Reassembly`: the capture that is
  read is what the program writes. `Mbuf` uses `Cutting` for what arrives as well as
  for what is written.
- `Delivery` composes `Assembly` with `Fragmentation`, as the maintainer does with a
  queue that is due: the second call begins when the first has returned a packet, whose
  payload is as long as the queue says. The steps `Reassemble` and `Emit` of
  `Reassembly` stand for a whole run of `Delivery`, and each of its pieces
  for one packet of `Capture`.

### State and actions of `Reassembly`

`heap` holds the addresses of allocated queues and `fq` their fields; the key of
a queue stands for addresses, id and protocol, which the code only compares.
`tree` and `trash` are the queues with a node in the set tree and in the trash
tree. `rpc` and `wpc` say where the threads are, the variables that begin with
`r` and `w` are their locals; `rreg` and `wreg` are the registers between the
load and the store of a `flags |=`. `relinking` is true while the owner of the
lock rewrites the links of the set tree. An unlocked search in that time finds
the key, misses it, or steps on the node being freed; an unlocked walk ends on
any node or too early. `rpc = "wild"` is the reader having read a freed
`set_node`: nothing is known of it from there on, and it stays where it is.
That this can happen is a defect of the design, which no property claims away.
`SharedTree` shows where these choices come from: with an insert preempted in its
rotation a walk may skip nodes, step back, go in a circle or end early, but never leaves the
nodes of the tree, and a search goes wild only under an erase.

The fields `first_fragment` and `len` may be stored before or after the flag
that goes with them (`SetFirst`, `SetLen` and the flag's steps come in any order),
because the compiler may swap plain stores. `Decide` tests either the value the
maintainer has just stored or the one in memory, since the compiler may use
either. Everything else happens in program order.

`rlag` counts the passes that began since the reader entered `ipv4_handler`, and
`MaxLag` bounds it: this is what the trash relies on, and `GraceAssumption`,
`MaxLag < EraseLimit`, states it. In the code 20 passes take at least 2 ms.
`RBTree` and the other modules have no bound but their constants.

`WireAssumption` limits what the capture holds: no fragment of a datagram ends
after its last fragment does. Nothing in the code checks it.

### State and actions of `RBTree`

A tree is a record of `kid[n][d]`, `par[n]`, `col[n]` and `root`. The two
branches of each loop are one action over a direction `d`. `InsertFlip` and
`InsertRotate` are the three cases of `__rb_insert`, `EraseNoLeft`,
`EraseNoRight` and `EraseTwo` those of `__rb_erase_augmented`, `EraseRotate`,
`EraseFlip` and `EraseRaise` those of `____rb_erase_color`. An operation
returns in the step that ends its loop, which is where the abstract set changes.

### State and actions of `SharedTree`

`t` is the tree as the owner of the lock has it, `mem` the tree in memory, and
`stores` what is still to be stored before the owner's next step (`Burst`). The
walking thread has a `call`, the `step` it is at and the locals `at` and `up`; each
step is one load. The reader searches and inserts, the maintainer walks and
erases, and either does one thing at a time: hence a search meets erases only and
a walk inserts only. Stores happen in the order of the source. The C code gives no
such guarantee, its stores are plain; with `rb_link_node` reordered,
`WalkIsSafe` fails, which is the mutant of that property.

### State and actions of `Container`

An operation is a sequence of steps between `lock` and `return`: `Find` or `First` or
`Succ`, then `Link` or `Unlink`, the load and the store of `ncount`, and `Free`
where that operation has it (before the count in `_rberase`, after it in
`_rberase_by_key`, after the unlock in `set_rberase_EX_mc`). What is done
under the lock to the tree is one step, as `RBTree` justifies. Some operations
take the lock themselves, for the others it is the caller's duty; both are
modelled as taking it. `cursor` is the node a caller walks on from. `out` is a history
variable: the key an operation returns, from the moment it takes effect.

The mapping to `OrderedSet` says for each thread what it has asked for: `Pending` is its
operation and key from the call to the moment it takes effect, and `out` the result from
then to the return. `OrderedSet` admits no result but the `Answer` to that operation on that
key, and no change of the set but `Rest`. `Members` is empty while a clear is under way,
which takes effect when it finds its first node. `RBTree` maps its one caller in the same
way; there an erase is called and done in one step (`AtOnce`).

`ContainerAssumption` has one thread that erases, as in the program. With two of
them the node an erase hands back could be freed before it is used.

### State and actions of `Mbuf`, `Capture` and `Service`

A buffer of `Mbuf` is its size, offset, length and the set of intervals that were
copied into it. A datagram is read frame by frame, assembled and cut again.

`Capture` has one action per call of the operating system, whose results it
chooses: an open may fail, a write may write less or nothing. Only a negative
result of the packet's own write ends the process. `Kill` may come at any moment;
`Rerun` starts the program again on the same file, which is not truncated.

`Service` has attempts. An attempt is opened for a datagram of which no other is open,
collects fragments of it at different offsets, and is closed once it has delivered,
is late, or can no longer become whole. It starts to deliver (`Start`) only what is whole:
the first and the last fragment and as many bytes as there should be. While it is
`sending`, and after that, it collects nothing and does not start again: reassembling a
queue for a second time is no step of `Service`. `sending` is the queue of the maintainer
between `Reassemble` and `Emit`. A fragment collected by a closed attempt is lost. The
late attempts are those older than the interval: time is not in its specification.

## The runs

| Run | Shows |
|---|---|
| `reassembly_two` | types, use after free, duplicate queues, ownership of queues and mbufs; pieces written by the program are recognised as a whole, the empty last piece included |
| `reassembly_overlap` | what is written is whole and written once; flags are not lost; a whole datagram is not dropped; the threads implement `Service` |
| `reassembly_live` | every queue is reclaimed; one that is due is written as long as the clock lets it live |
| `delivery` | a reassembled payload has every byte, once; pieces tile it, and their 16-bit fields do not wrap where the mtu is sane; what came in goes out |
| `fragmentation_mtu` | violation: pieces of a datagram with IP options exceed the mtu (main.c:22) |
| `mbuf` | which datagrams fit the buffers, and for which mtu; no byte is used before it is written |
| `rbtree` | red-black properties, both loop invariants stated in comments, order, walks, searches for neighbours, replacement, and the ordered set |
| `search_key` | violation: "less or equal" (key_elem.c:303) returns a larger key |
| `shared` | stores of each step make the tree of that step; an unlocked walk stays on nodes; a call nothing overlaps is exact; a walk ends when the insert that led it astray is over |
| `container` | count, ownership of nodes, the node handed back, the ordered set; the lock is always given back |
| `capture` | a kill loses one packet at most; a second run starts over |
| `capture_short` | violation: `incl_len` (main.c:108) after a short write |

**Bounds.** In the runs of `Reassembly` `EraseLimit` is 2 and `MaxLag` 1,
instead of 20 and up to 19. What matters is their difference, and the theorems
need only `MaxLag < EraseLimit`. `Interval` is 1 tick: age within it and age
beyond it are the only cases. Three frames are one more than a datagram of two
fragments, so that a repeated fragment or the next datagram meets a queue being
recycled. Four frames of `WireOverlap` allow the full datagram, all overlaps
and a repetition. Four queues are as many as four frames can create; with three frames
three are. The three frames of `reassembly_two` may be just the three pieces of the
datagram that the program cut; the other datagram of that run is longer than its `MaxLen`
and is refused. In `reassembly_live` a queue may become due behind one of which only the
first fragment arrives. Its `EraseLimit` is 1 and its `MaxLag` 0, as how long a queue stays
in the trash does not matter there, and its `Interval` 0, so that one tick makes a queue
expire. `MaxRecv` ends the capture, as the file does; the program then idles, and no deadlock
occurs since the maintainer never stops.

`RBTree` has seven nodes in any order of operations. Ten are needed for a repair of an
erase that climbs twice: the last three are inserted in ascending order only, and
then anything is erased. `UIntSize` is 8, so that the tree has keys beyond it as well.
`SharedTree` has five nodes in any order, enough for every case of insert and erase but the one in which a rotation of an insert moves a subtree.
That needs eight, the last three again in ascending order. It does not check
deadlock, since a wild search has no next step.

`Delivery` has fragments at offsets 0 to 3 whose lengths overlap, touch or leave holes, so
that payloads are one below, at and one above multiples of the piece sizes, and four
large payloads up to 65535 bytes and one beyond, with mtus at both ends of 16 bits. Of the
large payloads it follows the bytes around the ends of the first and the last pieces. `Mbuf`
has payloads around multiples of 64 and of the piece size, headers of 5, 6, 14 and 15
words, and mtus from the smallest to the largest, with those on both sides of the 1500 of
the buffer. Both end when the call returns, which is
why they do not check deadlock.

`Container` has two threads that insert, one of which erases, and four nodes on three
keys, so that an address is used again while an erased node with it is still held; the
theorems have any number of threads. `Capture` has two runs of up to three packets, the
second of which overwrites part of the first; a run ends by being killed, and after
the last the system stops.

**Fairness.** `FairSpec` has weak fairness of each thread's own steps: the threads
are scheduled by the operating system, and neither blocks except for the
lock, whose critical sections are short and loop-free in the model. It does not make
frames arrive. A step of the reader can be enabled and then wait for `lock`; since
the maintainer's steps are fair, weak fairness is enough there. It does not
make time pass either. `QueuesAreReclaimed` has that as its premise, `TimePasses`. `DueIsSent`
has not: the clock may stop, and then the maintainer has to get to the queue. It does because the reader
relinks the tree only as often as frames arrive, which `MaxRecv` bounds; by frames without
end an unlocked walk could be led past a queue again and again until that expires.

`WalkSpec`, and `TallSpec` of the run `shared`, have weak fairness of the walking thread
only: the thread with the lock may be preempted for ever in the middle of a rotation, and `WalksEnd` then promises
nothing. `FairSpec` of `Container` has weak fairness of each thread's steps; which waiting thread
gets the lock is open, as with the spin loop of `set_tree_lock`.

## What is proved

`ReassemblyProofs` proves for every capture, any number of queues and any bounds
that satisfy the assumptions in `Reassembly`:

- `TypeCorrect`: the type invariant, including that the count of mbufs stays natural;
- `GraceSuffices`: what the reader uses is allocated;
- `FindIsUnique`: one queue per datagram in the tree;
- `QueuesAreOwned`: a queue is in the tree, in the trash or private to the reader;
- `MbufsAreOwned`: the mbufs allocated are those stored and the one in hand.

The argument is the inductive invariant `IInv`. `Locals` says what the reader's
locals hold at each step. `Ownership` sharpens `QueuesAreReachable`: the parts
are disjoint but for the queue that is between `Recycle` and `EraseNode`. `Grace`
is the heart: a queue the reader holds was in the tree when it was found, so it
has been in the trash for at most `rlag` passes, which `MaxLag < EraseLimit`
keeps below the limit. Without it `HeldQueueIsAllocated` is not inductive. `Keyed` says that
the queue about to be inserted has the key that was searched for, which
makes `OneQueuePerKey` inductive although the search may have missed;
`PrivateIsEmpty` makes the mbuf count inductive when such a queue is destroyed.
Each conjunct has a lemma for its step, and one theorem, `Invariance`, combines them.

Its second part adds the properties of the flags:

- `FlagsSurvive`: a flag that should be set is set, although two threads
  update the byte by loads and stores (`NoLostUpdate`);
- `WholeIsKept`: a whole datagram is not discarded unless sent or expired;
- `NeverSentTwice` and `ReassemblyIsExclusive`: a queue is sent once, and
  the reader leaves it alone meanwhile.

`FlagInv` is relative to `IInv`. Its core is `FlagsAreTrue`, in two halves.
`Grounded` says every bit is true of the queue: no store can add a bit that was not
earned. `Complete` says which bits may be missing: those the reader is just about to
add, or any once `EXPIRE` is set. A store can take a bit back, so both halves
must hold of the registers, too: `ReaderRegister` and `WriterRegister` say how the
register may differ from memory. The maintainer's cannot lack a bit of the reader's that
matters, since after FIRST_IN, LAST_IN and FULL the reader adds no fragment
(`AdmittedIsNotDue`); the reader's can lack COMPLETE only if the queue was due while
the reader was storing. That is what the last two theorems exclude, under the hypothesis
`FirstIsNotEmpty`: a first fragment has a payload. It is needed. With
an empty first fragment FULL can be reached without it, and TLC finds a run in which the
packet is sent while the reader is still storing, COMPLETE is lost and
the packet is sent again. A datagram cut into fragments has no empty first one.

Its third part proves what the count of bytes means:

- `WholeIsEmitted`: what is written are the first and the last fragment and as many bytes
  as they say there are (`EmittedIsWhole`);
- `WholeIsRecognised` and `OwnOutputIsDue`: a queue that holds the payload from 0 to its end
  without an overlap is due (`WholeIsDue`), so that pieces cut by the program, from
  a payload of any length and for any mtu, are put together when they come back;
- `ThreadsImplementService`: every step of the threads is a step of `Service` or a stutter,
  again under `FirstIsNotEmpty`: without it the reader may be storing still when the
  maintainer starts to deliver, and the maintainer may start twice.

Its invariant, relative to the two before, is that `meat` is the sum of what the queue
stores but for the one fragment the reader has not counted yet (`CountInv`),
and that a queue leaves the tree because it was sent, has expired or can not become whole, and takes no
fragments once it was sent (`OutcomeInv`). Sums over sets of fragments
are folds, and induction over data is out of reach: the lemmas on sums and products in
`ArithmeticProofs` (`EveryNatural`, `SumsExist`) argue by the least
counterexample instead, which the provers find in a set of natural numbers.

`DeliveryProofs` proves `PiecesTile`, `AllIsWritten` and
`LengthsAgree` for every payload and every mtu the 16-bit arithmetic admits, from an
invariant that what has been written are the pieces up to `index`, and lemmas
on division, products and remainders mod 2^16. Its second half is about the composition
of the two calls: `EveryByteOnce` and `DatagramIsForwarded`. There the invariant is
that a byte has been written, and once, if a fragment the copy loop has passed
holds it, and not at all otherwise.

`MbufProofs` proves `BuffersSuffice`, for an mtu up to 1500 and, for a larger one, exactly
which pieces fit, `WrittenIsFilled`, and the exact condition of `PacketSuffices`: the end of the last copy is computed
from the tiling of the received fragments, which `ArithmeticProofs` gives. `WrittenIsFilled`
holds because the copies into a frame or a piece without options meet end to end.

`ContainerProofs` proves every property of `Container` but the liveness, for any
number of threads that insert. `IInv` says that one thread at most is inside the
lock (`Exclusion`), what its locals say about the tree (`NodesAreKnown`, `KeyIsAbsent`),
and that the count lags behind by the one change that is not stored yet (`Counts`).
`Refinement`, `Spec => Contents!Spec`, needs `Effects` besides: what the operation is about to
hand out is what the set would for its operation and its key. A call is an `Invoke`; `Find`,
`First`, `Succ`, `Link` or `Unlink`, whichever settles the result, is the `Perform`; the return is the
`Respond`; every other step is a stutter.

`RBTreeProofs` proves for every finite set of keys, and for any sequence of operations:

- `OrderHolds`: the tree is a search tree of the nodes it should hold, whose parents and
  children point to each other, after every iteration (`Ordered`);
- `RedBlackHolds` and `LoopsHold`: the red-black properties between operations, and in
  the loops the invariants that the comments state (`RedBlack`, `LoopsAreInvariant`);
- `Refinement`: `RBTree` implements `OrderedSet`: an erase takes out the node it was called with
  and hands back its successor, an insert links its key once;
- `ReplaceHolds`: `rb_replace_node` changes nothing but the node (`ReplaceKeepsShape`).

The properties walk the tree, and what a walk computes cannot be proved by
induction here. So the invariant `IInv` says instead that there are two functions that fit the
tree node by node: `b[n]`, the keys below `n`, and `h[n]`, the black nodes on any path down
from `n`. `Shape` ties `b` to the pointers and the order; `Level` ties `h` to the
colors, but for the side that an erase left one black short; `Colors` says where the
insert loop may have two reds in a row; `Locals` what is known of `node`, `parent` and `new`,
for a search that every node above its place is on the right side of the key (`Placed`). Both functions speak
of a node and its children only, so a rotation changes them at two or three nodes and
the rest of the tree keeps its values: `RotationKeepsShape`, `RemovalKeepsShape`,
`LinkKeepsShape`, `SubstitutionKeepsShape` and `MovedLevels` say how, for either direction at once,
and lemmas on the stores say that each case of the loops is such a change. The walks are read off
at the end: `SubtreeIs`, `BlackCountIs`, `ClimbIs` and `SuccessorIs` find them in `b` and `h`
by a least counterexample.

`WalkProofs` proves of the searches and walks, for every finite set of keys and whenever no
operation is under way:

- `WalksHold`: `rb_first` and `rb_last` find the least and the greatest node, `rb_next` and
  `rb_prev` the successor and the predecessor of each node and NULL only where there is none,
  and the walk in postorder meets every node once, a child before its parent
  (`WalksAreComplete`);
- `SearchesHold`: the searches of `set_tree`, `key_tree` and `tag_tree` for the place of a key
  find the elements next to it (`NeighboursAreFound`), whichever they visit last.

The searches of `key_tree` and `tag_tree` take the key as an `unsigned int`, while the stored
keys have 64 bits. `AsUInt` cuts it, modulo `UIntSize`, and the property is about the keys
that this does not change; those in the tree may be any.

Both follow from `IInv` alone: the function `b` of the keys below each node tells what a
loop must find. Each loop is a recursive function of a node, and that there is such a function has to be
shown first: `ChaseExists` gives it for a loop whose every step makes a number smaller, here
the number of nodes below, or of those that are not. What the function finds is then
said of `b` and proved for a parent from its children (`BottomUp`), or for a child
from its parent, by a least counterexample:
the end of a subtree (`FarthestIs`), the end of a climb (`ClimbReaches`), the
neighbour (`NeighbourIs`), the nodes of a search (`TrailLeads`). `Toward` is the order or its
reverse, so that each is proved for left and right at once. The
walk in postorder has met, when it comes to `x`, the nodes that come before `x`: those below `x`
and those left of it and not above it (`Precedes`). `PostNextIs` says that one step adds `x`, so that
after as many steps as there are nodes all are met (`StrollIs`).

It also proves of `SharedTree`, for any sequence of operations and calls:

- `SharedTreeIsTree`: the tree of the thread with the lock goes through the steps of
  `RBTree`, so all the above holds of it;
- `StoresHold`: the stores of each step, made one by one in the order of the source,
  turn the tree in memory into the one that the step makes (`StoresMakeTree`);
- `WalksAreSafe`: a pass without the lock never follows a pointer out of what is
  allocated, whichever stores of an insert it meets (`WalkIsSafe`);
- `UndisturbedIsRight`: a call that no operation overlaps finds exactly what is in the
  tree, and a pass also when it erases nodes as it goes (`UndisturbedIsExact`).

The model does not make a tree of the stores: it takes the step of `RBTree` at once and
keeps the list `stores` of what has not reached memory. The invariant that joins the two
is `Made`: what is still to be stored, applied to `mem`, gives `t`. It needs for each
step that its list of stores, applied to the tree before, gives the tree after
(lemmas `FlipRuns`, `RotateRuns`, `LowerErases`, `RaiseErases`,
`TwoErases` and their like), which follows from the shape that `RBTreeProofs` gives: some stores of the
source repeat what is there, and some write a pointer that a later one writes again.
`Pending` says besides which nodes a store may be about, the
nodes that are held (`Marks`), and that the store which frees a node is the last.
`WalkIsSafe` then follows from `Roaming`: while no erase is under way, every pointer in
memory is to an allocated node (`Enclosed`), since every single store of an insert keeps
that, and what is allocated only grows; so is what the pass holds
(`Walking`). An erase and a pass do not overlap, since the same thread does both; what the
erase hands back to the pass is what `RBTreeProofs` says of it (`Resuming`). For
`UndisturbedIsExact` the invariant `Undisturbed` says at each load where the call is: a
search at a node below which its key is if it is anywhere, a pass at a node of which
it has seen all that is smaller, or on its way down to the next one (`Ahead`), or up from
the largest key of a subtree (`Topped`).

`CaptureProofs` proves for any number of runs, and of packets of any sizes:

- `KillLosesLittle`: at whatever step the first run is killed, its packets are read back,
  in order, but at most the last (`KillLosesOnePacket`);
- `RerunsStartOver`: the packets of any later run are read first from the file that it
  overwrites, whatever that held (`RerunStartsOver`).

Both are for runs in which no write fell short; `Capture` shows what happens otherwise. What is read
is a recursive function along the file, from a record to the next by its length. The
invariant names the place of each record instead (`Lays`): the packets of the run are laid
out in the blocks in front of the position of the file, and in the first run there
are no others behind it. `PacketsAreRead` follows the reader from the last
place to the first. A packet is assumed not to be empty (`SizesAssumption`): it has a header.

`KeysAreUnique` and the type invariants of `Fragmentation` and `Container` are proved and not
part of a run; that no key is linked twice is what `ImplementsOrderedSet` shows of an insert there.

The provers list the members of a range whose bounds they see, which for the 65536 values of
16 bits takes longer than the proof. `MaxWord` and `MaxOffset` are therefore definitions,
which only the lemma `Word` and one step of `PieceOfArgument` expand. A leaf that needs more than a second names its
prover and the time it may take.

Every safety property of a passing run is proved. Only model-checked are the
liveness properties, which are beyond the prover, and the three violations below, which are
counterexamples.

## Findings

- `FRAGMENT_STEP` (handler.h:21) allows 20 bytes for the header while the pieces
  carry `ihl*4`; main.c:22 calls the number an mtu.
- `KeyTree_FindLastNode_LQ_Key` (key_elem.c:325) returns a larger key if none is
  small enough; its comment says "less or equal". It has no caller.
- `pcap_handle_write` (main.c:155) takes a short write for a whole one, so that `incl_len`
  is not the "number of octets of packet saved in file" (main.c:108), and every
  record after it is misread.

Not claimed by any document, and therefore only noted: the unlocked search can read
a freed `set_node` (`wild`); overlapping fragments can make `meat` reach `len` over a
hole; an mtu of 20 to 27 divides by zero and one below 20 wraps. The buffer of the
reassembled packet is sized without its header: the packet fits exactly when its length
mod 64 and its header together are at most 64 bytes, which is false for a length
of 45 to 63 mod 64 and a header of 20 bytes. A piece cut for an
mtu over 1500, which `-u` accepts, runs over its buffer if it has more than 1536 bytes. The
searches of `key_tree` and `tag_tree` for a neighbour take a key of 64 bits as one of 32,
and so look for another key from 2^32 on. Options are never copied, so that the
bytes written in their place are whatever malloc left. A walk of the set tree may go in
a circle while the reader is preempted in a rotation. A fragment without payload that comes
first can make a packet be sent twice. A process that could not open its output goes on
until it has a packet to write.

Two more disagreements with a comment have no run, since they follow from reading a line:
`Tag_FindLastNode_FollowKey` (tag_elem.c:277) returns the last node at which it turned left
when it meets the key itself, where its comment says "return node"; and the file
header's `snaplen` (main.c:136) is 255, the "max length of captured packets, in octets", in a
file whose packets are as long as the mtu.

## Not modelled

- `compiler.h`, `ipv4_fragment.pro`: no behaviour.
- The augmented trees: `__rb_insert_augmented` and its like run the modelled code with
  callbacks, and nothing in the repository defines one.
- The contents of headers, apart from offset, length and more-fragments bit; frames
  that are malformed, truncated by the capture, or longer than 1514 bytes.
- Allocation failure: the code does not check for it.
- Reordering of stores by compiler or processor, other than of the fields and flags of a queue
  (`Reassembly`): `SharedTree` and `Container` have the order of the source.
- Callbacks that do anything but allocate, compare or free; callers of the containers that
  do not take the lock, apart from the program's own (`SharedTree`).
- The end of `main`. It waits for the maintainer, which never returns, so its cleanup
  and `pcap_handle_close` are never reached.

## Plan

Done: the threads (`Reassembly`, `Service`), what they compute (`Cutting`, `Fragmentation`,
`Assembly`, `Delivery`, `Mbuf`), the trees (`RBTree`, `TreeSearch`, `SharedTree`, `Container`, `OrderedSet`),
the process (`Capture`), and the theorems above. Left to do: `SharedTree` with stores that
the processor may reorder, for which the pass would need what `Enclosed` says of every order.

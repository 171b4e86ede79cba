------------------------------ MODULE Assembly ------------------------------
(***************************************************************************)
(* ipv4_handle_reassembly: the fragments of a queue are copied, in the     *)
(* order of their offsets, into the payload of one new packet.  A step is  *)
(* one iteration of the copy loop.  Bytes are copied alike: some of them   *)
(* are followed.                                                           *)
(***************************************************************************)
EXTENDS Naturals

CONSTANTS
  Calls,  \* the queues it is called with: frags, meat and len
  Bytes,  \* the bytes of a payload that are followed
  MaxLen, \* 65535
  NULL

VARIABLES
  fqueue,  \* the argument
  knode,   \* the fragment whose node the walk has reached
  payload, \* history: how often each of these bytes has been written
  meat,    \* bytes copied
  pc       \* "call", "copy", "done", or "refused": NULL is returned

vars == <<fqueue, knode, payload, meat, pc>>

\* The first byte a fragment does not reach.
End(f) == f.off * 8 + f.plen

\* key_first and key_next find the fragment of S with the smallest offset.
Least(S) == IF S = {} THEN {NULL} ELSE {f \in S : \A g \in S : f.off <= g.off}

\* Mutant: a fragment that begins where the one before ends is passed over.
After_Gap(f) == {g \in fqueue.frags : g.off * 8 > End(f)}

After(f) == {g \in fqueue.frags : g.off > f.off}

\* The checks at the head of the function.
Ready(q) == q.meat = q.len /\ q.len <= MaxLen

\* Mutant: the offset is taken in bytes.
Copied_Bytes(f, b) == f.off <= b /\ b < f.off + f.plen

\* memcpy writes byte b of the payload.
Copied(f, b) == f.off * 8 <= b /\ b < End(f)

-----------------------------------------------------------------------------
Init ==
  /\ fqueue \in Calls
  /\ knode = NULL /\ payload = <<>> /\ meat = 0 /\ pc = "call"

Refuse ==
  /\ pc = "call" /\ ~Ready(fqueue)
  /\ pc' = "refused"
  /\ UNCHANGED <<fqueue, knode, payload, meat>>

\* A buffer for len bytes; the header of first_fragment; key_first.
Start ==
  /\ pc = "call" /\ Ready(fqueue)
  /\ payload' = [b \in {a \in Bytes : a < fqueue.len} |-> 0]
  /\ knode' \in Least(fqueue.frags)
  /\ pc' = "copy"
  /\ UNCHANGED <<fqueue, meat>>

Copy ==
  /\ pc = "copy" /\ knode # NULL
  /\ payload' = [b \in DOMAIN payload |->
                   IF Copied(knode, b) THEN payload[b] + 1 ELSE payload[b]]
  /\ meat' = meat + knode.plen
  /\ knode' \in Least(After(knode))
  /\ UNCHANGED <<fqueue, pc>>

Return ==
  /\ pc = "copy" /\ knode = NULL
  /\ pc' = "done"
  /\ UNCHANGED <<fqueue, knode, payload, meat>>

Next == Refuse \/ Start \/ Copy \/ Return

Spec == Init /\ [][Next]_vars
-----------------------------------------------------------------------------
(***************************************************************************)
(* Properties.                                                             *)
(***************************************************************************)
Disjoint(f, g) == End(f) <= g.off * 8 \/ End(g) <= f.off * 8

\* The fragments do not overlap and stay within the datagram.
Proper ==
  /\ \A f, g \in fqueue.frags : f # g => Disjoint(f, g)
  /\ \A f \in fqueue.frags : End(f) <= fqueue.len

\* The payload comes out complete: when the function returns a packet, and the
\* fragments do not overlap and stay within it, each byte of its payload has been
\* written exactly once.  Nothing checks for holes: the counts must rule them out.
EveryByteOnce == pc = "done" /\ Proper => \A b \in DOMAIN payload : payload[b] = 1
=============================================================================

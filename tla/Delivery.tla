------------------------------ MODULE Delivery ------------------------------
(***************************************************************************)
(* A queue that is due, from its fragments to the pieces in the capture:   *)
(* the maintainer calls ipv4_handle_reassembly, and with the packet that   *)
(* returns, if any, ipv4_handle_fragment.  The variables of Fragmentation  *)
(* are those of the second call, step and the others those of the first.   *)
(***************************************************************************)
EXTENDS Fragmentation, FiniteSetsExt

CONSTANTS
  Calls,  \* the queues: frags, meat and len
  Bytes,  \* the bytes of a payload that are followed
  MaxLen, \* 65535
  NULL

\* The number of payload bytes of the fragments of S.
ByteCount(S) == MapThenSumSet(LAMBDA f : f.plen, S)

\* A queue holds one fragment per offset, a first one among them, and its meat is the
\* sum of their lengths.
ASSUME CallsAssumption ==
  \A c \in Calls : /\ \A f \in c.frags : f.off \in Nat /\ f.plen \in Nat
                   /\ \A f, g \in c.frags : f.off = g.off => f = g
                   /\ \E f \in c.frags : f.off = 0
                   /\ IsFiniteSet(c.frags) /\ NULL \notin c.frags /\ c.len \in Nat
                   /\ c.meat = ByteCount(c.frags)

ASSUME BytesAssumption == Bytes \subseteq Nat

\* The check of the length keeps it to 16 bits.
ASSUME MaxLenAssumption == MaxLen \in Nat /\ MaxLen <= 65535

VARIABLES
  fqueue, knode, payload,
  copied, \* meat of ipv4_handle_reassembly
  step    \* and how far it is

assembly == <<fqueue, knode, payload, copied, step>>

Reassembled == INSTANCE Assembly WITH meat <- copied, pc <- step

-----------------------------------------------------------------------------
\* The packet has the length of the queue.  One that is too long is not made.
DeliveryInit ==
  /\ Reassembled!Init
  /\ Init /\ arg.plen = U16(fqueue.len)

Reassemble == Reassembled!Next /\ UNCHANGED vars

\* if (mbuf_resm)
Refragment == step = "done" /\ Next /\ UNCHANGED assembly

DeliveryNext == Reassemble \/ Refragment

DeliverySpec == DeliveryInit /\ [][DeliveryNext]_<<vars, assembly>>
-----------------------------------------------------------------------------
(***************************************************************************)
(* Properties.                                                             *)
(***************************************************************************)
\* The reassembled payload is complete (ipv4-reassembly.c:37-46).
EveryByteOnce == Reassembled!EveryByteOnce

Carries(piece, b) == piece.off * 8 <= b /\ b < piece.off * 8 + piece.plen

\* What came in goes out: each byte of a datagram's fragments is in the pieces of the
\* capture, at the place their headers say, and the pieces have no byte besides.
DatagramIsForwarded ==
  pc = "done" /\ Reassembled!Proper =>
    /\ MapThenSumSet(LAMBDA i : out[i].plen, 1..Len(out)) = ByteCount(fqueue.frags)
    /\ \A f \in fqueue.frags : \A b \in Bytes :
         Carries(f, b) => payload[b] = 1 /\ \E i \in 1..Len(out) : Carries(out[i], b)
=============================================================================

----------------------------- MODULE MCDelivery -----------------------------
(***************************************************************************)
(* Small queues: a first fragment, and fragments at up to three more       *)
(* offsets, which may overlap or leave holes.  Large ones: two fragments   *)
(* of a datagram near the limit of 16 bits, or beyond it.  The counts are  *)
(* those ipv4_handler keeps: meat sums up what is stored, len is where the *)
(* last fragment ends.                                                     *)
(***************************************************************************)
EXTENDS Delivery

PayloadLengths == {0, 1, 7, 8, 16, 24}

End(f) == f.off * 8 + f.plen

Queue(F) == [frags |-> F, meat |-> ByteCount(F),
             len |-> Max({End(f) : f \in F})]

Frags(S, plen) == {[off |-> o, plen |-> plen[o]] : o \in S}

SmallCalls == UNION {{Queue(Frags(S, plen)) : plen \in [S -> PayloadLengths]} :
                       S \in {T \in SUBSET (0..3) : 0 \in T}}

LargeCalls == {Queue({[off |-> 0, plen |-> 65472], [off |-> 8184, plen |-> n]}) :
                 n \in {8, 43, 56, 63, 64}}

MCCalls == SmallCalls \cup LargeCalls

\* All bytes of the small ones; of the large ones those around the ends of the first
\* piece at an mtu of 1500 and of the last pieces at any mtu.
MCBytes == 0..99 \cup 1479..1481 \cup 65440..65535

\* Every length, as it is passed on, at mtus that make pieces of 8, 16 and 24 bytes
\* and one that divides by zero; and the large ones at either end of 16 bits.
Lengths(C) == {U16(c.len) : c \in C}

MCInputs ==
  [plen : Lengths(SmallCalls), ihl : {5, 6, 15}, mtu : {27, 28, 35, 36, 44}]
  \cup [plen : Lengths(LargeCalls), ihl : {5, 15}, mtu : {0, 19, 1500, 65499, 65535}]
=============================================================================

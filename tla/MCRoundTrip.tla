---------------------------- MODULE MCRoundTrip ----------------------------
(***************************************************************************)
(* The capture holds two datagrams: one in two fragments, and one as the   *)
(* program itself writes it, in the pieces into which ipv4_handle_fragment *)
(* cuts it.                                                                *)
(***************************************************************************)
EXTENDS Reassembly, Cutting, TLC

\* 16 bytes at an mtu of 28: two pieces of 8 bytes, and an empty last one.
OwnPieces == {[key |-> 1, off |-> p.off, plen |-> p.plen, mf |-> p.mf] :
                p \in Pieces(16, 5, FragmentSize(28))}

\* The second datagram ends off the 8-byte grid and is longer than the MaxLen of the run.
WireMixed == OwnPieces \cup {[key |-> 2, off |-> 0, plen |-> 8, mf |-> TRUE],
                           [key |-> 2, off |-> 1, plen |-> 11, mf |-> FALSE]}

Symmetry == Permutations(Queues)
=============================================================================

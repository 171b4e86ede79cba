---------------------------- MODULE MCReassembly ----------------------------
(***************************************************************************)
(* Captures for the model checker.                                         *)
(***************************************************************************)
EXTENDS Reassembly, TLC

Frag(k, o, p, m) == [key |-> k, off |-> o, plen |-> p, mf |-> m]

\* A datagram of which only the first fragment arrives, and one of two fragments that
\* ends off the 8-byte grid.
WireTwo == {Frag(1, 0, 16, TRUE), Frag(2, 0, 8, TRUE), Frag(2, 1, 3, FALSE)}

\* One datagram of 24 bytes in three fragments, and the last two of them also
\* as one: 8..24 overlaps 16..24, and the two count 24 bytes without a first.
WireOverlap == {Frag(1, 0, 8, TRUE), Frag(1, 1, 8, TRUE), Frag(1, 2, 8, FALSE),
                Frag(1, 1, 16, FALSE)}

Symmetry == Permutations(Queues)
=============================================================================

------------------------------ MODULE Cutting ------------------------------
(***************************************************************************)
(* The arithmetic of ipv4_handle_fragment: into how many pieces a payload  *)
(* of plen bytes is cut, and what piece i is.  unsigned short variables    *)
(* are kept to 16 bits.                                                    *)
(***************************************************************************)
EXTENDS Naturals

HeaderMin == 20 \* sizeof(struct iphdr)

U16(n) == n % 65536

\* FRAGMENT_SIZE, assigned to an unsigned short.  The subtraction is unsigned: an
\* mtu below HeaderMin wraps around, and so does what is left modulo 2^16.
FragmentSize(mtu) == (U16(mtu + 65536 - HeaderMin) \div 8) * 8

\* Mutant: one piece too few.
FragmentCount_Exact(plen, size) == U16((plen + size - 1) \div size)

FragmentCount(plen, size) == U16(plen \div size + 1)

\* Mutant: pieces are taken to be numbered from 0.
Offset_Zero(size, i) == U16(i * size)

Offset(size, i) == U16((i - 1) * size)

\* IP_MF, in all pieces but the last.
More(plen, size, i) == i < FragmentCount(plen, size)

\* Mutant: a header without options is assumed.
Total_Min(len, ihl) == U16(len + HeaderMin)

\* tot_len
Total(len, ihl) == U16(len + ihl * 4)

\* Piece i of the datagram: its header's offset, more-fragments bit and total
\* length, and the bytes memcpy takes, plen of them from byte from.
Piece(plen, ihl, size, i) ==
  LET offset == Offset(size, i)
      len    == IF More(plen, size, i) THEN size ELSE U16(plen + 65536 - offset)
  IN [off |-> offset \div 8, plen |-> len, mf |-> More(plen, size, i),
      tot |-> Total(len, ihl), from |-> offset]

\* What a whole call writes.
Pieces(plen, ihl, size) ==
  {Piece(plen, ihl, size, i) : i \in 1..FragmentCount(plen, size)}
=============================================================================

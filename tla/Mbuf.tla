-------------------------------- MODULE Mbuf --------------------------------
(***************************************************************************)
(* The buffers a datagram passes through: an rte_mbuf_t for each frame of  *)
(* the capture, one for the reassembled packet, and one for each piece it  *)
(* is cut into.  A buffer is known by its size and by the intervals of     *)
(* bytes that have been copied into it; malloc leaves the others as they   *)
(* are.                                                                    *)
(***************************************************************************)
EXTENDS Cutting

CONSTANT Datagrams \* payload and header length, payload per fragment received, mtu

\* The capture holds the fragments whole, in frames of at most 1514 bytes; they are
\* cut at multiples of 8 bytes and more than one.  The mtu leaves room for 8 bytes and
\* is otherwise what main.c:38 takes from the command line, up to 16 bits.
ASSUME DatagramsAssumption ==
  /\ Datagrams \subseteq [plen : Nat, ihl : Nat, cut : Nat, mtu : Nat]
  /\ \A d \in Datagrams : /\ d.plen + d.ihl * 4 <= 65535 /\ 5 <= d.ihl /\ d.ihl <= 15
                          /\ 8 <= d.cut /\ d.cut % 8 = 0 /\ d.cut <= d.plen
                          /\ d.cut + d.ihl * 4 <= 1500
                          /\ 28 <= d.mtu /\ d.mtu <= 65535

VARIABLES
  dgram, \* the datagram
  pc,    \* "read", "assemble", "copy", "cut" or "done"
  index, \* number of the next fragment or piece
  mbuf,  \* the buffer of the last frame read or piece cut
  whole  \* the buffer of the reassembled packet

vars == <<dgram, pc, index, mbuf, whole>>

LinkHeader == 14 \* sizeof(struct ether_header)

BufferSize == 1500

DataOffset == 64

\* Mutant: the space in front of the data is not counted.
TrueSize_NoOffset(size) == (size \div 64 + 1) * 64

TrueSize(size) == (size \div 64 + 2) * 64

\* rte_mbuf_malloc
Malloc(size) == [size |-> TrueSize(size), put |-> {}, off |-> DataOffset, len |-> 0]

\* memcpy of n bytes to buffer[at]
Put(b, at, n) == [b EXCEPT !.put = @ \cup {<<at, at + n>>}]

\* Mutant: the link header is put where the data begins.
AddLink_AtData(b) ==
  [Put(b, b.off, LinkHeader) EXCEPT !.off = @ - LinkHeader, !.len = @ + LinkHeader]

\* The link header goes in front of the data.
AddLink(b) ==
  LET at == b.off - LinkHeader
  IN [Put(b, at, LinkHeader) EXCEPT !.off = at, !.len = @ + LinkHeader]

Received(i) == Piece(dgram.plen, dgram.ihl, dgram.cut, i)

ReceivedCount == FragmentCount(dgram.plen, dgram.cut)

Size == FragmentSize(dgram.mtu)

Cut(i) == Piece(dgram.plen, dgram.ihl, Size, i)

\* Where the payload of a packet begins whose header is at the data offset.
Payload == DataOffset + dgram.ihl * 4

Init ==
  /\ dgram \in Datagrams
  /\ pc = "read" /\ index = 1
  /\ mbuf = Malloc(BufferSize) /\ whole = Malloc(0)

\* The reader copies a frame, header.len bytes.
ReadFrame ==
  /\ pc = "read" /\ index <= ReceivedCount
  /\ LET len == LinkHeader + Received(index).tot
     IN mbuf' = [Put(Malloc(BufferSize), DataOffset, len) EXCEPT !.len = len]
  /\ index' = index + 1 /\ UNCHANGED <<dgram, pc, whole>>

\* ipv4_handle_reassembly: the buffer, its link header, and the fields of its header,
\* which has no options.
Assemble ==
  /\ pc = "read" /\ index > ReceivedCount
  /\ whole' = Put(AddLink(Malloc(dgram.plen)), DataOffset, HeaderMin)
  /\ pc' = "copy" /\ index' = 1 /\ UNCHANGED <<dgram, mbuf>>

\* The payload of one fragment.
CopyFragment ==
  /\ pc = "copy" /\ index <= ReceivedCount
  /\ whole' = Put(whole, Payload + Received(index).off * 8, Received(index).plen)
  /\ index' = index + 1 /\ UNCHANGED <<dgram, pc, mbuf>>

Assembled ==
  /\ pc = "copy" /\ index > ReceivedCount
  /\ whole' = [whole EXCEPT !.len = @ + Total(dgram.plen, dgram.ihl)]
  /\ pc' = "cut" /\ index' = 1 /\ UNCHANGED <<dgram, mbuf>>

\* ipv4_handle_fragment: the header, without its options, the payload, the link header.
PieceBuffer(p) ==
  AddLink([Put(Put(Malloc(BufferSize), DataOffset, HeaderMin), Payload, p.plen)
             EXCEPT !.len = p.tot])

CutPiece ==
  /\ pc = "cut" /\ index <= FragmentCount(dgram.plen, Size)
  /\ mbuf' = PieceBuffer(Cut(index))
  /\ index' = index + 1 /\ UNCHANGED <<dgram, pc, whole>>

Finish ==
  /\ pc = "cut" /\ index > FragmentCount(dgram.plen, Size)
  /\ pc' = "done" /\ UNCHANGED <<dgram, index, mbuf, whole>>

Next == ReadFrame \/ Assemble \/ CopyFragment \/ Assembled \/ CutPiece \/ Finish

Spec == Init /\ [][Next]_vars
-----------------------------------------------------------------------------
(***************************************************************************)
(* Properties.                                                             *)
(***************************************************************************)
Fits(b) == \A w \in b.put : w[2] <= b.size

\* Every byte of b from first up to, but not including, last has been copied to.
Filled(b, first, last) ==
  \A x \in {first} \cup {w[2] : w \in b.put} :
    first <= x /\ x < last => \E w \in b.put : w[1] <= x /\ x < w[2]

\* The rounding of the buffer of 1500 bytes makes up for the headers: with an mtu up to
\* 1500 and options of at most 36 bytes no frame and no piece runs over its end.  With a
\* larger one, which main.c:38 accepts, the pieces do that have more than 1536 bytes.
BuffersSuffice ==
  /\ dgram.ihl <= 14 /\ dgram.mtu <= 1500 => Fits(mbuf)
  /\ pc \in {"cut", "done"} /\ index > 1 =>
       (Fits(mbuf) <=> Cut(index - 1).plen + dgram.ihl * 4 <= 1536)

\* The buffer of the reassembled packet is sized by the payload alone
\* (ipv4-reassembly.c:10).  What the header takes must fit in what the rounding
\* leaves, which it does for these lengths, and for no others.
PacketSuffices ==
  pc \in {"cut", "done"} => (Fits(whole) <=> (dgram.plen % 64) + dgram.ihl * 4 <= 64)

\* What pcap_handle_write is given, data_len bytes from data_off, has been filled in to
\* the last byte, if there are no options; those are not copied.
WrittenIsFilled == dgram.ihl = HeaderMin \div 4 => Filled(mbuf, mbuf.off, mbuf.off + mbuf.len)
=============================================================================

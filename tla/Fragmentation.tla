--------------------------- MODULE Fragmentation ---------------------------
(***************************************************************************)
(* ipv4_handle_fragment: a reassembled datagram is cut into pieces, which  *)
(* are written to the capture one by one.  A step is one iteration of the  *)
(* loop.  unsigned short variables are kept to 16 bits.                    *)
(***************************************************************************)
EXTENDS Cutting, Sequences

CONSTANT Inputs \* the calls: payloadlen and ihl of the datagram, and the mtu

\* The largest unsigned short, and the largest offset of a header in 8 bytes.
MaxWord == 65535
MaxOffset == 8191

Words == 0..MaxWord

ASSUME InputsAssumption == Inputs \subseteq [plen : Words, ihl : 5..15, mtu : Words]

VARIABLES
  arg,   \* the call under way
  index, \* number of the next piece, from 1
  meat,  \* payload bytes in the pieces so far
  pc,    \* "call", "loop", "done", or "fault": division by zero
  out    \* history: the pieces written, in order

vars == <<arg, index, meat, pc, out>>

Size == FragmentSize(arg.mtu)

Count == FragmentCount(arg.plen, Size)

-----------------------------------------------------------------------------
Init ==
  /\ arg \in Inputs
  /\ index = 1 /\ meat = 0 /\ pc = "call" /\ out = <<>>

\* The division by fragment_size: an mtu of 20 to 27 leaves no room for 8 bytes.
Enter ==
  /\ pc = "call"
  /\ pc' = IF Size = 0 THEN "fault" ELSE "loop"
  /\ UNCHANGED <<arg, index, meat, out>>

\* One piece is built, written with pcap_handle_write, and freed.
Cut ==
  /\ pc = "loop" /\ index <= Count
  /\ LET piece == Piece(arg.plen, arg.ihl, Size, index)
     IN out' = Append(out, piece) /\ meat' = meat + piece.plen
  /\ index' = index + 1
  /\ UNCHANGED <<arg, pc>>

Finish ==
  /\ pc = "loop" /\ index > Count
  /\ pc' = "done"
  /\ UNCHANGED <<arg, index, meat, out>>

Next == Enter \/ Cut \/ Finish

Spec == Init /\ [][Next]_vars
-----------------------------------------------------------------------------
(***************************************************************************)
(* Properties.                                                             *)
(***************************************************************************)
\* Every variable has its type, and offsets and lengths fit their header fields.
TypeOK ==
  /\ arg \in Inputs /\ index \in Nat \ {0} /\ meat \in Nat
  /\ pc \in {"call", "loop", "done", "fault"}
  /\ out \in Seq([off : 0..MaxOffset, plen : Words, mf : BOOLEAN, tot : Words, from : Words])

\* The pieces carry the payload end to end: each begins where the one before ended,
\* at the offset its header says, and none reads beyond the datagram, although
\* offsets are counted in 16 bits and lengths in units of 8.
PiecesTile ==
  /\ out # <<>> => out[1].from = 0
  /\ \A i \in 1..Len(out) :
       /\ out[i].off * 8 = out[i].from
       /\ out[i].from + out[i].plen <= arg.plen
       /\ i > 1 => out[i].from = out[i-1].from + out[i-1].plen

\* When the call ends, everything has been written: only the last piece lacks the
\* more-fragments bit, it ends where the datagram ends, and the message "fragment
\* maybe have error" (ipv4-fragment.c:89) is not printed.
AllIsWritten ==
  pc = "done" =>
    /\ out # <<>> /\ meat = arg.plen
    /\ \A i \in 1..Len(out) : out[i].mf <=> i < Len(out)
    /\ out[Len(out)].from + out[Len(out)].plen = arg.plen

\* tot_len is the length of header and payload, in spite of its 16 bits, as long as
\* the mtu leaves room for the longest header.
LengthsAgree ==
  28 <= arg.mtu /\ arg.mtu <= 65499 =>
    \A i \in 1..Len(out) : out[i].tot = out[i].plen + arg.ihl * 4

\* main.c:22, "-u: mtu": no packet written is longer than the mtu.
PiecesFitMtu == \A i \in 1..Len(out) : out[i].tot <= arg.mtu
=============================================================================

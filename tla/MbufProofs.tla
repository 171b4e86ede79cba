----------------------------- MODULE MbufProofs -----------------------------
(***************************************************************************)
(* How long a datagram may be, and how long its options, for the buffers   *)
(* of the program to hold it; and that what is written was filled in.      *)
(***************************************************************************)
EXTENDS Mbuf, ArithmeticProofs

\* The argument, and the two sizes it is cut by.
LEMMA Arguments ==
  ASSUME dgram \in Datagrams
  PROVE  /\ dgram.plen \in Nat /\ dgram.plen <= 65535
         /\ dgram.ihl \in Nat /\ dgram.ihl >= 5 /\ dgram.ihl <= 15
         /\ dgram.cut \in Nat /\ dgram.cut >= 8 /\ dgram.cut % 8 = 0
         /\ dgram.cut + dgram.ihl * 4 <= 1500
         /\ Size \in Nat /\ Size >= 8 /\ Size % 8 = 0 /\ Size <= 65515
         /\ dgram.mtu <= 1500 => Size <= 1480
<1>1. /\ dgram.plen \in Nat /\ dgram.ihl \in Nat /\ dgram.cut \in Nat /\ dgram.mtu \in Nat
      /\ dgram.plen + dgram.ihl * 4 <= 65535 /\ 5 <= dgram.ihl /\ dgram.ihl <= 15
      /\ 8 <= dgram.cut /\ dgram.cut % 8 = 0 /\ dgram.cut <= dgram.plen
      /\ dgram.cut + dgram.ihl * 4 <= 1500
      /\ 28 <= dgram.mtu /\ dgram.mtu <= 65535
  BY DatagramsAssumption
<1>2. /\ Size \in Nat /\ Size >= 8 /\ Size % 8 = 0 /\ Size <= 65515
      /\ dgram.mtu <= 1500 => Size <= 1480
  <2>1. \A m \in Nat : m <= 65535 /\ m >= 28 =>
          /\ FragmentSize(m) \in Nat /\ FragmentSize(m) % 8 = 0
          /\ FragmentSize(m) >= 8 /\ FragmentSize(m) <= m - 20
    BY SizeIsMultiple
  <2> QED BY <2>1, <1>1 DEF Size
<1> QED BY <1>1, <1>2

\* The part of a piece that bounds its buffer.
LEMMA PieceIsBounded ==
  ASSUME NEW plen \in Nat, plen <= 65535, NEW ihl, NEW size \in Nat, size >= 8,
         size % 8 = 0, NEW i \in Nat, i >= 1, i <= FragmentCount(plen, size)
  PROVE  LET p == Piece(plen, ihl, size, i)
         IN p.plen \in Nat /\ p.plen <= size /\ p.tot = Total(p.plen, ihl)
<1> DEFINE p == Piece(plen, ihl, size, i)
<1>1. Exact(p, plen, ihl, size, i)
  BY PieceIsExact
<1> HIDE DEF p
<1> QED BY <1>1 DEF Exact, p

\* The buffers of frames and pieces.
LEMMA BufferIs ==
  /\ Malloc(BufferSize) = [size |-> 1600, put |-> {}, off |-> 64, len |-> 0]
  /\ DataOffset = 64 /\ LinkHeader = 14 /\ HeaderMin = 20
<1>1. 1500 \div 64 = 23
  BY SMTT(10)
<1>2. TrueSize(BufferSize) = 1600
  BY <1>1 DEF TrueSize, BufferSize
<1> QED BY <1>2 DEF Malloc, DataOffset, LinkHeader, HeaderMin

\* A fragment received is no longer than its cut, and its total length does not wrap.
LEMMA ReceivedIsBounded ==
  ASSUME dgram \in Datagrams, NEW i \in Nat, i >= 1, i <= ReceivedCount
  PROVE  Received(i).tot \in Nat /\ Received(i).tot <= 1500
<1>1. /\ Received(i).plen \in Nat /\ Received(i).plen <= dgram.cut
      /\ Received(i).tot = Total(Received(i).plen, dgram.ihl)
  BY Arguments, PieceIsBounded DEF Received, ReceivedCount
<1>2. /\ Received(i).plen + dgram.ihl * 4 \in Nat
      /\ Received(i).plen + dgram.ihl * 4 <= 1500
  BY <1>1, Arguments
<1>3. Received(i).tot = Received(i).plen + dgram.ihl * 4
  BY <1>1, <1>2, Modulus DEF Total
<1> QED BY <1>2, <1>3

\* What holds between two steps.
Bounded == dgram \in Datagrams /\ index \in Nat /\ index >= 1 /\ BuffersSuffice

LEMMA ReadFrameFits == ASSUME Bounded, ReadFrame PROVE BuffersSuffice'
<1> DEFINE len == LinkHeader + Received(index).tot
<1>1. Received(index).tot \in Nat /\ Received(index).tot <= 1500
  BY ReceivedIsBounded DEF Bounded, ReadFrame
<1>2. len \in Nat /\ len <= 1514
  BY <1>1, BufferIs
<1>3. mbuf' = [Put(Malloc(BufferSize), DataOffset, len) EXCEPT !.len = len]
  BY DEF ReadFrame
<1> HIDE DEF len
<1>4. mbuf'.size = 1600 /\ mbuf'.put = {<<64, 64 + len>>}
  BY <1>3, BufferIs DEF Put
<1>5. pc' = "read"
  BY DEF ReadFrame
<1> QED BY <1>2, <1>4, <1>5 DEF BuffersSuffice, Fits

LEMMA CutPieceFits == ASSUME Bounded, CutPiece PROVE BuffersSuffice'
<1> DEFINE p == Cut(index)
<1>1. dgram \in Datagrams /\ index \in Nat /\ index >= 1 /\ dgram' = dgram
      /\ index <= FragmentCount(dgram.plen, Size) /\ mbuf' = PieceBuffer(p)
  BY DEF Bounded, CutPiece
<1>2. p.plen \in Nat /\ (dgram.mtu <= 1500 => p.plen <= 1480)
  <2>1. p.plen \in Nat /\ p.plen <= Size
    BY <1>1, Arguments, PieceIsBounded DEF Cut
  <2> QED BY <2>1, <1>1, Arguments
<1>3. Cut(index - 1)' = p
  <2>1. index' - 1 = index
    BY <1>1 DEF CutPiece
  <2> QED BY <1>1, <2>1 DEF Cut, Size
<1> HIDE DEF p
<1>4. mbuf'.size = 1600
      /\ mbuf'.put = {<<64, 84>>, <<Payload, Payload + p.plen>>, <<50, 64>>}
  BY <1>1, BufferIs DEF PieceBuffer, AddLink, Put
<1>5. /\ Payload = 64 + dgram.ihl * 4 /\ dgram.ihl \in Nat
      /\ dgram.ihl <= 14 /\ dgram.mtu <= 1500 => Payload + p.plen <= 1600
  BY <1>1, <1>2, Arguments, BufferIs DEF Payload
<1>6. Fits(mbuf)' <=> p.plen + dgram.ihl * 4 <= 1536
  BY <1>2, <1>4, <1>5 DEF Fits
<1>7. dgram.ihl <= 14 /\ dgram.mtu <= 1500 => Fits(mbuf)'
  BY <1>2, <1>5, <1>6
<1> QED BY <1>1, <1>6, <1>7, <1>3 DEF BuffersSuffice

\* For every datagram, fragmented in any way: frames and pieces fit with an mtu up to 1500
\* and at most 36 bytes of options; and for every mtu, which pieces fit.
THEOREM BuffersAreLargeEnough == Spec => []BuffersSuffice
<1>1. Init => Bounded
  BY BufferIs DEF Init, Bounded, BuffersSuffice, Fits
<1>2. Bounded /\ [Next]_vars => Bounded'
  <2> SUFFICES ASSUME Bounded, [Next]_vars PROVE Bounded'
    OBVIOUS
  <2>1. dgram' \in Datagrams /\ index' \in Nat /\ index' >= 1
    BY DEF Bounded, Next, ReadFrame, Assemble, CopyFragment, Assembled, CutPiece, Finish, vars
  <2>2. CASE ReadFrame
    BY <2>1, <2>2, ReadFrameFits DEF Bounded
  <2>3. CASE CutPiece
    BY <2>1, <2>3, CutPieceFits DEF Bounded
  <2>4. CASE Assemble \/ CopyFragment \/ Assembled \/ Finish \/ UNCHANGED vars
    <3>1. mbuf' = mbuf /\ dgram' = dgram
      BY <2>4 DEF Assemble, CopyFragment, Assembled, Finish, vars
    <3>2. Fits(mbuf)' = Fits(mbuf) /\ Cut(index - 1)' = Cut(index' - 1)
      BY <3>1 DEF Fits, Cut, Size
    <3>3. pc' \in {"cut", "done"} /\ index' > 1 => pc \in {"cut", "done"} /\ index' = index
      BY <2>4 DEF Assemble, CopyFragment, Assembled, Finish, vars
    <3> QED BY <2>1, <3>1, <3>2, <3>3 DEF Bounded, BuffersSuffice
  <2> QED BY <2>2, <2>3, <2>4 DEF Next
<1>3. Bounded => BuffersSuffice
  BY DEF Bounded
<1> QED BY <1>1, <1>2, <1>3, PTL DEF Spec

\* The bytes fragment j of d fills in the reassembled packet, and those filled when the
\* fragments up to n have been copied.
Span(d, j) ==
  LET p == Piece(d.plen, d.ihl, d.cut, j)
      at == DataOffset + d.ihl * 4 + p.off * 8
  IN <<at, at + p.plen>>

Copied(d, n) == {<<50, 64>>, <<64, 84>>} \cup {Span(d, j) : j \in 1..n}

\* The packet holds the headers and the fragments copied so far.
Gathered ==
  /\ dgram \in Datagrams /\ index \in Nat /\ index >= 1
  /\ pc \in {"read", "copy", "cut", "done"}
  /\ pc = "copy" => /\ whole.size = TrueSize(dgram.plen)
                    /\ whole.put = Copied(dgram, index - 1)
                    /\ index <= ReceivedCount + 1
  /\ pc \in {"cut", "done"} => /\ whole.size = TrueSize(dgram.plen)
                               /\ whole.put = Copied(dgram, ReceivedCount)

LEMMA CountIsPositive ==
  ASSUME dgram \in Datagrams
  PROVE  ReceivedCount \in Nat /\ ReceivedCount >= 1
<1>1. \A p, s \in Nat : p <= 65535 /\ s >= 8
        => FragmentCount(p, s) \in Nat /\ FragmentCount(p, s) >= 1
  BY CountIsExact
<1> QED BY <1>1, Arguments DEF ReceivedCount

LEMMA AssembleGathers == ASSUME Gathered, Assemble PROVE Gathered'
<1>1. /\ dgram' = dgram /\ pc' = "copy" /\ index' = 1
      /\ whole' = Put(AddLink(Malloc(dgram.plen)), DataOffset, HeaderMin)
  BY DEF Assemble
<1>2. whole'.size = TrueSize(dgram.plen) /\ whole'.put = {<<50, 64>>, <<64, 84>>}
  BY <1>1, BufferIs DEF Put, AddLink, Malloc
<1>3. Copied(dgram, index' - 1) = {<<50, 64>>, <<64, 84>>}
  <2>1. 1..(index' - 1) = {}
    BY <1>1
  <2> QED BY <2>1 DEF Copied
<1>4. ReceivedCount' = ReceivedCount /\ ReceivedCount \in Nat /\ ReceivedCount >= 1
  BY <1>1, CountIsPositive DEF ReceivedCount, Gathered
<1> QED BY <1>1, <1>2, <1>3, <1>4 DEF Gathered

LEMMA CopyGathers == ASSUME Gathered, CopyFragment PROVE Gathered'
<1>1. dgram \in Datagrams /\ index \in Nat /\ index >= 1
  BY DEF Gathered
<1>2. /\ dgram' = dgram /\ pc' = "copy" /\ index' = index + 1 /\ index <= ReceivedCount
      /\ whole' = Put(whole, Payload + Received(index).off * 8, Received(index).plen)
      /\ whole.size = TrueSize(dgram.plen) /\ whole.put = Copied(dgram, index - 1)
  BY DEF Gathered, CopyFragment
<1>3. ReceivedCount' = ReceivedCount /\ ReceivedCount \in Nat
  BY <1>1, <1>2, CountIsPositive DEF ReceivedCount
<1>4. whole'.size = whole.size /\ whole'.put = whole.put \cup {Span(dgram, index)}
  BY <1>2 DEF Put, Span, Payload, Received
<1>5. Copied(dgram, index' - 1) = Copied(dgram, index - 1) \cup {Span(dgram, index)}
  <2>1. 1..(index' - 1) = 1..(index - 1) \cup {index}
    BY <1>1, <1>2
  <2> QED BY <2>1 DEF Copied
<1>6. whole'.put = Copied(dgram', index' - 1) /\ whole'.size = TrueSize(dgram'.plen)
  BY <1>2, <1>4, <1>5
<1>7. dgram' \in Datagrams /\ index' \in Nat /\ index' >= 1 /\ pc' = "copy"
  BY <1>1, <1>2
<1>8. index' <= ReceivedCount' + 1
  BY <1>1, <1>2, <1>3
<1> QED BY <1>6, <1>7, <1>8 DEF Gathered

LEMMA AssembledGathers == ASSUME Gathered, Assembled PROVE Gathered'
<1>1. /\ dgram' = dgram /\ pc' = "cut" /\ index' = 1
      /\ whole'.size = whole.size /\ whole'.put = whole.put
      /\ whole.size = TrueSize(dgram.plen) /\ whole.put = Copied(dgram, index - 1)
      /\ dgram \in Datagrams /\ index \in Nat
  BY DEF Gathered, Assembled, Copied
<1>2. index - 1 = ReceivedCount
  BY <1>1, CountIsPositive DEF Gathered, Assembled
<1>3. ReceivedCount' = ReceivedCount
  BY <1>1 DEF ReceivedCount
<1>4. whole'.put = Copied(dgram', ReceivedCount') /\ whole'.size = TrueSize(dgram'.plen)
  BY <1>1, <1>2, <1>3
<1>5. dgram' \in Datagrams /\ index' \in Nat /\ index' >= 1 /\ pc' = "cut"
  BY <1>1
<1> QED BY <1>4, <1>5 DEF Gathered

\* A span ends within the payload, and the last one ends where the payload does.
LEMMA SpansEnd ==
  ASSUME dgram \in Datagrams, NEW j \in Nat, j >= 1, j <= ReceivedCount
  PROVE  /\ Span(dgram, j)[2] \in Nat
         /\ Span(dgram, j)[2] <= 64 + dgram.ihl * 4 + dgram.plen
         /\ j = ReceivedCount => Span(dgram, j)[2] = 64 + dgram.ihl * 4 + dgram.plen
<1> DEFINE p == Piece(dgram.plen, dgram.ihl, dgram.cut, j)
<1>1. Exact(p, dgram.plen, dgram.ihl, dgram.cut, j)
  BY Arguments, PieceIsExact DEF ReceivedCount
<1>2. Span(dgram, j)[2] = 64 + dgram.ihl * 4 + p.off * 8 + p.plen
  BY BufferIs DEF Span
<1> HIDE DEF p
<1>3. /\ p.from \in Nat /\ p.off * 8 = p.from
      /\ p.plen \in Nat /\ p.from + p.plen <= dgram.plen
      /\ j = ReceivedCount => p.plen = dgram.plen - p.from
  <2>1. j = ReceivedCount => ~(j < ReceivedCount)
    BY CountIsPositive
  <2> QED BY <1>1, <2>1 DEF Exact, ReceivedCount
<1> QED BY <1>2, <1>3, Arguments

\* Rounding down and two more.
LEMMA RoundingLeaves ==
  ASSUME NEW a \in Nat, NEW h \in Nat
  PROVE  64 + h + a <= (a \div 64 + 2) * 64 <=> (a % 64) + h <= 64
  BY SMTT(20)

\* The packet fits exactly if the headers fit in what the rounding of its length leaves,
\* however the datagram was fragmented.
THEOREM PacketFitsIf == Spec => []PacketSuffices
<1>1. Init => Gathered
  BY DEF Init, Gathered
<1>2. Gathered /\ [Next]_vars => Gathered'
  <2> SUFFICES ASSUME Gathered, [Next]_vars PROVE Gathered'
    OBVIOUS
  <2>1. CASE Assemble
    BY <2>1, AssembleGathers
  <2>2. CASE CopyFragment
    BY <2>2, CopyGathers
  <2>3. CASE Assembled
    BY <2>3, AssembledGathers
  <2>4. CASE ReadFrame
    BY <2>4 DEF Gathered, ReadFrame
  <2>5. CASE CutPiece
    BY <2>5 DEF Gathered, CutPiece, ReceivedCount
  <2>6. CASE Finish
    BY <2>6 DEF Gathered, Finish, ReceivedCount
  <2>7. CASE UNCHANGED vars
    BY <2>7 DEF Gathered, vars, ReceivedCount
  <2> QED BY <2>1, <2>2, <2>3, <2>4, <2>5, <2>6, <2>7 DEF Next
<1>3. Gathered => PacketSuffices
  <2> SUFFICES ASSUME Gathered, pc \in {"cut", "done"}
               PROVE  Fits(whole) <=> (dgram.plen % 64) + dgram.ihl * 4 <= 64
    BY DEF PacketSuffices
  <2> DEFINE end == 64 + dgram.ihl * 4 + dgram.plen
  <2>1. /\ dgram \in Datagrams /\ whole.size = TrueSize(dgram.plen)
        /\ whole.put = Copied(dgram, ReceivedCount)
    BY DEF Gathered
  <2>2. /\ dgram.plen \in Nat /\ dgram.ihl \in Nat /\ dgram.ihl >= 5
        /\ ReceivedCount \in Nat /\ ReceivedCount >= 1
    BY <2>1, Arguments, CountIsPositive
  <2>3. end <= whole.size <=> (dgram.plen % 64) + dgram.ihl * 4 <= 64
    <3>1. dgram.ihl * 4 \in Nat
      BY <2>2
    <3> QED BY <2>1, <2>2, <3>1, RoundingLeaves DEF TrueSize
  <2>4. Fits(whole) => end <= whole.size
    <3>1. Span(dgram, ReceivedCount) \in whole.put
      BY <2>1, <2>2 DEF Copied
    <3>2. Span(dgram, ReceivedCount)[2] = end
      BY <2>1, <2>2, SpansEnd
    <3> QED BY <3>1, <3>2 DEF Fits
  <2>5. ASSUME end <= whole.size, NEW w \in whole.put PROVE w[2] <= whole.size
    <3>1. whole.size \in Nat
      <4>1. dgram.plen \div 64 \in Nat
        BY <2>2, Division
      <4> QED BY <4>1, <2>1 DEF TrueSize
    <3>2. w[2] \in Nat /\ w[2] <= end
      <4>1. CASE w \in {<<50, 64>>, <<64, 84>>}
        BY <4>1, <2>2
      <4>2. CASE w \in {Span(dgram, j) : j \in 1..ReceivedCount}
        <5>1. PICK j \in 1..ReceivedCount : w = Span(dgram, j)
          BY <4>2
        <5>2. j \in Nat /\ j >= 1 /\ j <= ReceivedCount
          BY <2>2
        <5> QED BY <5>1, <5>2, <2>1, SpansEnd
      <4> QED BY <4>1, <4>2, <2>1 DEF Copied
    <3> QED BY <3>1, <3>2, <2>2, <2>5
  <2> QED BY <2>3, <2>4, <2>5 DEF Fits
<1> QED BY <1>1, <1>2, <1>3, PTL DEF Spec

-----------------------------------------------------------------------------
\* Between two steps, the frame or the piece is filled.
FilledIn == dgram \in Datagrams /\ index \in Nat /\ index >= 1 /\ WrittenIsFilled

\* A frame is one copy.
LEMMA ReadFrameFills == ASSUME FilledIn, ReadFrame PROVE WrittenIsFilled'
<1> DEFINE len == LinkHeader + Received(index).tot
<1>1. Received(index).tot \in Nat
  BY ReceivedIsBounded DEF FilledIn, ReadFrame
<1>2. len \in Nat
  BY <1>1, BufferIs
<1>3. mbuf' = [Put(Malloc(BufferSize), DataOffset, len) EXCEPT !.len = len]
  BY DEF ReadFrame
<1> HIDE DEF len
<1>4. mbuf'.off = 64 /\ mbuf'.len = len /\ mbuf'.put = {<<64, 64 + len>>}
  BY <1>3, BufferIs DEF Put
<1>5. \A x \in {64, 64 + len} : x < 64 + len => 64 <= x
  BY <1>2
<1> QED BY <1>4, <1>5 DEF WrittenIsFilled, Filled

\* A piece is three: its link header, its header and its payload, which meet if the
\* header has no options.
LEMMA CutPieceFills == ASSUME FilledIn, CutPiece PROVE WrittenIsFilled'
<1> SUFFICES ASSUME dgram.ihl = HeaderMin \div 4
             PROVE  Filled(mbuf', mbuf'.off, mbuf'.off + mbuf'.len)
  BY DEF WrittenIsFilled, CutPiece
<1> DEFINE p == Cut(index)
<1>1. /\ dgram \in Datagrams /\ index \in Nat /\ index >= 1
      /\ index <= FragmentCount(dgram.plen, Size) /\ mbuf' = PieceBuffer(p)
  BY DEF FilledIn, CutPiece
<1>2. dgram.ihl = 5
  BY BufferIs, SMTT(10)
<1>3. p.plen \in Nat /\ p.plen <= 65515 /\ p.tot = Total(p.plen, dgram.ihl)
  <2>1. p.plen \in Nat /\ p.plen <= Size /\ p.tot = Total(p.plen, dgram.ihl)
    BY <1>1, Arguments, PieceIsBounded DEF Cut
  <2> QED BY <2>1, <1>1, Arguments
<1> HIDE DEF p
<1>4. p.tot = p.plen + 20
  <2>1. p.plen + dgram.ihl * 4 \in Nat /\ p.plen + dgram.ihl * 4 <= 65535
    BY <1>2, <1>3
  <2> QED BY <1>2, <1>3, <2>1, Modulus DEF Total
<1>5. /\ mbuf'.off = 50 /\ mbuf'.len = p.plen + 34
      /\ mbuf'.put = {<<64, 84>>, <<84, 84 + p.plen>>, <<50, 64>>}
  <2>1. Payload = 84
    BY <1>2, BufferIs DEF Payload
  <2> QED BY <1>1, <1>4, <1>3, <2>1, BufferIs DEF PieceBuffer, AddLink, Put
<1>6. ASSUME NEW x \in {50, 84, 84 + p.plen, 64}, x < 84 + p.plen
      PROVE  \E w \in mbuf'.put : w[1] <= x /\ x < w[2]
  BY <1>3, <1>5, <1>6
<1> QED BY <1>3, <1>5, <1>6 DEF Filled

\* No byte goes out that was never written, for every payload, however it was fragmented,
\* and every mtu, if the header has no options.
THEOREM NothingUnwrittenGoesOut == Spec => []WrittenIsFilled
<1>1. Init => FilledIn
  BY BufferIs DEF Init, FilledIn, WrittenIsFilled, Filled
<1>2. FilledIn /\ [Next]_vars => FilledIn'
  <2> SUFFICES ASSUME FilledIn, [Next]_vars PROVE FilledIn'
    OBVIOUS
  <2>1. dgram' \in Datagrams /\ index' \in Nat /\ index' >= 1
    BY DEF FilledIn, Next, ReadFrame, Assemble, CopyFragment, Assembled, CutPiece, Finish, vars
  <2>2. CASE ReadFrame
    BY <2>1, <2>2, ReadFrameFills DEF FilledIn
  <2>3. CASE CutPiece
    BY <2>1, <2>3, CutPieceFills DEF FilledIn
  <2>4. CASE mbuf' = mbuf /\ dgram' = dgram
    BY <2>1, <2>4 DEF FilledIn, WrittenIsFilled, Filled
  <2> QED BY <2>2, <2>3, <2>4
          DEF Next, Assemble, CopyFragment, Assembled, Finish, vars
<1>3. FilledIn => WrittenIsFilled
  BY DEF FilledIn
<1> QED BY <1>1, <1>2, <1>3, PTL DEF Spec
=============================================================================

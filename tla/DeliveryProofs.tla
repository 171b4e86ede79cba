--------------------------- MODULE DeliveryProofs ---------------------------
(***************************************************************************)
(* The pieces ipv4_handle_fragment writes tile the datagram, whatever its  *)
(* length and whatever the mtu; and the bytes of the fragments that        *)
(* ipv4_handle_reassembly was given are the bytes of those pieces.         *)
(***************************************************************************)
EXTENDS Delivery, ArithmeticProofs

Pieced == [off : 0..MaxOffset, plen : Words, mf : BOOLEAN, tot : Words, from : Words]

\* What holds of the loop between two pieces: what it has written are the pieces up to
\* index, and meat counts their bytes.
IInv ==
  /\ arg \in Inputs /\ index \in Nat \ {0} /\ meat \in Nat
  /\ pc \in {"call", "loop", "done", "fault"}
  /\ out \in Seq(Pieced) /\ Len(out) = index - 1
  /\ \A i \in 1..Len(out) : out[i] = Piece(arg.plen, arg.ihl, Size, i)
  /\ pc \in {"call", "fault"} => out = <<>>
  /\ pc \in {"loop", "done"} => Size >= 8 /\ index <= Count + 1
  /\ pc = "done" => index = Count + 1
  /\ pc \in {"loop", "done"} =>
       meat = IF index <= Count THEN (index - 1) * Size ELSE arg.plen
  /\ pc = "call" => index = 1 /\ meat = 0

\* The members of 0..m, one way and the other.
LEMMA InRange ==
  ASSUME NEW m \in Nat, NEW x, x \in 0..m
  PROVE  x \in Nat /\ x <= m
  BY SMT

LEMMA RangeHas ==
  ASSUME NEW m \in Nat, NEW x \in Nat, x <= m
  PROVE  x \in 0..m
  BY SMT

\* The bounds are left folded where a range has them: the provers list its members.
LEMMA Word ==
  ASSUME NEW x
  PROVE  x \in Words <=> x \in Nat /\ x <= 65535
<1>1. MaxWord \in Nat
  BY SMT DEF MaxWord
<1>2. MaxWord = 65535
  BY SMT DEF MaxWord
<1>3. x \in 0..MaxWord => x \in Nat /\ x <= MaxWord
  BY <1>1, InRange
<1>4. x \in Nat /\ x <= MaxWord => x \in 0..MaxWord
  BY <1>1, RangeHas
<1>5. x \in Words <=> x \in Nat /\ x <= MaxWord
  BY <1>3, <1>4 DEF Words
<1> QED BY <1>2, <1>5

\* The types of the arguments.
LEMMA Arguments ==
  ASSUME arg \in Inputs
  PROVE  /\ arg.plen \in Nat /\ arg.plen <= 65535
         /\ arg.ihl \in 5..15
         /\ arg.mtu \in Nat /\ arg.mtu <= 65535
<1>1. arg.plen \in Words /\ arg.ihl \in 5..15 /\ arg.mtu \in Words
  BY InputsAssumption
<1> QED BY <1>1, Word

\* The piece size and, unless it is 0, the number of pieces.
LEMMA Sizes ==
  ASSUME arg \in Inputs
  PROVE  /\ Size \in Nat /\ Size % 8 = 0 /\ (Size # 0 => Size >= 8)
         /\ Size >= 8 => Count \in Nat /\ Count >= 1
<1>1. /\ arg.plen \in Nat /\ arg.plen <= 65535
      /\ arg.mtu \in Nat /\ arg.mtu <= 65535
  BY Arguments
<1>2. Size \in Nat /\ Size % 8 = 0
  BY <1>1, SizeIsMultiple DEF Size
<1>3. Size # 0 => Size >= 8
  BY <1>2
<1>4. ASSUME Size >= 8 PROVE Count \in Nat /\ Count >= 1
  <2>1. Size >= 8
    BY <1>4
  <2>2. \A p, s \in Nat : p <= 65535 /\ s >= 8
          => FragmentCount(p, s) \in Nat /\ FragmentCount(p, s) >= 1
    BY CountIsExact
  <2> QED BY <1>1, <1>2, <2>1, <2>2 DEF Count
<1> QED BY <1>2, <1>3, <1>4

\* What a piece of the datagram is, as far as the properties need it.
LEMMA PieceOfArgument ==
  ASSUME arg \in Inputs, Size >= 8, NEW i \in Nat, i >= 1, i <= Count
  PROVE  LET p == Piece(arg.plen, arg.ihl, Size, i)
         IN /\ p.from = (i - 1) * Size /\ p.off * 8 = p.from
            /\ p.mf = (i < Count)
            /\ p.plen = IF i < Count THEN Size ELSE arg.plen - p.from
            /\ p.plen \in Nat /\ p.plen <= Size /\ p.from \in Nat
            /\ p.from + p.plen <= arg.plen
            /\ p.tot = Total(p.plen, arg.ihl)
            /\ p \in Pieced
<1> DEFINE p == Piece(arg.plen, arg.ihl, Size, i)
<1>1. /\ arg.plen \in Nat /\ arg.plen <= 65535
      /\ Size \in Nat /\ Size % 8 = 0 /\ arg.ihl \in 5..15
  BY Arguments, SizeIsMultiple DEF Size
<1>2. /\ p.from = (i - 1) * Size /\ p.from \in Nat
      /\ p.off \in Nat /\ p.off <= 8191 /\ p.off * 8 = p.from
      /\ p.mf = (i < Count)
      /\ p.plen = IF i < Count THEN Size ELSE arg.plen - p.from
      /\ p.plen \in Nat /\ p.plen <= Size /\ p.from + p.plen <= arg.plen
      /\ p.tot = Total(p.plen, arg.ihl)
  <2>1. Exact(p, arg.plen, arg.ihl, Size, i)
    BY <1>1, PieceIsExact DEF Count
  <2> HIDE DEF p
  <2> QED BY <2>1 DEF Exact, Count
<1>3. p.off \in 0..MaxOffset
  <2>1. MaxOffset \in Nat
    BY SMT DEF MaxOffset
  <2>2. MaxOffset = 8191
    BY SMT DEF MaxOffset
  <2> HIDE DEF p
  <2>3. p.off \in Nat /\ p.off <= MaxOffset
    BY <1>2, <2>2
  <2> QED BY <2>1, <2>3, RangeHas
<1>4. p.from \in Words /\ p.plen \in Words
  <2> HIDE DEF p
  <2> QED BY <1>1, <1>2, Word
<1>6. p.tot \in Words
  <2>1. p.plen + arg.ihl * 4 \in Nat
    BY <1>1, <1>2
  <2>2. p.tot \in Nat /\ p.tot <= 65535
    BY <2>1, <1>2, Modulus DEF Total
  <2> QED BY <2>2, Word
<1>7. p.mf \in BOOLEAN
  BY DEF Piece, More
<1>8. p \in Pieced
  <2>1. p = [off |-> p.off, plen |-> p.plen, mf |-> p.mf, tot |-> p.tot, from |-> p.from]
    BY DEF Piece
  <2> HIDE DEF p
  <2> QED BY <2>1, <1>3, <1>4, <1>6, <1>7 DEF Pieced
<1> QED BY <1>2, <1>8

LEMMA Initially == Init => IInv
<1> SUFFICES ASSUME Init PROVE IInv
  OBVIOUS
<1>1. out \in Seq(Pieced) /\ Len(out) = 0
  BY DEF Init
<1> QED BY <1>1 DEF Init, IInv

\* Count and Size depend on the argument only, which never changes.
LEMMA Fixed ==
  ASSUME [Next]_vars
  PROVE  arg' = arg /\ Size' = Size /\ Count' = Count
<1>1. arg' = arg
  BY DEF Next, Enter, Cut, Finish, vars
<1> QED BY <1>1 DEF Size, Count

LEMMA EnterKeeps == ASSUME IInv, Enter PROVE IInv'
<1>1. arg' = arg /\ Size' = Size /\ Count' = Count
  BY Fixed DEF Next
<1>2. arg \in Inputs
  BY DEF IInv
<1>3. Size \in Nat /\ (Size # 0 => Size >= 8)
  BY <1>2, Sizes
<1>4. Size # 0 => Count \in Nat /\ Count >= 1
  BY <1>2, <1>3, Sizes
<1>5. index = 1 /\ meat = 0 /\ out = <<>> /\ index' = 1 /\ meat' = 0 /\ out' = <<>>
  BY DEF IInv, Enter
<1>6. pc' = IF Size = 0 THEN "fault" ELSE "loop"
  BY DEF Enter
<1>7. (index' - 1) * Size' = 0
  BY <1>1, <1>3, <1>5
<1>8. out' \in Seq(Pieced) /\ Len(out') = 0
  BY <1>5
<1> QED BY <1>1, <1>2, <1>3, <1>4, <1>5, <1>6, <1>7, <1>8 DEF IInv

LEMMA CutKeeps == ASSUME IInv, Cut PROVE IInv'
<1> DEFINE piece == Piece(arg.plen, arg.ihl, Size, index)
<1>1. arg' = arg /\ Size' = Size /\ Count' = Count
  BY Fixed DEF Next
<1>2. /\ pc = "loop" /\ pc' = "loop" /\ index \in Nat /\ index >= 1 /\ index <= Count
      /\ index' = index + 1
      /\ out' = Append(out, piece) /\ meat' = meat + piece.plen
      /\ Size >= 8 /\ meat = (index - 1) * Size
  BY DEF IInv, Cut
<1>3. /\ piece.from = (index - 1) * Size
      /\ piece.plen = IF index < Count THEN Size ELSE arg.plen - piece.from
      /\ piece.plen \in Nat /\ piece.from \in Nat
      /\ piece \in Pieced
  BY <1>2, PieceOfArgument DEF IInv
<1>4. Size \in Nat /\ Count \in Nat /\ arg.plen \in Nat
  <2>1. arg \in Inputs
    BY DEF IInv
  <2> QED BY <2>1, <1>2, Arguments, Sizes
<1> HIDE DEF piece
<1>5. meat' = IF index' <= Count THEN (index' - 1) * Size ELSE arg.plen
  <2>1. index < Count => (index - 1) * Size + Size = index * Size
    BY <1>2, <1>4, SMTT(10)
  <2> QED BY <2>1, <1>2, <1>3, <1>4
<1>6. meat' \in Nat
  BY <1>2, <1>3 DEF IInv
<1>7. out' \in Seq(Pieced) /\ Len(out') = index' - 1
  BY <1>2, <1>3 DEF IInv
<1>8. ASSUME NEW i \in 1..Len(out')
      PROVE  out'[i] = Piece(arg.plen, arg.ihl, Size, i)
  <2>1. Len(out) = index - 1 /\ out \in Seq(Pieced)
    BY DEF IInv
  <2>2. CASE i = index
    BY <2>1, <2>2, <1>2 DEF piece
  <2>3. CASE i # index
    <3>1. i \in 1..Len(out)
      BY <2>1, <2>3, <1>7, <1>2
    <3>2. out'[i] = out[i]
      BY <3>1, <2>1, <1>2
    <3> QED BY <3>1, <3>2 DEF IInv
  <2> QED BY <2>2, <2>3
<1>9. index' \in Nat \ {0} /\ index' <= Count + 1
  BY <1>2, <1>4
<1>10. arg \in Inputs
  BY DEF IInv
<1> QED BY <1>1, <1>2, <1>5, <1>6, <1>7, <1>8, <1>9, <1>10 DEF IInv

LEMMA FinishKeeps == ASSUME IInv, Finish PROVE IInv'
<1>1. arg' = arg /\ Size' = Size /\ Count' = Count
  BY Fixed DEF Next
<1>2. Count \in Nat
  <2>1. arg \in Inputs /\ Size >= 8
    BY DEF IInv, Finish
  <2> QED BY <2>1, Sizes
<1>3. pc' = "done" /\ index' = index /\ meat' = meat /\ out' = out /\ index = Count + 1
  BY <1>2 DEF IInv, Finish
<1> QED BY <1>1, <1>2, <1>3 DEF IInv, Finish

\* The inductive invariant of the loop.
THEOREM Invariance == Spec => []IInv
<1>1. IInv /\ [Next]_vars => IInv'
  <2> SUFFICES ASSUME IInv, [Next]_vars PROVE IInv'
    OBVIOUS
  <2>1. CASE Enter
    BY <2>1, EnterKeeps
  <2>2. CASE Cut
    BY <2>2, CutKeeps
  <2>3. CASE Finish
    BY <2>3, FinishKeeps
  <2>4. CASE UNCHANGED vars
    BY <2>4 DEF IInv, vars, Size, Count
  <2> QED BY <2>1, <2>2, <2>3, <2>4 DEF Next
<1> QED BY <1>1, Initially, PTL DEF Spec

\* Type correctness: offsets and lengths fit their header fields.
THEOREM TypeCorrect == Spec => []TypeOK
<1>1. IInv => TypeOK
  BY DEF IInv, TypeOK, Pieced
<1> QED BY <1>1, Invariance, PTL

\* What has been written are pieces of the datagram, in order.
LEMMA PiecesAreExact ==
  ASSUME IInv, NEW i \in 1..Len(out)
  PROVE  /\ i \in Nat /\ i >= 1 /\ i <= Count /\ i <= Len(out)
         /\ arg \in Inputs /\ Size >= 8 /\ Size \in Nat /\ Count \in Nat
         /\ out[i] = Piece(arg.plen, arg.ihl, Size, i)
<1>1. arg \in Inputs /\ out \in Seq(Pieced) /\ Len(out) = index - 1 /\ index \in Nat
  BY DEF IInv
<1>2. out # <<>>
  BY <1>1
<1>3. pc \in {"loop", "done"}
  BY <1>2 DEF IInv
<1>4. Size >= 8 /\ index <= Count + 1
  BY <1>3 DEF IInv
<1>5. Size \in Nat /\ Count \in Nat
  BY <1>1, <1>4, Sizes
<1>6. i \in Nat /\ i >= 1 /\ i <= Len(out)
  BY <1>1
<1>7. out[i] = Piece(arg.plen, arg.ihl, Size, i)
  BY DEF IInv
<1> QED BY <1>1, <1>4, <1>5, <1>6, <1>7

LEMMA TilesFromInvariant == IInv => PiecesTile
<1> SUFFICES ASSUME IInv PROVE PiecesTile
  OBVIOUS
<1>1. ASSUME NEW i \in 1..Len(out)
      PROVE  /\ out[i].from = (i - 1) * Size /\ out[i].off * 8 = out[i].from
             /\ out[i].plen = IF i < Count THEN Size ELSE arg.plen - out[i].from
             /\ out[i].from + out[i].plen <= arg.plen
  <2>1. arg \in Inputs /\ Size >= 8 /\ i \in Nat /\ i >= 1 /\ i <= Count
        /\ out[i] = Piece(arg.plen, arg.ihl, Size, i)
    BY PiecesAreExact
  <2> QED BY <2>1, PieceOfArgument
<1>2. out # <<>> => out[1].from = 0
  <2>1. SUFFICES ASSUME out # <<>> PROVE out[1].from = 0
    OBVIOUS
  <2>2. out \in Seq(Pieced)
    BY DEF IInv
  <2>3. 1 \in 1..Len(out)
    BY <2>1, <2>2
  <2>4. out[1].from = (1 - 1) * Size /\ Size \in Nat
    BY <2>3, PiecesAreExact, <1>1
  <2> QED BY <2>4
<1>3. ASSUME NEW i \in 1..Len(out), i > 1
      PROVE  out[i].from = out[i-1].from + out[i-1].plen
  <2>1. i \in Nat /\ i <= Count /\ i <= Len(out) /\ Count \in Nat /\ Size \in Nat
    BY PiecesAreExact
  <2>2. i - 1 \in 1..Len(out) /\ i - 1 < Count
    <3>1. Len(out) \in Nat
      BY DEF IInv
    <3> QED BY <3>1, <2>1, <1>3
  <2>3. out[i-1].from = (i - 1 - 1) * Size /\ out[i-1].plen = Size
    BY <2>2, <1>1
  <2>4. out[i].from = (i - 1) * Size
    BY <1>1
  <2>5. (i - 1) * Size = (i - 1 - 1) * Size + Size
    BY <2>1, SMTT(10)
  <2> QED BY <2>3, <2>4, <2>5
<1> QED BY <1>1, <1>2, <1>3 DEF PiecesTile

\* The pieces carry the payload end to end and never reach beyond it, for every payload
\* and every mtu.
THEOREM Tiling == Spec => []PiecesTile
BY TilesFromInvariant, Invariance, PTL

LEMMA WrittenFromInvariant == IInv => AllIsWritten
<1> SUFFICES ASSUME IInv, pc = "done"
             PROVE  /\ out # <<>> /\ meat = arg.plen
                    /\ \A i \in 1..Len(out) : out[i].mf <=> i < Len(out)
                    /\ out[Len(out)].from + out[Len(out)].plen = arg.plen
  BY DEF AllIsWritten
<1>1. /\ arg \in Inputs /\ Size >= 8 /\ index = Count + 1 /\ Len(out) = index - 1
      /\ out \in Seq(Pieced)
  BY DEF IInv
<1>2. Size \in Nat /\ Count \in Nat /\ Count >= 1 /\ arg.plen \in Nat
  BY <1>1, Sizes, Arguments
<1>3. Len(out) = Count
  BY <1>1, <1>2
<1>4. out # <<>>
  BY <1>2, <1>3
<1>5. meat = arg.plen
  BY <1>1, <1>2 DEF IInv
<1>6. ASSUME NEW i \in 1..Len(out)
      PROVE  /\ out[i].mf = (i < Count) /\ out[i].from \in Nat
             /\ out[i].plen = IF i < Count THEN Size ELSE arg.plen - out[i].from
  <2>1. out[i] = Piece(arg.plen, arg.ihl, Size, i)
    BY DEF IInv
  <2>2. i \in Nat /\ i >= 1 /\ i <= Count
    BY <1>2, <1>3
  <2> QED BY <1>1, <2>1, <2>2, PieceOfArgument
<1>7. Len(out) \in 1..Len(out)
  BY <1>2, <1>3
<1>8. out[Len(out)].from + out[Len(out)].plen = arg.plen
  <2>1. /\ out[Len(out)].from \in Nat
        /\ out[Len(out)].plen = IF Len(out) < Count THEN Size
                                ELSE arg.plen - out[Len(out)].from
    BY <1>6, <1>7
  <2>2. ~(Len(out) < Count)
    BY <1>2, <1>3
  <2> QED BY <2>1, <2>2, <1>2
<1> QED BY <1>3, <1>4, <1>5, <1>6, <1>8

\* When the call ends every byte has been written, in a piece that says whether more
\* follow: "fragment maybe have error" is never printed.
THEOREM Complete == Spec => []AllIsWritten
BY WrittenFromInvariant, Invariance, PTL

LEMMA LengthsFromInvariant == IInv => LengthsAgree
<1> SUFFICES ASSUME IInv, 28 <= arg.mtu, arg.mtu <= 65499, NEW i \in 1..Len(out)
             PROVE  out[i].tot = out[i].plen + arg.ihl * 4
  BY DEF LengthsAgree
<1>1. arg \in Inputs /\ Size >= 8 /\ i \in Nat /\ i >= 1 /\ i <= Count
      /\ out[i] = Piece(arg.plen, arg.ihl, Size, i)
  BY PiecesAreExact
<1>2. arg.mtu \in Nat
  BY <1>1, Arguments
<1>3. Size \in Nat /\ Size % 8 = 0 /\ Size <= 65479
  <2>1. \A m \in Nat : m <= 65535 /\ m >= 20 => FragmentSize(m) <= m - 20
    BY SizeIsMultiple
  <2>2. arg.mtu <= 65535 /\ arg.mtu >= 20
    BY <1>2
  <2>3. Size <= arg.mtu - 20
    BY <1>2, <2>1, <2>2 DEF Size
  <2>4. Size \in Nat /\ Size % 8 = 0
    BY <1>1, Sizes
  <2> QED BY <1>2, <2>3, <2>4
<1>4. Size <= 65472
  BY <1>3
<1>5. out[i].plen \in Nat /\ out[i].plen <= Size
      /\ out[i].tot = Total(out[i].plen, arg.ihl)
  BY <1>1, PieceOfArgument
<1>6. arg.ihl \in Nat /\ arg.ihl <= 15
  <2>1. arg.ihl \in 5..15
    BY <1>1, Arguments
  <2> QED BY <2>1
<1>7. out[i].plen + arg.ihl * 4 \in Nat /\ out[i].plen + arg.ihl * 4 <= 65535
  <2>1. arg.ihl * 4 \in Nat /\ arg.ihl * 4 <= 60
    BY <1>6
  <2>2. out[i].plen <= 65472
    BY <1>3, <1>4, <1>5
  <2> QED BY SMTT(30), <1>5, <2>1, <2>2
<1> QED BY <1>5, <1>7, Modulus DEF Total

\* tot_len agrees with the piece, in spite of its 16 bits, whatever the options and
\* for every mtu that leaves room for the longest header.
THEOREM TotalsAgree == Spec => []LengthsAgree
BY LengthsFromInvariant, Invariance, PTL

-----------------------------------------------------------------------------
(***************************************************************************)
(* The first call: what has been copied when the walk is at knode.         *)
(***************************************************************************)
Frags == fqueue.frags

\* The fragments the walk has passed.
Passed == IF knode = NULL THEN Frags ELSE {f \in Frags : f.off < knode.off}

Targets == {b \in Bytes : b < fqueue.len}

\* A byte has been written once if a fragment has been passed that holds it.
Filled ==
  \A b \in Targets :
    payload[b] = IF \E f \in Passed : Reassembled!Copied(f, b) THEN 1 ELSE 0

AssemblyInv ==
  /\ fqueue \in Calls
  /\ step \in {"call", "copy", "done", "refused"}
  /\ step = "copy" => knode = NULL \/ knode \in Frags
  /\ step = "done" => knode = NULL
  /\ step \in {"copy", "done"} =>
       /\ Reassembled!Ready(fqueue) /\ DOMAIN payload = Targets
       /\ Reassembled!Proper => Filled

LEMMA QueueTypes ==
  ASSUME fqueue \in Calls
  PROVE  /\ \A f \in Frags : /\ f.off \in Nat /\ f.plen \in Nat
                             /\ Reassembled!End(f) = f.off * 8 + f.plen
                             /\ Reassembled!End(f) \in Nat
         /\ \A f, g \in Frags : f.off = g.off => f = g
         /\ \E f \in Frags : f.off = 0
         /\ IsFiniteSet(Frags) /\ NULL \notin Frags /\ fqueue.len \in Nat
         /\ fqueue.meat = ByteCount(Frags)
         /\ Targets \subseteq Nat
<1>1. /\ \A f \in Frags : f.off \in Nat /\ f.plen \in Nat
      /\ \A f, g \in Frags : f.off = g.off => f = g
      /\ \E f \in Frags : f.off = 0
  BY CallsAssumption DEF Frags
<1>2. /\ IsFiniteSet(Frags) /\ NULL \notin Frags /\ fqueue.len \in Nat
      /\ fqueue.meat = ByteCount(Frags)
  BY CallsAssumption DEF Frags
<1>3. \A f \in Frags : /\ Reassembled!End(f) = f.off * 8 + f.plen
                       /\ Reassembled!End(f) \in Nat
  BY <1>1 DEF Reassembled!End
<1>4. Targets \subseteq Nat
  BY BytesAssumption DEF Targets
<1> QED BY <1>1, <1>2, <1>3, <1>4

\* The walk begins at the first fragment.
LEMMA StartKeeps == ASSUME AssemblyInv, Reassembled!Start PROVE AssemblyInv'
<1>1. /\ step' = "copy" /\ fqueue' = fqueue /\ fqueue \in Calls
      /\ Reassembled!Ready(fqueue)
      /\ payload' = [b \in Targets |-> 0] /\ knode' \in Reassembled!Least(Frags)
  BY DEF Reassembled!Start, AssemblyInv, Targets, Frags
<1>2. knode' \in Frags /\ \A f \in Frags : knode'.off <= f.off
  BY <1>1, QueueTypes DEF Reassembled!Least
<1>3. Frags' = Frags /\ Targets' = Targets
  BY <1>1 DEF Frags, Targets
<1>4. Passed' = {}
  BY <1>1, <1>2, <1>3, QueueTypes DEF Passed
<1>5. Filled'
  BY <1>1, <1>3, <1>4 DEF Filled
<1> QED BY <1>1, <1>2, <1>3, <1>5 DEF AssemblyInv, Reassembled!Ready

\* One turn of the loop passes one more fragment, whichever comes next.
LEMMA CopyPasses ==
  ASSUME AssemblyInv, Reassembled!Copy
  PROVE  /\ knode \in Frags /\ knode \notin Passed /\ Passed \subseteq Frags
         /\ Frags' = Frags /\ Passed' = Passed \cup {knode}
         /\ knode' = NULL \/ knode' \in Frags
<1>1. /\ knode \in Frags /\ knode # NULL /\ fqueue' = fqueue /\ fqueue \in Calls
      /\ knode' \in Reassembled!Least(Reassembled!After(knode))
  BY DEF Reassembled!Copy, AssemblyInv
<1>2. Passed = {f \in Frags : f.off < knode.off} /\ Frags' = Frags
  BY <1>1 DEF Passed, Frags
<1>3. Reassembled!After(knode) = {g \in Frags : g.off > knode.off}
  BY DEF Reassembled!After, Frags
<1>4. \A f \in Frags : f.off \in Nat /\ (f.off = knode.off => f = knode)
  BY <1>1, QueueTypes
<1>5. CASE Reassembled!After(knode) = {}
  <2>1. knode' = NULL
    BY <1>1, <1>5 DEF Reassembled!Least
  <2>2. Passed' = Frags
    BY <1>2, <2>1 DEF Passed
  <2>3. \A f \in Frags : f.off < knode.off \/ f = knode
    BY <1>1, <1>3, <1>4, <1>5
  <2> QED BY <1>1, <1>2, <1>4, <2>1, <2>2, <2>3
<1>6. CASE Reassembled!After(knode) # {}
  <2>1. /\ knode' \in Frags /\ knode'.off > knode.off
        /\ \A g \in Frags : g.off > knode.off => knode'.off <= g.off
    BY <1>1, <1>3, <1>6 DEF Reassembled!Least
  <2>2. knode' # NULL
    BY <1>1, <2>1, QueueTypes
  <2>3. Passed' = {f \in Frags : f.off < knode'.off}
    BY <1>2, <2>2 DEF Passed
  <2>4. \A f \in Frags : f.off < knode'.off <=> f.off < knode.off \/ f = knode
    BY <1>1, <1>4, <2>1
  <2> QED BY <1>1, <1>2, <1>4, <2>1, <2>3, <2>4
<1> QED BY <1>5, <1>6

LEMMA CopyKeeps == ASSUME AssemblyInv, Reassembled!Copy PROVE AssemblyInv'
<1>1. /\ step = "copy" /\ step' = "copy" /\ fqueue' = fqueue /\ fqueue \in Calls
      /\ Reassembled!Ready(fqueue) /\ DOMAIN payload = Targets
      /\ payload' = [b \in Targets |-> IF Reassembled!Copied(knode, b)
                                       THEN payload[b] + 1 ELSE payload[b]]
      /\ Reassembled!Proper => Filled
  BY DEF Reassembled!Copy, AssemblyInv
<1>2. /\ knode \in Frags /\ knode \notin Passed /\ Passed \subseteq Frags
      /\ Frags' = Frags /\ Passed' = Passed \cup {knode}
      /\ knode' = NULL \/ knode' \in Frags
  BY CopyPasses
<1>3. Targets' = Targets
  BY <1>1 DEF Targets
<1>4. ASSUME Reassembled!Proper, NEW b \in Targets
      PROVE  payload'[b] = IF \E f \in Passed' : Reassembled!Copied(f, b) THEN 1 ELSE 0
  <2>1. payload[b] = IF \E f \in Passed : Reassembled!Copied(f, b) THEN 1 ELSE 0
    BY <1>1, <1>4 DEF Filled
  <2>2. ASSUME Reassembled!Copied(knode, b), NEW f \in Passed
        PROVE  ~Reassembled!Copied(f, b)
    <3>1. Reassembled!Disjoint(f, knode)
      BY <1>2, <1>4 DEF Reassembled!Proper, Frags
    <3>2. /\ f.off \in Nat /\ knode.off \in Nat /\ b \in Nat
          /\ Reassembled!End(f) \in Nat /\ Reassembled!End(knode) \in Nat
      BY <1>1, <1>2, QueueTypes
    <3> QED BY <2>2, <3>1, <3>2 DEF Reassembled!Disjoint, Reassembled!Copied
  <2>3. CASE Reassembled!Copied(knode, b)
    BY <1>1, <1>2, <2>1, <2>2, <2>3
  <2>4. CASE ~Reassembled!Copied(knode, b)
    BY <1>1, <1>2, <2>1, <2>4
  <2> QED BY <2>3, <2>4
<1>5. Reassembled!Proper' => Reassembled!Proper
  BY <1>1 DEF Reassembled!Proper
<1>6. Reassembled!Proper' => Filled'
  BY <1>3, <1>4, <1>5 DEF Filled, Reassembled!Copied, Reassembled!End
<1> QED BY <1>1, <1>2, <1>3, <1>6 DEF AssemblyInv, Reassembled!Ready

LEMMA AssemblyKeeps == ASSUME AssemblyInv, Reassembled!Next PROVE AssemblyInv'
<1>1. CASE Reassembled!Refuse
  BY <1>1 DEF AssemblyInv, Reassembled!Refuse, Frags
<1>2. CASE Reassembled!Return
  BY <1>2 DEF AssemblyInv, Reassembled!Return, Frags, Targets, Filled, Passed,
     Reassembled!Ready, Reassembled!Proper, Reassembled!Copied, Reassembled!End
<1> QED BY <1>1, <1>2, StartKeeps, CopyKeeps DEF Reassembled!Next

\* Fragments that stay apart and within the packet, and add up to its length, leave no
\* hole.
LEMMA ProperIsWhole ==
  ASSUME fqueue \in Calls, Reassembled!Ready(fqueue), Reassembled!Proper
  PROVE  \A b \in 0..(fqueue.len - 1) : \E f \in Frags : Reassembled!Copied(f, b)
<1> DEFINE start == [f \in Frags |-> f.off * 8]
<1>1. /\ IsFiniteSet(Frags) /\ fqueue.len \in Nat
      /\ \A f \in Frags : f.plen \in Nat /\ f.off \in Nat
      /\ fqueue.len = ByteCount(Frags)
  BY QueueTypes DEF Reassembled!Ready
<1>2. Weigh(Plen(Frags), Frags) = fqueue.len
  BY <1>1, BytesIsSum DEF ByteCount
<1>3. \A f \in Frags : /\ Plen(Frags)[f] = f.plen /\ start[f] = f.off * 8
                       /\ Plen(Frags)[f] \in Nat /\ start[f] \in Nat
                       /\ Reassembled!End(f) = start[f] + Plen(Frags)[f]
                       /\ start[f] + Plen(Frags)[f] <= fqueue.len
  BY <1>1 DEF Plen, Reassembled!End, Reassembled!Proper, Frags
<1> HIDE DEF start
<1>4. Separate(start, Plen(Frags), Frags)
  <2> SUFFICES ASSUME NEW f \in Frags, NEW g \in Frags, f # g
               PROVE  Extent(start[f], Plen(Frags)[f]) \cap Extent(start[g], Plen(Frags)[g])
                        = {}
    BY DEF Separate
  <2>1. Reassembled!End(f) <= start[g] \/ Reassembled!End(g) <= start[f]
    BY <1>3 DEF Reassembled!Proper, Reassembled!Disjoint, Frags
  <2> QED BY <1>3, <2>1 DEF Extent
<1>5. \A b \in 0..(fqueue.len - 1) : \E f \in Frags : b \in Extent(start[f], Plen(Frags)[f])
  BY <1>1, <1>2, <1>3, <1>4, AllCovered
<1> QED BY <1>3, <1>5 DEF Extent, Reassembled!Copied

LEMMA OnceFromInvariant == AssemblyInv => EveryByteOnce
<1> SUFFICES ASSUME AssemblyInv, step = "done", Reassembled!Proper, NEW b \in DOMAIN payload
             PROVE  payload[b] = 1
  BY DEF EveryByteOnce, Reassembled!EveryByteOnce
<1>1. /\ fqueue \in Calls /\ Reassembled!Ready(fqueue) /\ b \in Targets /\ Filled
      /\ Passed = Frags
  BY DEF AssemblyInv, Passed
<1>2. b \in 0..(fqueue.len - 1)
  BY <1>1, QueueTypes DEF Targets
<1>3. \E f \in Frags : Reassembled!Copied(f, b)
  BY <1>1, <1>2, ProperIsWhole
<1> QED BY <1>1, <1>3 DEF Filled

-----------------------------------------------------------------------------
(***************************************************************************)
(* Both calls.                                                             *)
(***************************************************************************)
DeliveryInv ==
  /\ AssemblyInv /\ IInv
  /\ arg.plen = U16(fqueue.len)
  /\ pc # "call" => step = "done"

LEMMA DeliveryStep ==
  DeliveryInv /\ [DeliveryNext]_<<vars, assembly>> => DeliveryInv'
<1> SUFFICES ASSUME DeliveryInv, [DeliveryNext]_<<vars, assembly>> PROVE DeliveryInv'
  OBVIOUS
<1>1. CASE Reassemble
  <2>1. AssemblyInv'
    BY <1>1, AssemblyKeeps DEF DeliveryInv, Reassemble
  <2>2. IInv'
    BY <1>1 DEF DeliveryInv, Reassemble, vars, IInv, Size, Count
  <2>3. fqueue' = fqueue /\ step # "done"
    BY <1>1 DEF Reassemble, Reassembled!Next, Reassembled!Refuse, Reassembled!Start,
       Reassembled!Copy, Reassembled!Return
  <2> QED BY <1>1, <2>1, <2>2, <2>3 DEF DeliveryInv, Reassemble, vars
<1>2. CASE Refragment
  <2>1. IInv'
    BY <1>2, EnterKeeps, CutKeeps, FinishKeeps DEF DeliveryInv, Refragment, Next
  <2>2. AssemblyInv'
    BY <1>2 DEF DeliveryInv, Refragment, assembly, AssemblyInv, Frags, Targets, Filled,
       Passed, Reassembled!Ready, Reassembled!Proper, Reassembled!Copied, Reassembled!End,
       Reassembled!Disjoint
  <2>3. arg' = arg
    BY <1>2, Fixed DEF Refragment
  <2> QED BY <1>2, <2>1, <2>2, <2>3 DEF DeliveryInv, Refragment, assembly
<1>3. CASE UNCHANGED <<vars, assembly>>
  BY <1>3 DEF DeliveryInv, assembly, vars, AssemblyInv, Frags, Targets, Filled, IInv, Size,
     Count, Passed, Reassembled!Ready, Reassembled!Proper, Reassembled!Copied,
     Reassembled!End, Reassembled!Disjoint
<1> QED BY <1>1, <1>2, <1>3 DEF DeliveryNext

\* The inductive invariant of reassembly and the fragmentation that follows it.
THEOREM DeliveryInvariance == DeliverySpec => []DeliveryInv
<1>1. DeliveryInit => DeliveryInv
  BY Initially DEF DeliveryInit, Init, Reassembled!Init, DeliveryInv, AssemblyInv
<1> QED BY <1>1, DeliveryStep, PTL DEF DeliverySpec

\* Whatever fragments a queue holds, if they stay apart and within its length the packet
\* that comes of it has every byte, written once.
THEOREM Reassembles == DeliverySpec => []EveryByteOnce
BY DeliveryInvariance, OnceFromInvariant, PTL DEF DeliveryInv

\* The size of an interval that starts at zero.
LEMMA CountFromZero ==
  ASSUME NEW n \in Nat
  PROVE  Cardinality(0..(n - 1)) = n
BY FS_Interval

\* The pieces of a finished call have as many bytes as the payload.
LEMMA PiecesAddUp ==
  ASSUME IInv, pc = "done"
  PROVE  MapThenSumSet(LAMBDA i : out[i].plen, 1..Len(out)) = arg.plen
<1> DEFINE S == 1..Len(out)
           w == [i \in S |-> out[i].plen]
           at == [i \in S |-> out[i].from]
<1>1. /\ arg \in Inputs /\ Size >= 8 /\ Size \in Nat /\ Size % 8 = 0
      /\ Count \in Nat /\ Len(out) = Count /\ arg.plen \in Nat /\ arg.plen <= 65535
  <2>1. arg \in Inputs /\ Size >= 8 /\ index = Count + 1 /\ Len(out) = index - 1
    BY DEF IInv
  <2>2. /\ Size \in Nat /\ Size % 8 = 0 /\ Count \in Nat
        /\ arg.plen \in Nat /\ arg.plen <= 65535
    BY <2>1, Sizes, Arguments
  <2> QED BY <2>1, <2>2
<1>2. ASSUME NEW i \in S
      PROVE  /\ i \in Nat /\ i >= 1 /\ i <= Count
             /\ out[i] = Piece(arg.plen, arg.ihl, Size, i)
             /\ out[i].from \in Nat /\ out[i].plen \in Nat
             /\ out[i].from + out[i].plen <= arg.plen
             /\ w[i] = out[i].plen /\ at[i] = out[i].from
  <2>1. i \in Nat /\ i >= 1 /\ i <= Count /\ out[i] = Piece(arg.plen, arg.ihl, Size, i)
    BY PiecesAreExact
  <2> QED BY <1>1, <2>1, PieceOfArgument
<1>3. IsFiniteSet(S)
  BY <1>1, FS_Interval
<1>4. MapThenSumSet(LAMBDA i : out[i].plen, S) = Weigh(w, S)
  BY <1>2, <1>3, IndexedIsSum
<1>5. S = 1..Count
  BY <1>1
<1> HIDE DEF w, at, S
<1>6. ASSUME NEW i \in S, NEW j \in S, i < j
      PROVE  at[i] + w[i] <= at[j]
  <2>1. i \in Nat /\ i >= 1 /\ j \in Nat /\ j <= FragmentCount(arg.plen, Size)
    BY <1>2 DEF Count
  <2> QED BY <1>1, <1>2, <1>6, <2>1, PiecesAreApart
<1>7. Separate(at, w, S)
  <2> SUFFICES ASSUME NEW i \in S, NEW j \in S, i # j
               PROVE  Extent(at[i], w[i]) \cap Extent(at[j], w[j]) = {}
    BY DEF Separate
  <2>1. i \in Nat /\ j \in Nat
    BY <1>2
  <2>2. at[i] + w[i] <= at[j] \/ at[j] + w[j] <= at[i]
    BY <1>6, <2>1
  <2>3. at[i] \in Nat /\ w[i] \in Nat /\ at[j] \in Nat /\ w[j] \in Nat
    BY <1>2
  <2> QED BY <2>2, <2>3 DEF Extent
<1>8. Cardinality(Covered(at, w, S)) = Weigh(w, S)
  <2>1. \A i \in S : w[i] \in Nat /\ at[i] \in Nat
    BY <1>2
  <2> QED BY <1>3, <1>7, <2>1, CoveredSize
<1>9. Covered(at, w, S) = 0..(arg.plen - 1)
  <2>1. ASSUME NEW b \in Covered(at, w, S)
        PROVE  b \in 0..(arg.plen - 1)
    <3>1. PICK i \in S : b \in Extent(at[i], w[i])
      BY DEF Covered
    <3>2. at[i] \in Nat /\ w[i] \in Nat /\ at[i] + w[i] <= arg.plen
      BY <1>2
    <3> QED BY <1>1, <3>1, <3>2 DEF Extent
  <2>2. ASSUME NEW b \in 0..(arg.plen - 1)
        PROVE  b \in Covered(at, w, S)
    <3>1. Reaches(arg.plen, arg.ihl, Size)
      BY <1>1, PiecesReach
    <3>2. PICK i \in S : /\ Piece(arg.plen, arg.ihl, Size, i).from <= b
                         /\ b < Piece(arg.plen, arg.ihl, Size, i).from
                                + Piece(arg.plen, arg.ihl, Size, i).plen
      BY <3>1, <1>5 DEF Reaches, Count
    <3>3. at[i] \in Nat /\ w[i] \in Nat /\ at[i] <= b /\ b < at[i] + w[i] /\ b \in Nat
      BY <1>2, <3>2
    <3> QED BY <3>3 DEF Covered, Extent
  <2> QED BY <2>1, <2>2
<1>10. Cardinality(0..(arg.plen - 1)) = arg.plen
  BY <1>1, CountFromZero
<1> QED BY <1>4, <1>8, <1>9, <1>10 DEF S

LEMMA ForwardedFromInvariant == DeliveryInv => DatagramIsForwarded
<1> SUFFICES ASSUME DeliveryInv, pc = "done", Reassembled!Proper
             PROVE  /\ MapThenSumSet(LAMBDA i : out[i].plen, 1..Len(out)) = ByteCount(Frags)
                    /\ \A f \in Frags : \A b \in Bytes :
                         Carries(f, b) => /\ payload[b] = 1
                                          /\ \E i \in 1..Len(out) : Carries(out[i], b)
  BY DEF DatagramIsForwarded, Frags
<1>1. /\ step = "done" /\ fqueue \in Calls /\ Reassembled!Ready(fqueue)
      /\ DOMAIN payload = Targets /\ IInv /\ arg.plen = U16(fqueue.len)
  BY DEF DeliveryInv, AssemblyInv
<1>2. fqueue.len = ByteCount(Frags) /\ fqueue.len \in Nat /\ fqueue.len <= 65535
  BY <1>1, QueueTypes, MaxLenAssumption DEF Reassembled!Ready
<1>3. arg.plen = fqueue.len
  BY <1>1, <1>2, Modulus
<1>4. MapThenSumSet(LAMBDA i : out[i].plen, 1..Len(out)) = ByteCount(Frags)
  BY <1>1, <1>2, <1>3, PiecesAddUp
<1>5. /\ arg \in Inputs /\ Size >= 8 /\ Size \in Nat /\ Size % 8 = 0 /\ Len(out) = Count
      /\ Count \in Nat
  <2>1. arg \in Inputs /\ Size >= 8 /\ index = Count + 1 /\ Len(out) = index - 1
    BY <1>1 DEF IInv
  <2> QED BY <2>1, Sizes
<1>6. ASSUME NEW f \in Frags, NEW b \in Bytes, Carries(f, b)
      PROVE  payload[b] = 1 /\ \E i \in 1..Len(out) : Carries(out[i], b)
  <2>1. b \in Nat /\ b < fqueue.len
    <3>1. f.off \in Nat /\ f.plen \in Nat /\ f.off * 8 + f.plen <= fqueue.len
      BY <1>1, QueueTypes DEF Reassembled!Proper, Frags
    <3> QED BY <1>2, <1>6, <3>1, BytesAssumption DEF Carries
  <2>2. payload[b] = 1
    <3>1. b \in DOMAIN payload
      BY <1>1, <2>1 DEF Targets
    <3> QED BY <1>1, <3>1, OnceFromInvariant
          DEF DeliveryInv, EveryByteOnce, Reassembled!EveryByteOnce
  <2>3. Reaches(arg.plen, arg.ihl, Size)
    BY <1>2, <1>3, <1>5, PiecesReach
  <2>4. PICK i \in 1..Count : /\ Piece(arg.plen, arg.ihl, Size, i).from <= b
                              /\ b < Piece(arg.plen, arg.ihl, Size, i).from
                                     + Piece(arg.plen, arg.ihl, Size, i).plen
    BY <1>2, <1>3, <2>1, <2>3 DEF Reaches, Count
  <2>5. out[i] = Piece(arg.plen, arg.ihl, Size, i) /\ out[i].off * 8 = out[i].from
    BY <1>1, <1>5, PiecesAreExact, PieceOfArgument
  <2>6. Carries(out[i], b)
    BY <2>4, <2>5 DEF Carries
  <2> QED BY <1>5, <2>2, <2>6
<1> QED BY <1>4, <1>6

\* What came in goes out: the pieces carry each byte of the fragments to where it was, and
\* no more bytes than those, for every queue, header and mtu.
THEOREM Forwards == DeliverySpec => []DatagramIsForwarded
BY DeliveryInvariance, ForwardedFromInvariant, PTL
=============================================================================

--------------------------- MODULE CaptureProofs ---------------------------
(***************************************************************************)
(* Theorems about Capture, for any number of runs and of packets of any    *)
(* sizes.  The inductive invariant IInv says which packets the file begins *)
(* with at each step (Laid), and that the first run writes at its end.     *)
(***************************************************************************)
EXTENDS Capture, ArithmeticProofs

Blocks ==
  {PcapHdr} \cup {RecHdr(n) : n \in Sizes}
    \cup [kind : {"data"}, run : Nat, of : Nat, block : Nat]

\* Only a record has a length, which is that of a packet.
LEMMA RecordIs ==
  ASSUME NEW x \in Blocks, x.kind = "record"
  PROVE  x.incl_len \in Sizes /\ x.incl_len \in Nat \ {0}
<1>1. x # PcapHdr
  BY DEF PcapHdr
<1>2. x \notin [kind : {"data"}, run : Nat, of : Nat, block : Nat]
  OBVIOUS
<1>3. PICK n \in Sizes : x = RecHdr(n)
  BY <1>1, <1>2 DEF Blocks
<1> QED BY <1>3, SizesAssumption DEF RecHdr
-----------------------------------------------------------------------------
(***************************************************************************)
(* Reading a file.                                                         *)
(***************************************************************************)
\* The packets from block p of the file f on, if R has those of later blocks.
ReadAt(R, f, p) ==
  IF p > Len(f) THEN <<>>
  ELSE IF f[p].kind # "record" \/ p + f[p].incl_len > Len(f) THEN <<>>
  ELSE <<SubSeq(f, p + 1, p + f[p].incl_len)>> \o R[p + f[p].incl_len + 1]

\* R has the packets from each block on, of those from lo to the end.
Reads(R, f, lo) == R = [p \in lo..Len(f) + 1 |-> ReadAt(R, f, p)]

\* The last j + 1 places of f can be read from.
Readable(f, j) ==
  \E R : Reads(R, f, Len(f) + 1 - j)

\* A file can be read from any block on.
LEMMA ReadsExist ==
  ASSUME NEW f \in Seq(Blocks), NEW n \in 0..Len(f)
  PROVE  Readable(f, n)
<1> DEFINE Able == {j \in Nat : j <= Len(f) => Readable(f, j)}
<1>1. 0 \in Able
  <2> DEFINE R == [p \in Len(f) + 1 .. Len(f) + 1 |-> <<>>]
  <2>1. Reads(R, f, Len(f) + 1 - 0)
    BY DEF Reads, ReadAt
  <2> QED BY <2>1 DEF Readable
<1>2. ASSUME NEW j \in Able
      PROVE  j + 1 \in Able
  <2> SUFFICES ASSUME j + 1 <= Len(f)
               PROVE  Readable(f, j + 1)
    OBVIOUS
  <2>1. PICK lo \in 1..Len(f) : lo = Len(f) - j /\ lo + 1 = Len(f) + 1 - j /\ lo = Len(f) + 1 - (j + 1)
    OBVIOUS
  <2>2. PICK R : Reads(R, f, lo + 1)
    BY <2>1 DEF Readable
  <2> DEFINE G == [p \in lo..Len(f) + 1 |-> IF p = lo THEN ReadAt(R, f, lo) ELSE R[p]]
  <2>3. \A p \in lo + 1 .. Len(f) + 1 : G[p] = R[p]
    OBVIOUS
  <2> HIDE DEF G
  <2>4. ASSUME NEW p \in lo..Len(f) + 1
        PROVE  ReadAt(G, f, p) = ReadAt(R, f, p)
    <3>1. CASE p > Len(f) \/ f[p].kind # "record" \/ p + f[p].incl_len > Len(f)
      BY <3>1 DEF ReadAt
    <3>2. CASE ~(p > Len(f) \/ f[p].kind # "record" \/ p + f[p].incl_len > Len(f))
      <4>1. f[p] \in Blocks /\ f[p].kind = "record"
        BY <2>1, <3>2
      <4>2. PICK m \in Nat \ {0} : m = f[p].incl_len
        BY <4>1, RecordIs
      <4>3. p + m + 1 \in lo + 1 .. Len(f) + 1
        <5>1. p + m <= Len(f) /\ Len(f) \in Nat
          BY <3>2, <4>2
        <5>2. lo \in Nat /\ p \in Nat /\ lo <= p
          BY <2>1
        <5>3. m \in Nat /\ m >= 1
          BY <4>2
        <5> QED BY <5>1, <5>2, <5>3
      <4>4. G[p + m + 1] = R[p + m + 1]
        BY <2>3, <4>3
      <4> QED BY <3>2, <4>2, <4>4 DEF ReadAt
    <3> QED BY <3>1, <3>2
  <2>5. \A p \in lo..Len(f) + 1 : G[p] = ReadAt(G, f, p)
    <3> SUFFICES ASSUME NEW p \in lo..Len(f) + 1
                 PROVE  G[p] = ReadAt(G, f, p)
      OBVIOUS
    <3>1. CASE p = lo
      BY <2>4, <3>1 DEF G
    <3>2. CASE p # lo
      <4>1. p \in lo + 1 .. Len(f) + 1
        BY <2>1, <3>2
      <4>2. R[p] = ReadAt(R, f, p)
        BY <2>2, <4>1 DEF Reads
      <4> QED BY <2>3, <2>4, <4>1, <4>2
    <3> QED BY <3>1, <3>2
  <2>6. G = [p \in lo..Len(f) + 1 |-> ReadAt(G, f, p)]
    <3>1. G = [p \in lo..Len(f) + 1 |-> G[p]]
      BY DEF G
    <3> QED BY <2>5, <3>1
  <2>7. Reads(G, f, lo)
    BY <2>6 DEF Reads
  <2> QED BY <2>1, <2>7 DEF Readable
<1>3. Able \in SUBSET Nat
  OBVIOUS
<1> HIDE DEF Able
<1>4. Able = Nat
  BY <1>1, <1>2, <1>3, EveryNatural
<1> QED BY <1>4 DEF Able

\* What is read are sequences of packets.
LEMMA ReadsPack ==
  ASSUME NEW f \in Seq(Blocks), NEW R, Reads(R, f, 1), NEW q \in 1..Len(f) + 1
  PROVE  R[q] \in Seq(Seq(Blocks))
<1> DEFINE Packed == {j \in Nat : \A p \in 1..Len(f) + 1 : p >= Len(f) + 1 - j => R[p] \in Seq(Seq(Blocks))}
<1>1. 0 \in Packed
  BY DEF Reads, ReadAt
<1>2. ASSUME NEW j \in Packed
      PROVE  j + 1 \in Packed
  <2> SUFFICES ASSUME NEW p \in 1..Len(f) + 1, p = Len(f) + 1 - (j + 1)
               PROVE  R[p] \in Seq(Seq(Blocks))
    OBVIOUS
  <2>1. R[p] = ReadAt(R, f, p)
    BY DEF Reads
  <2>2. CASE p > Len(f) \/ f[p].kind # "record" \/ p + f[p].incl_len > Len(f)
    BY <2>1, <2>2 DEF ReadAt
  <2>3. CASE ~(p > Len(f) \/ f[p].kind # "record" \/ p + f[p].incl_len > Len(f))
    <3>1. f[p] \in Blocks /\ f[p].kind = "record"
      BY <2>3
    <3>2. PICK m \in Nat \ {0} : m = f[p].incl_len
      BY <3>1, RecordIs
    <3>3. p + m + 1 \in 1..Len(f) + 1 /\ p + m + 1 >= Len(f) + 1 - j
          /\ p + 1 \in 1..Len(f) + 1 /\ p + m \in 0..Len(f)
      <4>1. Len(f) \in Nat /\ p \in Nat /\ p >= 1 /\ p + m <= Len(f) /\ m >= 1
        BY SMTT(30), <2>3, <3>2
      <4> QED BY <4>1
    <3>4. R[p + m + 1] \in Seq(Seq(Blocks))
      BY <3>3
    <3>5. SubSeq(f, p + 1, p + m) \in Seq(Blocks)
      BY <3>3
    <3>6. R[p] = <<SubSeq(f, p + 1, p + m)>> \o R[p + m + 1]
      BY <2>1, <2>3, <3>2 DEF ReadAt
    <3> QED BY <3>4, <3>5, <3>6
  <2> QED BY <2>2, <2>3
<1>3. Packed \in SUBSET Nat
  OBVIOUS
<1> HIDE DEF Packed
<1>4. Packed = Nat
  BY <1>1, <1>2, <1>3, EveryNatural
<1>5. Len(f) \in Packed /\ q >= Len(f) + 1 - Len(f)
  BY <1>4
<1> QED BY <1>5 DEF Packed

\* What a reader of the file f finds.
Reading(f) ==
  LET From[p \in 1..Len(f) + 1] ==
        IF p > Len(f) THEN <<>>
        ELSE IF f[p].kind # "record" \/ p + f[p].incl_len > Len(f) THEN <<>>
        ELSE <<SubSeq(f, p + 1, p + f[p].incl_len)>> \o From[p + f[p].incl_len + 1]
  IN IF f = <<>> THEN <<>> ELSE From[2]

\* It is what is read from the second block on.
LEMMA ReadingIs ==
  ASSUME NEW f \in Seq(Blocks), f # <<>>
  PROVE  \E R : Reads(R, f, 1) /\ Reading(f) = R[2]
<1> DEFINE R == CHOOSE R : R = [p \in 1..Len(f) + 1 |->
                  IF p > Len(f) THEN <<>>
                  ELSE IF f[p].kind # "record" \/ p + f[p].incl_len > Len(f) THEN <<>>
                  ELSE <<SubSeq(f, p + 1, p + f[p].incl_len)>> \o R[p + f[p].incl_len + 1]]
<1>1. Reading(f) = R[2]
  BY DEF Reading
<1>2. Reads(R, f, 1)
  <2>1. Readable(f, Len(f)) /\ Len(f) + 1 - Len(f) = 1
    BY ReadsExist
  <2>2. PICK G : Reads(G, f, 1)
    BY <2>1 DEF Readable
  <2> QED BY Zenon, <2>2 DEF Reads, ReadAt
<1> QED BY Zenon, <1>1, <1>2
-----------------------------------------------------------------------------
(***************************************************************************)
(* Packets in a file.                                                      *)
(***************************************************************************)
\* The blocks of the i-th packet of run r, which has n.
Data(r, i, n) == [b \in 1..n |-> [kind |-> "data", run |-> r, of |-> i, block |-> b]]

\* The first k packets of run r, of the sizes a, are in the file f: the record of the
\* i-th one is block F[i].
Lays(f, a, r, k, F) ==
  /\ F \in [1..k + 1 -> Nat] /\ F[1] = 2 /\ F[k + 1] <= Len(f) + 1
  /\ \A i \in 1..k + 1 : F[i] \in 2..F[k + 1]
  /\ \A i \in 1..k : /\ F[i + 1] = F[i] + a[i] + 1
                     /\ f[F[i]] = RecHdr(a[i])
                     /\ SubSeq(f, F[i] + 1, F[i] + a[i]) = Data(r, i, a[i])

\* The i-th packet of them, of m blocks, has its record at block p.
Lies(f, r, k, F, i, p, m) ==
  /\ p \in Nat /\ p >= 2 /\ F[i + 1] = p + m + 1
  /\ F[i + 1] \in Nat /\ F[i + 1] <= F[k + 1] /\ F[k + 1] \in Nat /\ F[k + 1] <= Len(f) + 1
  /\ f[p] = RecHdr(m) /\ SubSeq(f, p + 1, p + m) = Data(r, i, m)

\* Each of them does.
LEMMA RecordLies ==
  ASSUME NEW f, NEW a, NEW r, NEW k \in Nat, NEW F, Lays(f, a, r, k, F), NEW i \in 1..k
  PROVE  Lies(f, r, k, F, i, F[i], a[i])
<1>1. i \in 1..k + 1 /\ i + 1 \in 1..k + 1 /\ k + 1 \in 1..k + 1
  OBVIOUS
<1>2. F[i] \in 2..F[k + 1] /\ F[i + 1] \in 2..F[k + 1] /\ F[k + 1] \in Nat
  BY <1>1 DEF Lays
<1>3. F[k + 1] <= Len(f) + 1
  BY DEF Lays
<1>4. /\ F[i + 1] = F[i] + a[i] + 1
      /\ f[F[i]] = RecHdr(a[i]) /\ SubSeq(f, F[i] + 1, F[i] + a[i]) = Data(r, i, a[i])
  BY DEF Lays
<1> QED BY <1>2, <1>3, <1>4 DEF Lies

\* They are, in the first n blocks of f.
Laid(f, a, r, k, n) == \E F : Lays(f, a, r, k, F) /\ F[k + 1] = n + 1

\* The packets s are the first k of run r, and then as many as there are in rest.
Begins(s, a, r, k, rest) ==
  Len(s) = k + Len(rest) /\ \A i \in 1..k : s[i] = Data(r, i, a[i])

\* The i-th of them is read at its record.
LEMMA PacketIsRead ==
  ASSUME NEW f \in Seq(Blocks), NEW R, Reads(R, f, 1), NEW a \in Seq(Sizes), NEW k \in 0..Len(a),
         NEW r, NEW F, Lays(f, a, r, k, F), NEW i \in 1..k
  PROVE  R[F[i]] = <<Data(r, i, a[i])>> \o R[F[i + 1]]
<1>1. PICK p \in 2..Len(f) + 1, m \in Nat \ {0} : p = F[i] /\ m = a[i]
  <2>1. i \in 1..k + 1 /\ i \in 1..Len(a)
    OBVIOUS
  <2>2. F[i] \in 2..Len(f) + 1
    <3>1. k \in Nat /\ Len(f) \in Nat
      OBVIOUS
    <3>2. Lies(f, r, k, F, i, F[i], a[i])
      BY <3>1, RecordLies
    <3>3. F[i] >= 2 /\ F[i] \in Nat /\ F[i] <= Len(f) + 1
      <4>1. F[k + 1] \in Nat /\ F[k + 1] <= Len(f) + 1 /\ F[i + 1] \in Nat /\ F[i + 1] <= F[k + 1]
        BY <3>2 DEF Lies
      <4>2. i \in 1..k + 1
        BY <3>1
      <4>3. F[i] \in 2..F[k + 1]
        BY <4>2 DEF Lays
      <4> QED BY <3>1, <4>1, <4>3
    <3> QED BY <3>1, <3>3
  <2>3. a[i] \in Sizes
    BY <2>1
  <2> QED BY <2>2, <2>3, SizesAssumption
<1>2. /\ F[i + 1] = p + m + 1 /\ f[p] = RecHdr(m) /\ SubSeq(f, p + 1, p + m) = Data(r, i, m)
      /\ p + m + 1 <= Len(f) + 1
  <2>1. k \in Nat /\ Len(f) \in Nat
    OBVIOUS
  <2>2. Lies(f, r, k, F, i, p, m)
    BY <1>1, <2>1, RecordLies
  <2> QED BY SMTT(30), <2>1, <2>2 DEF Lies
<1>3. f[p].kind = "record" /\ f[p].incl_len = m
  BY <1>2 DEF RecHdr
<1>4. p \in 1..Len(f) + 1 /\ ~(p > Len(f)) /\ ~(p + m > Len(f))
  BY <1>2
<1>5. R[p] = <<SubSeq(f, p + 1, p + m)>> \o R[p + m + 1]
  <2>1. R[p] = ReadAt(R, f, p)
    BY <1>4 DEF Reads
  <2> QED BY <1>3, <1>4, <2>1 DEF ReadAt
<1> QED BY <1>1, <1>2, <1>5

\* From the i-th record on are the packets i to k, and then those of block F[k + 1] on.
Follow(R, F, a, r, k, i) ==
  /\ Len(R[F[i]]) = k + 1 - i + Len(R[F[k + 1]])
  /\ \A q \in i..k : R[F[i]][q - i + 1] = Data(r, q, a[q])

\* A record comes before the next ones.
LEMMA RecordFollows ==
  ASSUME NEW f \in Seq(Blocks), NEW R, Reads(R, f, 1), NEW a \in Seq(Sizes), NEW k \in 0..Len(a),
         NEW r, NEW F, Lays(f, a, r, k, F), NEW i \in 1..k, Follow(R, F, a, r, k, i + 1)
  PROVE  Follow(R, F, a, r, k, i)
<1>0. k \in Nat /\ i \in Nat /\ 1 <= i /\ i <= k
  OBVIOUS
<1>1. R[F[i + 1]] \in Seq(Seq(Blocks)) /\ R[F[k + 1]] \in Seq(Seq(Blocks))
  <2>1. i + 1 \in 1..k + 1 /\ k + 1 \in 1..k + 1
    BY <1>0
  <2>2. F[i + 1] \in 1..Len(f) + 1 /\ F[k + 1] \in 1..Len(f) + 1
    BY <2>1 DEF Lays
  <2> QED BY <2>2, ReadsPack
<1>2. PICK s \in Seq(Seq(Blocks)), rest \in Nat : s = R[F[i + 1]] /\ rest = Len(R[F[k + 1]])
  BY <1>1
<1>3. PICK d : d = Data(r, i, a[i])
  OBVIOUS
<1>4. R[F[i]] = <<d>> \o s
  BY <1>2, <1>3, PacketIsRead
<1>5. /\ Len(s) = k + 1 - (i + 1) + rest
      /\ \A q \in i + 1 .. k : s[q - (i + 1) + 1] = Data(r, q, a[q])
  BY <1>2 DEF Follow
<1>6. /\ Len(<<d>> \o s) = 1 + Len(s) /\ (<<d>> \o s)[1] = d
      /\ \A q \in 1..Len(s) : (<<d>> \o s)[q + 1] = s[q]
  OBVIOUS
<1>7. Len(R[F[i]]) = k + 1 - i + rest
  <2>1. PICK l \in Nat : l = Len(s)
    OBVIOUS
  <2>2. Len(R[F[i]]) = 1 + l
    BY <1>4, <1>6, <2>1
  <2>3. l = k + 1 - (i + 1) + rest
    BY <1>5, <2>1
  <2> HIDE <1>5, <1>6
  <2> QED BY <1>0, <2>2, <2>3
<1>8. ASSUME NEW q \in i..k
      PROVE  R[F[i]][q - i + 1] = Data(r, q, a[q])
  <2>1. CASE q = i
    <3>1. q - i + 1 = 1
      BY <1>0, <2>1
    <3> QED BY <1>3, <1>4, <1>6, <2>1, <3>1
  <2>2. CASE q # i
    <3>1. q \in i + 1 .. k /\ q - (i + 1) + 1 \in 1..Len(s) /\ q - i + 1 = q - (i + 1) + 1 + 1
      BY <1>0, <1>5, <2>2
    <3> QED BY <1>4, <1>5, <1>6, <3>1
  <2> QED BY <2>1, <2>2
<1> QED BY <1>2, <1>7, <1>8 DEF Follow

\* They are read in order.
LEMMA PacketsAreRead ==
  ASSUME NEW f \in Seq(Blocks), NEW R, Reads(R, f, 1), NEW a \in Seq(Sizes), NEW k \in 0..Len(a),
         NEW r, NEW F, Lays(f, a, r, k, F)
  PROVE  Begins(R[2], a, r, k, R[F[k + 1]])
<1> DEFINE Done == {j \in Nat : j <= k => Follow(R, F, a, r, k, k + 1 - j)}
<1>0. k \in Nat
  OBVIOUS
<1>1. 0 \in Done
  <2>1. F[k + 1] \in 1..Len(f) + 1
    BY <1>0 DEF Lays
  <2>2. Len(R[F[k + 1]]) \in Nat
    BY <2>1, ReadsPack
  <2>3. k + 1 - 0 = k + 1 /\ k + 1 - (k + 1) = 0
    BY <1>0
  <2>4. Follow(R, F, a, r, k, k + 1)
    <3>1. PICK rest \in Nat : rest = Len(R[F[k + 1]])
      BY <2>2
    <3>2. rest = k + 1 - (k + 1) + rest /\ k + 1 .. k = {}
      BY <1>0
    <3> QED BY <3>1, <3>2 DEF Follow
  <2> QED BY <2>3, <2>4
<1>2. ASSUME NEW j \in Done
      PROVE  j + 1 \in Done
  <2>1. ASSUME j + 1 <= k
        PROVE  Follow(R, F, a, r, k, k + 1 - (j + 1))
    <3>1. Follow(R, F, a, r, k, k + 1 - j)
      BY <1>0, <2>1
    <3>2. PICK i \in 1..k : i = k + 1 - (j + 1) /\ i + 1 = k + 1 - j
      BY <1>0, <2>1
    <3> QED BY <3>1, <3>2, RecordFollows
  <2> QED BY <2>1
<1>3. Done \in SUBSET Nat
  OBVIOUS
<1> HIDE DEF Done
<1>4. Done = Nat
  BY <1>1, <1>2, <1>3, EveryNatural
<1>5. Follow(R, F, a, r, k, 1)
  <2>1. k \in Done /\ k + 1 - k = 1 /\ k <= k
    BY <1>0, <1>4
  <2>2. Follow(R, F, a, r, k, k + 1 - k)
    BY <2>1 DEF Done
  <2> QED BY <2>1, <2>2
<1>6. F[1] = 2 /\ k + 1 - 1 = k /\ \A q \in 1..k : q - 1 + 1 = q
  BY <1>0 DEF Lays
<1> QED BY <1>5, <1>6 DEF Begins, Follow

\* The file f ends with block n, or with the record of a packet behind it.
Ends(f, n) == n = Len(f) \/ (n + 1 = Len(f) /\ f[n + 1].kind = "record")

\* The first k packets that are read are those of run r, and the only ones if the file
\* ends there.
ReadsFirst(s, f, a, r, k, n) ==
  s \in Seq(Seq(Blocks)) /\ \E rest \in Seq(Seq(Blocks)) :
    Begins(s, a, r, k, rest) /\ (Ends(f, n) => rest = <<>>)

\* Packets that are laid out in a file are the first that are read.
LEMMA SomeAreRead ==
  ASSUME NEW f \in Seq(Blocks), f # <<>>, NEW a \in Seq(Sizes), NEW k \in 0..Len(a),
         NEW r, NEW n, Laid(f, a, r, k, n)
  PROVE  ReadsFirst(Reading(f), f, a, r, k, n)
<1>1. PICK R : Reads(R, f, 1) /\ Reading(f) = R[2]
  BY ReadingIs
<1>2. PICK F : Lays(f, a, r, k, F) /\ F[k + 1] = n + 1
  BY DEF Laid
<1>3. Begins(R[2], a, r, k, R[F[k + 1]])
  BY <1>1, <1>2, PacketsAreRead
<1>4. 2 \in 1..Len(f) + 1 /\ F[k + 1] \in 1..Len(f) + 1 /\ k + 1 \in 1..k + 1
  BY <1>2 DEF Lays
<1>5. R[2] \in Seq(Seq(Blocks)) /\ R[F[k + 1]] \in Seq(Seq(Blocks))
  BY <1>1, <1>4, ReadsPack
<1>6. R[F[k + 1]] = ReadAt(R, f, F[k + 1])
  BY <1>1, <1>4 DEF Reads
<1>7. ASSUME n = Len(f)
      PROVE  R[F[k + 1]] = <<>>
  BY <1>2, <1>6, <1>7 DEF ReadAt
<1>8. ASSUME n + 1 = Len(f), f[n + 1].kind = "record"
      PROVE  R[F[k + 1]] = <<>>
  <2>1. f[n + 1] \in Blocks
    BY <1>8
  <2>2. PICK m \in Nat \ {0} : m = f[n + 1].incl_len
    BY <1>8, <2>1, RecordIs
  <2>3. n + 1 + m > Len(f) /\ F[k + 1] = n + 1
    BY <1>2, <1>8, <2>2
  <2> QED BY <1>6, <2>2, <2>3 DEF ReadAt
<1>9. Ends(f, n) => R[F[k + 1]] = <<>>
  BY <1>7, <1>8 DEF Ends
<1> QED BY <1>1, <1>3, <1>5, <1>9 DEF ReadsFirst

\* They are behind the file header.
LEMMA LaidIsThere ==
  ASSUME NEW f \in Seq(Blocks), NEW a, NEW k \in Nat, NEW r, NEW n \in Nat, Laid(f, a, r, k, n)
  PROVE  n >= 1 /\ n <= Len(f) /\ f # <<>>
<1>1. PICK F : Lays(f, a, r, k, F) /\ F[k + 1] = n + 1
  BY DEF Laid
<1>2. k + 1 \in 1..k + 1
  OBVIOUS
<1>3. F[k + 1] \in 2..F[k + 1] /\ F[k + 1] <= Len(f) + 1
  BY <1>1, <1>2 DEF Lays
<1>4. n >= 1 /\ n <= Len(f)
  BY <1>1, <1>3
<1> QED BY <1>4

\* A file that has been opened and given its header has no packet yet.
LEMMA NoneLaid ==
  ASSUME NEW f \in Seq(Blocks), f # <<>>, NEW a, NEW r
  PROVE  Laid(f, a, r, 0, 1)
<1> DEFINE F == [i \in 1..1 |-> 2]
<1>1. Lays(f, a, r, 0, F) /\ F[0 + 1] = 1 + 1
  BY DEF Lays
<1> QED BY <1>1 DEF Laid

\* What is laid out in a file stays when it is written to behind that.
LEMMA LaidStays ==
  ASSUME NEW f \in Seq(Blocks), NEW g \in Seq(Blocks), NEW a, NEW c, NEW k \in Nat, NEW r,
         NEW n \in Nat, Laid(f, a, r, k, n), n <= Len(g), \A i \in 1..n : g[i] = f[i],
         \A i \in 1..k : c[i] = a[i] /\ a[i] \in Nat
  PROVE  Laid(g, c, r, k, n)
<1>1. PICK F : Lays(f, a, r, k, F) /\ F[k + 1] = n + 1
  BY DEF Laid
<1>2. F[k + 1] <= Len(f) + 1 /\ Len(f) \in Nat
  BY <1>1 DEF Lays
<1>3. ASSUME NEW i \in 1..k
      PROVE  /\ F[i + 1] = F[i] + c[i] + 1
             /\ g[F[i]] = RecHdr(c[i])
             /\ SubSeq(g, F[i] + 1, F[i] + c[i]) = Data(r, i, c[i])
  <2>1. PICK p \in Nat, m \in Nat : p = F[i] /\ m = a[i] /\ m = c[i]
    <3>1. Lies(f, r, k, F, i, F[i], a[i])
      BY <1>1, RecordLies
    <3> QED BY <3>1 DEF Lies
  <2>2. /\ p >= 2 /\ F[i + 1] = p + m + 1 /\ F[i + 1] <= F[k + 1]
        /\ f[p] = RecHdr(m) /\ SubSeq(f, p + 1, p + m) = Data(r, i, m)
    <3>1. Lies(f, r, k, F, i, p, m)
      BY <1>1, <2>1, RecordLies
    <3> QED BY <3>1 DEF Lies
  <2>3. p + m <= n
    BY <1>1, <2>2
  <2>4. f[p] = RecHdr(m) /\ SubSeq(f, p + 1, p + m) = Data(r, i, m)
    BY <2>2
  <2>5. g[p] = f[p]
    BY <2>2, <2>3
  <2>6. SubSeq(g, p + 1, p + m) = SubSeq(f, p + 1, p + m)
    <3>1. ASSUME NEW j \in 1..m
          PROVE  g[j + (p + 1) - 1] = f[j + (p + 1) - 1]
      <4>1. j + (p + 1) - 1 \in 1..n
        BY <2>2, <2>3
      <4> QED BY <4>1
    <3>2. 1 + (p + m) - (p + 1) = m
      OBVIOUS
    <3> QED BY SMTT(30), <3>1, <3>2
  <2> QED BY <2>1, <2>2, <2>4, <2>5, <2>6
<1>4. Lays(g, c, r, k, F)
  BY SMTT(30), <1>1, <1>2, <1>3 DEF Lays
<1> QED BY <1>1, <1>4 DEF Laid

\* One more packet is laid out when its record and its blocks are.
LEMMA OneMoreLaid ==
  ASSUME NEW f \in Seq(Blocks), NEW a \in Seq(Sizes), NEW k \in Nat, k + 1 <= Len(a), NEW r,
         NEW n \in Nat, Laid(f, a, r, k, n), NEW m \in Nat, m = a[k + 1], n + 1 + m <= Len(f),
         f[n + 1] = RecHdr(m), SubSeq(f, n + 2, n + 1 + m) = Data(r, k + 1, m)
  PROVE  Laid(f, a, r, k + 1, n + 1 + m)
<1>1. PICK F : Lays(f, a, r, k, F) /\ F[k + 1] = n + 1
  BY DEF Laid
<1>2. n >= 1
  <2>1. k + 1 \in 1..k + 1
    OBVIOUS
  <2>2. F[k + 1] \in 2..F[k + 1]
    BY <1>1, <2>1 DEF Lays
  <2> QED BY <1>1, <2>2
<1> DEFINE G == [i \in 1..k + 1 + 1 |-> IF i = k + 1 + 1 THEN n + 1 + m + 1 ELSE F[i]]
<1>3. G[k + 1 + 1] = n + 1 + m + 1 /\ \A i \in 1..k + 1 : G[i] = F[i] /\ F[i] \in Nat
  BY SMTT(30), <1>1 DEF Lays
<1>4. G \in [1..k + 1 + 1 -> Nat] /\ G[1] = 2
  BY SMTT(30), <1>1, <1>2, <1>3 DEF Lays
<1> HIDE DEF G
<1>5. \A i \in 1..k + 1 + 1 : G[i] \in 2..G[k + 1 + 1]
  <2> SUFFICES ASSUME NEW i \in 1..k + 1 + 1
               PROVE  G[i] \in 2..G[k + 1 + 1]
    OBVIOUS
  <2>0. PICK e \in Nat : e = n + 1 + m + 1 /\ e >= 2 /\ e > n + 1
    BY <1>2
  <2>1. CASE i = k + 1 + 1
    <3>1. e \in 2..e
      BY <2>0
    <3> QED BY <1>3, <2>0, <2>1, <3>1
  <2>2. CASE i # k + 1 + 1
    <3>1. i \in 1..k + 1
      BY <2>2
    <3>2. F[i] \in 2..n + 1
      BY <1>1, <3>1 DEF Lays
    <3>3. F[i] \in 2..e
      BY <2>0, <3>2
    <3> QED BY <1>3, <2>0, <3>1, <3>3
  <2> QED BY <2>1, <2>2
<1>6. ASSUME NEW i \in 1..k + 1
      PROVE  /\ G[i + 1] = G[i] + a[i] + 1
             /\ f[G[i]] = RecHdr(a[i])
             /\ SubSeq(f, G[i] + 1, G[i] + a[i]) = Data(r, i, a[i])
  <2>1. CASE i = k + 1
    <3>1. G[i] = n + 1 /\ G[i + 1] = n + 1 + m + 1 /\ n + 1 + 1 = n + 2
      BY <1>1, <1>2, <1>3, <2>1
    <3> QED BY <2>1, <3>1
  <2>2. CASE i # k + 1
    <3>1. i \in 1..k /\ i + 1 \in 1..k + 1
      BY <2>2
    <3>2. G[i] = F[i] /\ G[i + 1] = F[i + 1]
      BY <1>3, <3>1
    <3> QED BY <1>1, <3>1, <3>2 DEF Lays
  <2> QED BY <2>1, <2>2
<1>7. G[k + 1 + 1] <= Len(f) + 1
  BY SMTT(30), <1>2, <1>3
<1>8. Lays(f, a, r, k + 1, G)
  BY <1>4, <1>5, <1>6, <1>7 DEF Lays
<1> QED BY <1>3, <1>8 DEF Laid
-----------------------------------------------------------------------------
(***************************************************************************)
(* Writing a file.                                                         *)
(***************************************************************************)
\* The file g after the blocks c have been written to f at n.
Overlaid(g, f, n, c) ==
  /\ g \in Seq(Blocks) /\ Len(g) >= Len(f) /\ Len(g) >= n + Len(c)
  /\ n = Len(f) => Len(g) = n + Len(c)
  /\ \A i \in 1..n : g[i] = f[i]
  /\ \A i \in 1..Len(c) : g[n + i] = c[i]

\* What a write without an error leaves.
LEMMA WriteOverlays ==
  ASSUME file \in Seq(Blocks), writefd \in 0..Len(file), NEW c \in Seq(Blocks)
  PROVE  Overlaid(Overwritten(c), file, writefd, c)
<1> DEFINE end == IF writefd + Len(c) > Len(file) THEN writefd + Len(c) ELSE Len(file)
           g == Overwritten(c)
<1>1. /\ end \in Nat /\ end >= Len(file) /\ end >= writefd + Len(c) /\ Len(c) \in Nat
      /\ writefd = Len(file) => end = writefd + Len(c)
  OBVIOUS
<1>2. g = [i \in 1..end |-> IF i \in writefd + 1 .. writefd + Len(c) THEN c[i - writefd] ELSE file[i]]
  BY DEF Overwritten
<1> HIDE DEF end, g
<1>3. ASSUME NEW i \in 1..end
      PROVE  (IF i \in writefd + 1 .. writefd + Len(c) THEN c[i - writefd] ELSE file[i]) \in Blocks
  <2>1. CASE i \in writefd + 1 .. writefd + Len(c)
    <3>1. i - writefd \in 1..Len(c)
      BY <1>1, <2>1
    <3> QED BY <2>1, <3>1
  <2>2. CASE i \notin writefd + 1 .. writefd + Len(c)
    <3>1. i \in 1..Len(file)
      BY <1>1, <2>2 DEF end
    <3> QED BY <2>2, <3>1
  <2> QED BY <2>1, <2>2
<1>4. g \in Seq(Blocks) /\ Len(g) = end
  BY <1>1, <1>2, <1>3
<1>5. \A i \in 1..writefd : g[i] = file[i]
  BY <1>1, <1>2
<1>6. \A i \in 1..Len(c) : g[writefd + i] = c[i]
  <2> SUFFICES ASSUME NEW i \in 1..Len(c)
               PROVE  g[writefd + i] = c[i]
    OBVIOUS
  <2>1. writefd + i \in 1..end /\ writefd + i \in writefd + 1 .. writefd + Len(c) /\ writefd + i - writefd = i
    BY <1>1
  <2> QED BY <1>2, <2>1
<1> QED BY <1>1, <1>4, <1>5, <1>6 DEF Overlaid, g

\* A write, whatever comes of it, leaves blocks in the file and a position in it.
LEMMA WriteIsSound ==
  ASSUME file \in Seq(Blocks), writefd \in -1..Len(file), flawed \in BOOLEAN,
         NEW c \in Seq(Blocks), c # <<>>, NEW ret, Write(c, ret)
  PROVE  /\ file' \in Seq(Blocks) /\ flawed' \in BOOLEAN
         /\ Advanced(ret) \in -1..Len(file')
         /\ flawed' \/ /\ ~flawed /\ ret = Len(c) /\ writefd \in 0..Len(file)
                       /\ Advanced(ret) = writefd + Len(c)
                       /\ Overlaid(file', file, writefd, c)
<1>1. /\ ret \in -1..Len(c) /\ (writefd = -1 => ret = -1)
      /\ flawed' = (flawed \/ ret # Len(c))
      /\ Len(c) \in Nat \ {0}
  BY DEF Write
<1>2. flawed' \in BOOLEAN
  BY <1>1
<1>3. CASE ret = -1
  <2>1. file' = file /\ Advanced(ret) = writefd
    BY <1>3 DEF Write, Advanced
  <2>2. flawed'
    <3>1. ret # Len(c)
      BY <1>1, <1>3
    <3>2. flawed' = (flawed \/ ret # Len(c))
      BY <1>1
    <3> QED BY <3>1, <3>2
  <2> QED BY <2>1, <2>2, <1>2
<1>4. CASE ret # -1
  <2>1. writefd \in 0..Len(file) /\ ret \in 0..Len(c)
    BY <1>1, <1>4
  <2>2. file' = Overwritten(SubSeq(c, 1, ret))
    BY <1>4 DEF Write
  <2>3. PICK d \in Seq(Blocks) : d = SubSeq(c, 1, ret) /\ Len(d) = ret /\ (ret = Len(c) => d = c)
    <3>1. SubSeq(c, 1, ret) \in Seq(Blocks) /\ Len(SubSeq(c, 1, ret)) = ret
      BY <1>1, <2>1
    <3>2. SubSeq(c, 1, Len(c)) = c
      BY <1>1
    <3> QED BY <3>1, <3>2
  <2>4. Overlaid(file', file, writefd, d)
    BY <2>1, <2>2, <2>3, WriteOverlays
  <2>5. Advanced(ret) = writefd + ret
    BY <1>4 DEF Advanced
  <2>6. file' \in Seq(Blocks) /\ Len(file') >= writefd + ret
    BY <2>3, <2>4 DEF Overlaid
  <2>7. Advanced(ret) \in -1..Len(file')
    BY <2>1, <2>5, <2>6
  <2>8. CASE ret = Len(c) /\ ~flawed
    BY <1>2, <2>1, <2>3, <2>4, <2>5, <2>6, <2>7, <2>8
  <2>9. CASE ret # Len(c) \/ flawed
    <3>1. flawed'
      BY <1>1, <2>9
    <3> QED BY <1>2, <2>6, <2>7, <3>1
  <2> QED BY <2>8, <2>9
<1> QED BY <1>3, <1>4
-----------------------------------------------------------------------------
(***************************************************************************)
(* The invariant.                                                          *)
(***************************************************************************)
\* What each variable is, and that there is a file when it is written to.
Sound ==
  /\ status \in {"options", "input", "output", "header", "idle", "record", "packet", "ended"}
  /\ file \in Seq(Blocks) /\ writefd \in -1..Len(file)
  /\ run \in Nat \ {0} /\ asked \in Seq(Sizes) /\ flawed \in BOOLEAN
  /\ status \in {"record", "packet"} => asked # <<>>
  /\ status \in {"options", "input", "output", "ended"} => writefd = -1

\* What is in front of the position of an open file.
Going ==
  ~flawed /\ writefd # -1 =>
    /\ status = "header" => writefd = 0 /\ asked = <<>>
    /\ status = "idle" => Laid(file, asked, run, Len(asked), writefd)
    /\ status = "record" => Laid(file, asked, run, Len(asked) - 1, writefd)
    /\ status = "packet" => /\ writefd > 0 /\ file[writefd] = RecHdr(asked[Len(asked)])
                            /\ Laid(file, asked, run, Len(asked) - 1, writefd - 1)

\* A process that could not open the file has failed before its first packet is written.
Shut ==
  ~flawed /\ writefd = -1 =>
    /\ status \in {"options", "input", "output", "idle"} => asked = <<>>
    /\ status = "record" => Len(asked) = 1
    /\ status \notin {"header", "packet"}

\* The file f is what a run that was asked for the packets a has left: all of them or
\* all but the last, and perhaps the record of that.
Left(f, a, r) ==
  \/ f = <<>> /\ Len(a) <= 1
  \/ \E k \in {Len(a), Len(a) - 1} : k \in Nat /\ Laid(f, a, r, k, Len(f))
  \/ /\ f # <<>> /\ a # <<>> /\ f[Len(f)] = RecHdr(a[Len(a)])
     /\ Laid(f, a, r, Len(a) - 1, Len(f) - 1)

\* The first run writes at the end of the file.
First ==
  run = 1 /\ ~flawed =>
    /\ writefd # -1 => writefd = Len(file)
    /\ writefd = -1 /\ status # "ended" => file = <<>>
    /\ status = "ended" => Left(file, asked, run)

IInv == Sound /\ Going /\ Shut /\ First

\* Whenever the first run is killed, that is what it leaves.
LEMMA FirstLeaves ==
  ASSUME IInv, run = 1, ~flawed
  PROVE  Left(file, asked, run)
<1>1. Len(asked) \in Nat
  BY DEF IInv, Sound
<1>2. CASE status = "ended"
  BY <1>2 DEF IInv, First
<1>3. CASE status # "ended" /\ writefd = -1
  <2>1. file = <<>>
    BY <1>3 DEF IInv, First
  <2>2. asked = <<>> \/ Len(asked) = 1
    BY <1>3 DEF IInv, Shut, Sound
  <2>3. Len(asked) <= 1
    <3>1. Len(<<>>) = 0
      OBVIOUS
    <3>2. Len(asked) = 0 \/ Len(asked) = 1
      BY <2>2, <3>1
    <3>3. PICK m \in Nat : m = Len(asked)
      BY <1>1
    <3>4. m = 0 \/ m = 1
      BY <3>2, <3>3
    <3> QED BY <3>3, <3>4
  <2> QED BY <2>1, <2>3 DEF Left
<1>4. CASE status # "ended" /\ writefd # -1
  <2>1. writefd = Len(file) /\ Sound /\ Going
    BY <1>4 DEF IInv, First
  <2>2. CASE status = "header"
    <3>1. file = <<>> /\ Len(asked) <= 1
      BY <1>4, <2>1, <2>2 DEF Going, Sound
    <3> QED BY <3>1 DEF Left
  <2>3. CASE status = "idle"
    <3>1. Laid(file, asked, run, Len(asked), Len(file))
      BY <1>4, <2>1, <2>3 DEF Going
    <3> QED BY <1>1, <3>1 DEF Left
  <2>4. CASE status = "record"
    <3>1. Laid(file, asked, run, Len(asked) - 1, Len(file))
      BY <1>4, <2>1, <2>4 DEF Going
    <3>2. Len(asked) - 1 \in Nat
      BY <2>1, <2>4 DEF Sound
    <3> QED BY <3>1, <3>2 DEF Left
  <2>5. CASE status = "packet"
    <3>1. /\ file # <<>> /\ asked # <<>> /\ file[Len(file)] = RecHdr(asked[Len(asked)])
          /\ Laid(file, asked, run, Len(asked) - 1, Len(file) - 1)
      BY <1>4, <2>1, <2>5 DEF Going, Sound
    <3> QED BY <3>1 DEF Left
  <2> QED BY <1>4, <2>1, <2>2, <2>3, <2>4, <2>5 DEF Sound
<1> QED BY <1>2, <1>3, <1>4

\* The process begins with an empty file that is not open.
LEMMA InitHolds == Init => IInv
<1> SUFFICES ASSUME Init
             PROVE  IInv
  OBVIOUS
<1>1. /\ status = "options" /\ writefd = -1 /\ file = <<>> /\ asked = <<>>
      /\ run = 1 /\ flawed = FALSE
  BY DEF Init
<1>2. <<>> \in Seq(Blocks) /\ <<>> \in Seq(Sizes) /\ Len(<<>>) = 0
  OBVIOUS
<1>3. Sound
  <2>1. writefd \in -1..Len(file) /\ 1 \in Nat \ {0} /\ FALSE \in BOOLEAN
    BY <1>1, <1>2
  <2> QED BY <1>1, <1>2, <2>1 DEF Sound
<1>4. Going /\ Shut /\ First
  BY <1>1 DEF Going, Shut, First
<1> QED BY <1>3, <1>4 DEF IInv

\* Nothing is known, and nothing need be, of a run in which a write fell short.
LEMMA FlawedIsEasy ==
  ASSUME Sound, flawed
  PROVE  IInv
BY DEF IInv, Going, Shut, First

\* The process is set up.
LEMMA OpeningKeeps ==
  ASSUME IInv, ParseOptions \/ OpenInput \/ OpenOutput
  PROVE  IInv'
<1>1. Sound /\ Shut /\ First /\ writefd = -1 /\ status \in {"options", "input", "output"}
  BY DEF IInv, Sound, ParseOptions, OpenInput, OpenOutput
<1>2. UNCHANGED <<file, run, asked, flawed>>
  BY DEF ParseOptions, OpenInput, OpenOutput
<1>3. \/ writefd' = -1 /\ status' \in {"input", "output", "idle", "ended"}
      \/ writefd' = 0 /\ status' = "header"
  BY <1>1 DEF ParseOptions, OpenInput, OpenOutput, End, Opened
<1>4. Sound'
  <2>1. file \in Seq(Blocks) /\ 0 \in -1..Len(file) /\ -1 \in -1..Len(file)
    BY <1>1 DEF Sound
  <2> QED BY <1>1, <1>2, <1>3, <2>1 DEF Sound
<1>5. Going' /\ Shut'
  BY <1>1, <1>2, <1>3 DEF Going, Shut
<1>6. First'
  <2> SUFFICES ASSUME run = 1, ~flawed
               PROVE  First'
    BY <1>2 DEF First
  <2>1. file = <<>> /\ Len(file) = 0 /\ Left(file, asked, run)
    BY <1>1, FirstLeaves DEF First
  <2> QED BY <1>2, <1>3, <2>1 DEF First
<1> QED BY <1>4, <1>5, <1>6 DEF IInv

\* The process is killed, or killed itself.
LEMMA EndKeeps ==
  ASSUME IInv, Kill
  PROVE  IInv'
<1>1. Sound /\ status' = "ended" /\ writefd' = -1 /\ UNCHANGED <<file, run, asked, flawed>>
  BY DEF IInv, Kill, End
<1>2. Sound'
  <2>1. -1 \in -1..Len(file)
    BY <1>1 DEF Sound
  <2> QED BY <1>1, <2>1 DEF Sound
<1>3. Going' /\ Shut'
  BY <1>1 DEF Going, Shut
<1>4. First'
  <2> SUFFICES ASSUME run = 1, ~flawed
               PROVE  First'
    BY <1>1 DEF First
  <2>1. Left(file, asked, run)
    BY FirstLeaves
  <2> QED BY <1>1, <2>1 DEF First
<1> QED BY <1>2, <1>3, <1>4 DEF IInv

\* The process is started again.
LEMMA RerunKeeps ==
  ASSUME IInv, Rerun
  PROVE  IInv'
<1>1. /\ Sound /\ writefd = -1 /\ status' = "options" /\ run' = run + 1 /\ asked' = <<>>
      /\ flawed' = FALSE /\ UNCHANGED <<writefd, file>> /\ run \in Nat \ {0}
  BY DEF IInv, Rerun, Sound
<1>2. run' \in Nat \ {0} /\ run' # 1 /\ <<>> \in Seq(Sizes)
  BY <1>1
<1>3. Sound'
  BY <1>1, <1>2 DEF Sound
<1>4. Going' /\ Shut' /\ First'
  BY <1>1, <1>2 DEF Going, Shut, First
<1> QED BY <1>3, <1>4 DEF IInv

\* The file header is written.
LEMMA HeaderKeeps ==
  ASSUME IInv, WriteFileHeader
  PROVE  IInv'
<1> DEFINE c == <<PcapHdr>>
<1>1. /\ Sound /\ Going /\ Shut /\ First /\ status = "header" /\ status' = "idle"
      /\ run' = run /\ asked' = asked
  BY DEF IInv, WriteFileHeader
<1>2. PICK ret : Write(c, ret) /\ writefd' = Advanced(ret)
  BY DEF WriteFileHeader
<1>3. c \in Seq(Blocks) /\ c # <<>> /\ Len(c) = 1 /\ c[1] = PcapHdr
  BY DEF Blocks
<1> HIDE DEF c
<1>4. /\ file' \in Seq(Blocks) /\ flawed' \in BOOLEAN /\ Advanced(ret) \in -1..Len(file')
      /\ flawed' \/ /\ ~flawed /\ ret = Len(c) /\ writefd \in 0..Len(file)
                    /\ Advanced(ret) = writefd + Len(c)
                    /\ Overlaid(file', file, writefd, c)
  BY <1>1, <1>2, <1>3, WriteIsSound DEF Sound
<1>5. Sound'
  BY <1>1, <1>2, <1>4 DEF Sound
<1>6. CASE flawed'
  BY <1>5, <1>6 DEF IInv, Going, Shut, First
<1>7. CASE ~flawed'
  <2>1. /\ ~flawed /\ writefd \in 0..Len(file) /\ writefd' = writefd + 1
        /\ Overlaid(file', file, writefd, c)
    BY <1>2, <1>3, <1>4, <1>7
  <2>2. writefd = 0 /\ asked = <<>>
    BY <1>1, <2>1 DEF Going
  <2>3. writefd' = 1 /\ Len(file') >= 1 /\ file' # <<>>
    BY <1>3, <1>4, <2>1, <2>2 DEF Overlaid
  <2>4. Laid(file', asked', run', 0, 1)
    BY <1>4, <2>3, NoneLaid
  <2>5. Len(asked') = 0
    BY <1>1, <2>2
  <2>6. Going' /\ Shut'
    BY <1>1, <2>3, <2>4, <2>5 DEF Going, Shut
  <2>7. First'
    <3>1. run = 1 => Len(file') = 1
      BY <1>1, <1>3, <2>1, <2>2 DEF First, Overlaid
    <3> QED BY <1>1, <2>3, <3>1 DEF First
  <2> QED BY <1>5, <2>6, <2>7 DEF IInv
<1> QED BY <1>6, <1>7

\* The maintainer hands a packet over.
LEMMA HandPacketKeeps ==
  ASSUME IInv, HandPacket
  PROVE  IInv'
<1>1. PICK n \in Sizes : asked' = Append(asked, n)
  BY DEF HandPacket
<1>2. /\ Sound /\ Going /\ Shut /\ First /\ status = "idle" /\ status' = "record"
      /\ UNCHANGED <<writefd, file, run, flawed>>
  BY DEF IInv, HandPacket
<1>3. /\ asked \in Seq(Sizes) /\ asked' \in Seq(Sizes) /\ asked' # <<>>
      /\ Len(asked') = Len(asked) + 1 /\ Len(asked) \in Nat /\ Len(asked') - 1 = Len(asked)
      /\ \A i \in 1..Len(asked) : asked'[i] = asked[i] /\ asked[i] \in Sizes
  BY <1>1, <1>2 DEF Sound
<1>4. Sound'
  BY <1>2, <1>3 DEF Sound
<1>5. Shut'
  <2>1. asked = <<>> => Len(asked') = 1
    BY <1>3
  <2> QED BY <1>2, <2>1 DEF Shut
<1>6. Going'
  <2> SUFFICES ASSUME ~flawed, writefd # -1
               PROVE  Laid(file, asked', run, Len(asked), writefd)
    BY <1>2, <1>3 DEF Going
  <2>1. Laid(file, asked, run, Len(asked), writefd)
    BY <1>2 DEF Going
  <2>2. file \in Seq(Blocks) /\ writefd \in Nat /\ writefd <= Len(file)
    BY <1>2 DEF Sound
  <2>3. \A i \in 1..Len(asked) : asked'[i] = asked[i] /\ asked[i] \in Nat
    BY <1>3, SizesAssumption
  <2> QED BY <1>3, <2>1, <2>2, <2>3, LaidStays
<1>7. First'
  BY <1>2 DEF First
<1> QED BY <1>4, <1>5, <1>6, <1>7 DEF IInv

\* The record of the packet is written.
LEMMA RecordKeeps ==
  ASSUME IInv, WriteRecHdr
  PROVE  IInv'
<1>1. /\ Sound /\ Going /\ Shut /\ First /\ status = "record" /\ status' = "packet"
      /\ run' = run /\ asked' = asked
  BY DEF IInv, WriteRecHdr
<1>2. /\ Len(asked) \in Nat \ {0} /\ asked \in Seq(Sizes) /\ asked[Len(asked)] \in Sizes
      /\ \A i \in 1..Len(asked) - 1 : asked[i] \in Sizes
  BY <1>1 DEF Sound
<1>3. PICK c : c = <<RecHdr(asked[Len(asked)])>>
  OBVIOUS
<1>4. PICK ret : Write(c, ret) /\ writefd' = Advanced(ret)
  BY <1>3 DEF WriteRecHdr, Size
<1>5. c \in Seq(Blocks) /\ c # <<>> /\ Len(c) = 1 /\ c[1] = RecHdr(asked[Len(asked)])
  <2>1. RecHdr(asked[Len(asked)]) \in Blocks
    BY <1>2 DEF Blocks
  <2> HIDE DEF Blocks
  <2> QED BY <1>3, <2>1
<1>6. /\ file' \in Seq(Blocks) /\ flawed' \in BOOLEAN /\ Advanced(ret) \in -1..Len(file')
      /\ flawed' \/ /\ ~flawed /\ ret = Len(c) /\ writefd \in 0..Len(file)
                    /\ Advanced(ret) = writefd + Len(c)
                    /\ Overlaid(file', file, writefd, c)
  BY <1>1, <1>4, <1>5, WriteIsSound DEF Sound
<1>7. Sound'
  BY <1>1, <1>4, <1>6 DEF Sound
<1>8. CASE flawed'
  BY <1>7, <1>8 DEF IInv, Going, Shut, First
<1>9. CASE ~flawed'
  <2>1. /\ ~flawed /\ writefd \in 0..Len(file) /\ writefd' = writefd + 1 /\ writefd # -1
        /\ Overlaid(file', file, writefd, c)
    BY <1>4, <1>5, <1>6, <1>9
  <2>2. /\ writefd' > 0 /\ writefd' - 1 = writefd /\ writefd' # -1
        /\ file'[writefd'] = RecHdr(asked[Len(asked)])
        /\ writefd <= Len(file') /\ \A i \in 1..writefd : file'[i] = file[i]
    <3>1. 1 \in 1..Len(c)
      BY <1>5
    <3>2. file'[writefd + 1] = c[1] /\ Len(file') >= writefd + 1 /\ Len(file') \in Nat
      BY <1>5, <1>6, <2>1, <3>1 DEF Overlaid
    <3>3. \A i \in 1..writefd : file'[i] = file[i]
      BY <2>1 DEF Overlaid
    <3> QED BY <1>5, <2>1, <3>2, <3>3
  <2>3. Laid(file', asked, run, Len(asked) - 1, writefd)
    <3>1. Laid(file, asked, run, Len(asked) - 1, writefd)
      BY <1>1, <2>1 DEF Going
    <3>2. /\ file \in Seq(Blocks) /\ file' \in Seq(Blocks) /\ writefd \in Nat /\ Len(asked) - 1 \in Nat
          /\ \A i \in 1..Len(asked) - 1 : asked[i] = asked[i] /\ asked[i] \in Nat
      <4>1. writefd \in Nat /\ Len(asked) - 1 \in Nat /\ file \in Seq(Blocks)
        BY <1>1, <1>2, <2>1 DEF Sound
      <4> QED BY <1>2, <1>6, <4>1, SizesAssumption
    <3> QED BY <2>2, <3>1, <3>2, LaidStays
  <2>4. Going' /\ Shut'
    BY <1>1, <2>2, <2>3 DEF Going, Shut
  <2>5. First'
    <3>1. run = 1 => Len(file') = writefd'
      BY <1>1, <1>5, <2>1 DEF First, Overlaid
    <3> QED BY <1>1, <2>2, <3>1 DEF First
  <2> QED BY <1>7, <2>4, <2>5 DEF IInv
<1> QED BY <1>8, <1>9

\* The packet is written, or the process exits.
LEMMA PacketKeeps ==
  ASSUME IInv, WritePacket
  PROVE  IInv'
<1>1. /\ Sound /\ Going /\ Shut /\ First /\ status = "packet"
      /\ run' = run /\ asked' = asked /\ run \in Nat
  BY DEF IInv, WritePacket, Sound
<1>2. PICK k \in Nat : k + 1 = Len(asked) /\ k = Len(asked) - 1
  BY <1>1 DEF Sound
<1>3. PICK m \in Nat \ {0} : m = asked[k + 1] /\ m = asked[Len(asked)]
  <2>1. asked[k + 1] \in Sizes
    BY <1>1, <1>2 DEF Sound
  <2> QED BY <1>2, <2>1, SizesAssumption
<1>4. PICK c : c = Data(run, k + 1, m)
  OBVIOUS
<1>5. PICK ret : /\ Write(c, ret)
                 /\ IF Fails(ret) THEN End ELSE status' = "idle" /\ writefd' = Advanced(ret)
  BY <1>2, <1>3, <1>4 DEF WritePacket, Size, Packet, Data
<1>6. c \in Seq(Blocks) /\ c # <<>> /\ Len(c) = m
  <2>1. ASSUME NEW b \in 1..m
        PROVE  [kind |-> "data", run |-> run, of |-> k + 1, block |-> b] \in Blocks
    BY <1>1 DEF Blocks
  <2> HIDE DEF Blocks
  <2>2. c \in Seq(Blocks) /\ Len(c) = m
    BY <1>4, <2>1 DEF Data
  <2> QED BY <2>2
<1>7. /\ file' \in Seq(Blocks) /\ flawed' \in BOOLEAN /\ Advanced(ret) \in -1..Len(file')
      /\ flawed' \/ /\ ~flawed /\ ret = Len(c) /\ writefd \in 0..Len(file)
                    /\ Advanced(ret) = writefd + Len(c)
                    /\ Overlaid(file', file, writefd, c)
  BY <1>1, <1>5, <1>6, WriteIsSound DEF Sound
<1>8. Sound'
  <2>1. \/ status' = "ended" /\ writefd' = -1
        \/ status' = "idle" /\ writefd' = Advanced(ret)
    BY <1>5 DEF End
  <2>2. -1 \in -1..Len(file')
    BY <1>7
  <2> QED BY <1>1, <1>7, <2>1, <2>2 DEF Sound
<1>9. CASE flawed'
  BY <1>8, <1>9 DEF IInv, Going, Shut, First
<1>10. CASE ~flawed'
  <2>1. PICK n \in Nat : n + 1 = writefd /\ n = writefd - 1
    BY <1>1, <1>7, <1>10 DEF Going, Sound
  <2>2. /\ ~flawed /\ writefd' = n + 1 + m /\ writefd # -1 /\ status' = "idle"
        /\ Overlaid(file', file, n + 1, c)
    <3>1. ~Fails(ret)
      BY <1>6, <1>7, <1>10 DEF Fails
    <3> QED BY <1>5, <1>6, <1>7, <1>10, <2>1, <3>1
  <2>3. Laid(file, asked, run, k, n) /\ file[n + 1] = RecHdr(m)
    BY <1>1, <1>2, <1>3, <2>1, <2>2 DEF Going
  <2>4. /\ n <= Len(file') /\ n + 1 + m <= Len(file')
        /\ \A i \in 1..n + 1 : file'[i] = file[i]
        /\ \A i \in 1..m : file'[n + 1 + i] = c[i]
    BY <1>6, <1>7, <2>2 DEF Overlaid
  <2>5. Laid(file', asked, run, k, n)
    <3>1. /\ file \in Seq(Blocks) /\ \A i \in 1..n : file'[i] = file[i]
          /\ \A i \in 1..k : asked[i] = asked[i] /\ asked[i] \in Nat
      <4>1. \A i \in 1..k : asked[i] \in Sizes
        BY <1>1, <1>2 DEF Sound
      <4>2. file \in Seq(Blocks) /\ \A i \in 1..n : file'[i] = file[i]
        BY <1>1, <2>4 DEF Sound
      <4>3. \A i \in 1..k : asked[i] \in Nat
        BY <4>1, SizesAssumption
      <4> QED BY <4>2, <4>3
    <3> QED BY <1>7, <2>3, <2>4, <3>1, LaidStays
  <2>6. file'[n + 1] = RecHdr(m) /\ SubSeq(file', n + 2, n + 1 + m) = Data(run, k + 1, m)
    <3>1. SubSeq(file', n + 2, n + 1 + m) = c
      <4>1. 1 + (n + 1 + m) - (n + 2) = m
        OBVIOUS
      <4>2. \A i \in 1..m : i + (n + 2) - 1 = n + 1 + i
        OBVIOUS
      <4>3. c = [i \in 1..m |-> c[i]]
        BY <1>4 DEF Data
      <4>4. SubSeq(file', n + 2, n + 1 + m) = [i \in 1..m |-> file'[n + 1 + i]]
        BY <4>1, <4>2
      <4> QED BY <2>4, <4>3, <4>4
    <3> QED BY <1>4, <2>3, <2>4, <3>1
  <2>7. Laid(file', asked, run, k + 1, n + 1 + m)
    <3>1. asked \in Seq(Sizes) /\ k + 1 <= Len(asked)
      BY <1>1, <1>2 DEF Sound
    <3> QED BY <1>3, <1>7, <2>4, <2>5, <2>6, <3>1, OneMoreLaid
  <2>8. Going' /\ Shut'
    BY <1>1, <1>2, <2>2, <2>7 DEF Going, Shut
  <2>9. First'
    <3>1. run = 1 => Len(file') = n + 1 + m
      BY <1>1, <1>6, <2>1, <2>2 DEF First, Overlaid
    <3> QED BY <1>1, <2>2, <3>1 DEF First
  <2> QED BY <1>8, <2>8, <2>9 DEF IInv
<1> QED BY <1>9, <1>10

\* Where nothing changes nothing is lost.
LEMMA StutterKeeps ==
  ASSUME IInv, UNCHANGED vars
  PROVE  IInv'
<1>1. UNCHANGED <<status, writefd, file, run, asked, flawed>>
  BY DEF vars
<1>2. Sound' /\ Shut'
  BY <1>1 DEF IInv, Sound, Shut
<1>3. Going'
  BY <1>1 DEF IInv, Going
<1>4. First'
  BY <1>1 DEF IInv, First
<1> QED BY <1>2, <1>3, <1>4 DEF IInv

\* The file of the process begins with what the invariant says, whatever the steps.
THEOREM Invariance == Spec => []IInv
<1>1. IInv /\ [Next]_vars => IInv'
  BY OpeningKeeps, HeaderKeeps, HandPacketKeeps, RecordKeeps, PacketKeeps, EndKeeps, RerunKeeps,
     StutterKeeps DEF Next, Process
<1> QED BY InitHolds, <1>1, PTL DEF Spec
-----------------------------------------------------------------------------
\* A sequence whose elements are the first of another is a prefix of it.
LEMMA PrefixIs ==
  ASSUME NEW S, NEW T, NEW s \in Seq(S), NEW t \in Seq(T), Len(s) <= Len(t),
         \A i \in 1..Len(s) : s[i] = t[i]
  PROVE  IsPrefix(s, t)
<1>1. SubSeq(s, 1, Len(s)) = [i \in 1..Len(s) |-> s[i]]
  OBVIOUS
<1>2. SubSeq(t, 1, Len(s)) = [i \in 1..Len(s) |-> t[i]]
  OBVIOUS
<1> QED BY <1>1, <1>2 DEF IsPrefix

\* What the packets that were asked for are.
LEMMA AskedAre ==
  ASSUME asked \in Seq(Sizes)
  PROVE  /\ \E S : AskedPackets \in Seq(S)
         /\ Len(AskedPackets) = Len(asked)
         /\ \A i \in 1..Len(asked) : AskedPackets[i] = Data(run, i, asked[i])
<1>1. AskedPackets = [i \in 1..Len(asked) |-> Data(run, i, asked[i])]
  BY DEF AskedPackets, Packet, Data
<1> DEFINE S == {Data(run, i, asked[i]) : i \in 1..Len(asked)}
<1>2. AskedPackets \in Seq(S) /\ Len(AskedPackets) = Len(asked)
  BY <1>1
<1>3. \A i \in 1..Len(asked) : AskedPackets[i] = Data(run, i, asked[i])
  BY <1>1
<1> HIDE DEF S
<1>4. \E T : AskedPackets \in Seq(T)
  BY <1>2
<1> QED BY <1>2, <1>3, <1>4

\* The packets read from the file begin with the first k asked for, and are those if
\* nothing else is read.
LEMMA ReadIsAsked ==
  ASSUME IInv, NEW k \in Nat, k <= Len(asked), NEW n \in Nat, Laid(file, asked, run, k, n), file # <<>>
  PROVE  /\ k = Len(asked) => IsPrefix(AskedPackets, Recovered)
         /\ Ends(file, n) => IsPrefix(Recovered, AskedPackets) /\ Len(Recovered) = k
<1>1. file \in Seq(Blocks) /\ asked \in Seq(Sizes) /\ Len(asked) \in Nat
  BY DEF IInv, Sound
<1>2. Recovered = Reading(file)
  BY DEF Recovered, Reading
<1>3. PICK rest \in Seq(Seq(Blocks)) :
        /\ Begins(Recovered, asked, run, k, rest) /\ Recovered \in Seq(Seq(Blocks))
        /\ Ends(file, n) => rest = <<>>
  <2>1. ReadsFirst(Reading(file), file, asked, run, k, n)
    BY <1>1, SomeAreRead
  <2> QED BY <1>2, <2>1 DEF ReadsFirst
<1>4. PICK T : AskedPackets \in Seq(T)
  BY <1>1, AskedAre
<1>5. /\ Len(AskedPackets) = Len(asked)
      /\ \A i \in 1..Len(asked) : AskedPackets[i] = Data(run, i, asked[i])
  BY <1>1, AskedAre
<1>6. /\ Len(Recovered) = k + Len(rest) /\ Len(rest) \in Nat
      /\ \A i \in 1..k : Recovered[i] = Data(run, i, asked[i])
  BY <1>3 DEF Begins
<1>7. ASSUME k = Len(asked)
      PROVE  IsPrefix(AskedPackets, Recovered)
  <2>1. Len(AskedPackets) <= Len(Recovered) /\ \A i \in 1..Len(AskedPackets) : AskedPackets[i] = Recovered[i]
    BY <1>5, <1>6, <1>7
  <2> QED BY <1>3, <1>4, <2>1, PrefixIs
<1>8. ASSUME Ends(file, n)
      PROVE  IsPrefix(Recovered, AskedPackets) /\ Len(Recovered) = k
  <2>1. rest = <<>> /\ Len(<<>>) = 0
    BY <1>3, <1>8
  <2>2. Len(Recovered) = k
    BY <1>6, <2>1
  <2>3. Len(Recovered) <= Len(AskedPackets) /\ \A i \in 1..Len(Recovered) : Recovered[i] = AskedPackets[i]
    BY <1>1, <1>5, <1>6, <2>2
  <2> QED BY <1>3, <1>4, <2>2, <2>3, PrefixIs
<1> QED BY <1>7, <1>8

\* From a file the first run has left, at whatever moment it was killed, all its packets
\* are read back in order but at most the last.
THEOREM KillLosesLittle == Spec => []KillLosesOnePacket
<1>1. ASSUME IInv
      PROVE  KillLosesOnePacket
  <2> SUFFICES ASSUME run = 1, ~flawed
               PROVE  IsPrefix(Recovered, AskedPackets) /\ Len(Recovered) >= Len(asked) - 1
    BY DEF KillLosesOnePacket
  <2>1. Left(file, asked, run)
    BY <1>1, FirstLeaves
  <2>2. file \in Seq(Blocks) /\ asked \in Seq(Sizes) /\ Len(asked) \in Nat /\ Len(file) \in Nat
    BY <1>1 DEF IInv, Sound
  <2>3. CASE file = <<>>
    <3>1. Recovered = <<>> /\ Len(Recovered) = 0
      BY <2>3 DEF Recovered
    <3>2. ASSUME NEW k \in Nat, Laid(file, asked, run, k, Len(file))
          PROVE  FALSE
      BY <2>2, <2>3, <3>2, LaidIsThere
    <3>3. Len(asked) <= 1
      <4>1. ~\E k \in {Len(asked), Len(asked) - 1} : k \in Nat /\ Laid(file, asked, run, k, Len(file))
        BY <3>2
      <4> QED BY <2>1, <2>3, <4>1 DEF Left
    <3>4. PICK T : AskedPackets \in Seq(T)
      BY <2>2, AskedAre
    <3>5. Len(AskedPackets) \in Nat /\ Recovered \in Seq({})
      BY <3>1, <3>4
    <3>6. IsPrefix(Recovered, AskedPackets)
      <4>1. Len(Recovered) <= Len(AskedPackets) /\ 1..Len(Recovered) = {}
        BY <3>1, <3>5
      <4>2. \A i \in 1..Len(Recovered) : Recovered[i] = AskedPackets[i]
        BY <4>1
      <4> QED BY <3>4, <3>5, <4>1, <4>2, PrefixIs
    <3> QED BY <2>2, <3>1, <3>3, <3>6
  <2>4. CASE file # <<>>
    <3>1. CASE \E k \in {Len(asked), Len(asked) - 1} : k \in Nat /\ Laid(file, asked, run, k, Len(file))
      <4>1. PICK k \in Nat : /\ k \in {Len(asked), Len(asked) - 1}
                             /\ Laid(file, asked, run, k, Len(file))
        BY <3>1
      <4>2. k <= Len(asked) /\ k >= Len(asked) - 1
        BY <2>2, <4>1
      <4>3. IsPrefix(Recovered, AskedPackets) /\ Len(Recovered) = k
        <5>1. Ends(file, Len(file))
          BY DEF Ends
        <5> QED BY <1>1, <2>2, <2>4, <4>1, <4>2, <5>1, ReadIsAsked
      <4> QED BY <4>2, <4>3
    <3>2. CASE /\ asked # <<>> /\ file[Len(file)] = RecHdr(asked[Len(asked)])
               /\ Laid(file, asked, run, Len(asked) - 1, Len(file) - 1)
      <4>1. PICK k \in Nat, n \in Nat : /\ k = Len(asked) - 1 /\ k <= Len(asked)
                                        /\ n = Len(file) - 1 /\ n + 1 = Len(file)
        BY <2>2, <2>4, <3>2
      <4>2. Laid(file, asked, run, k, n) /\ Ends(file, n)
        BY <3>2, <4>1 DEF RecHdr, Ends
      <4>3. IsPrefix(Recovered, AskedPackets) /\ Len(Recovered) = k
        BY <1>1, <2>4, <4>1, <4>2, ReadIsAsked
      <4> QED BY <4>1, <4>3
    <3> QED BY <2>1, <2>4, <3>1, <3>2 DEF Left
  <2> QED BY <2>3, <2>4
<1> QED BY <1>1, Invariance, PTL

\* Whatever the file held before, the packets of the present run are the first that are
\* read from it, when all that it was asked to write is written.
THEOREM RerunsStartOver == Spec => []RerunStartsOver
<1>1. ASSUME IInv
      PROVE  RerunStartsOver
  <2> SUFFICES ASSUME ~flawed, status = "idle", writefd # -1
               PROVE  IsPrefix(AskedPackets, Recovered)
    BY DEF RerunStartsOver
  <2>1. PICK k \in Nat, n \in Nat : k = Len(asked) /\ n = writefd
    BY <1>1 DEF IInv, Sound
  <2>2. Laid(file, asked, run, k, n)
    BY <1>1, <2>1 DEF IInv, Going
  <2>3. file # <<>>
    BY <1>1, <2>2, LaidIsThere DEF IInv, Sound
  <2> QED BY <1>1, <2>1, <2>2, <2>3, ReadIsAsked
<1> QED BY <1>1, Invariance, PTL
=============================================================================

-------------------------- MODULE ArithmeticProofs --------------------------
(***************************************************************************)
(* What the proofs about the packets count with: the 16-bit arithmetic of  *)
(* Cutting, for every payload and every mtu that does not divide by zero;  *)
(* and sums over finite sets, with what they say about the bytes that the  *)
(* members of a set cover.                                                 *)
(***************************************************************************)
EXTENDS Cutting, FiniteSetsExt, FiniteSetTheorems, TLAPS

\* What integer division means.
LEMMA Division ==
  ASSUME NEW a \in Nat, NEW b \in Nat, b > 0
  PROVE  a \div b \in Nat /\ (a \div b) * b <= a /\ a < (a \div b) * b + b
  BY SMTT(10)

\* A product grows with its first factor.
LEMMA Growing ==
  ASSUME NEW i \in Nat, NEW j \in Nat, i <= j, NEW b \in Nat
  PROVE  i * b \in Nat /\ i * b <= j * b
  BY SMTT(10)

\* An unsigned short holds what fits in it.
LEMMA Modulus ==
  ASSUME NEW a \in Nat
  PROVE  U16(a) \in Nat /\ U16(a) <= 65535 /\ (a <= 65535 => U16(a) = a)
  BY SMTT(10) DEF U16

\* FRAGMENT_SIZE of any mtu is a multiple of 8 and an unsigned short; from 28 on it is
\* not 0 and leaves room for a plain header.
LEMMA SizeIsMultiple ==
  ASSUME NEW mtu \in Nat, mtu <= 65535
  PROVE  /\ FragmentSize(mtu) \in Nat
         /\ FragmentSize(mtu) <= 65528
         /\ FragmentSize(mtu) % 8 = 0
         /\ mtu >= 20 => FragmentSize(mtu) <= mtu - 20
         /\ mtu >= 28 => FragmentSize(mtu) >= 8
<1> DEFINE a == U16(mtu + 65536 - HeaderMin)
<1>1. a \in Nat /\ a <= 65535
  BY Modulus DEF HeaderMin
<1>2. mtu >= 20 => a = mtu - 20
  BY SMTT(10) DEF U16, HeaderMin
<1> HIDE DEF a
<1> DEFINE q == a \div 8
<1>3. q \in Nat /\ q * 8 <= a /\ a < q * 8 + 8
  BY <1>1, Division
<1>4. FragmentSize(mtu) = q * 8
  BY DEF FragmentSize, a
<1> HIDE DEF q
<1>5. (q * 8) % 8 = 0
  BY <1>3, SMTT(10)
<1> QED BY <1>1, <1>2, <1>3, <1>4, <1>5, SMTT(10)

\* fragment_count does not wrap, and there is one piece more than whole sizes in the
\* payload.
LEMMA CountIsExact ==
  ASSUME NEW plen \in Nat, plen <= 65535, NEW size \in Nat, size >= 8
  PROVE  /\ FragmentCount(plen, size) \in Nat
         /\ FragmentCount(plen, size) >= 1 /\ FragmentCount(plen, size) <= 8192
         /\ (FragmentCount(plen, size) - 1) * size <= plen
         /\ plen < (FragmentCount(plen, size) - 1) * size + size
<1> DEFINE q == plen \div size
<1>1. q \in Nat /\ q * size <= plen /\ plen < q * size + size
  BY Division
<1>2. FragmentCount(plen, size) = U16(q + 1)
  BY DEF FragmentCount
<1> HIDE DEF q
<1>3. 8 * q <= size * q
  BY <1>1, Growing
<1>4. q <= 8191
  BY <1>1, <1>3, SMTT(10)
<1>5. FragmentCount(plen, size) = q + 1
  BY <1>1, <1>2, <1>4, Modulus
<1> QED BY <1>1, <1>4, <1>5, SMTT(10)

\* Piece i is where it should be: its offset has not wrapped, each piece but the last
\* takes size bytes, the last takes the rest.
Exact(p, plen, ihl, size, i) ==
  /\ p.from = (i - 1) * size /\ p.from \in Nat
  /\ p.off \in Nat /\ p.off <= 8191 /\ p.off * 8 = p.from
  /\ p.mf = (i < FragmentCount(plen, size))
  /\ p.plen = IF i < FragmentCount(plen, size) THEN size ELSE plen - p.from
  /\ p.plen \in Nat /\ p.plen <= size /\ p.from + p.plen <= plen
  /\ p.tot = Total(p.plen, ihl)

\* The unsigned short arithmetic of ipv4-fragment.c:57-75 cuts exact pieces, for every
\* payload and every size that is a multiple of 8.
LEMMA PieceIsExact ==
  ASSUME NEW plen \in Nat, plen <= 65535, NEW ihl,
         NEW size \in Nat, size >= 8, size % 8 = 0,
         NEW i \in Nat, i >= 1, i <= FragmentCount(plen, size)
  PROVE  Exact(Piece(plen, ihl, size, i), plen, ihl, size, i)
<1> DEFINE n == FragmentCount(plen, size)
           from == (i - 1) * size
           p == Piece(plen, ihl, size, i)
<1>1. n \in Nat /\ n <= 8192 /\ (n - 1) * size <= plen /\ plen < (n - 1) * size + size
  BY CountIsExact
<1>2. i - 1 \in Nat /\ n - 1 \in Nat /\ i - 1 <= n - 1 /\ i <= n
  BY <1>1
<1>3. from \in Nat /\ from <= (n - 1) * size
  BY <1>2, Growing
<1>4. i < n => from + size <= (n - 1) * size
  <2>1. SUFFICES ASSUME i < n PROVE from + size <= (n - 1) * size
    OBVIOUS
  <2>2. i * size <= (n - 1) * size
    BY <2>1, <1>1, <1>2, Growing
  <2>3. i * size = from + size
    BY SMTT(10)
  <2> QED BY <2>2, <2>3
<1>5. i = n => from = (n - 1) * size
  OBVIOUS
<1>6. from \div 8 \in Nat /\ (from \div 8) * 8 = from
  <2> DEFINE k == size \div 8
             h == (i - 1) * k
  <2>1. k \in Nat /\ size = k * 8
    BY SMTT(10)
  <2> HIDE DEF k
  <2>2. h \in Nat
    BY <2>1, <1>2, Growing
  <2>3. from = h * 8
    BY <2>1, <1>2, SMTT(10)
  <2> HIDE DEF h, from
  <2>4. (h * 8) \div 8 = h
    BY <2>2, SMTT(10)
  <2> QED BY <2>2, <2>3, <2>4
<1>7. Offset(size, i) = from
  <2>1. from <= 65535
    BY <1>1, <1>2, <1>3, Growing
  <2> QED BY <2>1, <1>3, Modulus DEF Offset
<1> HIDE DEF n, from
<1>8. from <= plen /\ (i < n => from + size <= plen) /\ (~(i < n) => plen < from + size)
  <2>1. (n - 1) * size \in Nat
    BY <1>2, Growing
  <2>2. ~(i < n) => i = n
    BY <1>1, <1>2
  <2> QED BY <2>1, <2>2, <1>1, <1>3, <1>4, <1>5
<1>9. U16(plen + 65536 - from) = plen - from
  BY <1>3, <1>8, SMTT(10) DEF U16
<1>10. /\ p.from = from /\ p.off = from \div 8 /\ p.mf = (i < n)
       /\ p.plen = IF i < n THEN size ELSE plen - from
       /\ p.tot = Total(p.plen, ihl)
  <2> DEFINE len == IF i < n THEN size ELSE plen - from
  <2>1. p = [off |-> from \div 8, plen |-> len, mf |-> i < n, tot |-> Total(len, ihl),
             from |-> from]
    BY <1>7, <1>9 DEF Piece, More, n
  <2> HIDE DEF p
  <2> QED BY <2>1
<1>11. p.off <= 8191
  BY <1>3, <1>6, <1>8, <1>10, SMTT(10)
<1> HIDE DEF p
<1>12. p.plen \in Nat /\ p.plen <= size /\ p.from + p.plen <= plen
  BY <1>3, <1>8, <1>10, SMTT(10)
<1> QED BY <1>3, <1>6, <1>10, <1>11, <1>12 DEF Exact, p, n, from

\* Pieces do not overlap.
LEMMA PiecesAreApart ==
  ASSUME NEW plen \in Nat, plen <= 65535, NEW ihl,
         NEW size \in Nat, size >= 8, size % 8 = 0,
         NEW i \in Nat, i >= 1, NEW j \in Nat, i < j, j <= FragmentCount(plen, size)
  PROVE  Piece(plen, ihl, size, i).from + Piece(plen, ihl, size, i).plen
           <= Piece(plen, ihl, size, j).from
<1>1. FragmentCount(plen, size) \in Nat
  BY CountIsExact
<1>2. /\ Exact(Piece(plen, ihl, size, i), plen, ihl, size, i)
      /\ Exact(Piece(plen, ihl, size, j), plen, ihl, size, j)
  BY <1>1, PieceIsExact
<1>3. i * size <= (j - 1) * size
  BY Growing
<1>4. i * size = (i - 1) * size + size
  BY SMTT(10)
<1>5. i < FragmentCount(plen, size)
  BY <1>1
<1> QED BY <1>2, <1>3, <1>4, <1>5 DEF Exact

\* Every byte of the datagram is in one of them.
Reaches(plen, ihl, size) ==
  \A b \in 0..(plen - 1) : \E i \in 1..FragmentCount(plen, size) :
    /\ Piece(plen, ihl, size, i).from <= b
    /\ b < Piece(plen, ihl, size, i).from + Piece(plen, ihl, size, i).plen

LEMMA PiecesReach ==
  ASSUME NEW plen \in Nat, plen <= 65535, NEW ihl,
         NEW size \in Nat, size >= 8, size % 8 = 0
  PROVE  Reaches(plen, ihl, size)
<1> SUFFICES ASSUME NEW b \in 0..(plen - 1)
             PROVE  \E i \in 1..FragmentCount(plen, size) :
                      /\ Piece(plen, ihl, size, i).from <= b
                      /\ b < Piece(plen, ihl, size, i).from + Piece(plen, ihl, size, i).plen
  BY DEF Reaches
<1>0. b \in Nat /\ b < plen
  OBVIOUS
<1> DEFINE n == FragmentCount(plen, size)
           k == b \div size
           i == k + 1
           p == Piece(plen, ihl, size, i)
<1>1. k \in Nat /\ k * size <= b /\ b < k * size + size
  BY <1>0, Division
<1>2. n \in Nat /\ n >= 1 /\ plen < (n - 1) * size + size
  BY CountIsExact
<1> HIDE DEF n, k
<1>3. (n - 1) * size + size = n * size
  BY <1>2, SMTT(10)
<1>4. k < n
  <2>1. SUFFICES ASSUME n <= k PROVE FALSE
    BY <1>1, <1>2
  <2>2. n * size <= k * size
    BY <2>1, <1>1, <1>2, Growing
  <2>3. n * size \in Nat /\ k * size \in Nat
    BY <1>1, <1>2, Growing
  <2> QED BY <1>0, <1>1, <1>2, <1>3, <2>2, <2>3
<1>5. i \in Nat /\ i >= 1 /\ i <= n /\ i - 1 = k
  BY <1>1, <1>2, <1>4
<1>6. Exact(p, plen, ihl, size, i)
  BY <1>5, PieceIsExact DEF n
<1>7. p.from = k * size /\ p.from \in Nat /\ p.plen = IF i < n THEN size ELSE plen - p.from
  BY <1>5, <1>6 DEF Exact, n
<1> HIDE DEF p
<1>8. p.from <= b /\ b < p.from + p.plen
  BY <1>0, <1>1, <1>7
<1>9. i \in 1..FragmentCount(plen, size)
  BY <1>2, <1>5 DEF n
<1> QED BY <1>8, <1>9 DEF p

\* The last piece, the only one without the more-fragments bit, ends the datagram.
LEMMA LastPieceEnds ==
  ASSUME NEW plen \in Nat, plen <= 65535, NEW ihl,
         NEW size \in Nat, size >= 8, size % 8 = 0
  PROVE  LET p == Piece(plen, ihl, size, FragmentCount(plen, size))
         IN  FragmentCount(plen, size) >= 1 /\ ~p.mf /\ p.from + p.plen = plen
<1> DEFINE n == FragmentCount(plen, size)
           p == Piece(plen, ihl, size, n)
<1>1. n \in Nat /\ n >= 1
  BY CountIsExact
<1>2. Exact(p, plen, ihl, size, n)
  BY <1>1, PieceIsExact
<1>3. /\ p.from \in Nat
      /\ p.plen = IF n < FragmentCount(plen, size) THEN size ELSE plen - p.from
  BY <1>2 DEF Exact
<1> HIDE DEF p
<1>4. ~(n < n)
  BY <1>1
<1>5. ~p.mf
  <2>1. More(plen, size, n) = FALSE
    BY <1>4 DEF More
  <2>2. Piece(plen, ihl, size, n).mf = More(plen, size, n)
    BY DEF Piece
  <2> QED BY <2>1, <2>2 DEF p
<1>6. p.plen = plen - p.from
  BY <1>3, <1>4
<1>7. p.from + p.plen = plen
  BY <1>3, <1>6
<1> QED BY <1>1, <1>5, <1>7 DEF p

-----------------------------------------------------------------------------
(***************************************************************************)
(* Sums.                                                                   *)
(***************************************************************************)
\* A non-empty set of naturals has a least element.
LEMMA LeastNatural ==
  ASSUME NEW T \in SUBSET Nat, T # {}
  PROVE  \E n \in T : \A m \in T : n <= m
<1>1. PICK n \in T : \A m \in T : <<m, n>> \notin OpToRel(<, Nat)
  BY Zenon, NatLessThanWellFounded, WFMin
<1>2. \A m \in T : ~(m < n)
  BY <1>1 DEF OpToRel
<1> QED BY <1>2

\* Induction, on a set of naturals.
LEMMA EveryNatural ==
  ASSUME NEW T \in SUBSET Nat, 0 \in T, \A n \in T : n + 1 \in T
  PROVE  T = Nat
<1> SUFFICES ASSUME Nat \ T # {}
             PROVE  FALSE
  OBVIOUS
<1>1. PICK n \in Nat \ T : \A m \in Nat \ T : n <= m
  BY LeastNatural
<1>2. n # 0 /\ n - 1 \in Nat
  BY <1>1
<1>3. n - 1 \in T
  BY <1>1, <1>2
<1> QED BY <1>1, <1>2, <1>3

\* A non-empty set of subsets of a finite set has a minimal element.
LEMMA MinimalSubset ==
  ASSUME NEW S, IsFiniteSet(S), NEW T \in SUBSET SUBSET S, T # {}
  PROVE  \E s \in T : \A t \in T : t \subseteq s => t = s
<1>1. T \subseteq FiniteSubsetsOf(S)
  BY FS_FiniteSubsetsOfFinite
<1>2. PICK s \in T : \A t \in T : <<t, s>> \notin StrictSubsetOrdering(S)
  BY <1>1, FS_StrictSubsetOrderingWellFounded, WFMin
<1> QED BY <1>2 DEF StrictSubsetOrdering

-----------------------------------------------------------------------------
Chosen(s) == CHOOSE x \in s : TRUE

\* g is the recursive function by which a fold sums up weights.
Sums(w, S, g) ==
  g = [s \in SUBSET S |-> IF s = {} THEN 0 ELSE w[Chosen(s)] + g[s \ {Chosen(s)}]]

LEMMA ChosenIn ==
  ASSUME NEW s, s # {}
  PROVE  Chosen(s) \in s
  BY DEF Chosen

\* Small(S, n) has the subsets of up to n elements.
Small(S, n) == {s \in SUBSET S : Cardinality(s) <= n}

\* The fold exists: it is built up by the size of the subsets.
LEMMA SumsExist ==
  ASSUME NEW S, IsFiniteSet(S), NEW w, \A x \in S : w[x] \in Nat
  PROVE  \E g : Sums(w, S, g) /\ g \in [SUBSET S -> Nat]
<1> DEFINE Up(g, n) == \A s \in Small(S, n) :
                          g[s] = IF s = {} THEN 0 ELSE w[Chosen(s)] + g[s \ {Chosen(s)}]
<1> DEFINE T == {n \in Nat : \E g \in [Small(S, n) -> Nat] : Up(g, n)}
<1>1. 0 \in T
  <2>1. \A s \in Small(S, 0) : s = {}
    BY FS_EmptySet, FS_Subset, FS_CardinalityType DEF Small
  <2> DEFINE g == [s \in Small(S, 0) |-> 0]
  <2>2. g \in [Small(S, 0) -> Nat] /\ Up(g, 0)
    BY <2>1
  <2> QED BY <2>2
<1>2. ASSUME NEW n \in T
      PROVE  n + 1 \in T
  <2>1. PICK g \in [Small(S, n) -> Nat] : Up(g, n)
    OBVIOUS
  <2> DEFINE h == [s \in Small(S, n + 1) |->
                     IF s \in Small(S, n) THEN g[s] ELSE w[Chosen(s)] + g[s \ {Chosen(s)}]]
  <2>2. ASSUME NEW s \in Small(S, n + 1), s # {}
        PROVE  s \ {Chosen(s)} \in Small(S, n) /\ Chosen(s) \in S
    <3>1. s \in SUBSET S /\ Cardinality(s) <= n + 1
      BY DEF Small
    <3>2. Chosen(s) \in s
      BY <2>2, ChosenIn
    <3>3. IsFiniteSet(s) /\ Cardinality(s) \in Nat
      BY <3>1, FS_Subset, FS_CardinalityType
    <3>4. Cardinality(s \ {Chosen(s)}) = Cardinality(s) - 1
      BY <3>2, <3>3, FS_RemoveElement
    <3>5. Cardinality(s) - 1 <= n /\ n \in Nat
      BY <3>1, <3>3
    <3> QED BY <3>1, <3>2, <3>4, <3>5 DEF Small
  <2>3. Small(S, n) \subseteq Small(S, n + 1)
    BY FS_Subset, FS_CardinalityType DEF Small
  <2>4. {} \in Small(S, n)
    BY FS_EmptySet DEF Small
  <2>5. h \in [Small(S, n + 1) -> Nat]
    <3> SUFFICES ASSUME NEW s \in Small(S, n + 1), s \notin Small(S, n)
                 PROVE  w[Chosen(s)] + g[s \ {Chosen(s)}] \in Nat
      OBVIOUS
    <3>1. s # {}
      BY <2>4
    <3>2. w[Chosen(s)] \in Nat /\ g[s \ {Chosen(s)}] \in Nat
      BY <3>1, <2>2
    <3> QED BY <3>2
  <2>6. Up(h, n + 1)
    <3> SUFFICES ASSUME NEW s \in Small(S, n + 1)
                 PROVE  h[s] = IF s = {} THEN 0 ELSE w[Chosen(s)] + h[s \ {Chosen(s)}]
      OBVIOUS
    <3>1. CASE s = {}
      BY <3>1, <2>1, <2>4, <2>3
    <3>2. CASE s # {}
      <4>1. h[s] = w[Chosen(s)] + g[s \ {Chosen(s)}]
        BY <3>2, <2>1
      <4>2. h[s \ {Chosen(s)}] = g[s \ {Chosen(s)}]
        BY <3>2, <2>2, <2>3
      <4> QED BY <3>2, <4>1, <4>2
    <3> QED BY <3>1, <3>2
  <2> HIDE DEF h
  <2>7. n + 1 \in Nat
    OBVIOUS
  <2> QED BY <2>5, <2>6, <2>7
<1> DEFINE c == Cardinality(S)
<1>3. c \in T
  <2> HIDE DEF T
  <2> T \in SUBSET Nat
    BY DEF T
  <2> QED BY <1>1, <1>2, EveryNatural, FS_CardinalityType
<1>4. PICK g \in [Small(S, c) -> Nat] : Up(g, c)
  BY <1>3
<1>5. Small(S, c) = SUBSET S
  BY FS_Subset DEF Small
<1> QED BY <1>4, <1>5 DEF Sums

\* It is the only one, and part of the one for a larger set.
LEMMA SumsAreUnique ==
  ASSUME NEW S, IsFiniteSet(S), NEW w, NEW g, Sums(w, S, g),
         NEW R, R \subseteq S, NEW h, Sums(w, R, h)
  PROVE  h[R] = g[R]
<1> DEFINE T == {s \in SUBSET R : g[s] # h[s]}
<1> SUFFICES ASSUME T # {}
             PROVE  FALSE
  OBVIOUS
<1>1. PICK s \in T : \A t \in T : t \subseteq s => t = s
  <2>1. T \in SUBSET SUBSET R /\ IsFiniteSet(R)
    BY FS_Subset
  <2> HIDE DEF T
  <2> QED BY <2>1, MinimalSubset
<1>2. s # {}
  BY <1>1 DEF Sums
<1>3. g[s] = w[Chosen(s)] + g[s \ {Chosen(s)}]
  BY <1>2 DEF Sums
<1>4. h[s] = w[Chosen(s)] + h[s \ {Chosen(s)}]
  BY <1>2 DEF Sums
<1>5. Chosen(s) \in s /\ Chosen(s) \in S
  BY <1>2, ChosenIn
<1>6. g[s \ {Chosen(s)}] = h[s \ {Chosen(s)}]
  BY <1>1, <1>5
<1> QED BY <1>3, <1>4, <1>5, <1>6

\* The order in which elements are taken makes no difference.
LEMMA SumsTakeAny ==
  ASSUME NEW S, IsFiniteSet(S), NEW w, \A x \in S : w[x] \in Nat,
         NEW g, Sums(w, S, g), \A s \in SUBSET S : g[s] \in Nat, NEW x \in S
  PROVE  g[S] = w[x] + g[S \ {x}]
<1> DEFINE T == {s \in SUBSET S : \E y \in s : g[s] # w[y] + g[s \ {y}]}
<1> SUFFICES ASSUME T # {}
             PROVE  FALSE
  OBVIOUS
<1>1. PICK s \in T : \A t \in T : t \subseteq s => t = s
  <2>1. T \in SUBSET SUBSET S
    OBVIOUS
  <2> HIDE DEF T
  <2> QED BY <2>1, MinimalSubset
<1>2. PICK y \in s : g[s] # w[y] + g[s \ {y}]
  BY <1>1
<1> DEFINE a == Chosen(s)
<1>3. g[s] = w[a] + g[s \ {a}] /\ a \in s
  BY <1>2, ChosenIn DEF Sums
<1> HIDE DEF a
<1>4. a # y /\ y \in S /\ a \in S
  BY <1>2, <1>3
<1>5. \A t \in SUBSET S : t \subseteq s /\ t # s => \A z \in t : g[t] = w[z] + g[t \ {z}]
  BY <1>1
<1>6. g[s \ {a}] = w[y] + g[(s \ {a}) \ {y}]
  <2>1. s \ {a} \in SUBSET S /\ s \ {a} # s /\ y \in s \ {a}
    BY <1>2, <1>3, <1>4
  <2> QED BY <2>1, <1>5
<1>7. g[s \ {y}] = w[a] + g[(s \ {y}) \ {a}]
  <2>1. s \ {y} \in SUBSET S /\ s \ {y} # s /\ a \in s \ {y}
    BY <1>2, <1>3, <1>4
  <2> QED BY <2>1, <1>5
<1>8. (s \ {y}) \ {a} = (s \ {a}) \ {y} /\ g[(s \ {a}) \ {y}] \in Nat
  <2>1. (s \ {a}) \ {y} \in SUBSET S
    BY <1>1
  <2> QED BY <2>1
<1>9. w[y] \in Nat /\ w[a] \in Nat
  BY <1>4
<1> DEFINE rest == g[(s \ {a}) \ {y}]
<1>10. g[s] = w[a] + (w[y] + rest)
  BY <1>3, <1>6
<1>11. w[y] + g[s \ {y}] = w[y] + (w[a] + rest)
  BY <1>7, <1>8
<1>12. rest \in Nat
  BY <1>8
<1> HIDE DEF rest
<1>13. w[a] + (w[y] + rest) = w[y] + (w[a] + rest)
  BY <1>9, <1>12
<1> QED BY <1>2, <1>10, <1>11, <1>13

-----------------------------------------------------------------------------
\* The sum of the weights of the elements of S.
Weigh(w, S) == (CHOOSE g : Sums(w, S, g))[S]

LEMMA WeighIs ==
  ASSUME NEW S, IsFiniteSet(S), NEW w, \A x \in S : w[x] \in Nat
  PROVE  \E g \in [SUBSET S -> Nat] : Sums(w, S, g) /\ Weigh(w, S) = g[S]
<1>1. PICK g : Sums(w, S, g) /\ g \in [SUBSET S -> Nat]
  BY SumsExist
<1> DEFINE h == CHOOSE h : Sums(w, S, h)
<1>2. Sums(w, S, h)
  BY <1>1
<1>3. h[S] = g[S]
  BY <1>1, <1>2, SumsAreUnique
<1> QED BY <1>1, <1>3 DEF Weigh

LEMMA WeighIsAny ==
  ASSUME NEW S, IsFiniteSet(S), NEW w, \A x \in S : w[x] \in Nat, NEW h, Sums(w, S, h)
  PROVE  h[S] = Weigh(w, S)
<1>1. PICK g \in [SUBSET S -> Nat] : Sums(w, S, g) /\ Weigh(w, S) = g[S]
  BY WeighIs
<1> QED BY <1>1, SumsAreUnique

\* Only the weights of the elements count.
LEMMA WeighSame ==
  ASSUME NEW S, IsFiniteSet(S), NEW w, NEW v, \A x \in S : w[x] \in Nat /\ v[x] = w[x]
  PROVE  Weigh(v, S) = Weigh(w, S)
<1>1. PICK g \in [SUBSET S -> Nat] : Sums(w, S, g) /\ Weigh(w, S) = g[S]
  BY WeighIs
<1>2. PICK h \in [SUBSET S -> Nat] : Sums(v, S, h) /\ Weigh(v, S) = h[S]
  BY WeighIs
<1>3. Sums(v, S, g)
  <2>1. \A s \in SUBSET S : s # {} => w[Chosen(s)] = v[Chosen(s)]
    BY ChosenIn
  <2>2. [s \in SUBSET S |-> IF s = {} THEN 0 ELSE w[Chosen(s)] + g[s \ {Chosen(s)}]]
          = [s \in SUBSET S |-> IF s = {} THEN 0 ELSE v[Chosen(s)] + g[s \ {Chosen(s)}]]
    BY <2>1
  <2> QED BY <1>1, <2>2 DEF Sums
<1> QED BY <1>1, <1>2, <1>3, SumsAreUnique

\* A sum is a natural number, the empty one is 0, and taking an element away leaves the
\* sum less its weight.
LEMMA WeighEmpty == \A w : Weigh(w, {}) = 0
<1> SUFFICES ASSUME NEW w PROVE Weigh(w, {}) = 0
  OBVIOUS
<1>1. PICK g \in [SUBSET {} -> Nat] : Sums(w, {}, g) /\ Weigh(w, {}) = g[{}]
  BY WeighIs, FS_EmptySet
<1> QED BY <1>1 DEF Sums

LEMMA WeighType ==
  ASSUME NEW S, IsFiniteSet(S), NEW w, \A x \in S : w[x] \in Nat
  PROVE  Weigh(w, S) \in Nat
<1>1. PICK g \in [SUBSET S -> Nat] : Sums(w, S, g) /\ Weigh(w, S) = g[S]
  BY WeighIs
<1> QED BY <1>1

LEMMA WeighRemove ==
  ASSUME NEW S, IsFiniteSet(S), NEW w, \A x \in S : w[x] \in Nat, NEW x \in S
  PROVE  Weigh(w, S) = w[x] + Weigh(w, S \ {x})
<1>1. PICK g \in [SUBSET S -> Nat] : Sums(w, S, g) /\ Weigh(w, S) = g[S]
  BY WeighIs
<1>2. IsFiniteSet(S \ {x}) /\ S \ {x} \in SUBSET S
  BY FS_RemoveElement
<1>3. PICK h \in [SUBSET (S \ {x}) -> Nat] :
        Sums(w, S \ {x}, h) /\ Weigh(w, S \ {x}) = h[S \ {x}]
  BY <1>2, WeighIs
<1>4. h[S \ {x}] = g[S \ {x}]
  BY <1>1, <1>2, <1>3, SumsAreUnique
<1>5. g[S] = w[x] + g[S \ {x}]
  <2>1. Sums(w, S, g) /\ \A s \in SUBSET S : g[s] \in Nat
    BY <1>1
  <2>2. \A y \in S : g[S] = w[y] + g[S \ {y}]
    BY <2>1, SumsTakeAny
  <2> QED BY <2>2
<1> QED BY <1>1, <1>3, <1>4, <1>5

LEMMA WeighAdd ==
  ASSUME NEW S, IsFiniteSet(S), NEW w, NEW x, x \notin S, \A y \in S \cup {x} : w[y] \in Nat
  PROVE  Weigh(w, S \cup {x}) = w[x] + Weigh(w, S)
<1>1. (S \cup {x}) \ {x} = S /\ IsFiniteSet(S \cup {x})
  BY FS_AddElement
<1> QED BY <1>1, WeighRemove

\* Bytes of different sets, none counted twice.
Extent(a, n) == {b \in Nat : a <= b /\ b < a + n}

LEMMA ExtentSize ==
  ASSUME NEW a \in Nat, NEW n \in Nat
  PROVE  IsFiniteSet(Extent(a, n)) /\ Cardinality(Extent(a, n)) = n
<1>1. Extent(a, n) = a..(a + n - 1)
  BY DEF Extent
<1> QED BY <1>1, FS_Interval

\* The bytes of S, each of which starts at at[x] and has w[x] bytes.
Covered(at, w, S) == UNION {Extent(at[x], w[x]) : x \in S}

Separate(at, w, S) == \A x, y \in S : x # y => Extent(at[x], w[x]) \cap Extent(at[y], w[y]) = {}

LEMMA CoveredSize ==
  ASSUME NEW S, IsFiniteSet(S), NEW w, NEW at, \A x \in S : w[x] \in Nat /\ at[x] \in Nat,
         Separate(at, w, S)
  PROVE  IsFiniteSet(Covered(at, w, S)) /\ Cardinality(Covered(at, w, S)) = Weigh(w, S)
<1> DEFINE Good(s) == IsFiniteSet(Covered(at, w, s)) /\ Cardinality(Covered(at, w, s)) = Weigh(w, s)
<1> DEFINE T == {s \in SUBSET S : ~ Good(s)}
<1> SUFFICES ASSUME T # {}
             PROVE  FALSE
  OBVIOUS
<1>1. PICK s \in T : \A t \in T : t \subseteq s => t = s
  <2>1. T \in SUBSET SUBSET S
    OBVIOUS
  <2> HIDE DEF T
  <2> QED BY <2>1, MinimalSubset
<1>2. s \in SUBSET S /\ ~ Good(s) /\ IsFiniteSet(s)
  BY <1>1, FS_Subset
<1>3. s # {}
  <2>1. Covered(at, w, {}) = {}
    BY DEF Covered
  <2> QED BY <2>1, <1>2, WeighEmpty, FS_EmptySet
<1>4. PICK x \in s : TRUE
  BY <1>3
<1> DEFINE r == s \ {x}
<1>5. Good(r)
  BY <1>1, <1>4
<1>6. Covered(at, w, s) = Covered(at, w, r) \cup Extent(at[x], w[x])
  BY <1>4 DEF Covered
<1>7. Covered(at, w, r) \cap Extent(at[x], w[x]) = {}
  BY <1>2, <1>4 DEF Covered, Separate
<1>8. Weigh(w, s) = w[x] + Weigh(w, r) /\ Weigh(w, r) \in Nat /\ w[x] \in Nat
  BY ZenonT(40), <1>2, <1>4, WeighRemove, WeighType, FS_RemoveElement
<1>9. IsFiniteSet(Extent(at[x], w[x])) /\ Cardinality(Extent(at[x], w[x])) = w[x]
  BY <1>2, <1>4, ExtentSize
<1> HIDE DEF r
<1>10. /\ IsFiniteSet(Covered(at, w, s))
       /\ Cardinality(Covered(at, w, s)) =
            Cardinality(Covered(at, w, r)) + Cardinality(Extent(at[x], w[x]))
              - Cardinality({})
  BY <1>5, <1>6, <1>7, <1>9, FS_Union
<1>11. Cardinality(Covered(at, w, s)) = Weigh(w, s)
  BY <1>5, <1>8, <1>9, <1>10, FS_EmptySet
<1> QED BY <1>2, <1>10, <1>11

\* As many bytes as there are places, none of them twice and none outside: every place
\* is taken.
LEMMA AllCovered ==
  ASSUME NEW S, IsFiniteSet(S), NEW w, NEW at, \A x \in S : w[x] \in Nat /\ at[x] \in Nat,
         Separate(at, w, S), NEW n \in Nat, \A x \in S : at[x] + w[x] <= n, Weigh(w, S) = n
  PROVE  \A b \in 0..(n - 1) : \E x \in S : b \in Extent(at[x], w[x])
<1>1. Covered(at, w, S) \subseteq 0..(n - 1)
  BY DEF Covered, Extent
<1>2. IsFiniteSet(0..(n - 1)) /\ Cardinality(0..(n - 1)) = n
  BY FS_Interval
<1>3. Covered(at, w, S) = 0..(n - 1)
  BY <1>1, <1>2, CoveredSize, FS_Subset
<1> QED BY <1>3 DEF Covered

-----------------------------------------------------------------------------

Plen(S) == [f \in S |-> f.plen]

LEMMA BytesIsSum ==
  ASSUME NEW S, IsFiniteSet(S), \A f \in S : f.plen \in Nat
  PROVE  MapThenSumSet(LAMBDA f : f.plen, S) = Weigh(Plen(S), S)
<1> DEFINE step(h) == [s \in SUBSET S |-> IF s = {} THEN 0 ELSE (Chosen(s)).plen + h[s \ {Chosen(s)}]]
<1> DEFINE Rec(h) == h = step(h)
<1>1. ASSUME NEW h
      PROVE  Rec(h) <=> Sums(Plen(S), S, h)
  <2>1. \A s \in SUBSET S : s # {} => Plen(S)[Chosen(s)] = (Chosen(s)).plen
    BY ChosenIn DEF Plen
  <2>2. step(h) = [s \in SUBSET S |-> IF s = {} THEN 0 ELSE Plen(S)[Chosen(s)] + h[s \ {Chosen(s)}]]
    BY <2>1
  <2> QED BY <2>2 DEF Sums
<1>2. MapThenSumSet(LAMBDA f : f.plen, S) = (CHOOSE h : Rec(h))[S]
  BY DEF MapThenSumSet, MapThenFoldSet, Chosen
<1>3. \A f \in S : Plen(S)[f] \in Nat
  BY DEF Plen
<1> DEFINE c == CHOOSE h : Rec(h)
<1>4. Sums(Plen(S), S, c)
  <2>1. PICK g : Sums(Plen(S), S, g)
    BY <1>3, SumsExist
  <2>2. Rec(g)
    BY <2>1, <1>1
  <2> HIDE DEF Rec
  <2>3. Rec(c)
    BY <2>2
  <2> QED BY <2>3, <1>1
<1> HIDE DEF c
<1>5. c[S] = Weigh(Plen(S), S)
  BY <1>3, <1>4, WeighIsAny
<1> QED BY <1>2, <1>5 DEF c

\* The same for the elements of a sequence, by their indices.
LEMMA IndexedIsSum ==
  ASSUME NEW out, NEW S, IsFiniteSet(S), \A i \in S : out[i].plen \in Nat
  PROVE  MapThenSumSet(LAMBDA i : out[i].plen, S) = Weigh([i \in S |-> out[i].plen], S)
<1> DEFINE w == [i \in S |-> out[i].plen]
<1> DEFINE step(h) == [s \in SUBSET S |-> IF s = {} THEN 0
                                          ELSE out[Chosen(s)].plen + h[s \ {Chosen(s)}]]
<1> DEFINE Rec(h) == h = step(h)
<1>1. ASSUME NEW h
      PROVE  Rec(h) <=> Sums(w, S, h)
  <2>1. \A s \in SUBSET S : s # {} => w[Chosen(s)] = out[Chosen(s)].plen
    BY ChosenIn
  <2> HIDE DEF w
  <2>2. step(h) = [s \in SUBSET S |-> IF s = {} THEN 0 ELSE w[Chosen(s)] + h[s \ {Chosen(s)}]]
    BY <2>1
  <2> QED BY <2>2 DEF Sums
<1>2. MapThenSumSet(LAMBDA i : out[i].plen, S) = (CHOOSE h : Rec(h))[S]
  BY DEF MapThenSumSet, MapThenFoldSet, Chosen
<1>3. \A i \in S : w[i] \in Nat
  OBVIOUS
<1> DEFINE c == CHOOSE h : Rec(h)
<1> HIDE DEF w
<1>4. Sums(w, S, c)
  <2>1. PICK g : Sums(w, S, g)
    BY <1>3, SumsExist
  <2>2. Rec(g)
    BY <2>1, <1>1
  <2> HIDE DEF Rec
  <2>3. Rec(c)
    BY <2>2
  <2> QED BY <2>3, <1>1
<1> HIDE DEF c
<1>5. c[S] = Weigh(w, S)
  BY <1>3, <1>4, WeighIsAny
<1> QED BY <1>2, <1>5 DEF c, w
=============================================================================

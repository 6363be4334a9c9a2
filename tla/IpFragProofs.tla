---------------------------- MODULE IpFragProofs ----------------------------
(***************************************************************************)
(* The safety of fragmentation and reassembly, for any unit of offsets,    *)
(* mtu, lengths, number of identifiers, and network.                       *)
(*                                                                         *)
(* What ipv4Fragmenter sends is a Chain: pieces that begin where the last  *)
(* one ended.  What a reconstruction holds is a Part of one Chain, ordered *)
(* by offset.  Of such parts Ready accepts the whole chain (ReadyIsWhole), *)
(* and misses it only if a fragment is there twice (WholeIsReady).  That a *)
(* reconstruction is a part of one packet, and not of two that share an    *)
(* identifier, is SamePacket.                                              *)
(***************************************************************************)
EXTENDS IpFrag, FiniteSetTheorems, WellFoundedInduction, TLAPS

\* A set of natural numbers has a least one.
LEMMA LeastNumber ==
  ASSUME NEW T, T \subseteq Nat, T # {}
  PROVE  \E n \in T : \A m \in T : n <= m
<1> DEFINE Less == {p \in Nat \X Nat : p[1] < p[2]}
<1>1. IsWellFoundedOn(Less, Nat)
  <2>1. IsWellFoundedOn(OpToRel(<, Nat), Nat)
    BY NatLessThanWellFounded
  <2>2. Less = OpToRel(<, Nat)
    BY Zenon DEF OpToRel
  <2> QED
    BY <2>1, <2>2
<1>2. PICK n \in T : \A m \in T : ~(<<m, n>> \in Less)
  BY <1>1, WFMin
<1>3. \A m \in T : ~(m < n)
  BY <1>2
<1> QED
  BY <1>3

----------------------------------------------------------------------------
(* Arithmetic *)

\* Products of natural numbers keep the order.
LEMMA TimesKeepsOrder ==
  ASSUME NEW a \in Int, NEW b \in Int, NEW u \in Nat \ {0}
  PROVE  /\ a < b => a * u + u <= b * u
         /\ a <= b <=> a * u <= b * u
         /\ a = b <=> a * u = b * u
         /\ a * u \in Int
OBVIOUS

\* Division undoes multiplication.
LEMMA TimesThenDiv ==
  ASSUME NEW a \in Int, NEW u \in Nat \ {0}
  PROVE  (a * u) \div u = a
OBVIOUS

\* Division with a remainder.
LEMMA DivTimes ==
  ASSUME NEW a \in Nat, NEW u \in Nat \ {0}
  PROVE  /\ a \div u \in Nat
         /\ (a \div u) * u <= a
         /\ a < (a \div u) * u + u
OBVIOUS

\* Numbers that are less than m apart differ modulo m.
LEMMA CloseNumbersDiffer ==
  ASSUME NEW m \in Nat \ {0}, NEW a \in Int, NEW b \in Int,
         a % m = b % m, a - b < m, b - a < m
  PROVE  a = b
<1> DEFINE r == a % m
           p == a \div m
           q == b \div m
<1>1. r \in Int /\ p \in Int /\ a = p * m + r
  OBVIOUS
<1>2. q \in Int /\ b = q * m + r
  OBVIOUS
<1> HIDE DEF r, p, q
<1>3. a - b = (p - q) * m
  BY <1>1, <1>2
<1>4. (p - q) * m < 1 * m /\ (q - p) * m < 1 * m
  BY <1>1, <1>2, <1>3
<1>5. p - q < 1 /\ q - p < 1
  <2>1. p - q \in Int /\ q - p \in Int
    BY <1>1, <1>2
  <2>2. ~(1 <= p - q) /\ ~(1 <= q - p)
    BY <1>4, <2>1, TimesKeepsOrder
  <2> QED
    BY <2>1, <2>2
<1> QED
  BY <1>1, <1>2, <1>5

\* A counter modulo m is where it was after m steps.
LEMMA ModOnceAround ==
  ASSUME NEW m \in Nat \ {0}, NEW a \in Int
  PROVE  (a - m) % m = a % m
<1> DEFINE r == a % m
           p == a \div m
<1>1. r \in 0 .. m - 1 /\ p \in Int /\ a = p * m + r
  OBVIOUS
<1> HIDE DEF r, p
<1>2. a - m = (p - 1) * m + r
  BY <1>1
<1>3. ((p - 1) * m + r) % m = r
  BY <1>1
<1> QED
  BY <1>2, <1>3 DEF r

----------------------------------------------------------------------------
(* The fragments of a packet *)

\* The number of units in a full piece.
PayloadUnits == (mtu - Header) \div Unit

\* Where a fragment begins in its packet.
At(f) == f.off * Unit

Fragment == [src : Sources, pkt : Nat \ {0}, id : Int, off : Nat, len : Nat \ {0},
             more : BOOLEAN]

\* What fragmentation promises: the pieces of one packet, each of which begins
\* where the one before it ends; all but the last say that there are more.
Chain(F) ==
  /\ F \in Seq(Fragment) /\ F # << >>
  /\ F[1].off = 0
  /\ \A i \in DOMAIN F : F[i].more <=> i # Len(F)
  /\ \A i \in DOMAIN F : i # Len(F) => At(F[i + 1]) = At(F[i]) + F[i].len
  /\ \A i, j \in DOMAIN F : i < j => At(F[i]) + F[i].len <= At(F[j])

\* MaxPayload is whole units, and fits behind a header.
LEMMA PayloadFits ==
  ASSUME mtu \in MTUs
  PROVE  /\ PayloadUnits \in Nat
         /\ MaxPayload = PayloadUnits * Unit
         /\ MaxPayload \in Nat
         /\ Header + MaxPayload <= mtu
<1>1. mtu - Header \in Nat /\ Unit \in Nat \ {0} /\ mtu \in Nat /\ Header \in Nat
  BY FragAssumption
<1>2. PayloadUnits \in Nat /\ PayloadUnits * Unit <= mtu - Header
  BY <1>1, DivTimes DEF PayloadUnits
<1>3. PayloadUnits * Unit \in Nat
  BY <1>1, <1>2
<1> QED
  BY <1>1, <1>2, <1>3 DEF MaxPayload, PayloadUnits

\* The number of pieces: as many as are needed, and none is empty.
LEMMA PieceCount ==
  ASSUME NEW p \in Nat \ {0}, NEW len \in Nat \ {0}
  PROVE  LET N == (len + p - 1) \div p IN
         /\ N \in Nat \ {0}
         /\ (N - 1) * p < len
         /\ len <= N * p
<1> DEFINE N == (len + p - 1) \div p
<1>1. len + p - 1 \in Nat
  OBVIOUS
<1>2. N \in Nat /\ N * p <= len + p - 1 /\ len + p - 1 < N * p + p
  BY <1>1, DivTimes
<1> HIDE DEF N
<1>3. (N - 1) * p = N * p - p /\ N * p \in Int
  BY <1>2
<1>4. len <= N * p /\ N * p - p < len
  BY <1>2, <1>3
<1>5. N # 0
  BY <1>4
<1> QED
  BY <1>2, <1>3, <1>4, <1>5 DEF N

\* The i-th piece of a packet of len bytes, and what is left for it.
Rest(i, len) == len - (i - 1) * MaxPayload

PieceLen(i, len) == IF Rest(i, len) < MaxPayload THEN Rest(i, len) ELSE MaxPayload

\* The offset of a piece, in units, is exact: nothing is lost to the division.
LEMMA Piece ==
  ASSUME mtu \in MTUs, MaxPayload # 0, NEW s, NEW n, NEW len \in Nat \ {0},
         NEW i \in 1 .. (len + MaxPayload - 1) \div MaxPayload
  PROVE  /\ Cut(s, n, len)[i] = [src |-> s, pkt |-> n, id |-> Id(n), off |-> (i - 1) * PayloadUnits,
                                 len |-> PieceLen(i, len),
                                 more |-> (i - 1) * MaxPayload + PieceLen(i, len) < len]
         /\ ((i - 1) * PayloadUnits) * Unit = (i - 1) * MaxPayload
<1>1. i \in Int /\ PayloadUnits \in Nat /\ Unit \in Nat \ {0} /\ MaxPayload = PayloadUnits * Unit
  <2>1. MaxPayload \in Nat \ {0}
    BY PayloadFits
  <2>2. (len + MaxPayload - 1) \div MaxPayload \in Nat
    BY <2>1, PieceCount
  <2> QED
    BY <2>2, PayloadFits, FragAssumption
<1>2. (i - 1) * (PayloadUnits * Unit) = ((i - 1) * PayloadUnits) * Unit
  BY <1>1
<1>3. (i - 1) * PayloadUnits \in Int
  BY <1>1
<1>4. ((i - 1) * MaxPayload) \div Unit = (i - 1) * PayloadUnits
  BY <1>1, <1>2, <1>3, TimesThenDiv
<1> QED
  BY <1>1, <1>2, <1>4 DEF Cut, PieceLen, Rest

\* All pieces but the last are full, and the last one ends where the packet does.
LEMMA PieceEnds ==
  ASSUME mtu \in MTUs, MaxPayload # 0, NEW len \in Nat \ {0},
         NEW N \in Nat \ {0}, (N - 1) * MaxPayload < len, len <= N * MaxPayload,
         NEW i \in 1 .. N
  PROVE  /\ PieceLen(i, len) \in Nat \ {0}
         /\ PieceLen(i, len) <= MaxPayload
         /\ i < N => PieceLen(i, len) = MaxPayload /\ i * MaxPayload < len
         /\ i = N => (i - 1) * MaxPayload + PieceLen(i, len) = len
         /\ (i - 1) * MaxPayload + PieceLen(i, len) <= i * MaxPayload
         /\ (i - 1) * MaxPayload \in Nat
         /\ i * MaxPayload = (i - 1) * MaxPayload + MaxPayload
<1> DEFINE p == MaxPayload
<1>1. p \in Nat \ {0} /\ (N - 1) * p < len /\ len <= N * p
  BY PayloadFits
<1> HIDE DEF p
<1>2. i - 1 \in Nat /\ i \in Nat
  OBVIOUS
<1>3. (i - 1) * p \in Nat /\ i * p = (i - 1) * p + p /\ N * p \in Nat /\ (N - 1) * p \in Nat
  BY <1>1, <1>2
<1>4. (i - 1) * p <= (N - 1) * p
  BY <1>1, <1>2, TimesKeepsOrder
<1>5. i < N => i * p <= (N - 1) * p
  BY <1>1, <1>2, TimesKeepsOrder
<1>6. (i - 1) * p < len /\ (i < N => i * p < len)
  BY <1>1, <1>3, <1>4, <1>5
<1>7. PieceLen(i, len) = IF len - (i - 1) * p < p THEN len - (i - 1) * p ELSE p
  BY DEF PieceLen, Rest, p
<1>8. /\ PieceLen(i, len) \in Nat \ {0}
      /\ PieceLen(i, len) <= p
      /\ i < N => PieceLen(i, len) = p
      /\ i = N => (i - 1) * p + PieceLen(i, len) = len
      /\ (i - 1) * p + PieceLen(i, len) <= i * p
  BY <1>1, <1>2, <1>3, <1>6, <1>7
<1> QED
  BY <1>3, <1>6, <1>8 DEF p

\* What FragmentsOf says of the source, the number and the length of a packet.
Names(F, s, n) == \A i \in DOMAIN F : F[i].src = s /\ F[i].pkt = n /\ F[i].id = Id(n)

Fits(F) == \A i \in DOMAIN F : Header + F[i].len <= mtu

\* Each byte of a packet of len bytes is in one fragment, and no other byte is.
Holds(f, b) == f.off * Unit <= b /\ b < f.off * Unit + f.len

Covers(F, len) ==
  \A b \in Nat :
    /\ b < len => \E i \in DOMAIN F : \A j \in DOMAIN F : Holds(F[j], b) <=> j = i
    /\ ~(b < len) => \A j \in DOMAIN F : ~Holds(F[j], b)

\* An identifier is a number.
LEMMA IdType == ASSUME NEW n \in Nat PROVE Id(n) \in Int
<1>1. n - 1 \in Int /\ Ids \in Nat \ {0}
  BY FragAssumption
<1> QED
  BY <1>1 DEF Id

\* The pieces that the loop of fragments cuts are a chain, and fit.
LEMMA CutIsChain ==
  ASSUME mtu \in MTUs, MaxPayload # 0, NEW s \in Sources, NEW n \in Nat \ {0},
         NEW len \in Nat \ {0}
  PROVE  /\ Chain(Cut(s, n, len))
         /\ Names(Cut(s, n, len), s, n)
         /\ Fits(Cut(s, n, len))
<1> DEFINE p == MaxPayload
           N == (len + p - 1) \div p
           C == Cut(s, n, len)
           From(i) == (i - 1) * p
           Length(i) == PieceLen(i, len)
<1>1. p \in Nat \ {0} /\ Header + p <= mtu /\ Header \in Nat /\ mtu \in Nat
  BY PayloadFits, FragAssumption
<1>2. N \in Nat \ {0} /\ (N - 1) * p < len /\ len <= N * p
  BY <1>1, PieceCount
<1>3. DOMAIN C = 1 .. N /\ Len(C) = N /\ C # << >>
  BY <1>2 DEF Cut
<1>4. ASSUME NEW i \in 1 .. N
      PROVE  /\ C[i] = [src |-> s, pkt |-> n, id |-> Id(n), off |-> (i - 1) * PayloadUnits,
                        len |-> Length(i), more |-> From(i) + Length(i) < len]
             /\ ((i - 1) * PayloadUnits) * Unit = From(i)
             /\ (i - 1) * PayloadUnits \in Nat
  <2>1. i - 1 \in Nat /\ PayloadUnits \in Nat
    BY <1>2, PayloadFits
  <2>2. (i - 1) * PayloadUnits \in Nat
    BY <2>1
  <2> QED
    BY <2>2, Piece
<1>5. ASSUME NEW i \in 1 .. N
      PROVE  /\ Length(i) \in Nat \ {0}
             /\ Length(i) <= p
             /\ i < N => Length(i) = p /\ i * p < len
             /\ i = N => From(i) + Length(i) = len
             /\ From(i) + Length(i) <= i * p
             /\ From(i) \in Nat
             /\ i * p = From(i) + p
  BY <1>2, PieceEnds
<1>6. ASSUME NEW i \in 1 .. N
      PROVE  /\ C[i] \in Fragment
             /\ C[i].src = s /\ C[i].pkt = n /\ C[i].id = Id(n)
             /\ C[i].off = (i - 1) * PayloadUnits
             /\ At(C[i]) = From(i)
             /\ C[i].len = Length(i)
             /\ C[i].more <=> i # N
  <2> DEFINE m == From(i) + Length(i) < len
  <2> HIDE DEF m
  <2>0. C[i] = [src |-> s, pkt |-> n, id |-> Id(n), off |-> (i - 1) * PayloadUnits,
                len |-> Length(i), more |-> m]
    BY <1>4, Zenon DEF m
  <2>1. C[i].more <=> From(i) + Length(i) < len
    <3>1. C[i].more = m
      BY <2>0
    <3> QED
      BY <3>1, Zenon DEF m
  <2>2. i = N => ~(From(i) + Length(i) < len)
    BY <1>5
  <2>3. i # N => i < N
    BY <1>2
  <2>4. i < N => From(i) + Length(i) < len
    BY <1>5
  <2>5. m \in BOOLEAN
    BY DEF m
  <2>6. C[i] \in Fragment
    <3>1. Id(n) \in Int /\ n \in Nat \ {0} /\ s \in Sources
      BY IdType
    <3>2. Length(i) \in Nat \ {0} /\ (i - 1) * PayloadUnits \in Nat
      BY <1>4, <1>5
    <3> QED
      BY <2>0, <2>5, <3>1, <3>2 DEF Fragment
  <2>7. C[i].more <=> i # N
    BY <2>1, <2>2, <2>3, <2>4
  <2>8. /\ C[i].src = s /\ C[i].pkt = n /\ C[i].id = Id(n) /\ C[i].len = Length(i)
        /\ C[i].off = (i - 1) * PayloadUnits
    BY <2>0
  <2> QED
    BY <1>4, <2>6, <2>7, <2>8 DEF At
<1> HIDE DEF N, C, From, Length, p
<1>7. C \in Seq(Fragment)
  <2>1. C = [i \in DOMAIN C |-> C[i]]
    BY Zenon DEF C, Cut
  <2> QED
    BY <1>2, <1>3, <1>6, <2>1
<1>8. C[1].off = 0
  <2>1. 1 \in 1 .. N /\ (1 - 1) * PayloadUnits = 0
    BY <1>2, PayloadFits
  <2> QED
    BY <1>6, <2>1
<1>9. ASSUME NEW i \in 1 .. N, i # N PROVE At(C[i + 1]) = At(C[i]) + C[i].len
  <2>1. i + 1 \in 1 .. N /\ i < N /\ (i + 1) - 1 = i
    BY <1>2, <1>9
  <2>2. From(i + 1) = i * p
    BY <2>1 DEF From
  <2> QED
    BY <1>5, <1>6, <2>1, <2>2
<1>10. ASSUME NEW i \in 1 .. N, NEW j \in 1 .. N, i < j
       PROVE  At(C[i]) + C[i].len <= At(C[j])
  <2>1. i * p <= (j - 1) * p
    BY <1>1, <1>2, <1>10, TimesKeepsOrder
  <2>2. From(i) + Length(i) <= i * p
    BY <1>5
  <2>3. i * p \in Int /\ From(j) \in Int /\ From(i) \in Int /\ Length(i) \in Int
    BY <1>1, <1>2, <1>5
  <2>4. From(i) + Length(i) <= From(j)
    BY <2>1, <2>2, <2>3 DEF From
  <2> QED
    BY <1>6, <2>4
<1>11. Chain(C)
  BY <1>3, <1>6, <1>7, <1>8, <1>9, <1>10 DEF Chain
<1>12. Names(C, s, n)
  BY <1>3, <1>6 DEF Names
<1>13. Fits(C)
  <2>1. ASSUME NEW i \in 1 .. N PROVE Header + Length(i) <= mtu
    BY <1>1, <1>5
  <2> QED
    BY <1>3, <1>6, <2>1 DEF Fits
<1> QED
  BY <1>11, <1>12, <1>13 DEF C

\* Byte b is in the piece b \div MaxPayload + 1, and in no other.
LEMMA CutCovers ==
  ASSUME mtu \in MTUs, MaxPayload # 0, NEW s, NEW n, NEW len \in Nat \ {0}
  PROVE  Covers(Cut(s, n, len), len)
<1> DEFINE p == MaxPayload
           N == (len + p - 1) \div p
           C == Cut(s, n, len)
           From(i) == (i - 1) * p
           Length(i) == PieceLen(i, len)
<1>1. p \in Nat \ {0}
  BY PayloadFits
<1>2. N \in Nat \ {0} /\ (N - 1) * p < len /\ len <= N * p
  BY <1>1, PieceCount
<1>3. DOMAIN C = 1 .. N
  BY <1>2 DEF Cut
<1>4. ASSUME NEW i \in 1 .. N, NEW b
      PROVE  Holds(C[i], b) <=> From(i) <= b /\ b < From(i) + Length(i)
  <2> DEFINE m == From(i) + Length(i) < len
             o == (i - 1) * PayloadUnits
  <2> HIDE DEF m, o
  <2>1. C[i].off * Unit = From(i) /\ C[i].len = Length(i)
    <3>1. C[i] = [src |-> s, pkt |-> n, id |-> Id(n), off |-> o, len |-> Length(i), more |-> m]
      BY Piece, Zenon DEF m, o
    <3>2. C[i].off = o /\ C[i].len = Length(i)
      BY <3>1
    <3>3. o * Unit = From(i)
      BY Piece, Zenon DEF o
    <3> QED
      BY <3>2, <3>3, Zenon
  <2> QED
    BY <2>1, Zenon DEF Holds
<1>5. ASSUME NEW i \in 1 .. N
      PROVE  /\ Length(i) \in Nat \ {0}
             /\ i < N => Length(i) = p
             /\ i = N => From(i) + Length(i) = len
             /\ From(i) \in Nat
             /\ i * p = From(i) + p
             /\ From(i) + Length(i) <= i * p
             /\ i < N => i * p < len
  BY <1>2, PieceEnds
<1> HIDE DEF N, C, From, Length, p
<1>6. ASSUME NEW i \in 1 .. N PROVE From(i) + Length(i) <= len
  <2>1. CASE i < N
    BY <1>2, <1>5, <2>1
  <2>2. CASE i = N
    BY <1>2, <1>5, <2>2
  <2> QED
    BY <1>2, <2>1, <2>2
<1>7. ASSUME NEW b \in Nat, ~(b < len), NEW j \in 1 .. N PROVE ~Holds(C[j], b)
  BY <1>4, <1>5, <1>6, <1>7
<1>8. ASSUME NEW b \in Nat, b < len
      PROVE  \E i \in 1 .. N : \A j \in 1 .. N : Holds(C[j], b) <=> j = i
  <2> DEFINE q == b \div p
  <2>1. q \in Nat /\ q * p <= b /\ b < q * p + p
    BY <1>1, DivTimes
  <2> HIDE DEF q
  <2>2. q * p \in Nat /\ N * p \in Nat /\ q * p < N * p
    BY <1>1, <1>2, <1>8, <2>1
  <2>3. q < N
    <3>1. ~(N <= q)
      BY <1>1, <1>2, <2>1, <2>2, TimesKeepsOrder
    <3> QED
      BY <1>2, <2>1, <3>1
  <2>4. q + 1 \in 1 .. N /\ (q + 1) - 1 = q
    BY <1>2, <2>1, <2>3
  <2>5. From(q + 1) = q * p
    BY <2>4 DEF From
  <2>6. b < From(q + 1) + Length(q + 1)
    <3>1. CASE q + 1 < N
      BY <1>1, <1>5, <2>1, <2>2, <2>4, <2>5, <3>1
    <3>2. CASE q + 1 = N
      BY <1>5, <1>8, <2>4, <3>2
    <3> QED
      BY <1>2, <2>1, <2>4, <3>1, <3>2
  <2>7. Holds(C[q + 1], b)
    BY <1>4, <2>1, <2>4, <2>5, <2>6
  <2>8. ASSUME NEW j \in 1 .. N, Holds(C[j], b) PROVE j = q + 1
    <3>1. From(j) <= b /\ b < j * p /\ j * p \in Int /\ From(j) \in Int
      BY <1>1, <1>2, <1>4, <1>5, <2>8
    <3>2. (j - 1) * p < q * p + p /\ q * p < j * p
      BY <1>1, <2>1, <2>2, <3>1 DEF From
    <3>3. ~(j <= q)
      BY <1>1, <1>2, <2>1, <2>2, <3>1, <3>2, TimesKeepsOrder
    <3>4. ~(q + 1 <= j - 1)
      <4>1. (q + 1) * p = q * p + p /\ (q + 1) * p \in Int /\ (j - 1) * p \in Int
        BY <1>1, <1>2, <2>1
      <4>2. j - 1 \in Int /\ q + 1 \in Int
        BY <1>2, <2>1
      <4>3. ~((q + 1) * p <= (j - 1) * p)
        BY <3>2, <4>1
      <4> QED
        BY <1>1, <4>2, <4>3, TimesKeepsOrder
    <3> QED
      BY <1>2, <2>1, <3>3, <3>4
  <2> QED
    BY <2>4, <2>7, <2>8
<1> QED
  BY <1>3, <1>7, <1>8 DEF Covers, C

Packet == [len : Lengths, dontFrag : BOOLEAN]

\* Whatever becomes of a packet that is not dropped, its fragments are a chain
\* that fits and covers it.
LEMMA FragmentsOfIsChain ==
  ASSUME mtu \in MTUs, NEW s \in Sources, NEW n \in Nat \ {0}, NEW p \in Packet,
         FragmentsOf(s, n, p) # << >>
  PROVE  /\ Chain(FragmentsOf(s, n, p))
         /\ Names(FragmentsOf(s, n, p), s, n)
         /\ Fits(FragmentsOf(s, n, p))
         /\ Covers(FragmentsOf(s, n, p), p.len)
<1>1. p.len \in Nat \ {0} /\ Header \in Nat /\ mtu \in Nat /\ Unit \in Nat \ {0}
  BY FragAssumption DEF Packet
<1>2. CASE Header + p.len < mtu
  <2> DEFINE f == [src |-> s, pkt |-> n, id |-> Id(n), off |-> 0, len |-> p.len, more |-> FALSE]
  <2>1. FragmentsOf(s, n, p) = <<f>>
    BY <1>2, Zenon DEF FragmentsOf
  <2>2. /\ f \in Fragment /\ f.off = 0 /\ f.len = p.len /\ ~f.more
        /\ f.src = s /\ f.pkt = n /\ f.id = Id(n)
    BY <1>1, IdType DEF Fragment
  <2> HIDE DEF f
  <2>3. <<f>> \in Seq(Fragment) /\ Len(<<f>>) = 1 /\ DOMAIN <<f>> = {1} /\ <<f>>[1] = f
    BY <2>2
  <2>4. Chain(<<f>>)
    BY <2>2, <2>3 DEF Chain
  <2>5. Names(<<f>>, s, n)
    BY <2>2, <2>3 DEF Names
  <2>6. Fits(<<f>>)
    BY <1>1, <1>2, <2>2, <2>3 DEF Fits
  <2>7. ASSUME NEW b \in Nat PROVE Holds(f, b) <=> b < p.len
    <3>1. f.off * Unit = 0 /\ f.off * Unit + f.len = p.len
      BY <1>1, <2>2
    <3> QED
      BY <3>1 DEF Holds
  <2>8. Covers(<<f>>, p.len)
    BY <2>3, <2>7 DEF Covers
  <2> QED
    BY <2>1, <2>4, <2>5, <2>6, <2>8
<1>3. CASE ~(Header + p.len < mtu)
  <2>1. MaxPayload # 0 /\ FragmentsOf(s, n, p) = Cut(s, n, p.len)
    BY <1>3, Zenon DEF FragmentsOf
  <2> QED
    BY <1>1, <2>1, CutIsChain, CutCovers
<1> QED
  BY <1>2, <1>3

----------------------------------------------------------------------------
(* Reconstructions *)

\* What a reconstruction of F has: some of its fragments, ordered by where they
\* begin.  A fragment that arrived twice may be in it twice.
Part(g, F) ==
  /\ g \in Seq(Fragment) /\ g # << >>
  /\ \A i \in DOMAIN g : \E q \in DOMAIN F : g[i] = F[q]
  /\ \A i, j \in DOMAIN g : i <= j => g[i].off <= g[j].off

\* The fields of a fragment.
LEMMA FragmentType ==
  ASSUME NEW f \in Fragment
  PROVE  /\ f.off \in Nat /\ f.len \in Nat \ {0} /\ f.more \in BOOLEAN
         /\ f.src \in Sources /\ f.pkt \in Nat \ {0} /\ f.id \in Int
         /\ At(f) \in Nat
<1>1. /\ f.off \in Nat /\ f.len \in Nat \ {0} /\ f.more \in BOOLEAN
      /\ f.src \in Sources /\ f.pkt \in Nat \ {0} /\ f.id \in Int
  BY DEF Fragment
<1>2. At(f) \in Nat
  BY <1>1, FragAssumption DEF At
<1> QED
  BY <1>1, <1>2

\* Offsets tell the fragments of a packet apart, and their order.
LEMMA ChainOrder ==
  ASSUME NEW F, Chain(F), NEW a \in DOMAIN F, NEW b \in DOMAIN F
  PROVE  /\ F[a].off <= F[b].off <=> a <= b
         /\ At(F[a]) = At(F[b]) => a = b
         /\ a < b => At(F[a]) + F[a].len <= At(F[b])
<1>1. F \in Seq(Fragment) /\ DOMAIN F \subseteq Nat /\ a \in Nat /\ b \in Nat
  BY DEF Chain
<1>2. F[a] \in Fragment /\ F[b] \in Fragment
  BY <1>1
<1>3. /\ At(F[a]) \in Nat /\ At(F[b]) \in Nat /\ F[a].len \in Nat \ {0} /\ F[b].len \in Nat \ {0}
      /\ F[a].off \in Nat /\ F[b].off \in Nat
  BY <1>2, FragmentType
<1>4. /\ a < b => At(F[a]) + F[a].len <= At(F[b])
      /\ b < a => At(F[b]) + F[b].len <= At(F[a])
  BY DEF Chain
<1>5. /\ a < b => At(F[a]) < At(F[b])
      /\ b < a => At(F[b]) < At(F[a])
  BY <1>3, <1>4
<1>6. F[a].off <= F[b].off <=> At(F[a]) <= At(F[b])
  BY <1>3, FragAssumption, TimesKeepsOrder DEF At
<1>7. At(F[a]) <= At(F[b]) <=> a <= b
  BY <1>1, <1>3, <1>5
<1> QED
  BY <1>1, <1>3, <1>4, <1>5, <1>6, <1>7

\* The test for gaps is right: a reconstruction that passes it is the packet.
LEMMA ReadyIsWhole ==
  ASSUME NEW F, Chain(F), NEW g, Part(g, F), Ready(g)
  PROVE  g = F
<1>1. /\ F \in Seq(Fragment) /\ g \in Seq(Fragment) /\ Len(F) \in Nat \ {0} /\ Len(g) \in Nat \ {0}
      /\ DOMAIN F = 1 .. Len(F) /\ DOMAIN g = 1 .. Len(g)
  BY DEF Chain, Part
<1>2. ASSUME NEW i \in DOMAIN g PROVE \E q \in DOMAIN F : g[i] = F[q]
  BY DEF Part
<1>3. ASSUME NEW i \in DOMAIN F
      PROVE  /\ At(F[i]) \in Nat /\ F[i].len \in Nat \ {0}
             /\ F[i].more <=> i # Len(F)
             /\ i # Len(F) => At(F[i + 1]) = At(F[i]) + F[i].len
  BY <1>1, FragmentType DEF Chain
<1>4. ASSUME NEW i \in DOMAIN g PROVE i \in DOMAIN F /\ g[i] = F[i]
  <2> DEFINE Bad == {k \in DOMAIN g : ~(k \in DOMAIN F /\ g[k] = F[k])}
  <2> SUFFICES ASSUME Bad # {} PROVE FALSE
    OBVIOUS
  <2>1. Bad \subseteq Nat
    BY <1>1
  <2>2. PICK k \in Bad : \A l \in Bad : k <= l
    BY <2>1, LeastNumber
  <2>3. k \in DOMAIN g /\ k \in Nat
    BY <1>1
  <2>4. PICK q \in DOMAIN F : g[k] = F[q]
    BY <1>2, <2>3
  <2>5. CASE k = 1
    <3>1. 1 \in DOMAIN F /\ F[1].off = 0 /\ g[1].off = 0
      BY <1>1 DEF Chain, Ready
    <3>2. At(F[q]) = At(F[1])
      BY <2>4, <2>5, <3>1 DEF At
    <3>3. q = 1
      BY <3>1, <3>2, ChainOrder
    <3> QED
      BY <2>2, <2>4, <2>5, <3>1, <3>3
  <2>6. CASE k # 1
    <3>1. k - 1 \in DOMAIN g /\ (k - 1) + 1 = k /\ k - 1 \in 1 .. Len(g) - 1
      BY <1>1, <2>3, <2>6
    <3>2. k - 1 \in DOMAIN F /\ g[k - 1] = F[k - 1]
      <4>1. ~(k <= k - 1)
        BY <2>3
      <4> QED
        BY <2>2, <3>1, <4>1
    <3>3. At(g[k]) = At(g[k - 1]) + g[k - 1].len
      BY <3>1 DEF Ready, At
    <3>4. At(F[q]) = At(F[k - 1]) + F[k - 1].len
      BY <2>4, <3>2, <3>3
    <3>5. CASE k - 1 # Len(F)
      <4>1. k \in DOMAIN F
        BY <1>1, <3>1, <3>2, <3>5
      <4>2. At(F[k]) = At(F[k - 1]) + F[k - 1].len
        BY <1>3, <3>1, <3>2, <3>5
      <4>3. q = k
        BY <3>4, <4>1, <4>2, ChainOrder
      <4> QED
        BY <2>2, <2>4, <4>1, <4>3
    <3>6. CASE k - 1 = Len(F)
      <4>1. q <= k - 1 /\ q \in Nat
        BY <1>1, <3>6
      <4>2. At(F[q]) <= At(F[k - 1])
        <5>1. CASE q = k - 1
          BY <1>3, <5>1
        <5>2. CASE q < k - 1
          <6>1. At(F[q]) + F[q].len <= At(F[k - 1])
            BY <3>2, <5>2, ChainOrder
          <6> QED
            BY <1>3, <3>2, <6>1
        <5> QED
          BY <3>1, <4>1, <5>1, <5>2
      <4> QED
        BY <1>3, <3>2, <3>4, <4>2
    <3> QED
      BY <3>5, <3>6
  <2> QED
    BY <2>5, <2>6
<1>5. Len(g) = Len(F)
  <2>1. Len(g) \in DOMAIN g /\ Len(g) \in DOMAIN F /\ g[Len(g)] = F[Len(g)]
    BY <1>1, <1>4
  <2>2. ~g[Len(g)].more
    BY DEF Ready
  <2> QED
    BY <1>3, <2>1, <2>2
<1> QED
  BY <1>1, <1>4, <1>5

\* And it finds every packet that is whole: a reconstruction that has all the
\* fragments, none of them twice, passes it.
LEMMA WholeIsReady ==
  ASSUME NEW F, Chain(F), NEW g, Part(g, F), IsInjective(g), ToSet(g) = ToSet(F)
  PROVE  Ready(g)
<1>1. /\ F \in Seq(Fragment) /\ g \in Seq(Fragment) /\ Len(F) \in Nat \ {0} /\ Len(g) \in Nat \ {0}
      /\ DOMAIN F = 1 .. Len(F) /\ DOMAIN g = 1 .. Len(g)
  BY DEF Chain, Part
<1>2. ASSUME NEW q \in DOMAIN F PROVE \E i \in DOMAIN g : g[i] = F[q]
  BY DEF ToSet
<1>3. ASSUME NEW i \in DOMAIN g, NEW q \in DOMAIN F, g[i] = F[q],
             NEW j \in DOMAIN g, NEW r \in DOMAIN F, g[j] = F[r]
      PROVE  /\ i <= j => q <= r
             /\ i < j => q < r
             /\ q = r => i = j
  <2>1. i \in Nat /\ j \in Nat /\ q \in Nat /\ r \in Nat
    BY <1>1
  <2>2. q = r => i = j
    BY <1>3 DEF IsInjective
  <2>3. i <= j => q <= r
    BY <1>3, ChainOrder DEF Part
  <2> QED
    BY <2>1, <2>2, <2>3
<1>4. ASSUME NEW i \in DOMAIN g PROVE \E q \in DOMAIN F : g[i] = F[q]
  BY DEF Part
<1>5. ASSUME NEW i \in DOMAIN F
      PROVE  /\ F[i].more <=> i # Len(F)
             /\ i # Len(F) => At(F[i + 1]) = At(F[i]) + F[i].len
  BY DEF Chain
<1>6. 1 \in DOMAIN F /\ 1 \in DOMAIN g /\ Len(F) \in DOMAIN F /\ Len(g) \in DOMAIN g
  BY <1>1
<1>7. g[1].off = 0
  <2>1. PICK q \in DOMAIN F : g[1] = F[q]
    BY <1>4, <1>6
  <2>2. PICK i \in DOMAIN g : g[i] = F[1]
    BY <1>2, <1>6
  <2>3. q <= 1
    BY <1>1, <1>3, <1>6, <2>1, <2>2
  <2>4. q = 1
    BY <1>1, <2>3
  <2> QED
    BY <2>1, <2>4 DEF Chain
<1>8. ~g[Len(g)].more
  <2>1. PICK q \in DOMAIN F : g[Len(g)] = F[q]
    BY <1>4, <1>6
  <2>2. PICK i \in DOMAIN g : g[i] = F[Len(F)]
    BY <1>2, <1>6
  <2>3. Len(F) <= q
    BY <1>1, <1>3, <1>6, <2>1, <2>2
  <2>4. q = Len(F)
    BY <1>1, <2>3
  <2> QED
    BY <1>5, <2>1, <2>4
<1>9. ASSUME NEW i \in 1 .. Len(g) - 1
      PROVE  g[i + 1].off * Unit = g[i].off * Unit + g[i].len
  <2>1. i \in DOMAIN g /\ i + 1 \in DOMAIN g /\ i < i + 1 /\ i \in Nat
    BY <1>1
  <2>2. PICK q \in DOMAIN F : g[i] = F[q]
    BY <1>4, <2>1
  <2>3. PICK r \in DOMAIN F : g[i + 1] = F[r]
    BY <1>4, <2>1
  <2>4. q < r
    BY <1>3, <2>1, <2>2, <2>3
  <2>5. q # Len(F) /\ q + 1 \in DOMAIN F /\ q + 1 <= r
    BY <1>1, <2>4
  <2>6. PICK j \in DOMAIN g : g[j] = F[q + 1]
    BY <1>2, <2>5
  <2>7. ~(j <= i)
    <3>1. ~(q + 1 <= q)
      BY <1>1
    <3> QED
      BY <1>3, <2>1, <2>2, <2>5, <2>6, <3>1
  <2>8. r <= q + 1
    <3>1. i + 1 <= j
      BY <1>1, <2>1, <2>7
    <3> QED
      BY <1>3, <2>1, <2>3, <2>5, <2>6, <3>1
  <2>9. r = q + 1
    BY <1>1, <2>5, <2>8
  <2>10. At(g[i + 1]) = At(g[i]) + g[i].len
    BY <1>5, <2>2, <2>3, <2>5, <2>9
  <2> QED
    BY <2>10 DEF At
<1> QED
  BY <1>7, <1>8, <1>9 DEF Ready

\* Those that begin no later than f come first, and sort.Search finds their end.
LEMMA SearchFinds ==
  ASSUME NEW F, NEW g, Part(g, F), NEW f \in Fragment
  PROVE  \E m \in 0 .. Len(g) :
           /\ Cardinality({i \in DOMAIN g : ~(f.off < g[i].off)}) = m
           /\ \A i \in 1 .. m : g[i].off <= f.off
           /\ \A i \in m + 1 .. Len(g) : f.off < g[i].off
<1> DEFINE S == {i \in DOMAIN g : ~(f.off < g[i].off)}
           Later == {i \in DOMAIN g : f.off < g[i].off}
<1>1. g \in Seq(Fragment) /\ Len(g) \in Nat /\ DOMAIN g = 1 .. Len(g)
  BY DEF Part
<1>2. ASSUME NEW i \in DOMAIN g PROVE g[i].off \in Nat /\ f.off \in Nat
  <2>1. g[i] \in Fragment
    BY <1>1
  <2> QED
    BY <2>1, FragmentType
<1>3. ASSUME NEW m \in 0 .. Len(g),
             \A i \in 1 .. m : ~(f.off < g[i].off),
             \A i \in m + 1 .. Len(g) : f.off < g[i].off
      PROVE  /\ Cardinality(S) = m
             /\ \A i \in 1 .. m : g[i].off <= f.off
  <2>1. S = 1 .. m
    BY <1>1, <1>3
  <2>2. Cardinality(1 .. m) = m
    BY <1>1, FS_Interval
  <2>3. \A i \in 1 .. m : g[i].off <= f.off
    BY <1>1, <1>2, <1>3
  <2> QED
    BY <2>1, <2>2, <2>3
<1>4. CASE Later = {}
  <2>1. Len(g) \in 0 .. Len(g) /\ \A i \in Len(g) + 1 .. Len(g) : f.off < g[i].off
    BY <1>1
  <2>2. \A i \in 1 .. Len(g) : ~(f.off < g[i].off)
    BY <1>1, <1>4
  <2> QED
    BY <1>3, <2>1, <2>2
<1>5. CASE Later # {}
  <2>1. Later \subseteq Nat
    BY <1>1
  <2>2. PICK k \in Later : \A l \in Later : k <= l
    BY <1>5, <2>1, LeastNumber
  <2>3. k \in DOMAIN g /\ k \in 1 .. Len(g) /\ f.off < g[k].off
    BY <1>1
  <2>4. k - 1 \in 0 .. Len(g) /\ (k - 1) + 1 = k
    BY <1>1, <2>3
  <2>5. \A i \in 1 .. k - 1 : ~(f.off < g[i].off)
    <3>1. ASSUME NEW i \in 1 .. k - 1 PROVE i \in DOMAIN g /\ ~(k <= i)
      BY <1>1, <2>3
    <3> QED
      BY <2>2, <3>1
  <2>6. \A i \in k .. Len(g) : f.off < g[i].off
    <3>1. ASSUME NEW i \in k .. Len(g) PROVE i \in DOMAIN g /\ k <= i
      BY <1>1, <2>3
    <3>2. ASSUME NEW i \in k .. Len(g) PROVE g[k].off <= g[i].off
      BY <2>3, <3>1 DEF Part
    <3> QED
      BY <1>2, <2>3, <3>1, <3>2
  <2> QED
    BY <1>3, <2>4, <2>5, <2>6
<1> QED
  BY <1>4, <1>5

\* Where the elements of two sequences are when one follows the other.
LEMMA ConcatPositions ==
  ASSUME NEW T, NEW s \in Seq(T), NEW t \in Seq(T)
  PROVE  /\ s \o t \in Seq(T) /\ Len(s \o t) = Len(s) + Len(t)
         /\ \A i \in 1 .. Len(s) : (s \o t)[i] = s[i]
         /\ \A i \in Len(s) + 1 .. Len(s) + Len(t) : (s \o t)[i] = t[i - Len(s)]
OBVIOUS

\* What is inserted has its place, and what comes after it moves by one.
Inserted(h, g, m, e) ==
  /\ h \in Seq(Fragment) /\ Len(h) = Len(g) + 1
  /\ \A i \in 1 .. m : h[i] = g[i]
  /\ h[m + 1] = e
  /\ \A i \in m + 2 .. Len(g) + 1 : h[i] = g[i - 1]

LEMMA InsertAtPositions ==
  ASSUME NEW g \in Seq(Fragment), NEW m \in 0 .. Len(g), NEW e \in Fragment
  PROVE  Inserted(InsertAt(g, m + 1, e), g, m, e)
<1> PICK h : h = InsertAt(g, m + 1, e)
  OBVIOUS
<1> DEFINE a == SubSeq(g, 1, m)
           b == SubSeq(g, m + 1, Len(g))
<1>1. a \in Seq(Fragment) /\ Len(a) = m /\ \A i \in 1 .. m : a[i] = g[i]
  OBVIOUS
<1>2. b \in Seq(Fragment) /\ Len(b) = Len(g) - m /\ \A i \in 1 .. Len(g) - m : b[i] = g[m + i]
  OBVIOUS
<1>3. InsertAt(g, m + 1, e) = (a \o <<e>>) \o b
  <2>1. (m + 1) - 1 = m
    OBVIOUS
  <2> QED
    BY <2>1, Zenon DEF InsertAt
<1> HIDE DEF a, b
<1>4. /\ a \o <<e>> \in Seq(Fragment) /\ Len(a \o <<e>>) = m + 1
      /\ (\A i \in 1 .. m : (a \o <<e>>)[i] = g[i]) /\ (a \o <<e>>)[m + 1] = e
  BY <1>1
<1> DEFINE c == a \o <<e>>
<1>0. h = c \o b
  BY <1>3
<1> HIDE DEF c
<1>5. /\ c \in Seq(Fragment) /\ Len(c) = m + 1
      /\ (\A i \in 1 .. m : c[i] = g[i]) /\ c[m + 1] = e
  BY <1>4 DEF c
<1>6. h \in Seq(Fragment) /\ Len(h) = Len(g) + 1
  <2>1. c \o b \in Seq(Fragment) /\ Len(c \o b) = Len(c) + Len(b)
    BY <1>2, <1>5, ConcatPositions
  <2>2. (m + 1) + (Len(g) - m) = Len(g) + 1
    OBVIOUS
  <2> QED
    BY <1>0, <1>2, <1>5, <2>1, <2>2
<1>7. \A i \in 1 .. m + 1 : h[i] = c[i]
  <2>1. \A i \in 1 .. Len(c) : (c \o b)[i] = c[i]
    BY <1>2, <1>5, ConcatPositions
  <2> QED
    BY <1>0, <1>5, <2>1
<1>8. \A i \in m + 2 .. Len(g) + 1 : h[i] = b[i - (m + 1)] /\ i - (m + 1) \in 1 .. Len(g) - m
  <2>1. \A i \in Len(c) + 1 .. Len(c) + Len(b) : (c \o b)[i] = b[i - Len(c)]
    BY <1>2, <1>5, ConcatPositions
  <2>2. Len(c) + 1 = m + 2 /\ Len(c) + Len(b) = Len(g) + 1
    BY <1>2, <1>5
  <2>3. \A i \in m + 2 .. Len(g) + 1 : i - (m + 1) \in 1 .. Len(g) - m
    OBVIOUS
  <2> QED
    BY <1>0, <1>5, <2>1, <2>2, <2>3
<1>9. \A i \in m + 2 .. Len(g) + 1 : m + (i - (m + 1)) = i - 1
  OBVIOUS
<1>10. \A i \in m + 2 .. Len(g) + 1 : h[i] = g[i - 1]
  BY <1>2, <1>8, <1>9
<1>11. (\A i \in 1 .. m : h[i] = g[i]) /\ h[m + 1] = e
  BY <1>5, <1>7
<1> QED
  BY <1>6, <1>10, <1>11 DEF Inserted

\* A fragment inserted where the search ends leaves the others in order.
LEMMA InsertKeepsPart ==
  ASSUME NEW F, NEW g, Part(g, F), NEW q \in DOMAIN F, NEW f \in Fragment, f = F[q],
         NEW m \in 0 .. Len(g),
         \A i \in 1 .. m : g[i].off <= f.off,
         \A i \in m + 1 .. Len(g) : f.off < g[i].off,
         NEW h, h = InsertAt(g, m + 1, f)
  PROVE  Part(h, F)
<1>1. g \in Seq(Fragment) /\ Len(g) \in Nat /\ DOMAIN g = 1 .. Len(g)
  BY DEF Part
<1>2. ASSUME NEW i \in DOMAIN g PROVE g[i].off \in Nat /\ f.off \in Nat
  BY <1>1, FragmentType
<1>4. /\ \A i \in 1 .. m : g[i].off <= f.off
      /\ \A i \in m + 1 .. Len(g) : f.off < g[i].off
  OBVIOUS
<1>5. f = F[q]
  OBVIOUS
<1>7. /\ h \in Seq(Fragment) /\ Len(h) = Len(g) + 1
      /\ \A i \in 1 .. m : h[i] = g[i]
      /\ h[m + 1] = f
      /\ \A i \in m + 2 .. Len(g) + 1 : h[i] = g[i - 1]
  <2>1. Inserted(InsertAt(g, m + 1, f), g, m, f)
    BY <1>1, InsertAtPositions, Zenon
  <2>2. Inserted(h, g, m, f)
    BY <2>1, Zenon
  <2> QED
    BY <2>2, Zenon DEF Inserted
<1>8. h # << >> /\ DOMAIN h = 1 .. Len(g) + 1
  BY <1>1, <1>7
<1>9. ASSUME NEW i \in DOMAIN h PROVE \E r \in DOMAIN F : h[i] = F[r]
  <2>1. ASSUME NEW j \in DOMAIN g PROVE \E r \in DOMAIN F : g[j] = F[r]
    BY DEF Part
  <2>2. CASE i \in 1 .. m
    BY <1>1, <1>7, <2>1, <2>2
  <2>3. CASE i = m + 1
    BY <1>5, <1>7, <2>3
  <2>4. CASE i \in m + 2 .. Len(g) + 1
    <3>1. i - 1 \in DOMAIN g
      BY <1>1, <2>4
    <3> QED
      BY <1>7, <2>1, <2>4, <3>1
  <2> QED
    BY <1>1, <1>8, <2>2, <2>3, <2>4
<1>10. ASSUME NEW i \in DOMAIN h, NEW j \in DOMAIN h, i <= j PROVE h[i].off <= h[j].off
  <2>1. ASSUME NEW k \in DOMAIN g, NEW l \in DOMAIN g, k <= l PROVE g[k].off <= g[l].off
    BY <2>1 DEF Part
  <2>2. CASE i \in 1 .. m
    <3>1. i \in DOMAIN g /\ h[i] = g[i] /\ g[i].off <= f.off
      BY <1>1, <1>4, <1>7, <2>2
    <3>2. CASE j \in 1 .. m
      BY <1>1, <1>7, <1>10, <2>1, <3>1, <3>2
    <3>3. CASE j = m + 1
      BY <1>7, <3>1, <3>3
    <3>4. CASE j \in m + 2 .. Len(g) + 1
      <4>1. j - 1 \in DOMAIN g /\ h[j] = g[j - 1] /\ i <= j - 1
        BY <1>1, <1>7, <2>2, <3>4
      <4> QED
        BY <2>1, <3>1, <4>1
    <3> QED
      BY <1>1, <1>8, <3>2, <3>3, <3>4
  <2>3. CASE i = m + 1
    <3>1. CASE j = m + 1
      <4>1. f.off \in Nat
        BY <1>1, FragmentType
      <4> QED
        BY <1>7, <2>3, <3>1, <4>1
    <3>2. CASE j \in m + 2 .. Len(g) + 1
      <4>1. j - 1 \in DOMAIN g /\ h[j] = g[j - 1] /\ j - 1 \in m + 1 .. Len(g)
        BY <1>1, <1>7, <3>2
      <4>2. f.off < g[j - 1].off
        BY <1>4, <4>1
      <4> QED
        BY <1>2, <1>7, <2>3, <4>1, <4>2
    <3> QED
      BY <1>1, <1>8, <1>10, <2>3, <3>1, <3>2
  <2>4. CASE i \in m + 2 .. Len(g) + 1
    <3>1. /\ i - 1 \in DOMAIN g /\ h[i] = g[i - 1]
          /\ j - 1 \in DOMAIN g /\ h[j] = g[j - 1] /\ i - 1 <= j - 1
      <4>1. /\ j \in m + 2 .. Len(g) + 1 /\ i - 1 <= j - 1
            /\ i - 1 \in 1 .. Len(g) /\ j - 1 \in 1 .. Len(g)
        BY ONLY <1>1, m \in 0 .. Len(g), <1>8, i \in DOMAIN h, j \in DOMAIN h, <1>10, <2>4, SMT
      <4>2. h[i] = g[i - 1] /\ h[j] = g[j - 1]
        BY ONLY <1>7, <2>4, <4>1, Zenon
      <4> QED
        BY ONLY <1>1, <4>1, <4>2, Zenon
    <3> QED
      BY <2>1, <3>1
  <2> QED
    BY <1>1, <1>8, <2>2, <2>3, <2>4
<1> QED
  BY <1>7, <1>8, <1>9, <1>10 DEF Part

\* A fragment of the packet that arrives takes its place among the others.
LEMMA AddFragmentKeepsPart ==
  ASSUME NEW F, Chain(F), NEW g, Part(g, F), NEW q \in DOMAIN F
  PROVE  Part(AddFragment(g, F[q]), F)
<1>1. PICK f \in Fragment : f = F[q]
  BY DEF Chain
<1> DEFINE idx == Cardinality({i \in DOMAIN g : ~(f.off < g[i].off)}) + 1
<1>2. AddFragment(g, f) = IF idx <= Len(g) /\ g[idx].off = f.off THEN g ELSE InsertAt(g, idx, f)
  BY Zenon DEF AddFragment
<1>3. PICK m \in 0 .. Len(g) :
        /\ Cardinality({i \in DOMAIN g : ~(f.off < g[i].off)}) = m
        /\ \A i \in 1 .. m : g[i].off <= f.off
        /\ \A i \in m + 1 .. Len(g) : f.off < g[i].off
  BY SearchFinds
<1>4. Part(InsertAt(g, m + 1, f), F)
  BY <1>1, <1>3, InsertKeepsPart
<1>5. AddFragment(g, f) \in {g, InsertAt(g, m + 1, f)}
  BY <1>2, <1>3
<1> QED
  BY <1>1, <1>4, <1>5

----------------------------------------------------------------------------
(* The inductive invariant *)

\* f is a fragment of a packet that was sent, and the last one of its source to
\* have that identifier.
IsFragment(f) ==
  /\ f.src \in Sources
  /\ f.pkt \in DOMAIN sent[f.src]
  /\ \E q \in DOMAIN Fragments(f.src, f.pkt) : f = Fragments(f.src, f.pkt)[q]

IsCurrent(f) == f.pkt + Ids > Len(sent[f.src])

Recon == [src : Sources, id : Int, frags : Seq(Fragment)]

\* A reconstruction holds fragments of one packet, in order, and is not ready.
ReconOK(r) ==
  LET n == r.frags[1].pkt IN
  /\ n \in DOMAIN sent[r.src]
  /\ r.id = Id(n)
  /\ Part(r.frags, Fragments(r.src, n))
  /\ ~Ready(r.frags)

Good == {r \in Recon : ReconOK(r)}

TypeInv ==
  /\ mtu \in MTUs
  /\ sent \in [Sources -> Seq(Packet)]

NetInv == \A f \in net : IsFragment(f) /\ IsCurrent(f)

GotInv == got # << >> => \E s \in Sources : \E n \in DOMAIN sent[s] : got = Fragments(s, n)

IInv == TypeInv /\ NetInv /\ recons \in Seq(Good) /\ GotInv

\* The fragments of a packet that was sent, if it was not dropped.
LEMMA FragmentsAre ==
  ASSUME TypeInv, NEW s \in Sources, NEW n \in DOMAIN sent[s], Fragments(s, n) # << >>
  PROVE  /\ Chain(Fragments(s, n))
         /\ Names(Fragments(s, n), s, n)
         /\ Fits(Fragments(s, n))
         /\ Covers(Fragments(s, n), sent[s][n].len)
<1>1. sent[s] \in Seq(Packet)
  BY DEF TypeInv
<1>2. sent[s][n] \in Packet /\ n \in Nat \ {0}
  BY <1>1
<1> QED
  BY <1>2, FragmentsOfIsChain DEF TypeInv, Fragments

\* A fragment of a packet, and the packet it is of.
LEMMA FragmentIs ==
  ASSUME TypeInv, NEW f, IsFragment(f)
  PROVE  /\ Chain(Fragments(f.src, f.pkt))
         /\ Names(Fragments(f.src, f.pkt), f.src, f.pkt)
         /\ Fits(Fragments(f.src, f.pkt))
         /\ f \in Fragment
         /\ f.id = Id(f.pkt)
<1> DEFINE F == Fragments(f.src, f.pkt)
<1>1. PICK q \in DOMAIN F : f = F[q]
  BY Zenon DEF IsFragment
<1>2. F # << >>
  BY <1>1
<1>3. Chain(F) /\ Names(F, f.src, f.pkt) /\ Fits(F)
  BY <1>2, FragmentsAre DEF IsFragment
<1>4. F[q] \in Fragment
  BY <1>3 DEF Chain
<1>5. F[q].id = Id(f.pkt)
  BY <1>3 DEF Names
<1> QED
  BY <1>1, <1>3, <1>4, <1>5

\* A packet that was sent stays what it is.
Grown ==
  /\ mtu' = mtu
  /\ \A s \in Sources : \A n \in DOMAIN sent[s] : n \in DOMAIN sent'[s] /\ sent'[s][n] = sent[s][n]

\* The fragments of a packet that this step sends.
LEMMA FragmentsOfSent ==
  ASSUME mtu' = mtu, NEW s, NEW n, NEW p, sent'[s][n] = p
  PROVE  Fragments(s, n)' = FragmentsOf(s, n, p)
BY Zenon DEF Fragments, FragmentsOf, Cut, MaxPayload, Id

\* What was known of the packets stays true when more are sent.
LEMMA SameFragments ==
  ASSUME Grown, NEW s \in Sources, NEW n \in DOMAIN sent[s]
  PROVE  n \in DOMAIN sent'[s] /\ Fragments(s, n)' = Fragments(s, n)
<1>1. mtu' = mtu /\ n \in DOMAIN sent'[s] /\ sent'[s][n] = sent[s][n]
  BY DEF Grown
<1> QED
  BY <1>1, Zenon DEF Fragments, FragmentsOf, Cut, MaxPayload, Id

LEMMA StaysFragment ==
  ASSUME Grown, NEW f, IsFragment(f)
  PROVE  IsFragment(f)'
BY SameFragments, Zenon DEF IsFragment

LEMMA StaysGood == Grown => Good \subseteq Good'
<1> SUFFICES ASSUME Grown, NEW r \in Good PROVE r \in Good'
  OBVIOUS
<1> DEFINE n == r.frags[1].pkt
<1>1. r \in Recon /\ n \in DOMAIN sent[r.src] /\ r.id = Id(n)
      /\ Part(r.frags, Fragments(r.src, n)) /\ ~Ready(r.frags)
  BY Zenon DEF Good, ReconOK
<1>2. r.src \in Sources
  BY <1>1 DEF Recon
<1>3. n \in DOMAIN sent'[r.src] /\ Fragments(r.src, n)' = Fragments(r.src, n)
  BY <1>1, <1>2, SameFragments
<1>4. ReconOK(r)'
  BY <1>1, <1>3, Zenon DEF ReconOK
<1> QED
  BY <1>1, <1>4, Zenon DEF Good

LEMMA StaysGot == Grown /\ GotInv /\ got' = got => GotInv'
BY SameFragments, Zenon DEF GotInv

\* What is done to sequences keeps the kind of their elements.
LEMMA SeqOfMore ==
  ASSUME NEW S, NEW T, S \subseteq T, NEW q \in Seq(S)
  PROVE  q \in Seq(T)
OBVIOUS

LEMMA ChangedElements ==
  ASSUME NEW S, NEW q \in Seq(S), NEW e \in S
  PROVE  /\ Append(q, e) \in Seq(S)
         /\ \A j \in DOMAIN q : [q EXCEPT ![j] = e] \in Seq(S)
OBVIOUS

LEMMA RemoveAtElements ==
  ASSUME NEW S, NEW q \in Seq(S), NEW j \in DOMAIN q
  PROVE  RemoveAt(q, j) \in Seq(S)
<1>1. j \in 1 .. Len(q) /\ Len(q) \in Nat
  OBVIOUS
<1>2. SubSeq(q, 1, j - 1) \in Seq(S) /\ SubSeq(q, j + 1, Len(q)) \in Seq(S)
  BY <1>1
<1> QED
  BY <1>2, ConcatPositions DEF RemoveAt

LEMMA TailElements ==
  ASSUME NEW S, NEW q \in Seq(S), NEW k \in 0 .. Len(q)
  PROVE  /\ SubSeq(q, k + 1, Len(q)) \in Seq(S)
         /\ Len(SubSeq(q, k + 1, Len(q))) = Len(q) - k
         /\ \A j \in 1 .. Len(q) - k :
              /\ SubSeq(q, k + 1, Len(q))[j] = q[k + j]
              /\ k + j \in 1 .. Len(q)
              /\ ~(k + j <= k)
<1>1. k \in Nat /\ Len(q) \in Nat /\ k <= Len(q)
  OBVIOUS
<1>2. SubSeq(q, k + 1, Len(q)) \in Seq(S)
  BY <1>1
<1>3. Len(SubSeq(q, k + 1, Len(q))) = Len(q) - k
  BY <1>1
<1>4. ASSUME NEW j \in 1 .. Len(q) - k
      PROVE  /\ SubSeq(q, k + 1, Len(q))[j] = q[k + j]
             /\ k + j \in 1 .. Len(q)
             /\ ~(k + j <= k)
  BY <1>1
<1> QED
  BY <1>2, <1>3, <1>4

LEMMA ElementsOf ==
  ASSUME NEW S, NEW q \in Seq(S)
  PROVE  DOMAIN q \subseteq Nat /\ \A j \in DOMAIN q : q[j] \in S
OBVIOUS

LEMMA InitIInv == Init => IInv
<1> SUFFICES ASSUME Init PROVE IInv
  OBVIOUS
<1>1. sent \in [Sources -> Seq(Packet)]
  <2>1. << >> \in Seq(Packet)
    OBVIOUS
  <2> QED
    BY <2>1 DEF Init
<1>2. << >> \in Seq(Good)
  OBVIOUS
<1> QED
  BY <1>1, <1>2 DEF Init, IInv, TypeInv, NetInv, GotInv

----------------------------------------------------------------------------
(* A packet is sent *)

\* The identifier of the new packet is that of no fragment in the network, so
\* those there are still of the last packet with theirs.
LEMMA SendStep ==
  ASSUME IInv, NEW s \in Sources, NEW len \in Lengths, NEW dontFrag \in BOOLEAN,
         Send(s, len, dontFrag)
  PROVE  IInv'
<1>0. TypeInv /\ sent \in [Sources -> Seq(Packet)] /\ sent[s] \in Seq(Packet)
  BY DEF IInv, TypeInv
<1> PICK n \in Nat \ {0} : n = Len(sent[s]) + 1
  BY <1>0
<1> DEFINE p == [len |-> len, dontFrag |-> dontFrag]
<1>1. /\ \A f \in net : ~(f.src = s /\ f.id = Id(n))
      /\ sent' = [sent EXCEPT ![s] = Append(@, p)]
      /\ net' = net \union ToSet(FragmentsOf(s, n, p))
      /\ mtu' = mtu /\ recons' = recons /\ got' = got
  BY DEF Send
<1>2. p \in Packet
  BY DEF Packet
<1>3. /\ TypeInv /\ sent \in [Sources -> Seq(Packet)] /\ sent[s] \in Seq(Packet)
      /\ Len(sent[s]) \in Nat /\ n = Len(sent[s]) + 1
  BY <1>0
<1> HIDE DEF p
<1>4. /\ sent'[s] = Append(sent[s], p)
      /\ \A t \in Sources : t # s => sent'[t] = sent[t]
      /\ sent' \in [Sources -> Seq(Packet)]
  <2>1. Append(sent[s], p) \in Seq(Packet)
    BY <1>2, <1>3
  <2> QED
    BY <1>1, <1>3, <2>1
<1>5. TypeInv'
  BY <1>1, <1>3, <1>4 DEF TypeInv
<1>6. /\ Len(sent'[s]) = n /\ n \in DOMAIN sent'[s] /\ sent'[s][n] = p
      /\ \A m \in DOMAIN sent[s] : m \in DOMAIN sent'[s] /\ sent'[s][m] = sent[s][m]
  BY <1>2, <1>3, <1>4
<1>7. Grown
  BY <1>1, <1>4, <1>6, Zenon DEF Grown
<1>8. Fragments(s, n)' = FragmentsOf(s, n, p)
  BY <1>1, <1>6, FragmentsOfSent, Zenon
<1>9. ASSUME NEW f \in net PROVE IsFragment(f)' /\ IsCurrent(f)'
  <2>1. IsFragment(f) /\ IsCurrent(f)
    BY DEF IInv, NetInv
  <2>2. IsFragment(f)'
    BY <1>7, <2>1, StaysFragment
  <2>3. CASE f.src # s
    <3>1. sent'[f.src] = sent[f.src]
      BY <1>4, <2>1, <2>3 DEF IsFragment
    <3> QED
      BY <2>1, <2>2, <3>1 DEF IsCurrent
  <2>4. CASE f.src = s
    <3>1. f.id = Id(f.pkt) /\ f.pkt \in Nat \ {0}
      BY <1>3, <2>1, FragmentIs, FragmentType
    <3>2. Id(f.pkt) # Id(n)
      BY <1>1, <2>4, <3>1
    <3>3. Ids \in Nat \ {0}
      BY FragAssumption
    <3>4. f.pkt + Ids # n
      <4>1. CASE f.pkt + Ids = n
        <5>1. PICK a \in Int : a = n - 1
          <6>1. n - 1 \in Int
            OBVIOUS
          <6> QED
            BY <6>1, Zenon
        <5>2. (a - Ids) % Ids = a % Ids
          BY <3>3, ModOnceAround
        <5>3. a - Ids = f.pkt - 1
          BY <3>1, <3>3, <4>1, <5>1
        <5>4. Id(f.pkt) = Id(n)
          BY <5>1, <5>2, <5>3, Zenon DEF Id
        <5> QED
          BY <3>2, <5>4
      <4> QED
        BY <4>1
    <3>5. f.pkt + Ids > Len(sent[s]) /\ n = Len(sent[s]) + 1
      BY <1>3, <2>1, <2>4 DEF IsCurrent
    <3>6. f.pkt + Ids > n
      BY <1>3, <3>1, <3>3, <3>4, <3>5
    <3> QED
      BY <1>6, <2>2, <2>4, <3>6, Zenon DEF IsCurrent
  <2> QED
    BY <2>3, <2>4
<1>10. ASSUME NEW f \in ToSet(FragmentsOf(s, n, p)) PROVE IsFragment(f)' /\ IsCurrent(f)'
  <2> DEFINE F == FragmentsOf(s, n, p)
  <2>1. PICK q \in DOMAIN F : f = F[q]
    BY DEF ToSet
  <2>2. F # << >>
    BY <2>1
  <2>3. Names(F, s, n)
    BY <1>2, <1>3, <2>2, FragmentsOfIsChain DEF TypeInv
  <2>4. f.src = s /\ f.pkt = n
    BY <2>1, <2>3 DEF Names
  <2>5. IsFragment(f)'
    BY <1>6, <1>8, <2>1, <2>4, Zenon DEF IsFragment
  <2>6. n + Ids > n
    BY <1>3, FragAssumption
  <2>7. IsCurrent(f)'
    BY <1>6, <2>4, <2>6 DEF IsCurrent
  <2> QED
    BY <2>5, <2>7
<1>11. NetInv'
  BY <1>1, <1>9, <1>10 DEF NetInv
<1>12. recons' \in Seq(Good')
  BY <1>1, <1>7, StaysGood, SeqOfMore DEF IInv
<1>13. GotInv'
  BY <1>1, <1>7, StaysGot DEF IInv
<1> QED
  BY <1>5, <1>11, <1>12, <1>13 DEF IInv

----------------------------------------------------------------------------
(* A fragment arrives *)

\* The timeout and the network see to it that a reconstruction that is not stale
\* and a fragment in the network with its source and identifier are of the same
\* packet, although identifiers are used again.
LEMMA SamePacket ==
  ASSUME TypeInv, NEW r \in Good, ~Stale(r), NEW f, IsFragment(f), IsCurrent(f), Matches(r, f)
  PROVE  r.src = f.src /\ r.frags[1].pkt = f.pkt
<1>1. /\ r.src = f.src /\ r.src \in Sources /\ r.frags[1].pkt \in DOMAIN sent[r.src]
      /\ f.pkt \in DOMAIN sent[r.src]
  BY DEF Good, Recon, ReconOK, Matches, IsFragment
<1>2. Id(r.frags[1].pkt) = Id(f.pkt)
  <2>1. r.id = Id(r.frags[1].pkt) /\ r.id = f.id
    BY DEF Good, ReconOK, Matches
  <2> QED
    BY <2>1, FragmentIs
<1>3. sent[r.src] \in Seq(Packet)
  BY <1>1 DEF TypeInv
<1>4. PICK L \in Nat : L = Len(sent[r.src])
  BY <1>3
<1>5. DOMAIN sent[r.src] = 1 .. L
  BY <1>3, <1>4
<1>6. PICK a \in 1 .. L : a = r.frags[1].pkt
  BY <1>1, <1>5
<1>7. PICK b \in 1 .. L : b = f.pkt
  BY <1>1, <1>5
<1>8. ~(a + Ids <= L) /\ b + Ids > L
  BY <1>1, <1>4, <1>6, <1>7 DEF Stale, IsCurrent
<1>9. (a - 1) % Ids = (b - 1) % Ids
  BY <1>2, <1>6, <1>7, Zenon DEF Id
<1>10. Ids \in Nat \ {0}
  BY FragAssumption
<1>11. a - 1 \in Int /\ b - 1 \in Int /\ (a - 1) - (b - 1) < Ids /\ (b - 1) - (a - 1) < Ids
  BY <1>8, <1>10
<1>12. a - 1 = b - 1
  BY <1>9, <1>10, <1>11, CloseNumbersDiffer
<1>13. a = b
  BY <1>12
<1> QED
  BY <1>1, <1>6, <1>7, <1>13

\* The first fragment of a part is one of the packet's.
LEMMA PartIsOf ==
  ASSUME NEW F, NEW s, NEW n, Names(F, s, n), NEW g, Part(g, F)
  PROVE  g[1].src = s /\ g[1].pkt = n
<1>1. 1 \in DOMAIN g
  BY DEF Part
<1>2. PICK q \in DOMAIN F : g[1] = F[q]
  BY <1>1 DEF Part
<1> QED
  BY <1>2 DEF Names

\* A new reconstruction holds the fragment that arrived, and is not ready.
LEMMA NewIsGood ==
  ASSUME TypeInv, NEW f, IsFragment(f), f.more \/ f.off # 0
  PROVE  [src |-> f.src, id |-> f.id, frags |-> <<f>>] \in Good
<1> DEFINE F == Fragments(f.src, f.pkt)
           r == [src |-> f.src, id |-> f.id, frags |-> <<f>>]
<1>1. /\ f \in Fragment /\ f.id = Id(f.pkt)
      /\ f.src \in Sources /\ f.pkt \in DOMAIN sent[f.src]
  BY FragmentIs, Zenon DEF IsFragment
<1>2. /\ <<f>> \in Seq(Fragment) /\ Len(<<f>>) = 1 /\ DOMAIN <<f>> = {1} /\ <<f>>[1] = f
      /\ <<f>> # << >>
  BY <1>1
<1>3. PICK q \in DOMAIN F : f = F[q]
  BY Zenon DEF IsFragment
<1>4. f.off <= f.off
  BY <1>1, FragmentType
<1>5. Part(<<f>>, F)
  BY <1>2, <1>3, <1>4 DEF Part
<1>6. ~Ready(<<f>>)
  BY <1>2 DEF Ready
<1>7. r \in Recon /\ r.src = f.src /\ r.id = f.id /\ r.frags = <<f>> /\ r.frags[1].pkt = f.pkt
  BY <1>1, <1>2, FragmentType DEF Recon
<1> HIDE DEF r
<1>8. ReconOK(r)
  BY <1>1, <1>5, <1>6, <1>7, Zenon DEF ReconOK
<1>9. r \in Good
  BY <1>7, <1>8 DEF Good
<1> QED
  BY <1>9 DEF r

\* A reconstruction takes a fragment that matches: it is the packet that was
\* sent, or good still.
LEMMA AddedIsGood ==
  ASSUME TypeInv, NEW r \in Good, ~Stale(r), NEW f, IsFragment(f), IsCurrent(f), Matches(r, f),
         NEW g, g = AddFragment(r.frags, f)
  PROVE  /\ Ready(g) => g = Fragments(f.src, f.pkt)
         /\ ~Ready(g) => [r EXCEPT !.frags = g] \in Good
<1> DEFINE F == Fragments(f.src, f.pkt)
<1>1. r.src = f.src /\ r.frags[1].pkt = f.pkt
  BY SamePacket
<1>2. /\ r \in Recon /\ Part(r.frags, F) /\ r.id = Id(f.pkt)
      /\ f.src \in Sources /\ f.pkt \in DOMAIN sent[f.src]
  BY <1>1 DEF Good, ReconOK, IsFragment
<1>3. PICK q \in DOMAIN F : f = F[q]
  BY Zenon DEF IsFragment
<1>4. Chain(F) /\ Names(F, f.src, f.pkt)
  BY FragmentIs
<1>5. Part(g, F)
  BY <1>2, <1>3, <1>4, AddFragmentKeepsPart
<1>6. Ready(g) => g = F
  BY <1>4, <1>5, ReadyIsWhole
<1>7. g[1].pkt = f.pkt /\ g \in Seq(Fragment)
  BY <1>4, <1>5, PartIsOf DEF Part
<1>8. ASSUME ~Ready(g) PROVE [r EXCEPT !.frags = g] \in Good
  <2> DEFINE t == [r EXCEPT !.frags = g]
  <2>1. t \in Recon /\ t.src = f.src /\ t.id = Id(f.pkt) /\ t.frags = g
    BY <1>1, <1>2, <1>7 DEF Recon
  <2> HIDE DEF t
  <2>2. ReconOK(t)
    BY <1>2, <1>5, <1>7, <1>8, <2>1, Zenon DEF ReconOK
  <2>3. t \in Good
    BY <2>1, <2>2 DEF Good
  <2> QED
    BY <2>3 DEF t
<1> QED
  BY <1>6, <1>8

\* AddPacket drops what is stale, then starts a reconstruction, adds to one, or
\* completes it.
LEMMA AddPacketStep ==
  ASSUME IInv, NEW f \in net, f.more \/ f.off # 0, AddPacket(f), mtu' = mtu, sent' = sent
  PROVE  recons' \in Seq(Good) /\ (got' = got \/ got' = Fragments(f.src, f.pkt))
<1>1. TypeInv /\ IsFragment(f) /\ IsCurrent(f) /\ recons \in Seq(Good)
  BY DEF IInv, NetInv
<1> PICK k \in 0 .. Len(recons) :
    /\ DropOld(k)
    /\ LET live == SubSeq(recons, k + 1, Len(recons))
           hits == {j \in DOMAIN live : Matches(live[j], f)}
       IN \/ /\ hits = {}
             /\ recons' = Append(live, [src |-> f.src, id |-> f.id, frags |-> <<f>>])
             /\ UNCHANGED got
          \/ /\ hits # {}
             /\ LET j == CHOOSE i \in hits : \A h \in hits : i <= h
                    frags == AddFragment(live[j].frags, f)
                IN /\ Len(frags) <= MaxFragments
                   /\ \/ /\ Ready(frags)
                         /\ recons' = RemoveAt(live, j)
                         /\ got' = frags
                      \/ /\ ~Ready(frags)
                         /\ recons' = [live EXCEPT ![j].frags = frags]
                         /\ UNCHANGED got
  BY ONLY AddPacket(f), ZenonT(60) DEF AddPacket
<1> DEFINE live == SubSeq(recons, k + 1, Len(recons))
           hits == {j \in DOMAIN live : Matches(live[j], f)}
<1>2. live \in Seq(Good) /\ \A j \in DOMAIN live : k + j \in DOMAIN recons /\ live[j] = recons[k + j]
                                                 /\ ~(k + j <= k)
  <2>1. live \in Seq(Good) /\ Len(live) = Len(recons) - k
        /\ \A j \in 1 .. Len(recons) - k :
             live[j] = recons[k + j] /\ k + j \in 1 .. Len(recons) /\ ~(k + j <= k)
    BY ONLY <1>1, k \in 0 .. Len(recons), TailElements, Zenon
  <2>2. DOMAIN recons = 1 .. Len(recons)
    BY ONLY <1>1, SMT
  <2> HIDE DEF live
  <2>3. DOMAIN live = 1 .. Len(live)
    BY ONLY <2>1, SMT
  <2> QED
    BY ONLY <2>1, <2>2, <2>3, Zenon
<1>3. ASSUME NEW j \in DOMAIN live PROVE ~Stale(live[j]) /\ live[j] \in Good
  <2>1. k + j \in DOMAIN recons /\ live[j] = recons[k + j] /\ ~(k + j <= k)
    BY <1>2
  <2>2. Stale(recons[k + j]) => k + j <= k
    BY <2>1, Zenon DEF DropOld
  <2> HIDE DEF live
  <2>3. live[j] \in Good
    BY ONLY <1>2, j \in DOMAIN live, ElementsOf, Zenon
  <2>4. ~Stale(live[j])
    BY <2>1, <2>2, Zenon
  <2> QED
    BY <2>3, <2>4
<1>4. CASE /\ hits = {}
           /\ recons' = Append(live, [src |-> f.src, id |-> f.id, frags |-> <<f>>])
           /\ UNCHANGED got
  <2>1. [src |-> f.src, id |-> f.id, frags |-> <<f>>] \in Good
    BY <1>1, NewIsGood
  <2>2. Append(live, [src |-> f.src, id |-> f.id, frags |-> <<f>>]) \in Seq(Good)
    BY ONLY <1>2, <2>1, ChangedElements, Zenon
  <2> QED
    BY <1>4, <2>2, Zenon
<1>5. CASE hits # {}
  <2> DEFINE j == CHOOSE i \in hits : \A h \in hits : i <= h
             frags == AddFragment(live[j].frags, f)
  <2>1. j \in hits
    <3>1. hits \subseteq Nat
      <4>1. DOMAIN live \subseteq Nat
        BY ONLY <1>2, ElementsOf, Zenon
      <4> QED
        BY ONLY <4>1, Zenon
    <3>2. PICK i \in hits : \A h \in hits : i <= h
      BY ONLY <1>5, <3>1, LeastNumber, Zenon
    <3> QED
      BY ONLY <3>2, Zenon
  <2>2. j \in DOMAIN live /\ Matches(live[j], f)
    BY <2>1
  <2>3. \/ Ready(frags) /\ recons' = RemoveAt(live, j) /\ got' = frags
        \/ ~Ready(frags) /\ recons' = [live EXCEPT ![j].frags = frags] /\ got' = got
    BY <1>5, Zenon
  <2> HIDE DEF j, live
  <2>4. /\ Ready(frags) => frags = Fragments(f.src, f.pkt)
        /\ ~Ready(frags) => [live[j] EXCEPT !.frags = frags] \in Good
    BY <1>1, <1>3, <2>2, AddedIsGood
  <2> HIDE DEF frags
  <2>5. CASE Ready(frags)
    <3>1. RemoveAt(live, j) \in Seq(Good)
      BY ONLY <1>2, <2>2, RemoveAtElements, Zenon
    <3> QED
      BY ONLY <2>3, <2>4, <2>5, <3>1, Zenon
  <2>6. CASE ~Ready(frags)
    <3>1. recons' = [live EXCEPT ![j] = [live[j] EXCEPT !.frags = frags]] /\ got' = got
      BY <2>3, <2>6, Zenon
    <3> DEFINE t == [live[j] EXCEPT !.frags = frags]
    <3>2. t \in Good
      BY <2>4, <2>6
    <3> HIDE DEF t
    <3>3. [live EXCEPT ![j] = t] \in Seq(Good)
      BY ONLY <1>2, <2>2, <3>2, ChangedElements, Zenon
    <3> QED
      BY ONLY <3>1, <3>3, Zenon DEF t
  <2> QED
    BY <2>5, <2>6
<1> QED
  BY <1>4, <1>5

\* A fragment arrives; a packet in one piece goes past the reconstructions.
LEMMA DeliverStep ==
  ASSUME IInv, NEW f \in net, Deliver(f)
  PROVE  IInv'
<1>1. /\ TypeInv /\ IsFragment(f) /\ IsCurrent(f) /\ recons \in Seq(Good) /\ NetInv /\ GotInv
      /\ mtu' = mtu /\ sent' = sent /\ net' \subseteq net
  BY DEF IInv, NetInv, Deliver
<1>2. Grown
  BY <1>1, Zenon DEF Grown
<1>3. TypeInv'
  BY <1>1 DEF TypeInv
<1>4. NetInv'
  <2>1. ASSUME NEW h \in net' PROVE IsFragment(h)' /\ IsCurrent(h)'
    <3>1. IsFragment(h) /\ IsCurrent(h)
      BY <1>1 DEF NetInv
    <3>2. IsCurrent(h)'
      BY <1>1, <3>1, Zenon DEF IsCurrent
    <3> QED
      BY <1>2, <3>1, <3>2, StaysFragment
  <2> QED
    BY <2>1 DEF NetInv
<1>5. recons' \in Seq(Good) /\ (got' = got \/ got' = Fragments(f.src, f.pkt))
  <2>1. CASE (f.more \/ f.off # 0) /\ AddPacket(f)
    BY <1>1, <2>1, AddPacketStep
  <2>2. CASE ~f.more /\ f.off = 0 /\ got' = <<f>> /\ recons' = recons
    <3> DEFINE F == Fragments(f.src, f.pkt)
    <3>1. Chain(F)
      BY <1>1, FragmentIs
    <3>2. PICK q \in DOMAIN F : f = F[q]
      BY <1>1, Zenon DEF IsFragment
    <3> HIDE DEF F
    <3>3. /\ F \in Seq(Fragment) /\ Len(F) \in Nat \ {0} /\ DOMAIN F = 1 .. Len(F)
          /\ 1 \in DOMAIN F /\ F[1].off = 0
      BY <3>1 DEF Chain
    <3>4. q = Len(F)
      BY <2>2, <3>1, <3>2 DEF Chain
    <3>5. q = 1
      <4>1. At(F[q]) = At(F[1])
        BY <2>2, <3>2, <3>3 DEF At
      <4> QED
        BY <3>1, <3>3, <4>1, ChainOrder
    <3>6. F = <<f>>
      BY <3>2, <3>3, <3>4, <3>5
    <3> QED
      BY <1>1, <2>2, <3>6 DEF F
  <2> QED
    BY <2>1, <2>2 DEF Deliver
<1>6. recons' \in Seq(Good')
  BY <1>2, <1>5, StaysGood, SeqOfMore
<1>7. GotInv'
  <2>1. CASE got' = got
    BY <1>1, <1>2, <2>1, StaysGot
  <2>2. CASE got' = Fragments(f.src, f.pkt)
    <3>1. f.src \in Sources /\ f.pkt \in DOMAIN sent[f.src]
      BY <1>1 DEF IsFragment
    <3>2. f.pkt \in DOMAIN sent'[f.src] /\ Fragments(f.src, f.pkt)' = Fragments(f.src, f.pkt)
      BY <1>2, <3>1, SameFragments
    <3> QED
      BY <2>2, <3>1, <3>2, Zenon DEF GotInv
  <2> QED
    BY <1>5, <2>1, <2>2
<1> QED
  BY <1>3, <1>4, <1>6, <1>7 DEF IInv

\* A step that leaves all but the network, which may lose fragments.
LEMMA LoseStep ==
  ASSUME IInv, net' \subseteq net, UNCHANGED <<mtu, sent, recons, got>>
  PROVE  IInv'
<1>1. Grown
  BY Zenon DEF Grown
<1>2. TypeInv'
  BY DEF IInv, TypeInv
<1>3. NetInv'
  <2>1. ASSUME NEW h \in net' PROVE IsFragment(h)' /\ IsCurrent(h)'
    <3>1. IsFragment(h) /\ IsCurrent(h)
      BY DEF IInv, NetInv
    <3>2. IsCurrent(h)'
      BY <3>1, Zenon DEF IsCurrent
    <3> QED
      BY <1>1, <3>1, <3>2, StaysFragment
  <2> QED
    BY <2>1 DEF NetInv
<1>4. recons' \in Seq(Good')
  BY <1>1, StaysGood, SeqOfMore DEF IInv
<1>5. GotInv'
  BY <1>1, StaysGot DEF IInv
<1> QED
  BY <1>2, <1>3, <1>4, <1>5 DEF IInv

LEMMA NextIInv == IInv /\ [Next]_vars => IInv'
<1> SUFFICES ASSUME IInv, [Next]_vars PROVE IInv'
  OBVIOUS
<1>1. ASSUME NEW s \in Sources, NEW len \in Lengths, NEW dontFrag \in BOOLEAN,
             Send(s, len, dontFrag)
      PROVE  IInv'
  BY <1>1, SendStep
<1>2. ASSUME NEW f \in net, Deliver(f) PROVE IInv'
  BY <1>2, DeliverStep
<1>3. ASSUME NEW f \in net, Lose(f) PROVE IInv'
  BY <1>3, LoseStep DEF Lose
<1>4. CASE UNCHANGED vars
  BY <1>4, LoseStep DEF vars
<1> QED
  BY <1>1, <1>2, <1>3, <1>4 DEF Next

LEMMA Invariance == Spec => []IInv
BY InitIInv, NextIInv, PTL DEF Spec

----------------------------------------------------------------------------
(* The theorems *)

\* Whatever the lengths, the mtu and the unit of offsets are: no packet that an
\* ipv4Fragmenter sends is longer than the mtu, and of the bytes of a packet
\* each is in one of its fragments, and in no other.
THEOREM FragmentsAlwaysFitAndCover == Spec => []FragmentsFitAndCover
<1>1. IInv => FragmentsFitAndCover
  <2> SUFFICES ASSUME IInv PROVE FragmentsFitAndCover
    OBVIOUS
  <2>1. TypeInv /\ NetInv
    BY DEF IInv
  <2>2. ASSUME NEW f \in net PROVE Header + f.len <= mtu
    <3>1. IsFragment(f)
      BY <2>1 DEF NetInv
    <3>2. PICK q \in DOMAIN Fragments(f.src, f.pkt) : f = Fragments(f.src, f.pkt)[q]
      BY <3>1, Zenon DEF IsFragment
    <3> QED
      BY <2>1, <3>1, <3>2, FragmentIs, Zenon DEF Fits
  <2>3. ASSUME NEW s \in Sources, NEW n \in DOMAIN sent[s], Fragments(s, n) # << >>,
               NEW b \in 0 .. sent[s][n].len + MaxPayload
        PROVE  Cardinality({i \in DOMAIN Fragments(s, n) :
                              /\ Fragments(s, n)[i].off * Unit <= b
                              /\ b < Fragments(s, n)[i].off * Unit + Fragments(s, n)[i].len})
                 = IF b < sent[s][n].len THEN 1 ELSE 0
    <3> DEFINE F == Fragments(s, n)
               len == sent[s][n].len
               H == {i \in DOMAIN F : Holds(F[i], b)}
    <3>1. Covers(F, len)
      BY <2>1, <2>3, FragmentsAre
    <3>2. b \in Nat
      OBVIOUS
    <3> HIDE DEF F, len
    <3>3. CASE b < len
      <4>1. PICK i \in DOMAIN F : \A j \in DOMAIN F : Holds(F[j], b) <=> j = i
        BY <3>1, <3>2, <3>3 DEF Covers
      <4>2. H = {i}
        BY <4>1
      <4>3. Cardinality(H) = 1
        BY <4>2, FS_Singleton
      <4> QED
        BY <3>3, <4>3, Zenon DEF Holds, F, len
    <3>4. CASE ~(b < len)
      <4>1. H = {}
        BY <3>1, <3>2, <3>4 DEF Covers
      <4>2. Cardinality(H) = 0
        BY <4>1, FS_EmptySet
      <4> QED
        BY <3>4, <4>2, Zenon DEF Holds, F, len
    <3> QED
      BY <3>3, <3>4
  <2> QED
    BY <2>2, <2>3, Zenon DEF FragmentsFitAndCover
<1> QED
  BY <1>1, Invariance, PTL

\* Whatever the network loses, repeats and reorders, and although identifiers
\* wrap around: what ipv4Defragmenter delivers is all of one packet that was
\* sent, and nothing else.
THEOREM OnlyWholePacketsArrive == Spec => []OnlyWholePackets
<1>1. IInv => OnlyWholePackets
  <2> SUFFICES ASSUME IInv, got # << >> PROVE OnlyWholePackets
    BY DEF OnlyWholePackets
  <2>0. PICK s \in Sources : \E n \in DOMAIN sent[s] : got = Fragments(s, n)
    BY DEF IInv, GotInv
  <2>1. PICK n \in DOMAIN sent[s] : got = Fragments(s, n)
    BY <2>0
  <2>2. Chain(got) /\ Names(got, s, n)
    BY <2>1, FragmentsAre DEF IInv
  <2>3. 1 \in DOMAIN got
    BY <2>2 DEF Chain
  <2>4. got[1].src = s /\ got[1].pkt = n
    BY <2>2, <2>3 DEF Names
  <2> QED
    BY <2>1, <2>4, Zenon DEF OnlyWholePackets
<1> QED
  BY <1>1, Invariance, PTL

\* No packet of which every fragment has arrived, in whatever order, is kept
\* instead of delivered: sort.Search and the test for gaps miss none.
THEOREM CompletePacketsAreDelivered == Spec => []CompleteIsDelivered
<1>1. IInv => CompleteIsDelivered
  <2> SUFFICES ASSUME IInv, NEW j \in DOMAIN recons, IsInjective(recons[j].frags),
                      Complete(recons[j])
               PROVE  FALSE
    BY Zenon DEF CompleteIsDelivered
  <2>1. TypeInv /\ recons \in Seq(Good)
    BY DEF IInv
  <2>2. PICK r \in Good : r = recons[j]
    BY <2>1
  <2> DEFINE F == Fragments(r.src, r.frags[1].pkt)
  <2>3. /\ r.src \in Sources /\ r.frags[1].pkt \in DOMAIN sent[r.src]
        /\ Part(r.frags, F) /\ ~Ready(r.frags)
    BY DEF Good, Recon, ReconOK
  <2>4. F # << >>
    BY <2>3 DEF Part
  <2>5. Chain(F)
    BY <2>1, <2>3, <2>4, FragmentsAre
  <2>6. IsInjective(r.frags) /\ ToSet(r.frags) = ToSet(F)
    BY <2>2, Zenon DEF Complete
  <2> QED
    BY <2>3, <2>5, <2>6, WholeIsReady
<1> QED
  BY <1>1, Invariance, PTL
============================================================================

------------------------------ MODULE DnsProofs ------------------------------
(***************************************************************************)
(* Domain names are read right: NamesAgree of Formats, for bytes of any    *)
(* length and any content, any place in them, and any pointers there.      *)
(*                                                                         *)
(* The model says what readDomain, the walk of RFC 1035, FlattenSeq and    *)
(* ParseDomainName compute by recursive functions, which are CHOOSEn.      *)
(* First, such a function exists and is the only one (Recursion, and a     *)
(* rank for each), so that it satisfies its equations (ReadAtIs, WalkAtIs, *)
(* FlattenIs, SplitIs).  Then two inductions over the readers, in the      *)
(* order of where their data end and of how much of it is left:            *)
(*   what the code finds the walk finds, as long as the places it has      *)
(*   visited are Spent, behind which the code cannot come (CodeIsWalk);    *)
(*   what the walk finds and Validate accepts the code finds, as long as a *)
(*   reader ends at a pointer that the walk has followed, or with the data *)
(*   (Led, WalkIsCode).                                                    *)
(***************************************************************************)
EXTENDS Formats, FiniteSetTheorems, WellFoundedInduction, SequenceTheorems, TLAPS

Byte == 0 .. 255

\* A set of natural numbers has a least one.
LEMMA LeastNumber ==
  ASSUME NEW T, T \subseteq Nat, T # {}
  PROVE  \E n \in T : \A m \in T : n <= m
<1> DEFINE Less == {p \in Nat \X Nat : p[1] < p[2]}
<1>1. IsWellFoundedOn(Less, Nat)
  <2>1. IsWellFoundedOn(OpToRel(<, Nat), Nat)
    BY NatLessThanWellFounded
  <2>2. Less = OpToRel(<, Nat)
    BY Zenon DEF OpToRel
  <2> QED
    BY <2>1, <2>2
<1>2. PICK n \in T : \A m \in T : ~(<<m, n>> \in Less)
  BY <1>1, WFMin
<1>3. \A m \in T : ~(m < n)
  BY <1>2
<1> QED
  BY <1>3

\* Induction up to n, about the members of a set.
LEMMA UpTo ==
  ASSUME NEW n \in Nat, NEW S, 0 \in S, \A i \in 1 .. n : i - 1 \in S => i \in S
  PROVE  0 .. n \subseteq S
<1> DEFINE T == {i \in 0 .. n : i \notin S}
<1>1. ASSUME T # {} PROVE FALSE
  <2>1. T \subseteq Nat
    OBVIOUS
  <2>2. PICK i \in T : \A j \in T : i <= j
    BY ONLY <1>1, <2>1, LeastNumber, Zenon
  <2>3. i \in 0 .. n /\ i \notin S
    BY <2>2
  <2>4. i \in 1 .. n /\ i - 1 \in 0 .. n /\ ~(i <= i - 1)
    BY <2>3
  <2>5. i - 1 \in S
    BY <2>2, <2>4
  <2> QED
    BY <2>3, <2>4, <2>5
<1> QED
  BY <1>1

-----------------------------------------------------------------------------
(* Recursive functions *)

\* G says what a function f from S to V gives for an argument x, from what it gives for
\* arguments of a lower rank.
Recurses(S, V, N, rank, G) ==
  /\ V # {} /\ N \in Nat /\ rank \in [S -> 0 .. N]
  /\ G \in [[S -> V] \X S -> V]
  /\ \A f, g \in [S -> V], x \in S :
       (\A y \in S : rank[y] < rank[x] => f[y] = g[y]) => G[<<f, x>>] = G[<<g, x>>]

\* There is such a function.
HasFixed(S, V, G) == \E f \in [S -> V] : \A x \in S : f[x] = G[<<f, x>>]

\* What is said by recursion has one: the functions that are right up to a rank go on.
LEMMA Recursion ==
  ASSUME NEW S, NEW V, NEW N, NEW rank, NEW G, Recurses(S, V, N, rank, G)
  PROVE  HasFixed(S, V, G)
<1>0. /\ N \in Nat /\ rank \in [S -> 0 .. N]
      /\ G \in [[S -> V] \X S -> V]
      /\ \A f, g \in [S -> V], x \in S :
           (\A y \in S : rank[y] < rank[x] => f[y] = g[y]) => G[<<f, x>>] = G[<<g, x>>]
  BY Zenon DEF Recurses
<1>a. PICK v \in V : TRUE
  BY Zenon DEF Recurses
<1> DEFINE Upto(f, k) == \A x \in S : rank[x] < k => f[x] = G[<<f, x>>]
           T == {k \in 0 .. N + 1 : \E f \in [S -> V] : Upto(f, k)}
<1>1. 0 \in T
  <2>1. [x \in S |-> v] \in [S -> V]
    BY Zenon
  <2>2. \A x \in S : ~(rank[x] < 0)
    BY ONLY <1>0
  <2>3. Upto([x \in S |-> v], 0)
    BY <2>2, Zenon
  <2>4. 0 \in 0 .. N + 1
    BY ONLY <1>0
  <2> QED
    BY <2>1, <2>3, <2>4, Zenon
<1>2. ASSUME NEW k \in 1 .. N + 1, k - 1 \in T PROVE k \in T
  <2>1. PICK f \in [S -> V] : Upto(f, k - 1)
    BY <1>2
  <2> DEFINE g == [x \in S |-> IF rank[x] < k THEN G[<<f, x>>] ELSE f[x]]
  <2>2. g \in [S -> V]
    BY <1>0, Zenon
  <2>3. ASSUME NEW x \in S, rank[x] < k PROVE g[x] = G[<<g, x>>]
    <3>1. ASSUME NEW y \in S, rank[y] < rank[x] PROVE f[y] = g[y]
      <4>1. rank[y] < k - 1 /\ rank[y] < k
        <5>1. rank[x] \in 0 .. N /\ rank[y] \in 0 .. N /\ k \in Nat /\ N \in Nat
          BY ONLY <1>0, x \in S, y \in S, k \in 1 .. N + 1
        <5> QED
          BY ONLY <5>1, <2>3, <3>1
      <4>2. f[y] = G[<<f, y>>]
        BY <2>1, <4>1, Zenon
      <4>3. g[y] = G[<<f, y>>]
        BY <4>1, Zenon
      <4> QED
        BY <4>2, <4>3, Zenon
    <3>2. G[<<f, x>>] = G[<<g, x>>]
      BY <1>0, <2>2, <3>1, Zenon
    <3>3. g[x] = G[<<f, x>>]
      BY <2>3, Zenon
    <3> QED
      BY <3>2, <3>3, Zenon
  <2> HIDE DEF g
  <2>4. Upto(g, k)
    BY <2>3
  <2> QED
    BY <2>2, <2>4
<1> HIDE DEF T
<1>3. 0 .. N + 1 \subseteq T
  <2>1. N + 1 \in Nat
    BY <1>0
  <2> QED
    BY ONLY <2>1, <1>1, <1>2, UpTo, Zenon
<1>4. PICK f \in [S -> V] : Upto(f, N + 1)
  <2>1. N + 1 \in 0 .. N + 1
    BY ONLY <1>0
  <2> QED
    BY <1>3, <2>1, Zenon DEF T
<1>5. \A x \in S : rank[x] < N + 1
  BY ONLY <1>0
<1> QED
  BY <1>4, <1>5, Zenon DEF HasFixed

-----------------------------------------------------------------------------
(* The readers of names *)

Errors == {"none", "underflow", "pointer", "label", "name"}
Results == [err : Errors, value : Seq(Seq(Byte)), off : Nat]
Places(data) == (0 .. Len(data)) \X (0 .. Len(data))

\* What a reader returns.
Checked(r) == IF ~Failed(r) /\ ~Validate(r.value) THEN Fail("name") ELSE r

\* The cases of readDomain, of which f is what comes after.
PointerAt(f, data, end, off) ==
  LET ptr    == 256 * (data[off + 1] - 192) + data[off + 2]
      target == Checked(f[<<off, ptr>>])
  IN IF off + 1 >= end THEN Fail("underflow")
     ELSE IF ptr >= off \/ Failed(target) THEN Fail("pointer")
     ELSE Read(target.value, AfterPointer(off, target))

LabelAt(f, data, end, off) ==
  LET label == ReadN(SubSeq(data, 1, end), data[off + 1], off + 1)
      rest  == f[<<end, label.off>>]
  IN IF Failed(label) THEN label
     ELSE IF Failed(rest) THEN rest
     ELSE Read(<<label.value>> \o rest.value, rest.off)
\* Bytes that mean nothing, and lengths of labels.
IsReserved(b) == b \in 64 .. 191
IsLength(b) == b \in 1 .. 63

NameBody(f, data, end, off) ==
  CASE off >= end                             -> Fail("underflow")
    [] off < end /\ data[off + 1] >= 192      -> PointerAt(f, data, end, off)
    [] off < end /\ IsReserved(data[off + 1]) -> Fail("label")
    [] off < end /\ data[off + 1] = 0         -> Read(<< >>, off + 1)
    [] off < end /\ IsLength(data[off + 1])   -> LabelAt(f, data, end, off)

IsReader(f, data) == f = [place \in Places(data) |-> NameBody(f, data, place[1], place[2])]

ReadAt(data, end, off) == (CHOOSE f : IsReader(f, data))[<<end, off>>]

\* readDomain is the reader of all the data.
LEMMA DomainIs ==
  ASSUME NEW data, NEW start
  PROVE  readDomain(data, start) = Checked(ReadAt(data, Len(data), start))
  BY Zenon DEF readDomain, Checked, ReadAt, IsReader, NameBody, PointerAt, LabelAt, Places,
               IsReserved, IsLength

\* The cases are apart.
LEMMA BodyCases ==
  ASSUME NEW f, NEW data, NEW end \in Nat, NEW off \in Nat, NEW n \in Byte, n = data[off + 1]
  PROVE  /\ off >= end => NameBody(f, data, end, off) = Fail("underflow")
         /\ off < end /\ n >= 192 => NameBody(f, data, end, off) = PointerAt(f, data, end, off)
         /\ off < end /\ IsReserved(n) => NameBody(f, data, end, off) = Fail("label")
         /\ off < end /\ n = 0 => NameBody(f, data, end, off) = Read(<< >>, off + 1)
         /\ off < end /\ IsLength(n) => NameBody(f, data, end, off) = LabelAt(f, data, end, off)
<1> DEFINE A == n >= 192
           B == IsReserved(n)
           C == n = 0
           D == IsLength(n)
           E == off >= end
           F == off < end
<1>1. (A => ~B /\ ~C /\ ~D) /\ (B => ~C /\ ~D) /\ (C => ~D) /\ (E <=> ~F)
  BY DEF Byte, IsReserved, IsLength
<1>2. NameBody(f, data, end, off) =
        CASE E      -> Fail("underflow")
          [] F /\ A -> PointerAt(f, data, end, off)
          [] F /\ B -> Fail("label")
          [] F /\ C -> Read(<< >>, off + 1)
          [] F /\ D -> LabelAt(f, data, end, off)
  BY Zenon DEF NameBody
<1> HIDE DEF A, B, C, D, E, F
<1>3. (E => NameBody(f, data, end, off) = Fail("underflow"))
  BY <1>1, <1>2, Zenon
<1>4. (F /\ A => NameBody(f, data, end, off) = PointerAt(f, data, end, off))
  BY <1>1, <1>2, Zenon
<1>5. (F /\ B => NameBody(f, data, end, off) = Fail("label"))
  BY <1>1, <1>2, Zenon
<1>6. (F /\ C => NameBody(f, data, end, off) = Read(<< >>, off + 1))
  BY <1>1, <1>2, Zenon
<1>7. (F /\ D => NameBody(f, data, end, off) = LabelAt(f, data, end, off))
  BY <1>1, <1>2, Zenon
<1> QED
  BY <1>3, <1>4, <1>5, <1>6, <1>7, Zenon DEF A, B, C, D, E, F

\* What a reader makes of a byte that is neither a length nor a pointer, and of 0.
LEMMA BodyReserved ==
  ASSUME NEW f, NEW data, NEW end \in Nat, NEW off \in Nat, off < end,
         data[off + 1] \in Byte, IsReserved(data[off + 1])
  PROVE  NameBody(f, data, end, off) = Fail("label")
<1>1. PICK n \in Byte : n = data[off + 1] /\ IsReserved(n)
  OBVIOUS
<1>2. off < end /\ IsReserved(n) => NameBody(f, data, end, off) = Fail("label")
  BY <1>1, BodyCases, Zenon
<1> QED
  BY <1>1, <1>2, Zenon

\* What a reader makes of the byte 0.
LEMMA BodyZero ==
  ASSUME NEW f, NEW data, NEW end \in Nat, NEW off \in Nat, off < end,
         data[off + 1] \in Byte, data[off + 1] = 0
  PROVE  NameBody(f, data, end, off) = Read(<< >>, off + 1)
<1>1. PICK n \in Byte : n = data[off + 1] /\ n = 0
  OBVIOUS
<1> DEFINE A == data[off + 1] >= 192
           B == IsReserved(data[off + 1])
           D == IsLength(data[off + 1])
           E == off >= end
<1>2. ~A /\ ~B /\ ~D /\ ~E
  BY ONLY <1>1, end \in Nat, off \in Nat, off < end DEF IsReserved, IsLength
<1>3. NameBody(f, data, end, off) =
        CASE E                            -> Fail("underflow")
          [] off < end /\ A               -> PointerAt(f, data, end, off)
          [] off < end /\ B               -> Fail("label")
          [] off < end /\ data[off + 1] = 0 -> Read(<< >>, off + 1)
          [] off < end /\ D               -> LabelAt(f, data, end, off)
  BY Zenon DEF NameBody
<1> HIDE DEF A, B, D, E
<1> QED
  BY <1>2, <1>3, Zenon

\* A label and where it ends.
After(data, off) == off + 1 + data[off + 1]
LabelOf(data, off) == SubSeq(data, off + 2, After(data, off))

\* A label is read if it ends within the reader's data.
LEMMA LabelRead ==
  ASSUME NEW data \in Seq(Byte), NEW end \in 0 .. Len(data), NEW off \in Nat, off < end,
         IsLength(data[off + 1])
  PROVE  /\ After(data, off) \in Nat /\ off + 1 < After(data, off)
         /\ After(data, off) <= end =>
              /\ LabelOf(data, off) \in Seq(Byte)
              /\ Len(LabelOf(data, off)) = data[off + 1]
              /\ \A i \in 1 .. data[off + 1] : LabelOf(data, off)[i] = data[off + 1 + i]
         /\ ReadN(SubSeq(data, 1, end), data[off + 1], off + 1) =
              IF After(data, off) <= end THEN Read(LabelOf(data, off), After(data, off))
              ELSE Fail("underflow")
<1>0. PICK n \in 1 .. 63 : n = data[off + 1]
  BY Zenon DEF IsLength
<1>1. PICK m \in Nat : m = off + 1 + n
  OBVIOUS
<1>a. m = After(data, off)
  BY <1>0, <1>1, Zenon DEF After
<1>b. off + 1 < m /\ (off + 1) + n = m /\ (off + 1) + 1 = off + 2 /\ end \in Nat /\ end <= Len(data)
  BY <1>1
<1>2. PICK s : s = SubSeq(data, 1, end) /\ Len(s) = end
  <2>1. Len(SubSeq(data, 1, end)) = end
    BY ONLY data \in Seq(Byte), end \in 0 .. Len(data)
  <2> QED
    BY <2>1, Zenon
<1>3. CASE m <= end
  <2>1. SubSeq(s, (off + 1) + 1, (off + 1) + n) = SubSeq(data, off + 2, m)
    <3>1. /\ 1 \in 1 .. Len(data) /\ end \in 1 .. Len(data)
          /\ off + 2 \in 1 .. (end - 1) + 1 /\ m \in 1 .. (end - 1) + 1
      BY <1>b, <1>3
    <3>2. SubSeq(SubSeq(data, 1, end), off + 2, m) = SubSeq(data, 1 + (off + 2) - 1, 1 + m - 1)
      BY ONLY <3>1, data \in Seq(Byte), SubSeqOfSubSeq
    <3>3. 1 + (off + 2) - 1 = off + 2 /\ 1 + m - 1 = m /\ (off + 1) + 1 = off + 2
          /\ (off + 1) + n = m
      BY <1>b
    <3> QED
      BY <1>2, <3>2, <3>3, Zenon
  <2>2. /\ SubSeq(data, off + 2, m) \in Seq(Byte)
        /\ Len(SubSeq(data, off + 2, m)) = n
        /\ \A i \in 1 .. n : SubSeq(data, off + 2, m)[i] = data[off + 1 + i]
    <3>1. off + 2 \in Int /\ m \in Int /\ \A i \in off + 2 .. m : data[i] \in Byte
      BY <1>b, <1>3
    <3>2. /\ SubSeq(data, off + 2, m) \in Seq(Byte)
          /\ Len(SubSeq(data, off + 2, m)) = IF off + 2 <= m THEN m - (off + 2) + 1 ELSE 0
          /\ \A i \in 1 .. m - (off + 2) + 1 : SubSeq(data, off + 2, m)[i] = data[(off + 2) + i - 1]
      BY ONLY <3>1, SubSeqProperties
    <3>3. m - (off + 2) + 1 = n /\ off + 2 <= m /\ \A i \in 1 .. n : (off + 2) + i - 1 = off + 1 + i
      BY <1>1, <1>b
    <3> QED
      BY <3>2, <3>3, Zenon
  <2>3. ~((off + 1) + n > end) /\ off + 1 # end
    BY <1>b, <1>3
  <2>4. ReadN(s, n, off + 1) = Read(SubSeq(data, off + 2, m), m)
    BY <1>b, <1>2, <2>1, <2>3, Zenon DEF ReadN
  <2> QED
    BY <1>0, <1>a, <1>b, <1>2, <1>3, <2>2, <2>4, Zenon DEF LabelOf
<1>4. CASE ~(m <= end)
  <2>1. (off + 1) + n > end
    BY <1>b, <1>4
  <2>2. ReadN(s, n, off + 1) = Fail("underflow")
    BY <1>2, <2>1, Zenon DEF ReadN
  <2> QED
    BY <1>0, <1>a, <1>b, <1>2, <1>4, <2>2, Zenon
<1> QED
  BY <1>3, <1>4

\* The bytes of a label.
IsLabel(l, data, off) ==
  /\ l \in Seq(Byte) /\ Len(l) = data[off + 1]
  /\ \A i \in 1 .. data[off + 1] : l[i] = data[off + 1 + i]

\* A label that lies within the data is made of the bytes behind its length.
LEMMA LabelHasBytes ==
  ASSUME NEW data \in Seq(Byte), NEW end \in 0 .. Len(data), NEW off \in Nat, off < end,
         IsLength(data[off + 1]), After(data, off) <= end
  PROVE  IsLabel(LabelOf(data, off), data, off)
BY LabelRead, Zenon DEF IsLabel

\* What comes of reading, when it has the type of a result.
LEMMA ReadType ==
  ASSUME NEW v \in Seq(Seq(Byte)), NEW off \in Nat
  PROVE  Read(v, off) \in Results /\ ~Failed(Read(v, off))
  BY Zenon DEF Read, Results, Errors, Failed

\* A failure is a result.
LEMMA FailType ==
  ASSUME NEW e \in Errors
  PROVE  Fail(e) \in Results /\ (e # "none" => Failed(Fail(e)))
<1>1. << >> \in Seq(Seq(Byte)) /\ 0 \in Nat
  OBVIOUS
<1> QED
  BY <1>1, Zenon DEF Fail, Results, Failed

\* What is checked is a result: the same if its name is valid, and a failure if not.
LEMMA CheckedType ==
  ASSUME NEW r \in Results
  PROVE  /\ Checked(r) \in Results
         /\ Failed(Checked(r)) <=> Failed(r) \/ ~Validate(r.value)
         /\ ~Failed(Checked(r)) => Checked(r) = r
<1>1. "name" \in Errors /\ "name" # "none"
  BY DEF Errors
<1>2. Fail("name") \in Results /\ Failed(Fail("name"))
  BY <1>1, FailType, Zenon
<1> QED
  BY <1>2, Zenon DEF Checked

\* Where a pointer leads.
Target(data, off) == 256 * (data[off + 1] - 192) + data[off + 2]

\* A pointer leads to a number.
LEMMA TargetType ==
  ASSUME NEW data \in Seq(Byte), NEW off \in Nat, off + 1 < Len(data), data[off + 1] >= 192
  PROVE  Target(data, off) \in Nat
<1>1. off + 1 \in 1 .. Len(data) /\ off + 2 \in 1 .. Len(data)
  BY ONLY off \in Nat, off + 1 < Len(data), data \in Seq(Byte)
<1>2. PICK a \in Byte, b \in Byte : a = data[off + 1] /\ b = data[off + 2]
  BY <1>1, ElementOfSeq, Zenon
<1>3. a >= 192
  BY <1>2, Zenon
<1>4. 256 * (a - 192) + b \in Nat
  BY ONLY <1>3, a \in Byte, b \in Byte DEF Byte
<1> QED
  BY <1>2, <1>4, Zenon DEF Target

\* What a reader does at a pointer.
LEMMA PointerIs ==
  ASSUME NEW f, NEW data, NEW end, NEW off
  PROVE  PointerAt(f, data, end, off) =
           IF off + 1 >= end THEN Fail("underflow")
           ELSE IF Target(data, off) >= off \/ Failed(Checked(f[<<off, Target(data, off)>>]))
           THEN Fail("pointer")
           ELSE Read(Checked(f[<<off, Target(data, off)>>]).value, off + 2)
  BY Zenon DEF PointerAt, Target, AfterPointer

\* What a reader does at a label.
LEMMA LabelIs ==
  ASSUME NEW f, NEW data \in Seq(Byte), NEW end \in 0 .. Len(data), NEW off \in Nat, off < end,
         IsLength(data[off + 1])
  PROVE  LabelAt(f, data, end, off) =
           IF ~(After(data, off) <= end) THEN Fail("underflow")
           ELSE IF Failed(f[<<end, After(data, off)>>]) THEN f[<<end, After(data, off)>>]
           ELSE Read(<<LabelOf(data, off)>> \o f[<<end, After(data, off)>>].value,
                     f[<<end, After(data, off)>>].off)
<1> DEFINE m == After(data, off)
<1>1. CASE m <= end
  <2>1. ReadN(SubSeq(data, 1, end), data[off + 1], off + 1) = Read(LabelOf(data, off), m)
    BY <1>1, LabelRead, Zenon
  <2>2. /\ ~Failed(Read(LabelOf(data, off), m))
        /\ Read(LabelOf(data, off), m).value = LabelOf(data, off)
        /\ Read(LabelOf(data, off), m).off = m
    BY Zenon DEF Read, Failed
  <2> HIDE DEF m
  <2> QED
    BY <1>1, <2>1, <2>2, Zenon DEF LabelAt, m
<1>2. CASE ~(m <= end)
  <2>1. ReadN(SubSeq(data, 1, end), data[off + 1], off + 1) = Fail("underflow")
    BY <1>2, LabelRead, Zenon
  <2>2. Failed(Fail("underflow"))
    BY DEF Fail, Failed
  <2> QED
    BY <1>2, <2>1, <2>2, Zenon DEF LabelAt
<1> QED
  BY <1>1, <1>2

\* A byte of some data.
LEMMA ByteAt ==
  ASSUME NEW data \in Seq(Byte), NEW off \in Nat, off < Len(data)
  PROVE  data[off + 1] \in Byte /\ data[off + 1] \in Nat
<1>1. off + 1 \in 1 .. Len(data)
  BY ONLY off \in Nat, off < Len(data), data \in Seq(Byte)
<1>2. data[off + 1] \in Byte
  BY <1>1, ElementOfSeq, Zenon
<1>3. Byte \subseteq Nat
  BY DEF Byte
<1> QED
  BY <1>2, <1>3, Zenon

\* The cases of a byte.
LEMMA ByteCases ==
  ASSUME NEW n \in Byte
  PROVE  n >= 192 \/ IsReserved(n) \/ n = 0 \/ IsLength(n)
  BY DEF Byte, IsReserved, IsLength

\* What a reader finds is a result if what comes after is.
LEMMA BodyType ==
  ASSUME NEW data \in Seq(Byte), NEW f \in [Places(data) -> Results],
         NEW end \in 0 .. Len(data), NEW off \in 0 .. Len(data)
  PROVE  NameBody(f, data, end, off) \in Results
<1>0. end \in Nat /\ off \in Nat /\ end <= Len(data) /\ (off >= end \/ off < end)
  OBVIOUS
<1>1. CASE off >= end
  <2>1. NameBody(f, data, end, off) = Fail("underflow")
    <3>1. CASE off < Len(data)
      BY <1>0, <1>1, <3>1, ByteAt, BodyCases, Zenon
    <3>2. CASE ~(off < Len(data))
      <4>1. ~(off < end)
        BY <1>0, <1>1
      <4> QED
        BY <1>1, <4>1, Zenon DEF NameBody
    <3> QED
      BY <3>1, <3>2
  <2>2. "underflow" \in Errors
    BY DEF Errors
  <2> QED
    BY <2>1, <2>2, FailType, Zenon
<1>2. CASE off < end
  <2>0. off < Len(data)
    BY <1>0, <1>2
  <2>1. PICK n \in Byte : n = data[off + 1]
    BY <1>0, <2>0, ByteAt, Zenon
  <2>2. CASE n >= 192
    <3>1. NameBody(f, data, end, off) = PointerAt(f, data, end, off)
      BY <1>0, <1>2, <2>1, <2>2, BodyCases, Zenon
    <3>2. CASE off + 1 >= end
      <4>1. PointerAt(f, data, end, off) = Fail("underflow") /\ "underflow" \in Errors
        BY <3>2, PointerIs, Zenon DEF Errors
      <4> QED
        BY <3>1, <4>1, FailType, Zenon
    <3>3. CASE ~(off + 1 >= end)
      <4>1. off + 1 < Len(data)
        BY <1>0, <3>3
      <4>2. PICK ptr \in Nat : ptr = Target(data, off)
        BY <1>0, <2>1, <2>2, <4>1, TargetType, Zenon
      <4>3. "pointer" \in Errors /\ off + 2 \in Nat
        BY <1>0 DEF Errors
      <4>4. CASE ptr >= off \/ Failed(Checked(f[<<off, ptr>>]))
        <5>1. PointerAt(f, data, end, off) = Fail("pointer")
          BY <3>3, <4>2, <4>4, PointerIs, Zenon
        <5> QED
          BY <3>1, <4>3, <5>1, FailType, Zenon
      <4>5. CASE ~(ptr >= off \/ Failed(Checked(f[<<off, ptr>>])))
        <5>1. PointerAt(f, data, end, off) = Read(Checked(f[<<off, ptr>>]).value, off + 2)
          BY <3>3, <4>2, <4>5, PointerIs, Zenon
        <5>2. ptr \in 0 .. Len(data)
          BY <1>0, <4>5
        <5>3. f[<<off, ptr>>] \in Results
          BY <5>2, Zenon DEF Places
        <5>4. Checked(f[<<off, ptr>>]) \in Results
          BY <5>3, CheckedType, Zenon
        <5>5. Checked(f[<<off, ptr>>]).value \in Seq(Seq(Byte))
          BY <5>4, Zenon DEF Results
        <5> QED
          BY <3>1, <4>3, <5>1, <5>5, ReadType, Zenon
      <4> QED
        BY <4>4, <4>5
    <3> QED
      BY <3>2, <3>3
  <2>3. CASE IsReserved(n)
    <3>1. data[off + 1] \in Byte /\ IsReserved(data[off + 1])
      BY <2>1, <2>3, Zenon
    <3>2. NameBody(f, data, end, off) = Fail("label")
      BY ONLY <1>0, <1>2, <3>1, BodyReserved, Zenon
    <3>3. "label" \in Errors
      BY DEF Errors
    <3> QED
      BY <3>2, <3>3, FailType, Zenon
  <2>4. CASE n = 0
    <3>1. NameBody(f, data, end, off) = Read(<< >>, off + 1)
      <4>1. data[off + 1] \in Byte /\ data[off + 1] = 0
        BY <2>1, <2>4, Zenon
      <4> QED
        BY ONLY <1>0, <1>2, <4>1, BodyZero, Zenon
    <3>2. << >> \in Seq(Seq(Byte)) /\ off + 1 \in Nat
      BY <1>0
    <3> QED
      BY <3>1, <3>2, ReadType, Zenon
  <2>5. CASE IsLength(n)
    <3>1. NameBody(f, data, end, off) = LabelAt(f, data, end, off)
      BY <1>0, <1>2, <2>1, <2>5, BodyCases, Zenon
    <3>2. PICK m \in Nat : m = After(data, off)
      BY <1>0, <1>2, <2>1, <2>5, LabelRead, Zenon
    <3>3. CASE ~(m <= end)
      <4>1. LabelAt(f, data, end, off) = Fail("underflow") /\ "underflow" \in Errors
        BY <1>0, <1>2, <2>1, <2>5, <3>2, <3>3, LabelIs, Zenon DEF Errors
      <4> QED
        BY <3>1, <4>1, FailType, Zenon
    <3>4. CASE m <= end
      <4>1. m \in 0 .. Len(data)
        BY <1>0, <3>4
      <4>2. PICK r \in Results : r = f[<<end, m>>]
        BY <4>1, Zenon DEF Places
      <4>3. LabelAt(f, data, end, off) =
              IF Failed(r) THEN r ELSE Read(<<LabelOf(data, off)>> \o r.value, r.off)
        BY <1>0, <1>2, <2>1, <2>5, <3>2, <3>4, <4>2, LabelIs, Zenon
      <4>4. PICK l \in Seq(Byte), v \in Seq(Seq(Byte)), o \in Nat :
              l = LabelOf(data, off) /\ v = r.value /\ o = r.off
        <5>1. LabelOf(data, off) \in Seq(Byte)
          BY <1>0, <1>2, <2>1, <2>5, <3>2, <3>4, LabelRead, Zenon
        <5> QED
          BY <5>1, Zenon DEF Results
      <4>5. <<l>> \o v \in Seq(Seq(Byte))
        BY ONLY l \in Seq(Byte), v \in Seq(Seq(Byte))
      <4>6. Read(<<l>> \o v, o) \in Results
        BY <4>5, ReadType, Zenon
      <4> QED
        BY <3>1, <4>3, <4>4, <4>6, Zenon
    <3> QED
      BY <3>3, <3>4
  <2> QED
    BY <2>2, <2>3, <2>4, <2>5, ByteCases, Zenon
<1> QED
  BY <1>0, <1>1, <1>2

\* It depends on what is before it, for a reader of less data, and on what is behind
\* it, for the same reader.
SameAround(f, g, data, end, off) ==
  /\ \A ptr \in 0 .. Len(data) : ptr < off /\ off < end => f[<<off, ptr>>] = g[<<off, ptr>>]
  /\ \A m \in 0 .. Len(data) : off < m => f[<<end, m>>] = g[<<end, m>>]

SameBody(f, g, data, end, off) == NameBody(f, data, end, off) = NameBody(g, data, end, off)

\* Two functions that agree around a place are read the same there.
LEMMA BodyLocal ==
  ASSUME NEW data \in Seq(Byte), NEW f, NEW g, NEW end \in 0 .. Len(data),
         NEW off \in 0 .. Len(data), SameAround(f, g, data, end, off)
  PROVE  SameBody(f, g, data, end, off)
<1> SUFFICES NameBody(f, data, end, off) = NameBody(g, data, end, off)
  BY Zenon DEF SameBody
<1>0. end \in Nat /\ off \in Nat /\ end <= Len(data) /\ (off >= end \/ off < end)
  OBVIOUS
<1>1. CASE off >= end
  <2>1. ~(off < end)
    BY <1>0, <1>1
  <2> QED
    BY <1>1, <2>1, Zenon DEF NameBody
<1>2. CASE off < end
  <2>0. off < Len(data)
    BY <1>0, <1>2
  <2>1. PICK n \in Byte : n = data[off + 1]
    BY <1>0, <2>0, ByteAt, Zenon
  <2>2. CASE n >= 192
    <3>1. /\ NameBody(f, data, end, off) = PointerAt(f, data, end, off)
          /\ NameBody(g, data, end, off) = PointerAt(g, data, end, off)
      BY <1>0, <1>2, <2>1, <2>2, BodyCases, Zenon
    <3>2. CASE off + 1 >= end
      <4>1. /\ PointerAt(f, data, end, off) = Fail("underflow")
            /\ PointerAt(g, data, end, off) = Fail("underflow")
        BY <3>2, PointerIs, Zenon
      <4> QED
        BY <3>1, <4>1, Zenon
    <3>3. CASE ~(off + 1 >= end)
      <4>1. off + 1 < Len(data)
        BY <1>0, <3>3
      <4>2. PICK ptr \in Nat : ptr = Target(data, off)
        BY <1>0, <2>1, <2>2, <4>1, TargetType, Zenon
      <4>3. CASE ptr >= off
        <5>1. PointerAt(f, data, end, off) = Fail("pointer")
          BY <3>3, <4>2, <4>3, PointerIs, Zenon
        <5>2. PointerAt(g, data, end, off) = Fail("pointer")
          BY <3>3, <4>2, <4>3, PointerIs, Zenon
        <5> QED
          BY <3>1, <5>1, <5>2, Zenon
      <4>4. CASE ~(ptr >= off)
        <5>1. ptr \in 0 .. Len(data) /\ ptr < off
          BY <1>0, <4>4
        <5>2. f[<<off, ptr>>] = g[<<off, ptr>>]
          BY <1>2, <5>1, Zenon DEF SameAround
        <5>3. PointerAt(f, data, end, off) =
                IF Failed(Checked(f[<<off, ptr>>])) THEN Fail("pointer")
                ELSE Read(Checked(f[<<off, ptr>>]).value, off + 2)
          BY <3>3, <4>2, <4>4, PointerIs, Zenon
        <5>4. PointerAt(g, data, end, off) =
                IF Failed(Checked(g[<<off, ptr>>])) THEN Fail("pointer")
                ELSE Read(Checked(g[<<off, ptr>>]).value, off + 2)
          BY <3>3, <4>2, <4>4, PointerIs, Zenon
        <5> QED
          BY <3>1, <5>2, <5>3, <5>4, Zenon
      <4> QED
        BY <4>3, <4>4
    <3> QED
      BY <3>2, <3>3
  <2>3. CASE IsReserved(n)
    <3>0. data[off + 1] \in Byte /\ IsReserved(data[off + 1])
      BY <2>1, <2>3, Zenon
    <3>1. NameBody(f, data, end, off) = Fail("label")
      BY ONLY <1>0, <1>2, <3>0, BodyReserved, Zenon
    <3>2. NameBody(g, data, end, off) = Fail("label")
      BY ONLY <1>0, <1>2, <3>0, BodyReserved, Zenon
    <3> QED
      BY <3>1, <3>2, Zenon
  <2>4. CASE n = 0
    <3>0. data[off + 1] \in Byte /\ data[off + 1] = 0
      BY <2>1, <2>4, Zenon
    <3>1. NameBody(f, data, end, off) = Read(<< >>, off + 1)
      BY ONLY <1>0, <1>2, <3>0, BodyZero, Zenon
    <3>2. NameBody(g, data, end, off) = Read(<< >>, off + 1)
      BY ONLY <1>0, <1>2, <3>0, BodyZero, Zenon
    <3> QED
      BY <3>1, <3>2, Zenon
  <2>5. CASE IsLength(n)
    <3>1. /\ NameBody(f, data, end, off) = LabelAt(f, data, end, off)
          /\ NameBody(g, data, end, off) = LabelAt(g, data, end, off)
      BY <1>0, <1>2, <2>1, <2>5, BodyCases, Zenon
    <3>2. PICK m \in Nat : m = After(data, off) /\ off + 1 < m
      BY <1>0, <1>2, <2>1, <2>5, LabelRead, Zenon
    <3>3. CASE ~(m <= end)
      <4>1. LabelAt(f, data, end, off) = Fail("underflow")
        BY <1>0, <1>2, <2>1, <2>5, <3>2, <3>3, LabelIs, Zenon
      <4>2. LabelAt(g, data, end, off) = Fail("underflow")
        BY <1>0, <1>2, <2>1, <2>5, <3>2, <3>3, LabelIs, Zenon
      <4> QED
        BY <3>1, <4>1, <4>2, Zenon
    <3>4. CASE m <= end
      <4>1. m \in 0 .. Len(data) /\ off < m
        BY <1>0, <3>2, <3>4
      <4>2. f[<<end, m>>] = g[<<end, m>>]
        BY <4>1, Zenon DEF SameAround
      <4> QED
        <5>1. LabelAt(f, data, end, off) =
                IF Failed(f[<<end, m>>]) THEN f[<<end, m>>]
                ELSE Read(<<LabelOf(data, off)>> \o f[<<end, m>>].value, f[<<end, m>>].off)
          BY <1>0, <1>2, <2>1, <2>5, <3>2, <3>4, LabelIs, Zenon
        <5>2. LabelAt(g, data, end, off) =
                IF Failed(g[<<end, m>>]) THEN g[<<end, m>>]
                ELSE Read(<<LabelOf(data, off)>> \o g[<<end, m>>].value, g[<<end, m>>].off)
          BY <1>0, <1>2, <2>1, <2>5, <3>2, <3>4, LabelIs, Zenon
        <5> QED
          BY <3>1, <4>2, <5>1, <5>2, Zenon
    <3> QED
      BY <3>3, <3>4
  <2> QED
    BY <2>2, <2>3, <2>4, <2>5, ByteCases, Zenon
<1> QED
  BY <1>0, <1>1, <1>2

\* Places in the order in which they depend on each other: a reader of less data comes
\* first, and then what is further behind.
Rank(n, end, off) == end * (n + 1) + (n - off)

\* The rank of a reader at a place is bounded.
LEMMA RankType ==
  ASSUME NEW n \in Nat, NEW end \in 0 .. n, NEW off \in 0 .. n
  PROVE  Rank(n, end, off) \in 0 .. n * (n + 1) + n
<1>1. end * (n + 1) \in Nat
  OBVIOUS
<1>2. end * (n + 1) <= n * (n + 1)
  OBVIOUS
<1> QED
  BY <1>1, <1>2 DEF Rank

\* It falls as the reader goes on,
LEMMA RankBehind ==
  ASSUME NEW n \in Nat, NEW end \in 0 .. n, NEW off \in 0 .. n, NEW m \in 0 .. n, off < m
  PROVE  Rank(n, end, m) < Rank(n, end, off)
<1>1. end * (n + 1) \in Nat
  OBVIOUS
<1> QED
  BY <1>1 DEF Rank

\* and as a pointer gets a reader of its own.
LEMMA RankBefore ==
  ASSUME NEW n \in Nat, NEW end \in 0 .. n, NEW off \in 0 .. n, NEW ptr \in 0 .. n, off < end
  PROVE  Rank(n, off, ptr) < Rank(n, end, off)
<1>1. PICK d \in Nat : end = off + 1 + d
  <2>1. end - off - 1 \in Nat /\ end = off + 1 + (end - off - 1)
    OBVIOUS
  <2> QED
    BY <2>1
<1>2. end * (n + 1) = off * (n + 1) + (n + 1) + d * (n + 1)
  BY <1>1
<1>3. d * (n + 1) \in Nat /\ off * (n + 1) \in Nat
  OBVIOUS
<1> QED
  BY <1>2, <1>3 DEF Rank

\* The parts of a pair.
LEMMA PairParts ==
  ASSUME NEW A, NEW B, NEW p \in A \X B
  PROVE  p[1] \in A /\ p[2] \in B /\ \E a \in A, b \in B : p = <<a, b>>
  OBVIOUS

\* There is a reader.
LEMMA ReaderExists ==
  ASSUME NEW data \in Seq(Byte)
  PROVE  \E f \in [Places(data) -> Results] : IsReader(f, data)
<1>1. PICK n \in Nat : n = Len(data)
  OBVIOUS
<1> DEFINE S == Places(data)
           F == [S -> Results]
           N == n * (n + 1) + n
           rank == [p \in S |-> Rank(n, p[1], p[2])]
           G == [q \in F \X S |-> NameBody(q[1], data, q[2][1], q[2][2])]
<1>2. S = (0 .. n) \X (0 .. n)
  BY <1>1, Zenon DEF Places
<1>3. N \in Nat
  OBVIOUS
<1>4. rank \in [S -> 0 .. N]
  <2>1. ASSUME NEW p \in S PROVE Rank(n, p[1], p[2]) \in 0 .. N
    <3>1. p[1] \in 0 .. n /\ p[2] \in 0 .. n
      BY <1>2, PairParts, Zenon
    <3> QED
      BY <3>1, RankType, Zenon
  <2> QED
    BY <2>1, Zenon
<1>5. G \in [F \X S -> Results]
  <2>1. ASSUME NEW q \in F \X S PROVE NameBody(q[1], data, q[2][1], q[2][2]) \in Results
    <3>1. q[1] \in F /\ q[2][1] \in 0 .. Len(data) /\ q[2][2] \in 0 .. Len(data)
      BY Zenon DEF Places
    <3> QED
      BY <3>1, BodyType, Zenon
  <2> QED
    BY <2>1, Zenon
<1>6. ASSUME NEW f \in F, NEW g \in F, NEW p \in S,
             \A y \in S : rank[y] < rank[p] => f[y] = g[y]
      PROVE  G[<<f, p>>] = G[<<g, p>>]
  <2>1. PICK end \in 0 .. n, off \in 0 .. n : p = <<end, off>>
    <3>1. p \in (0 .. n) \X (0 .. n)
      BY <1>2, Zenon
    <3> QED
      BY ONLY <3>1
  <2>2. ASSUME NEW ptr \in 0 .. n, ptr < off, off < end PROVE f[<<off, ptr>>] = g[<<off, ptr>>]
    <3>1. <<off, ptr>> \in S /\ rank[<<off, ptr>>] = Rank(n, off, ptr)
      BY <1>2, Zenon
    <3>2. rank[p] = Rank(n, end, off)
      BY <1>2, <2>1, Zenon
    <3>3. Rank(n, off, ptr) < Rank(n, end, off)
      BY <2>2, RankBefore, Zenon
    <3> QED
      BY <1>6, <3>1, <3>2, <3>3, Zenon
  <2>3. ASSUME NEW m \in 0 .. n, off < m PROVE f[<<end, m>>] = g[<<end, m>>]
    <3>1. <<end, m>> \in S /\ rank[<<end, m>>] = Rank(n, end, m)
      BY <1>2, Zenon
    <3>2. rank[p] = Rank(n, end, off)
      BY <1>2, <2>1, Zenon
    <3>3. Rank(n, end, m) < Rank(n, end, off)
      BY <2>3, RankBehind, Zenon
    <3> QED
      BY <1>6, <3>1, <3>2, <3>3, Zenon
  <2>4. NameBody(f, data, end, off) = NameBody(g, data, end, off)
    <3>1. end \in 0 .. Len(data) /\ off \in 0 .. Len(data)
      BY <1>1, Zenon
    <3>2. \A ptr \in 0 .. Len(data) : ptr < off /\ off < end => f[<<off, ptr>>] = g[<<off, ptr>>]
      BY <1>1, <2>2, Zenon
    <3>3. \A m \in 0 .. Len(data) : off < m => f[<<end, m>>] = g[<<end, m>>]
      BY <1>1, <2>3, Zenon
    <3>4. SameAround(f, g, data, end, off)
      BY ONLY <3>2, <3>3, Zenon DEF SameAround
    <3> HIDE DEF S, F, N, rank, G
    <3>5. SameBody(f, g, data, end, off)
      BY ONLY data \in Seq(Byte), <3>1, <3>4, BodyLocal, Zenon
    <3> QED
      BY <3>5, Zenon DEF SameBody
  <2>5. /\ G[<<f, p>>] = NameBody(f, data, end, off)
        /\ G[<<g, p>>] = NameBody(g, data, end, off)
    BY <2>1, Zenon
  <2> QED
    BY <2>4, <2>5, Zenon
<1>7. Fail("name") \in Results
  BY FailType, Zenon DEF Errors
<1> HIDE DEF S, N, rank, G
<1>8. PICK f \in F : \A x \in S : f[x] = G[<<f, x>>]
  <2>1. \A h, g \in [S -> Results], x \in S :
          (\A y \in S : rank[y] < rank[x] => h[y] = g[y]) => G[<<h, x>>] = G[<<g, x>>]
    BY <1>6, Zenon
  <2> HIDE DEF F
  <2>2. F = [S -> Results]
    BY Zenon DEF F
  <2>3. G \in [[S -> Results] \X S -> Results]
    BY <1>5, <2>2, Zenon
  <2>4. \E h \in [S -> Results] : \A x \in S : h[x] = G[<<h, x>>]
    <3>1. Recurses(S, Results, N, rank, G)
      BY <1>3, <1>4, <1>7, <2>1, <2>3, Zenon DEF Recurses
    <3>2. HasFixed(S, Results, G)
      BY ONLY <3>1, Recursion, Zenon
    <3> QED
      BY ONLY <3>2, Zenon DEF HasFixed
  <2> QED
    BY <2>2, <2>4, Zenon
<1>9. \A x \in S : G[<<f, x>>] = NameBody(f, data, x[1], x[2])
  BY Zenon DEF G
<1>10. f = [x \in S |-> NameBody(f, data, x[1], x[2])]
  <2>1. f = [x \in S |-> f[x]]
    BY Zenon
  <2> QED
    BY <1>8, <1>9, <2>1, Zenon
<1> QED
  BY <1>10, Zenon DEF IsReader, S

\* Only one.
LEMMA ReaderUnique ==
  ASSUME NEW data \in Seq(Byte), NEW f, NEW g, IsReader(f, data), IsReader(g, data)
  PROVE  f = g
<1>1. PICK n \in Nat : n = Len(data)
  OBVIOUS
<1>2. /\ \A p \in Places(data) : f[p] = NameBody(f, data, p[1], p[2])
      /\ \A p \in Places(data) : g[p] = NameBody(g, data, p[1], p[2])
      /\ f = [p \in Places(data) |-> f[p]]
      /\ g = [p \in Places(data) |-> g[p]]
  BY Zenon DEF IsReader
<1> DEFINE T == {k \in Nat : \E end \in 0 .. n, off \in 0 .. n :
                               k = Rank(n, end, off) /\ f[<<end, off>>] # g[<<end, off>>]}
<1>3. ASSUME T # {} PROVE FALSE
  <2>1. PICK k \in T : \A m \in T : k <= m
    <3>1. T \subseteq Nat
      BY Zenon
    <3> HIDE DEF T
    <3> QED
      BY <1>3, <3>1, LeastNumber, Zenon
  <2>2. PICK end \in 0 .. n, off \in 0 .. n :
          k = Rank(n, end, off) /\ f[<<end, off>>] # g[<<end, off>>]
    BY <2>1, Zenon
  <2>3. ASSUME NEW e \in 0 .. n, NEW o \in 0 .. n, Rank(n, e, o) < k
        PROVE  f[<<e, o>>] = g[<<e, o>>]
    <3>1. Rank(n, e, o) \in 0 .. n * (n + 1) + n
      BY RankType, Zenon
    <3>2. Rank(n, e, o) \in Nat
      BY <3>1
    <3>3. k \in Nat
      BY <2>1, Zenon
    <3>4. ~(k <= Rank(n, e, o))
      BY ONLY <2>3, <3>2, <3>3
    <3> QED
      BY <2>1, <3>2, <3>4, Zenon
  <2>4. \A ptr \in 0 .. n : ptr < off /\ off < end => f[<<off, ptr>>] = g[<<off, ptr>>]
    BY <2>2, <2>3, RankBefore, Zenon
  <2>5. \A m \in 0 .. n : off < m => f[<<end, m>>] = g[<<end, m>>]
    BY <2>2, <2>3, RankBehind, Zenon
  <2>6. NameBody(f, data, end, off) = NameBody(g, data, end, off)
    <3>1. end \in 0 .. Len(data) /\ off \in 0 .. Len(data)
      BY <1>1, Zenon
    <3>2. \A ptr \in 0 .. Len(data) : ptr < off /\ off < end => f[<<off, ptr>>] = g[<<off, ptr>>]
      BY <1>1, <2>4, Zenon
    <3>3. \A m \in 0 .. Len(data) : off < m => f[<<end, m>>] = g[<<end, m>>]
      BY <1>1, <2>5, Zenon
    <3>4. SameAround(f, g, data, end, off)
      BY ONLY <3>2, <3>3, Zenon DEF SameAround
    <3>5. SameBody(f, g, data, end, off)
      BY ONLY data \in Seq(Byte), <3>1, <3>4, BodyLocal, Zenon
    <3> QED
      BY <3>5, Zenon DEF SameBody
  <2>7. <<end, off>> \in Places(data) /\ <<end, off>>[1] = end /\ <<end, off>>[2] = off
    BY <1>1, Zenon DEF Places
  <2> QED
    BY <1>2, <2>2, <2>6, <2>7, Zenon
<1>4. ASSUME NEW p \in Places(data) PROVE f[p] = g[p]
  <2>1. PICK end \in 0 .. n, off \in 0 .. n : p = <<end, off>>
    <3>1. p \in (0 .. n) \X (0 .. n)
      BY <1>1, Zenon DEF Places
    <3> QED
      BY ONLY <3>1
  <2>2. Rank(n, end, off) \in Nat
    <3>1. Rank(n, end, off) \in 0 .. n * (n + 1) + n
      BY RankType, Zenon
    <3> QED
      BY <3>1
  <2> QED
    BY <1>3, <2>1, <2>2, Zenon
<1> QED
  BY <1>2, <1>4, Zenon

\* The equations of readDomain.
LEMMA ReadAtIs ==
  ASSUME NEW data \in Seq(Byte)
  PROVE  \E f \in [Places(data) -> Results] :
           /\ \A end, off \in 0 .. Len(data) : ReadAt(data, end, off) = f[<<end, off>>]
           /\ \A end, off \in 0 .. Len(data) :
                ReadAt(data, end, off) = NameBody(f, data, end, off)
<1>1. PICK f \in [Places(data) -> Results] : IsReader(f, data)
  BY ReaderExists, Zenon
<1>2. f = CHOOSE g : IsReader(g, data)
  BY <1>1, ReaderUnique, Zenon
<1>3. ASSUME NEW end \in 0 .. Len(data), NEW off \in 0 .. Len(data)
      PROVE  /\ ReadAt(data, end, off) = f[<<end, off>>]
             /\ ReadAt(data, end, off) = NameBody(f, data, end, off)
  <2>1. ReadAt(data, end, off) = f[<<end, off>>]
    BY <1>2, Zenon DEF ReadAt
  <2>2. <<end, off>> \in Places(data) /\ <<end, off>>[1] = end /\ <<end, off>>[2] = off
    BY Zenon DEF Places
  <2>3. f[<<end, off>>] = NameBody(f, data, end, off)
    BY <1>1, <2>2, Zenon DEF IsReader
  <2> QED
    BY <2>1, <2>3, Zenon
<1> QED
  BY <1>3, Zenon

\* What a reader of the first end bytes finds at off is a result.
LEMMA ReadAtType ==
  ASSUME NEW data \in Seq(Byte), NEW end \in 0 .. Len(data), NEW off \in 0 .. Len(data)
  PROVE  /\ ReadAt(data, end, off) \in Results
         /\ ReadAt(data, end, off).value \in Seq(Seq(Byte))
         /\ ReadAt(data, end, off).off \in Nat
<1>1. PICK f \in [Places(data) -> Results] : ReadAt(data, end, off) = f[<<end, off>>]
  BY ReadAtIs, Zenon
<1>2. <<end, off>> \in Places(data)
  BY Zenon DEF Places
<1> QED
  BY <1>1, <1>2, Zenon DEF Results

\* At the end, and at a byte that is neither a length nor a pointer, it fails.
LEMMA ReadEnd ==
  ASSUME NEW data \in Seq(Byte), NEW end \in 0 .. Len(data), NEW off \in 0 .. Len(data),
         off >= end \/ IsReserved(data[off + 1])
  PROVE  Failed(ReadAt(data, end, off))
<1>0. end \in Nat /\ off \in Nat /\ end <= Len(data) /\ (off >= end \/ off < end)
  OBVIOUS
<1>1. PICK f : ReadAt(data, end, off) = NameBody(f, data, end, off)
  BY ReadAtIs, Zenon
<1>2. "underflow" \in Errors /\ "underflow" # "none" /\ "label" \in Errors /\ "label" # "none"
  BY DEF Errors
<1>3. CASE off >= end
  <2>1. ~(off < end)
    BY <1>0, <1>3
  <2>2. NameBody(f, data, end, off) = Fail("underflow")
    BY <1>3, <2>1, Zenon DEF NameBody
  <2> QED
    BY <1>1, <1>2, <2>2, FailType, Zenon
<1>4. CASE off < end /\ IsReserved(data[off + 1])
  <2>0. off < Len(data)
    BY ONLY <1>0, <1>4, data \in Seq(Byte)
  <2>1. PICK n \in Byte : n = data[off + 1]
    BY <1>0, <2>0, ByteAt, Zenon
  <2>2. NameBody(f, data, end, off) = Fail("label")
    <3>1. data[off + 1] \in Byte
      BY <2>1, Zenon
    <3> QED
      BY ONLY <1>0, <1>4, <3>1, BodyReserved, Zenon
  <2> QED
    BY <1>1, <1>2, <2>2, FailType, Zenon
<1> QED
  BY <1>0, <1>3, <1>4

\* The byte 0 ends a name.
LEMMA ReadZero ==
  ASSUME NEW data \in Seq(Byte), NEW end \in 0 .. Len(data), NEW off \in 0 .. Len(data),
         off < end, data[off + 1] = 0
  PROVE  ReadAt(data, end, off) = Read(<< >>, off + 1)
<1>0. end \in Nat /\ off \in Nat /\ off < Len(data)
  OBVIOUS
<1>1. PICK f : ReadAt(data, end, off) = NameBody(f, data, end, off)
  BY ReadAtIs, Zenon
<1>2. data[off + 1] \in Byte
  BY <1>0, ByteAt, Zenon
<1>3. NameBody(f, data, end, off) = Read(<< >>, off + 1)
  BY ONLY <1>0, <1>2, off < end, data[off + 1] = 0, BodyZero, Zenon
<1> QED
  BY <1>1, <1>3, Zenon

\* A pointer is followed if it lies within the reader's data and leads to a name before it.
Followed(data, end, off) ==
  /\ off + 1 < end /\ Target(data, off) \in Nat /\ Target(data, off) < off
  /\ ~Failed(ReadAt(data, off, Target(data, off)))
  /\ Validate(ReadAt(data, off, Target(data, off)).value)

\* At a pointer, what is at its target is read, or nothing.
LEMMA ReadPointer ==
  ASSUME NEW data \in Seq(Byte), NEW end \in 0 .. Len(data), NEW off \in 0 .. Len(data),
         off < end, data[off + 1] >= 192
  PROVE  IF Followed(data, end, off)
         THEN ReadAt(data, end, off) = Read(ReadAt(data, off, Target(data, off)).value, off + 2)
         ELSE Failed(ReadAt(data, end, off))
<1>0. end \in Nat /\ off \in Nat /\ off < Len(data) /\ end <= Len(data)
  BY ONLY data \in Seq(Byte), end \in 0 .. Len(data), off \in 0 .. Len(data), off < end
<1>1. PICK f : /\ ReadAt(data, end, off) = NameBody(f, data, end, off)
               /\ \A p \in 0 .. Len(data) : ReadAt(data, off, p) = f[<<off, p>>]
  BY ReadAtIs, Zenon
<1>2. data[off + 1] \in Byte
  BY <1>0, ByteAt, Zenon
<1>3. ReadAt(data, end, off) = PointerAt(f, data, end, off)
  BY <1>0, <1>1, <1>2, BodyCases, Zenon
<1>4. "underflow" \in Errors /\ "underflow" # "none" /\ "pointer" \in Errors /\ "pointer" # "none"
  BY DEF Errors
<1>5. CASE ~(off + 1 < end)
  <2>1. off + 1 >= end
    BY ONLY <1>0, <1>5
  <2>2. PointerAt(f, data, end, off) = Fail("underflow")
    BY <2>1, PointerIs, Zenon
  <2> QED
    BY <1>3, <1>4, <1>5, <2>2, FailType, Zenon DEF Followed
<1>6. CASE off + 1 < end
  <2>1. ~(off + 1 >= end) /\ off + 1 < Len(data)
    BY ONLY <1>0, <1>6, Len(data) \in Nat
  <2>2. PICK ptr \in Nat : ptr = Target(data, off)
    BY <1>0, <2>1, TargetType, Zenon
  <2>3. CASE ~(ptr < off)
    <3>1. ptr >= off
      BY ONLY <1>0, <2>3, ptr \in Nat
    <3>2. PointerAt(f, data, end, off) = Fail("pointer")
      BY <2>1, <2>2, <3>1, PointerIs, Zenon
    <3> QED
      BY <1>3, <1>4, <2>2, <2>3, <3>2, FailType, Zenon DEF Followed
  <2>4. CASE ptr < off
    <3>1. ~(ptr >= off) /\ ptr \in 0 .. Len(data)
      BY ONLY <1>0, <2>4, ptr \in Nat, Len(data) \in Nat
    <3>2. PICK r \in Results : r = f[<<off, ptr>>] /\ r = ReadAt(data, off, ptr)
      BY <1>1, <3>1, ReadAtType, Zenon
    <3>3. PointerAt(f, data, end, off) =
            IF Failed(Checked(r)) THEN Fail("pointer") ELSE Read(Checked(r).value, off + 2)
      BY <2>1, <2>2, <3>1, <3>2, PointerIs, Zenon
    <3>4. Followed(data, end, off) <=> ~Failed(Checked(r))
      BY <1>6, <2>2, <2>4, <3>2, CheckedType, Zenon DEF Followed
    <3>5. CASE Failed(Checked(r))
      BY <1>3, <1>4, <3>3, <3>4, <3>5, FailType, Zenon
    <3>6. CASE ~Failed(Checked(r))
      <4>1. Checked(r) = r
        BY <3>6, CheckedType, Zenon
      <4> QED
        BY <1>3, <2>2, <3>2, <3>3, <3>4, <3>6, <4>1, Zenon
    <3> QED
      BY <3>5, <3>6
  <2> QED
    BY <2>3, <2>4
<1> QED
  BY <1>5, <1>6

\* A label is read if it ends within the reader's data and a name follows.
Labelled(data, end, off) ==
  /\ After(data, off) \in Nat /\ off + 1 < After(data, off) /\ After(data, off) <= end
  /\ ~Failed(ReadAt(data, end, After(data, off)))

\* At a length, a label and the name behind it are read, or nothing.
LEMMA ReadLabel ==
  ASSUME NEW data \in Seq(Byte), NEW end \in 0 .. Len(data), NEW off \in 0 .. Len(data),
         off < end, IsLength(data[off + 1])
  PROVE  IF Labelled(data, end, off)
         THEN ReadAt(data, end, off) =
                Read(<<LabelOf(data, off)>> \o ReadAt(data, end, After(data, off)).value,
                     ReadAt(data, end, After(data, off)).off)
         ELSE Failed(ReadAt(data, end, off))
<1>0. end \in Nat /\ off \in Nat /\ off < Len(data) /\ end <= Len(data)
  BY ONLY data \in Seq(Byte), end \in 0 .. Len(data), off \in 0 .. Len(data), off < end
<1>1. PICK f : /\ ReadAt(data, end, off) = NameBody(f, data, end, off)
               /\ \A m \in 0 .. Len(data) : ReadAt(data, end, m) = f[<<end, m>>]
  BY ReadAtIs, Zenon
<1>2. data[off + 1] \in Byte
  BY <1>0, ByteAt, Zenon
<1>3. ReadAt(data, end, off) = LabelAt(f, data, end, off)
  BY <1>0, <1>1, <1>2, BodyCases, Zenon
<1>4. "underflow" \in Errors /\ "underflow" # "none"
  BY DEF Errors
<1>5. PICK m \in Nat : m = After(data, off) /\ off + 1 < m
  BY <1>0, LabelRead, Zenon
<1>6. CASE ~(m <= end)
  <2>1. LabelAt(f, data, end, off) = Fail("underflow")
    BY <1>0, <1>5, <1>6, LabelIs, Zenon
  <2> QED
    BY <1>3, <1>4, <1>5, <1>6, <2>1, FailType, Zenon DEF Labelled
<1>7. CASE m <= end
  <2>1. m \in 0 .. Len(data)
    BY ONLY <1>0, <1>7, m \in Nat, Len(data) \in Nat
  <2>2. PICK r : r = f[<<end, m>>] /\ r = ReadAt(data, end, m)
    BY <1>1, <2>1, Zenon
  <2>3. LabelAt(f, data, end, off) =
          IF Failed(r) THEN r ELSE Read(<<LabelOf(data, off)>> \o r.value, r.off)
    <3>1. LabelAt(f, data, end, off) =
            IF ~(After(data, off) <= end) THEN Fail("underflow")
            ELSE IF Failed(f[<<end, After(data, off)>>]) THEN f[<<end, After(data, off)>>]
            ELSE Read(<<LabelOf(data, off)>> \o f[<<end, After(data, off)>>].value,
                      f[<<end, After(data, off)>>].off)
      BY <1>0, LabelIs, Zenon
    <3> QED
      BY <1>5, <1>7, <2>2, <3>1, Zenon
  <2>4. Labelled(data, end, off) <=> ~Failed(r)
    BY <1>5, <1>7, <2>2, Zenon DEF Labelled
  <2>5. CASE Failed(r)
    BY <1>3, <2>3, <2>4, <2>5, Zenon
  <2>6. CASE ~Failed(r)
    BY <1>3, <1>5, <2>2, <2>3, <2>4, <2>6, Zenon
  <2> QED
    BY <2>5, <2>6
<1> QED
  BY <1>6, <1>7

\* A label that was read, and what is read at one.
LEMMA ReadIsLabelled ==
  ASSUME NEW data \in Seq(Byte), NEW end \in 0 .. Len(data), NEW off \in 0 .. Len(data),
         off < end, IsLength(data[off + 1]), ~Failed(ReadAt(data, end, off))
  PROVE  Labelled(data, end, off)
BY ReadLabel, Zenon

\* What is read at a label with a name behind it.
LEMMA LabelledIsRead ==
  ASSUME NEW data \in Seq(Byte), NEW end \in 0 .. Len(data), NEW off \in 0 .. Len(data),
         off < end, IsLength(data[off + 1]), Labelled(data, end, off)
  PROVE  ReadAt(data, end, off) =
           Read(<<LabelOf(data, off)>> \o ReadAt(data, end, After(data, off)).value,
                ReadAt(data, end, After(data, off)).off)
BY ReadLabel, Zenon

-----------------------------------------------------------------------------
(* The walk of RFC 1035 *)

Walks(data) == (0 .. Len(data)) \X SUBSET (0 .. Len(data))
NameSets == SUBSET Seq(Seq(Byte))

\* A pointer that is followed leads to an earlier place.
GoesOn(data, off, visited) ==
  off + 1 < Len(data) /\ Target(data, off) < off /\ ~(off + 1 \in visited /\ data[off + 2] >= 192)

WalkBody(w, data, off, visited) ==
  IF off >= Len(data) \/ off \in visited THEN {}
  ELSE IF data[off + 1] = 0 THEN {<< >>}
  ELSE IF data[off + 1] >= 192
  THEN IF GoesOn(data, off, visited) THEN w[<<Target(data, off), visited \union {off}>>] ELSE {}
  ELSE IF data[off + 1] > 63 \/ After(data, off) > Len(data) THEN {}
  ELSE {<<LabelOf(data, off)>> \o name : name \in w[<<After(data, off), visited \union {off}>>]}

IsWalk(w, data) == w = [place \in Walks(data) |-> WalkBody(w, data, place[1], place[2])]

WalkAt(data, off, visited) == (CHOOSE w : IsWalk(w, data))[<<off, visited>>]

\* WalkName keeps the valid names of the walk.
LEMMA WalkIs ==
  ASSUME NEW data, NEW start
  PROVE  WalkName(data, start) = {name \in WalkAt(data, start, {}) : Validate(name)}
  BY Zenon DEF WalkName, WalkAt, IsWalk, WalkBody, Walks, GoesOn, Target, After, LabelOf

\* What it finds is a set of names if what comes after is.
LEMMA WalkType ==
  ASSUME NEW data \in Seq(Byte), NEW w \in [Walks(data) -> NameSets],
         NEW off \in 0 .. Len(data), NEW visited \in SUBSET (0 .. Len(data))
  PROVE  WalkBody(w, data, off, visited) \in NameSets
<1>0. PICK n \in Nat : n = Len(data)
  OBVIOUS
<1>1. {} \in NameSets /\ {<< >>} \in NameSets
  BY DEF NameSets
<1>2. visited \union {off} \in SUBSET (0 .. Len(data))
  OBVIOUS
<1>3. CASE off >= Len(data) \/ off \in visited
  BY <1>1, <1>3, Zenon DEF WalkBody
<1>4. CASE ~(off >= Len(data) \/ off \in visited)
  <2>0. off \in Nat /\ off < Len(data)
    BY ONLY <1>0, <1>4, off \in 0 .. Len(data)
  <2>1. PICK b \in Byte : b = data[off + 1]
    BY <2>0, ByteAt, Zenon
  <2>2. CASE b = 0
    BY <1>1, <1>4, <2>1, <2>2, Zenon DEF WalkBody
  <2>3. CASE b # 0 /\ b >= 192
    <3>1. CASE GoesOn(data, off, visited)
      <4>1. PICK p \in Nat : p = Target(data, off) /\ p < off
        BY <2>0, <2>1, <2>3, <3>1, TargetType, Zenon DEF GoesOn
      <4>2. p \in 0 .. Len(data)
        BY ONLY <1>0, <2>0, <4>1
      <4>3. <<p, visited \union {off}>> \in Walks(data)
        BY <1>2, <4>2, Zenon DEF Walks
      <4>4. WalkBody(w, data, off, visited) = w[<<p, visited \union {off}>>]
        BY <1>4, <2>1, <2>3, <3>1, <4>1, Zenon DEF WalkBody
      <4> QED
        BY <4>3, <4>4, Zenon
    <3>2. CASE ~GoesOn(data, off, visited)
      BY <1>1, <1>4, <2>1, <2>3, <3>2, Zenon DEF WalkBody
    <3> QED
      BY <3>1, <3>2
  <2>4. CASE ~(b = 0) /\ ~(b >= 192)
    <3>1. CASE b > 63 \/ After(data, off) > Len(data)
      BY <1>1, <1>4, <2>1, <2>4, <3>1, Zenon DEF WalkBody
    <3>2. CASE ~(b > 63 \/ After(data, off) > Len(data))
      <4>1. IsLength(b)
        BY ONLY <2>4, <3>2, b \in Byte DEF Byte, IsLength
      <4>2. PICK m \in Nat : m = After(data, off)
        <5>1. Len(data) \in 0 .. Len(data)
          BY <1>0
        <5> QED
          BY <2>0, <2>1, <4>1, <5>1, LabelRead, Zenon
      <4>3. m <= Len(data) /\ m \in 0 .. Len(data)
        BY ONLY <1>0, <3>2, <4>2
      <4>4. Len(data) \in 0 .. Len(data)
        BY <1>0
      <4>5. LabelOf(data, off) \in Seq(Byte)
        BY <2>0, <2>1, <4>1, <4>2, <4>3, <4>4, LabelRead, Zenon
      <4>6. PICK l \in Seq(Byte) : l = LabelOf(data, off)
        BY <4>5, Zenon
      <4>7. <<m, visited \union {off}>> \in Walks(data)
        BY <1>2, <4>3, Zenon DEF Walks
      <4>8. PICK S \in NameSets : S = w[<<m, visited \union {off}>>]
        BY <4>7, Zenon
      <4>9. WalkBody(w, data, off, visited) = {<<l>> \o name : name \in S}
        BY <1>4, <2>1, <2>4, <3>2, <4>2, <4>6, <4>8, Zenon DEF WalkBody
      <4>10. ASSUME NEW name \in S PROVE <<l>> \o name \in Seq(Seq(Byte))
        <5>1. name \in Seq(Seq(Byte))
          BY <4>8, Zenon DEF NameSets
        <5> QED
          BY ONLY <5>1, l \in Seq(Byte)
      <4> QED
        BY <4>9, <4>10, Zenon DEF NameSets
    <3> QED
      BY <3>1, <3>2
  <2> QED
    BY <2>2, <2>3, <2>4
<1> QED
  BY <1>3, <1>4

\* What the walk finds depends on what it finds having visited one place more.
SameBeyond(f, g, data, off, visited) ==
  off \notin visited => \A p \in 0 .. Len(data) :
    f[<<p, visited \union {off}>>] = g[<<p, visited \union {off}>>]

SameWalk(f, g, data, off, visited) ==
  WalkBody(f, data, off, visited) = WalkBody(g, data, off, visited)

\* Two functions that agree beyond a place give the same walk from there.
LEMMA WalkLocal ==
  ASSUME NEW data \in Seq(Byte), NEW f, NEW g,
         NEW off \in 0 .. Len(data), NEW visited \in SUBSET (0 .. Len(data)),
         SameBeyond(f, g, data, off, visited)
  PROVE  SameWalk(f, g, data, off, visited)
<1> SUFFICES WalkBody(f, data, off, visited) = WalkBody(g, data, off, visited)
  BY Zenon DEF SameWalk
<1>0. PICK n \in Nat : n = Len(data)
  OBVIOUS
<1>3. CASE off >= Len(data) \/ off \in visited
  BY <1>3, Zenon DEF WalkBody
<1>4. CASE ~(off >= Len(data) \/ off \in visited)
  <2>0. off \in Nat /\ off < Len(data)
    BY ONLY <1>0, <1>4, off \in 0 .. Len(data)
  <2>1. PICK b \in Byte : b = data[off + 1]
    BY <2>0, ByteAt, Zenon
  <2>2. CASE b = 0
    BY <1>4, <2>1, <2>2, Zenon DEF WalkBody
  <2>3. CASE ~(b = 0) /\ b >= 192
    <3>1. CASE GoesOn(data, off, visited)
      <4>1. PICK p \in Nat : p = Target(data, off) /\ p < off
        BY <2>0, <2>1, <2>3, <3>1, TargetType, Zenon DEF GoesOn
      <4>2. p \in 0 .. Len(data)
        BY ONLY <1>0, <2>0, <4>1
      <4>3. f[<<p, visited \union {off}>>] = g[<<p, visited \union {off}>>]
        BY <1>4, <4>2, Zenon DEF SameBeyond
      <4>4. WalkBody(f, data, off, visited) = f[<<p, visited \union {off}>>]
        BY <1>4, <2>1, <2>3, <3>1, <4>1, Zenon DEF WalkBody
      <4>5. WalkBody(g, data, off, visited) = g[<<p, visited \union {off}>>]
        BY <1>4, <2>1, <2>3, <3>1, <4>1, Zenon DEF WalkBody
      <4> QED
        BY <4>3, <4>4, <4>5, Zenon
    <3>2. CASE ~GoesOn(data, off, visited)
      BY <1>4, <2>1, <2>3, <3>2, Zenon DEF WalkBody
    <3> QED
      BY <3>1, <3>2
  <2>4. CASE ~(b = 0) /\ ~(b >= 192)
    <3>1. CASE b > 63 \/ After(data, off) > Len(data)
      BY <1>4, <2>1, <2>4, <3>1, Zenon DEF WalkBody
    <3>2. CASE ~(b > 63 \/ After(data, off) > Len(data))
      <4>1. IsLength(b)
        BY ONLY <2>4, <3>2, b \in Byte DEF Byte, IsLength
      <4>2. PICK m \in Nat : m = After(data, off)
        <5>1. Len(data) \in 0 .. Len(data)
          BY <1>0
        <5> QED
          BY <2>0, <2>1, <4>1, <5>1, LabelRead, Zenon
      <4>3. m \in 0 .. Len(data)
        BY ONLY <1>0, <3>2, <4>2
      <4>4. f[<<m, visited \union {off}>>] = g[<<m, visited \union {off}>>]
        BY <1>4, <4>3, Zenon DEF SameBeyond
      <4>5. WalkBody(f, data, off, visited) =
              {<<LabelOf(data, off)>> \o name : name \in f[<<m, visited \union {off}>>]}
        BY <1>4, <2>1, <2>4, <3>2, <4>2, Zenon DEF WalkBody
      <4>6. WalkBody(g, data, off, visited) =
              {<<LabelOf(data, off)>> \o name : name \in g[<<m, visited \union {off}>>]}
        BY <1>4, <2>1, <2>4, <3>2, <4>2, Zenon DEF WalkBody
      <4> QED
        BY <4>4, <4>5, <4>6, Zenon
    <3> QED
      BY <3>1, <3>2
  <2> QED
    BY <2>2, <2>3, <2>4
<1> QED
  BY <1>3, <1>4

\* How many places are left.
Left(n, visited) == Cardinality((0 .. n) \ visited)

\* The number of places left is bounded.
LEMMA LeftType ==
  ASSUME NEW n \in Nat, NEW visited \in SUBSET (0 .. n)
  PROVE  /\ Left(n, visited) \in 0 .. n + 1 /\ Left(n, visited) \in Nat
         /\ IsFiniteSet((0 .. n) \ visited)
<1>1. IsFiniteSet(0 .. n) /\ Cardinality(0 .. n) = n + 1
  <2>1. 0 \in Int /\ n \in Int /\ ~(0 > n) /\ n - 0 + 1 = n + 1
    OBVIOUS
  <2> QED
    BY <2>1, FS_Interval, Zenon
<1>2. (0 .. n) \ visited \in SUBSET (0 .. n)
  OBVIOUS
<1>3. IsFiniteSet((0 .. n) \ visited) /\ Cardinality((0 .. n) \ visited) <= Cardinality(0 .. n)
  BY <1>1, <1>2, FS_Subset, Zenon
<1>4. Cardinality((0 .. n) \ visited) \in Nat
  BY <1>3, FS_CardinalityType, Zenon
<1>5. PICK c \in Nat : c = Cardinality((0 .. n) \ visited)
  BY <1>4, Zenon
<1>6. c <= n + 1
  BY <1>1, <1>3, <1>5, Zenon
<1>7. c \in 0 .. n + 1
  BY ONLY <1>6, n \in Nat, c \in Nat
<1> QED
  BY <1>3, <1>5, <1>7, Zenon DEF Left

\* It falls as the walk visits a place.
LEMMA LeftLess ==
  ASSUME NEW n \in Nat, NEW visited \in SUBSET (0 .. n), NEW off \in 0 .. n, off \notin visited
  PROVE  Left(n, visited \union {off}) < Left(n, visited)
<1>1. IsFiniteSet((0 .. n) \ visited)
  BY LeftType, Zenon
<1>2. off \in (0 .. n) \ visited
  OBVIOUS
<1>3. Cardinality(((0 .. n) \ visited) \ {off}) = Cardinality((0 .. n) \ visited) - 1
  BY <1>1, <1>2, FS_RemoveElement, Zenon
<1>4. ((0 .. n) \ visited) \ {off} = (0 .. n) \ (visited \union {off})
  OBVIOUS
<1>5. Left(n, visited \union {off}) = Left(n, visited) - 1
  BY <1>3, <1>4, Zenon DEF Left
<1>6. Left(n, visited) \in Nat
  BY LeftType, Zenon
<1> QED
  BY ONLY <1>5, <1>6

\* There is a walk.
LEMMA WalkExists ==
  ASSUME NEW data \in Seq(Byte)
  PROVE  \E w \in [Walks(data) -> NameSets] : IsWalk(w, data)
<1>1. PICK n \in Nat : n = Len(data)
  OBVIOUS
<1> DEFINE S == Walks(data)
           F == [S -> NameSets]
           N == n + 1
           rank == [p \in S |-> Left(n, p[2])]
           G == [q \in F \X S |-> WalkBody(q[1], data, q[2][1], q[2][2])]
<1>2. S = (0 .. n) \X SUBSET (0 .. n)
  BY <1>1, Zenon DEF Walks
<1>3. N \in Nat
  OBVIOUS
<1>4. rank \in [S -> 0 .. N]
  <2>1. ASSUME NEW p \in S PROVE Left(n, p[2]) \in 0 .. N
    <3>1. p[2] \in SUBSET (0 .. n)
      BY <1>2, PairParts, Zenon
    <3> QED
      BY <3>1, LeftType, Zenon
  <2> QED
    BY <2>1, Zenon
<1>5. G \in [F \X S -> NameSets]
  <2>1. ASSUME NEW q \in F \X S PROVE WalkBody(q[1], data, q[2][1], q[2][2]) \in NameSets
    <3>1. q[1] \in F /\ q[2][1] \in 0 .. Len(data) /\ q[2][2] \in SUBSET (0 .. Len(data))
      BY Zenon DEF Walks
    <3> QED
      BY <3>1, WalkType, Zenon
  <2> QED
    BY <2>1, Zenon
<1>6. ASSUME NEW f \in F, NEW g \in F, NEW p \in S,
             \A y \in S : rank[y] < rank[p] => f[y] = g[y]
      PROVE  G[<<f, p>>] = G[<<g, p>>]
  <2>1. PICK off \in 0 .. n, V \in SUBSET (0 .. n) : p = <<off, V>>
    <3>1. p \in (0 .. n) \X SUBSET (0 .. n)
      BY <1>2, Zenon
    <3>2. PICK A, B : A = 0 .. n /\ B = SUBSET (0 .. n)
      OBVIOUS
    <3>3. \E a \in A, b \in B : p = <<a, b>>
      <4>1. p \in A \X B
        BY <3>1, <3>2, Zenon
      <4> QED
        BY ONLY <4>1
    <3> QED
      BY <3>2, <3>3, Zenon
  <2>2. ASSUME NEW m \in 0 .. n, off \notin V
        PROVE  f[<<m, V \union {off}>>] = g[<<m, V \union {off}>>]
    <3>0. V \union {off} \in SUBSET (0 .. n)
      OBVIOUS
    <3>1. /\ <<m, V \union {off}>> \in S
          /\ rank[<<m, V \union {off}>>] = Left(n, V \union {off})
      BY <1>2, <3>0, Zenon
    <3>2. rank[p] = Left(n, V)
      BY <1>2, <2>1, Zenon
    <3>3. Left(n, V \union {off}) < Left(n, V)
      BY <2>2, LeftLess, Zenon
    <3> QED
      BY <1>6, <3>1, <3>2, <3>3, Zenon
  <2>4. WalkBody(f, data, off, V) = WalkBody(g, data, off, V)
    <3>1. off \in 0 .. Len(data) /\ V \in SUBSET (0 .. Len(data))
      BY <1>1, Zenon
    <3>2. off \notin V => \A m \in 0 .. Len(data) :
            f[<<m, V \union {off}>>] = g[<<m, V \union {off}>>]
      BY <1>1, <2>2, Zenon
    <3>3. SameBeyond(f, g, data, off, V)
      BY ONLY <3>2, Zenon DEF SameBeyond
    <3> HIDE DEF S, F, N, rank, G
    <3>4. SameWalk(f, g, data, off, V)
      BY ONLY data \in Seq(Byte), <3>1, <3>3, WalkLocal, Zenon
    <3> QED
      BY ONLY <3>4, Zenon DEF SameWalk
  <2>5. /\ G[<<f, p>>] = WalkBody(f, data, off, V)
        /\ G[<<g, p>>] = WalkBody(g, data, off, V)
    BY <2>1, Zenon
  <2> QED
    BY <2>4, <2>5, Zenon
<1>7. {} \in NameSets
  BY DEF NameSets
<1> HIDE DEF S, N, rank, G
<1>8. PICK f \in F : \A x \in S : f[x] = G[<<f, x>>]
  <2>1. \A h, g \in [S -> NameSets], x \in S :
          (\A y \in S : rank[y] < rank[x] => h[y] = g[y]) => G[<<h, x>>] = G[<<g, x>>]
    BY <1>6, Zenon
  <2> HIDE DEF F
  <2>2. F = [S -> NameSets]
    BY Zenon DEF F
  <2>3. G \in [[S -> NameSets] \X S -> NameSets]
    BY <1>5, <2>2, Zenon
  <2>4. \E h \in [S -> NameSets] : \A x \in S : h[x] = G[<<h, x>>]
    <3>1. Recurses(S, NameSets, N, rank, G)
      BY <1>3, <1>4, <1>7, <2>1, <2>3, Zenon DEF Recurses
    <3>2. HasFixed(S, NameSets, G)
      BY ONLY <3>1, Recursion, Zenon
    <3> QED
      BY ONLY <3>2, Zenon DEF HasFixed
  <2> QED
    BY <2>2, <2>4, Zenon
<1>9. \A x \in S : G[<<f, x>>] = WalkBody(f, data, x[1], x[2])
  BY Zenon DEF G
<1>10. f = [x \in S |-> WalkBody(f, data, x[1], x[2])]
  <2>1. f = [x \in S |-> f[x]]
    BY Zenon
  <2> QED
    BY <1>8, <1>9, <2>1, Zenon
<1> QED
  BY <1>10, Zenon DEF IsWalk, S

\* Only one.
LEMMA WalkUnique ==
  ASSUME NEW data \in Seq(Byte), NEW f, NEW g, IsWalk(f, data), IsWalk(g, data)
  PROVE  f = g
<1>1. PICK n \in Nat : n = Len(data)
  OBVIOUS
<1>2. /\ \A p \in Walks(data) : f[p] = WalkBody(f, data, p[1], p[2])
      /\ \A p \in Walks(data) : g[p] = WalkBody(g, data, p[1], p[2])
      /\ f = [p \in Walks(data) |-> f[p]]
      /\ g = [p \in Walks(data) |-> g[p]]
  BY Zenon DEF IsWalk
<1> DEFINE T == {k \in Nat : \E off \in 0 .. n, V \in SUBSET (0 .. n) :
                               k = Left(n, V) /\ f[<<off, V>>] # g[<<off, V>>]}
<1>3. ASSUME T # {} PROVE FALSE
  <2>1. PICK k \in T : \A m \in T : k <= m
    <3>1. T \subseteq Nat
      BY Zenon
    <3> HIDE DEF T
    <3> QED
      BY <1>3, <3>1, LeastNumber, Zenon
  <2>2. PICK off \in 0 .. n, V \in SUBSET (0 .. n) :
          k = Left(n, V) /\ f[<<off, V>>] # g[<<off, V>>]
    BY <2>1, Zenon
  <2>3. ASSUME NEW m \in 0 .. n, off \notin V
        PROVE  f[<<m, V \union {off}>>] = g[<<m, V \union {off}>>]
    <3>0. V \union {off} \in SUBSET (0 .. n)
      OBVIOUS
    <3>1. Left(n, V \union {off}) \in Nat
      BY <3>0, LeftType, Zenon
    <3>2. Left(n, V \union {off}) < k
      BY <2>2, <2>3, LeftLess, Zenon
    <3>3. k \in Nat
      BY <2>1, Zenon
    <3>4. ~(k <= Left(n, V \union {off}))
      BY ONLY <3>1, <3>2, <3>3
    <3> QED
      BY <2>1, <3>0, <3>1, <3>4, Zenon
  <2>6. WalkBody(f, data, off, V) = WalkBody(g, data, off, V)
    <3>1. off \in 0 .. Len(data) /\ V \in SUBSET (0 .. Len(data))
      BY <1>1, Zenon
    <3>2. off \notin V => \A m \in 0 .. Len(data) :
            f[<<m, V \union {off}>>] = g[<<m, V \union {off}>>]
      BY <1>1, <2>3, Zenon
    <3>3. SameBeyond(f, g, data, off, V)
      BY ONLY <3>2, Zenon DEF SameBeyond
    <3> HIDE DEF T
    <3>4. SameWalk(f, g, data, off, V)
      BY ONLY data \in Seq(Byte), <3>1, <3>3, WalkLocal, Zenon
    <3> QED
      BY ONLY <3>4, Zenon DEF SameWalk
  <2>7. <<off, V>> \in Walks(data) /\ <<off, V>>[1] = off /\ <<off, V>>[2] = V
    BY <1>1, Zenon DEF Walks
  <2> QED
    BY <1>2, <2>2, <2>6, <2>7, Zenon
<1>4. ASSUME NEW p \in Walks(data) PROVE f[p] = g[p]
  <2>1. PICK off \in 0 .. n, V \in SUBSET (0 .. n) : p = <<off, V>>
    <3>1. p \in (0 .. n) \X SUBSET (0 .. n)
      BY <1>1, Zenon DEF Walks
    <3>2. PICK A, B : A = 0 .. n /\ B = SUBSET (0 .. n)
      OBVIOUS
    <3>3. \E a \in A, b \in B : p = <<a, b>>
      <4>1. p \in A \X B
        BY <3>1, <3>2, Zenon
      <4> QED
        BY ONLY <4>1
    <3> QED
      BY <3>2, <3>3, Zenon
  <2>2. Left(n, V) \in Nat
    BY LeftType, Zenon
  <2> QED
    BY <1>3, <2>1, <2>2, Zenon
<1> QED
  BY <1>2, <1>4, Zenon

\* Its equation, in which f is the walk.
LEMMA WalkAtIs ==
  ASSUME NEW data \in Seq(Byte)
  PROVE  \E f : \A off \in 0 .. Len(data), V \in SUBSET (0 .. Len(data)) :
           /\ WalkAt(data, off, V) = f[<<off, V>>]
           /\ WalkAt(data, off, V) = WalkBody(f, data, off, V)
           /\ WalkAt(data, off, V) \in NameSets
<1>1. PICK f \in [Walks(data) -> NameSets] : IsWalk(f, data)
  BY WalkExists, Zenon
<1>2. f = CHOOSE g : IsWalk(g, data)
  BY <1>1, WalkUnique, Zenon
<1>3. ASSUME NEW off \in 0 .. Len(data), NEW V \in SUBSET (0 .. Len(data))
      PROVE  /\ WalkAt(data, off, V) = f[<<off, V>>]
             /\ WalkAt(data, off, V) = WalkBody(f, data, off, V)
             /\ WalkAt(data, off, V) \in NameSets
  <2>1. WalkAt(data, off, V) = f[<<off, V>>]
    BY <1>2, Zenon DEF WalkAt
  <2>2. <<off, V>> \in Walks(data) /\ <<off, V>>[1] = off /\ <<off, V>>[2] = V
    BY Zenon DEF Walks
  <2>3. f[<<off, V>>] = WalkBody(f, data, off, V)
    BY <1>1, <2>2, Zenon DEF IsWalk
  <2>4. f[<<off, V>>] \in NameSets
    BY <1>1, <2>2, Zenon
  <2> QED
    BY <2>1, <2>3, <2>4, Zenon
<1> QED
  BY <1>3, Zenon

\* Behind the data, at a place that it has visited and at a byte that is neither a length
\* nor a pointer, the walk finds nothing; a pointer it follows, and a label it keeps.
LEMMA WalkEnd ==
  ASSUME NEW data \in Seq(Byte), NEW off \in 0 .. Len(data), NEW V \in SUBSET (0 .. Len(data)),
         off >= Len(data) \/ off \in V \/ IsReserved(data[off + 1])
  PROVE  WalkAt(data, off, V) = {}
<1>1. PICK f : WalkAt(data, off, V) = WalkBody(f, data, off, V)
  BY WalkAtIs, Zenon
<1>2. CASE off >= Len(data) \/ off \in V
  BY <1>1, <1>2, Zenon DEF WalkBody
<1>3. CASE ~(off >= Len(data) \/ off \in V)
  <2>1. IsReserved(data[off + 1])
    BY <1>3
  <2>2. PICK b \in 64 .. 191 : b = data[off + 1]
    BY <2>1, Zenon DEF IsReserved
  <2>3. ~(b = 0) /\ ~(b >= 192) /\ b > 63
    OBVIOUS
  <2> QED
    BY <1>1, <1>3, <2>2, <2>3, Zenon DEF WalkBody
<1> QED
  BY <1>2, <1>3

\* At the byte 0 the walk finds the empty name.
LEMMA WalkZero ==
  ASSUME NEW data \in Seq(Byte), NEW off \in 0 .. Len(data), NEW V \in SUBSET (0 .. Len(data)),
         off < Len(data), off \notin V, data[off + 1] = 0
  PROVE  WalkAt(data, off, V) = {<< >>}
<1>1. PICK f : WalkAt(data, off, V) = WalkBody(f, data, off, V)
  BY WalkAtIs, Zenon
<1>2. ~(off >= Len(data) \/ off \in V)
  <2>1. ~(off >= Len(data))
    BY ONLY off \in 0 .. Len(data), off < Len(data), data \in Seq(Byte)
  <2> QED
    BY <2>1, Zenon
<1> QED
  BY <1>1, <1>2, Zenon DEF WalkBody

\* From a pointer the walk goes on at its target, if it goes on.
LEMMA WalkPointer ==
  ASSUME NEW data \in Seq(Byte), NEW off \in 0 .. Len(data), NEW V \in SUBSET (0 .. Len(data)),
         off < Len(data), off \notin V, data[off + 1] >= 192
  PROVE  /\ GoesOn(data, off, V) =>
              /\ Target(data, off) \in 0 .. Len(data)
              /\ V \union {off} \in SUBSET (0 .. Len(data))
              /\ WalkAt(data, off, V) = WalkAt(data, Target(data, off), V \union {off})
         /\ ~GoesOn(data, off, V) => WalkAt(data, off, V) = {}
<1>1. PICK f : /\ WalkAt(data, off, V) = WalkBody(f, data, off, V)
               /\ \A p \in 0 .. Len(data), U \in SUBSET (0 .. Len(data)) :
                    WalkAt(data, p, U) = f[<<p, U>>]
  <2>1. PICK f : \A o \in 0 .. Len(data), U \in SUBSET (0 .. Len(data)) :
                   /\ WalkAt(data, o, U) = f[<<o, U>>]
                   /\ WalkAt(data, o, U) = WalkBody(f, data, o, U)
    BY ONLY data \in Seq(Byte), WalkAtIs, Zenon
  <2> QED
    BY <2>1, Zenon
<1>2. ~(off >= Len(data)) /\ off \in Nat
  BY ONLY off \in 0 .. Len(data), off < Len(data), data \in Seq(Byte)
<1>3. PICK b \in Byte : b = data[off + 1]
  BY <1>2, ByteAt, Zenon
<1>4. b # 0
  BY ONLY <1>3, data[off + 1] >= 192
<1>5. V \union {off} \in SUBSET (0 .. Len(data))
  OBVIOUS
<1>6. CASE GoesOn(data, off, V)
  <2>1. PICK p \in Nat : p = Target(data, off) /\ p < off
    BY <1>2, <1>6, TargetType, Zenon DEF GoesOn
  <2>2. p \in 0 .. Len(data)
    BY ONLY <1>2, <2>1, off \in 0 .. Len(data)
  <2>3. WalkAt(data, p, V \union {off}) = f[<<p, V \union {off}>>]
    BY <1>1, <1>5, <2>2, Zenon
  <2>4. WalkAt(data, off, V) = f[<<p, V \union {off}>>]
    BY <1>1, <1>2, <1>3, <1>4, <1>6, <2>1, Zenon DEF WalkBody
  <2> QED
    BY <1>5, <1>6, <2>1, <2>2, <2>3, <2>4, Zenon
<1>7. CASE ~GoesOn(data, off, V)
  BY <1>1, <1>2, <1>3, <1>4, <1>7, Zenon DEF WalkBody
<1> QED
  BY <1>6, <1>7

\* From a length the walk goes on behind the label, if it lies within the data.
LEMMA WalkLabel ==
  ASSUME NEW data \in Seq(Byte), NEW off \in 0 .. Len(data), NEW V \in SUBSET (0 .. Len(data)),
         off < Len(data), off \notin V, IsLength(data[off + 1])
  PROVE  /\ After(data, off) \in Nat /\ off + 1 < After(data, off)
         /\ After(data, off) <= Len(data) =>
              /\ After(data, off) \in 0 .. Len(data)
              /\ V \union {off} \in SUBSET (0 .. Len(data))
              /\ WalkAt(data, off, V) =
                   {<<LabelOf(data, off)>> \o name :
                      name \in WalkAt(data, After(data, off), V \union {off})}
         /\ ~(After(data, off) <= Len(data)) => WalkAt(data, off, V) = {}
<1>1. PICK f : /\ WalkAt(data, off, V) = WalkBody(f, data, off, V)
               /\ \A p \in 0 .. Len(data), U \in SUBSET (0 .. Len(data)) :
                    WalkAt(data, p, U) = f[<<p, U>>]
  <2>1. PICK f : \A o \in 0 .. Len(data), U \in SUBSET (0 .. Len(data)) :
                   /\ WalkAt(data, o, U) = f[<<o, U>>]
                   /\ WalkAt(data, o, U) = WalkBody(f, data, o, U)
    BY ONLY data \in Seq(Byte), WalkAtIs, Zenon
  <2> QED
    BY <2>1, Zenon
<1>2. ~(off >= Len(data)) /\ off \in Nat /\ Len(data) \in 0 .. Len(data)
  BY ONLY off \in 0 .. Len(data), off < Len(data), data \in Seq(Byte)
<1>3. PICK b \in 1 .. 63 : b = data[off + 1]
  BY Zenon DEF IsLength
<1>4. b # 0 /\ ~(b >= 192) /\ ~(b > 63)
  OBVIOUS
<1>5. V \union {off} \in SUBSET (0 .. Len(data))
  OBVIOUS
<1>6. PICK m \in Nat : m = After(data, off) /\ off + 1 < m
  BY <1>2, LabelRead, Zenon
<1>7. CASE m <= Len(data)
  <2>1. m \in 0 .. Len(data) /\ ~(m > Len(data))
    BY ONLY <1>7, m \in Nat, data \in Seq(Byte)
  <2>2. WalkAt(data, m, V \union {off}) = f[<<m, V \union {off}>>]
    BY <1>1, <1>5, <2>1, Zenon
  <2>3. WalkAt(data, off, V) =
          {<<LabelOf(data, off)>> \o name : name \in f[<<m, V \union {off}>>]}
    BY <1>1, <1>2, <1>3, <1>4, <1>6, <2>1, Zenon DEF WalkBody
  <2> QED
    BY <1>5, <1>6, <1>7, <2>1, <2>2, <2>3, Zenon
<1>8. CASE ~(m <= Len(data))
  <2>1. m > Len(data)
    BY ONLY <1>8, m \in Nat, data \in Seq(Byte)
  <2>2. WalkAt(data, off, V) = {}
    BY <1>1, <1>2, <1>3, <1>4, <1>6, <2>1, Zenon DEF WalkBody
  <2> QED
    BY <1>6, <1>8, <2>2, Zenon
<1> QED
  BY <1>7, <1>8

\* Where a label ends, and where the walk goes on.
LEMMA WalkAfter ==
  ASSUME NEW data \in Seq(Byte), NEW off \in 0 .. Len(data), off < Len(data),
         IsLength(data[off + 1])
  PROVE  After(data, off) \in Nat /\ off + 1 < After(data, off)
<1>1. off \in Nat /\ Len(data) \in 0 .. Len(data)
  BY ONLY off \in 0 .. Len(data), data \in Seq(Byte)
<1> QED
  BY <1>1, LabelRead, Zenon

Beyond(data, off, V) ==
  WalkAt(data, off, V) =
    {<<LabelOf(data, off)>> \o name : name \in WalkAt(data, After(data, off), V \union {off})}

\* A label that lies within the data begins the names behind it.
LEMMA WalkOn ==
  ASSUME NEW data \in Seq(Byte), NEW off \in 0 .. Len(data), NEW V \in SUBSET (0 .. Len(data)),
         off < Len(data), off \notin V, IsLength(data[off + 1]), After(data, off) <= Len(data)
  PROVE  Beyond(data, off, V)
BY WalkLabel, Zenon DEF Beyond

\* A label with which a name begins lies within the data.
LEMMA WalkGoesOn ==
  ASSUME NEW data \in Seq(Byte), NEW off \in 0 .. Len(data), NEW V \in SUBSET (0 .. Len(data)),
         off < Len(data), off \notin V, IsLength(data[off + 1]), WalkAt(data, off, V) # {}
  PROVE  After(data, off) <= Len(data)
BY WalkLabel, Zenon

\* Induction over the places of readers.
LEMMA ReaderInduction ==
  ASSUME NEW n \in Nat, NEW S,
         \A end, off \in 0 .. n :
           /\ \A p \in 0 .. n : p < off /\ off < end => <<off, p>> \in S
           /\ \A m \in 0 .. n : off < m => <<end, m>> \in S
           => <<end, off>> \in S
  PROVE  \A end, off \in 0 .. n : <<end, off>> \in S
<1> DEFINE T == {k \in Nat : \E end \in 0 .. n, off \in 0 .. n :
                               k = Rank(n, end, off) /\ <<end, off>> \notin S}
<1>1. ASSUME T # {} PROVE FALSE
  <2>1. PICK k \in T : \A m \in T : k <= m
    <3>1. T \subseteq Nat
      BY Zenon
    <3> HIDE DEF T
    <3> QED
      BY <1>1, <3>1, LeastNumber, Zenon
  <2>2. PICK end \in 0 .. n, off \in 0 .. n : k = Rank(n, end, off) /\ <<end, off>> \notin S
    BY <2>1, Zenon
  <2>3. ASSUME NEW e \in 0 .. n, NEW o \in 0 .. n, Rank(n, e, o) < k
        PROVE  <<e, o>> \in S
    <3>1. Rank(n, e, o) \in 0 .. n * (n + 1) + n
      BY RankType, Zenon
    <3>2. Rank(n, e, o) \in Nat
      BY <3>1
    <3>3. k \in Nat
      BY <2>1, Zenon
    <3>4. ~(k <= Rank(n, e, o))
      BY ONLY <2>3, <3>2, <3>3
    <3> QED
      BY <2>1, <3>2, <3>4, Zenon
  <2>4. \A p \in 0 .. n : p < off /\ off < end => <<off, p>> \in S
    BY <2>2, <2>3, RankBefore, Zenon
  <2>5. \A m \in 0 .. n : off < m => <<end, m>> \in S
    BY <2>2, <2>3, RankBehind, Zenon
  <2> QED
    BY <2>2, <2>4, <2>5, Zenon
<1>2. ASSUME NEW end \in 0 .. n, NEW off \in 0 .. n PROVE <<end, off>> \in S
  <2>1. Rank(n, end, off) \in Nat
    <3>1. Rank(n, end, off) \in 0 .. n * (n + 1) + n
      BY RankType, Zenon
    <3> QED
      BY <3>1
  <2> QED
    BY <1>1, <2>1, Zenon
<1> QED
  BY <1>2

-----------------------------------------------------------------------------
(* What the readers find, the walk finds *)

\* What a reader that got to off knows of a place x before: no reader of as little data
\* finds a name at x, unless one is found at off, which is behind it; and the reader has
\* none of the data behind a pointer.
Spent(data, x, end, off) ==
  /\ \/ \A e \in 0 .. end : Failed(ReadAt(data, e, x))
     \/ x < off /\ \A e \in 0 .. end : Failed(ReadAt(data, e, off)) => Failed(ReadAt(data, e, x))
  /\ data[x + 1] >= 192 => x >= end

AllSpent(data, V, end, off) == \A x \in V : Spent(data, x, end, off)

\* Places stay spent as the reader goes on behind a label,
LEMMA SpentLabel ==
  ASSUME NEW data \in Seq(Byte), NEW end \in 0 .. Len(data), NEW off \in 0 .. Len(data),
         NEW m \in 0 .. Len(data), off < end, IsLength(data[off + 1]), m = After(data, off),
         NEW V \in SUBSET (0 .. Len(data)), AllSpent(data, V, end, off)
  PROVE  AllSpent(data, V \union {off}, end, m)
<1>0. end \in Nat /\ off \in Nat /\ m \in Nat /\ end <= Len(data) /\ Len(data) \in Nat
  OBVIOUS
<1>1. off < m
  <2>1. off + 1 < m
    BY <1>0, LabelRead, Zenon
  <2> QED
    BY ONLY <1>0, <2>1
<1>2. ASSUME NEW e \in 0 .. end, Failed(ReadAt(data, e, m)) PROVE Failed(ReadAt(data, e, off))
  <2>0. e \in 0 .. Len(data) /\ e \in Nat
    BY ONLY <1>0, e \in 0 .. end
  <2>1. CASE off >= e
    BY <2>0, <2>1, ReadEnd, Zenon
  <2>2. CASE off < e
    BY <1>2, <2>0, <2>2, ReadLabel, Zenon DEF Labelled
  <2> QED
    BY ONLY <1>0, <2>0, <2>1, <2>2
<1>3. Spent(data, off, end, m)
  <2>1. PICK b \in 1 .. 63 : b = data[off + 1]
    BY Zenon DEF IsLength
  <2>2. ~(b >= 192)
    OBVIOUS
  <2> QED
    BY <1>1, <1>2, <2>1, <2>2, Zenon DEF Spent
<1>4. ASSUME NEW x \in V PROVE Spent(data, x, end, m)
  <2>1. Spent(data, x, end, off)
    BY Zenon DEF AllSpent
  <2>2. x < off => x < m
    <3>1. x \in Nat
      BY <1>0
    <3> QED
      BY ONLY <1>0, <1>1, <3>1
  <2> QED
    BY <1>2, <2>1, <2>2, Zenon DEF Spent
<1> QED
  BY <1>3, <1>4, Zenon DEF AllSpent

\* and for the reader that a pointer gets; and the place that is left is spent.
LEMMA SpentPointer ==
  ASSUME NEW data \in Seq(Byte), NEW end \in 0 .. Len(data), NEW off \in 0 .. Len(data),
         NEW p \in 0 .. Len(data), off < end,
         NEW V \in SUBSET (0 .. Len(data)), AllSpent(data, V, end, off)
  PROVE  AllSpent(data, V \union {off}, off, p)
<1>0. end \in Nat /\ off \in Nat /\ end <= Len(data) /\ Len(data) \in Nat
  OBVIOUS
<1>1. ASSUME NEW e \in 0 .. off PROVE Failed(ReadAt(data, e, off)) /\ e \in 0 .. end
  <2>1. e \in 0 .. Len(data) /\ off >= e /\ e \in 0 .. end
    BY ONLY <1>0, e \in 0 .. off, off < end
  <2> QED
    BY <2>1, ReadEnd, Zenon
<1>2. Spent(data, off, off, p)
  <2>1. off >= off
    BY <1>0
  <2> QED
    BY <1>1, <2>1, Zenon DEF Spent
<1>3. ASSUME NEW x \in V PROVE Spent(data, x, off, p)
  <2>1. Spent(data, x, end, off)
    BY Zenon DEF AllSpent
  <2>2. x >= end => x >= off
    <3>1. x \in Nat
      BY <1>0
    <3> QED
      BY ONLY <1>0, <3>1, off < end
  <2>3. \A e \in 0 .. off : Failed(ReadAt(data, e, x))
    BY <1>1, <2>1, Zenon DEF Spent
  <2> QED
    BY <2>1, <2>2, <2>3, Zenon DEF Spent
<1> QED
  BY <1>2, <1>3, Zenon DEF AllSpent

\* It has not been where it finds a name, nor does a pointer there end in another.
LEMMA NotSpent ==
  ASSUME NEW data \in Seq(Byte), NEW end \in 0 .. Len(data), NEW off \in 0 .. Len(data),
         NEW V \in SUBSET (0 .. Len(data)), AllSpent(data, V, end, off),
         ~Failed(ReadAt(data, end, off))
  PROVE  off \notin V /\ (off + 1 < end => ~(off + 1 \in V /\ data[off + 2] >= 192))
<1>0. end \in Nat /\ off \in Nat /\ end \in 0 .. end
  OBVIOUS
<1>1. ASSUME off \in V PROVE FALSE
  <2>1. Spent(data, off, end, off)
    BY <1>1, Zenon DEF AllSpent
  <2>2. ~(off < off)
    BY <1>0
  <2> QED
    BY <1>0, <2>1, <2>2, Zenon DEF Spent
<1>2. ASSUME off + 1 < end, off + 1 \in V, data[off + 2] >= 192 PROVE FALSE
  <2>1. Spent(data, off + 1, end, off)
    BY <1>2, Zenon DEF AllSpent
  <2>2. (off + 1) + 1 = off + 2 /\ ~(off + 1 >= end)
    BY <1>0, <1>2
  <2> QED
    BY <1>2, <2>1, <2>2, Zenon DEF Spent
<1> QED
  BY <1>1, <1>2

Finds(data, end, off) ==
  ~Failed(ReadAt(data, end, off)) =>
    \A V \in SUBSET (0 .. Len(data)) :
      AllSpent(data, V, end, off) => ReadAt(data, end, off).value \in WalkAt(data, off, V)

\* The parts of a result.
LEMMA ValueOf ==
  ASSUME NEW r, NEW v, NEW o, r = Read(v, o)
  PROVE  ~Failed(r) /\ r.value = v /\ r.off = o
  BY Zenon DEF Read, Failed

\* The step of the induction: what the code reads, the walk finds.
LEMMA WalkFinds ==
  ASSUME NEW data \in Seq(Byte), NEW end \in 0 .. Len(data), NEW off \in 0 .. Len(data),
         \A p \in 0 .. Len(data) : p < off /\ off < end => Finds(data, off, p),
         \A m \in 0 .. Len(data) : off < m => Finds(data, end, m)
  PROVE  Finds(data, end, off)
<1>0. end \in Nat /\ off \in Nat /\ end <= Len(data) /\ Len(data) \in Nat
  OBVIOUS
<1>1. SUFFICES ASSUME ~Failed(ReadAt(data, end, off)),
                      NEW V \in SUBSET (0 .. Len(data)), AllSpent(data, V, end, off)
               PROVE  ReadAt(data, end, off).value \in WalkAt(data, off, V)
  BY Zenon DEF Finds
<1>2. off < end /\ off < Len(data) /\ ~IsReserved(data[off + 1])
  <2>1. ~(off >= end) /\ ~IsReserved(data[off + 1])
    BY <1>1, ReadEnd, Zenon
  <2> QED
    BY ONLY <1>0, <2>1
<1>3. off \notin V /\ (off + 1 < end => ~(off + 1 \in V /\ data[off + 2] >= 192))
  BY <1>1, NotSpent, Zenon
<1>4. PICK b \in Byte : b = data[off + 1]
  BY <1>0, <1>2, ByteAt, Zenon
<1>5. CASE b >= 192
  <2>1. /\ Followed(data, end, off)
        /\ ReadAt(data, end, off) = Read(ReadAt(data, off, Target(data, off)).value, off + 2)
    BY <1>1, <1>2, <1>4, <1>5, ReadPointer, Zenon
  <2>2. PICK p \in Nat : /\ p = Target(data, off) /\ p < off /\ off + 1 < end
                         /\ ~Failed(ReadAt(data, off, p))
    BY <2>1, Zenon DEF Followed
  <2>3. off + 1 < Len(data) /\ p \in 0 .. Len(data)
    BY ONLY <1>0, <2>2, p \in Nat
  <2>4. GoesOn(data, off, V)
    BY <1>3, <2>2, <2>3, Zenon DEF GoesOn
  <2>5. /\ WalkAt(data, off, V) = WalkAt(data, p, V \union {off})
        /\ V \union {off} \in SUBSET (0 .. Len(data))
    BY <1>2, <1>3, <1>4, <1>5, <2>2, <2>4, WalkPointer, Zenon
  <2>6. AllSpent(data, V \union {off}, off, p)
    BY <1>1, <1>2, <2>3, SpentPointer, Zenon
  <2>7. Finds(data, off, p)
    BY <1>2, <2>2, <2>3, Zenon
  <2>8. ReadAt(data, off, p).value \in WalkAt(data, p, V \union {off})
    BY <2>2, <2>5, <2>6, <2>7, Zenon DEF Finds
  <2>9. ReadAt(data, end, off).value = ReadAt(data, off, p).value
    BY <2>1, <2>2, ValueOf, Zenon
  <2> QED
    BY <2>5, <2>8, <2>9, Zenon
<1>6. CASE b = 0
  <2>1. ReadAt(data, end, off).value = << >>
    <3>1. ReadAt(data, end, off) = Read(<< >>, off + 1)
      BY <1>2, <1>4, <1>6, ReadZero, Zenon
    <3> QED
      BY ONLY <3>1, ValueOf, Zenon
  <2>2. WalkAt(data, off, V) = {<< >>}
    BY <1>2, <1>3, <1>4, <1>6, WalkZero, Zenon
  <2> QED
    BY <2>1, <2>2, Zenon
<1>7. CASE IsLength(b)
  <2>1. PICK m \in Nat : /\ m = After(data, off) /\ off + 1 < m /\ m <= end
                         /\ ~Failed(ReadAt(data, end, m))
    <3>1. IsLength(data[off + 1])
      BY <1>4, <1>7, Zenon
    <3>2. Labelled(data, end, off)
      BY ONLY <1>1, <1>2, <3>1, data \in Seq(Byte), end \in 0 .. Len(data),
              off \in 0 .. Len(data), ReadIsLabelled, Zenon
    <3> QED
      BY <3>2, Zenon DEF Labelled
  <2>2. off < m /\ m <= Len(data) /\ m \in 0 .. Len(data)
    BY ONLY <1>0, <2>1, m \in Nat
  <2>3. ReadAt(data, end, off) = Read(<<LabelOf(data, off)>> \o ReadAt(data, end, m).value,
                                      ReadAt(data, end, m).off)
    <3>1. IsLength(data[off + 1])
      BY <1>4, <1>7, Zenon
    <3>2. Labelled(data, end, off)
      BY <2>1, Zenon DEF Labelled
    <3>3. ReadAt(data, end, off) =
            Read(<<LabelOf(data, off)>> \o ReadAt(data, end, After(data, off)).value,
                 ReadAt(data, end, After(data, off)).off)
      BY <1>2, <3>1, <3>2, LabelledIsRead, Zenon
    <3> QED
      BY <2>1, <3>3, Zenon
  <2>4. WalkAt(data, off, V) =
          {<<LabelOf(data, off)>> \o name : name \in WalkAt(data, m, V \union {off})}
        /\ V \union {off} \in SUBSET (0 .. Len(data))
    <3>1. IsLength(data[off + 1])
      BY <1>4, <1>7, Zenon
    <3>2. V \union {off} \in SUBSET (0 .. Len(data))
      OBVIOUS
    <3>3. After(data, off) <= Len(data)
      BY <2>1, <2>2, Zenon
    <3>4. Beyond(data, off, V)
      BY <1>2, <1>3, <3>1, <3>3, WalkOn, Zenon
    <3> QED
      BY ONLY <2>1, <3>2, <3>4, Zenon DEF Beyond
  <2>5. AllSpent(data, V \union {off}, end, m)
    BY <1>1, <1>2, <1>4, <1>7, <2>1, <2>2, SpentLabel, Zenon
  <2>6. Finds(data, end, m)
    BY <2>2, Zenon
  <2>7. ReadAt(data, end, m).value \in WalkAt(data, m, V \union {off})
    BY <2>1, <2>4, <2>5, <2>6, Zenon DEF Finds
  <2>8. ReadAt(data, end, off).value = <<LabelOf(data, off)>> \o ReadAt(data, end, m).value
    <3>1. PICK v, o : /\ v = <<LabelOf(data, off)>> \o ReadAt(data, end, m).value
                      /\ o = ReadAt(data, end, m).off
      OBVIOUS
    <3>2. ReadAt(data, end, off) = Read(v, o)
      BY <2>3, <3>1, Zenon
    <3>3. ReadAt(data, end, off).value = v
      BY ONLY <3>2, ValueOf, Zenon
    <3> QED
      BY ONLY <3>1, <3>3
  <2> QED
    BY <2>4, <2>7, <2>8, Zenon
<1>8. b >= 192 \/ IsReserved(b) \/ b = 0 \/ IsLength(b)
  BY ONLY b \in Byte, ByteCases, Zenon
<1> QED
  BY <1>2, <1>4, <1>5, <1>6, <1>7, <1>8, Zenon

\* Wherever it starts.
LEMMA CodeIsWalk ==
  ASSUME NEW data \in Seq(Byte)
  PROVE  \A end, off \in 0 .. Len(data) : Finds(data, end, off)
<1>1. PICK n \in Nat : n = Len(data)
  OBVIOUS
<1> DEFINE S == {q \in (0 .. n) \X (0 .. n) : Finds(data, q[1], q[2])}
<1>2. ASSUME NEW end \in 0 .. n, NEW off \in 0 .. n
      PROVE  <<end, off>> \in S <=> Finds(data, end, off)
  BY Zenon
<1>3. ASSUME NEW end \in 0 .. n, NEW off \in 0 .. n,
             \A p \in 0 .. n : p < off /\ off < end => <<off, p>> \in S,
             \A m \in 0 .. n : off < m => <<end, m>> \in S
      PROVE  <<end, off>> \in S
  BY <1>1, <1>2, <1>3, WalkFinds, Zenon
<1> HIDE DEF S
<1>4. \A end, off \in 0 .. n : <<end, off>> \in S
  BY <1>3, ReaderInduction, Zenon
<1> QED
  BY <1>1, <1>2, <1>4, Zenon

-----------------------------------------------------------------------------
(* FlattenSeq *)

FlatBody(f, ss, i) == IF i = 1 THEN ss[i] ELSE f[i - 1] \o ss[i]
IsFlat(f, ss) == f = [i \in 1 .. Len(ss) |-> FlatBody(f, ss, i)]

\* FlattenSeq has a function that concatenates,
LEMMA FlatExists ==
  ASSUME NEW B, NEW ss \in Seq(Seq(B))
  PROVE  \E f \in [1 .. Len(ss) -> Seq(B)] : IsFlat(f, ss)
<1>1. PICK n \in Nat : n = Len(ss)
  OBVIOUS
<1> DEFINE S == 1 .. n
           F == [S -> Seq(B)]
           rank == [i \in S |-> i]
           G == [q \in F \X S |-> FlatBody(q[1], ss, q[2])]
<1>2. \A i \in S : ss[i] \in Seq(B)
  BY <1>1
<1>3. rank \in [S -> 0 .. n]
  OBVIOUS
<1>4. ASSUME NEW f \in F, NEW i \in S PROVE FlatBody(f, ss, i) \in Seq(B)
  <2>1. CASE i = 1
    BY <1>2, <2>1, Zenon DEF FlatBody
  <2>2. CASE i # 1
    <3>1. i - 1 \in S
      BY <2>2
    <3>2. f[i - 1] \in Seq(B) /\ ss[i] \in Seq(B)
      BY <1>2, <3>1, Zenon
    <3>3. f[i - 1] \o ss[i] \in Seq(B)
      BY ONLY <3>2
    <3> QED
      BY <2>2, <3>3, Zenon DEF FlatBody
  <2> QED
    BY <2>1, <2>2
<1>5. G \in [F \X S -> Seq(B)]
  <2>1. ASSUME NEW q \in F \X S PROVE FlatBody(q[1], ss, q[2]) \in Seq(B)
    <3>1. q[1] \in F /\ q[2] \in S
      BY Zenon
    <3> QED
      BY <1>4, <3>1, Zenon
  <2> QED
    BY <2>1, Zenon
<1>6. ASSUME NEW f \in F, NEW g \in F, NEW i \in S,
             \A j \in S : rank[j] < rank[i] => f[j] = g[j]
      PROVE  G[<<f, i>>] = G[<<g, i>>]
  <2>1. G[<<f, i>>] = FlatBody(f, ss, i) /\ G[<<g, i>>] = FlatBody(g, ss, i)
    BY Zenon
  <2>2. CASE i = 1
    BY <2>1, <2>2, Zenon DEF FlatBody
  <2>3. CASE i # 1
    <3>1. i - 1 \in S /\ i - 1 < i
      BY <2>3
    <3>2. rank[i - 1] = i - 1 /\ rank[i] = i
      BY <3>1, Zenon
    <3>3. f[i - 1] = g[i - 1]
      BY <1>6, <3>1, <3>2, Zenon
    <3> QED
      BY <2>1, <2>3, <3>3, Zenon DEF FlatBody
  <2> QED
    BY <2>2, <2>3
<1>7. << >> \in Seq(B)
  OBVIOUS
<1> HIDE DEF S, rank, G
<1>8. PICK f \in F : \A x \in S : f[x] = G[<<f, x>>]
  <2>1. \A h, g \in [S -> Seq(B)], x \in S :
          (\A y \in S : rank[y] < rank[x] => h[y] = g[y]) => G[<<h, x>>] = G[<<g, x>>]
    BY <1>6, Zenon
  <2> HIDE DEF F
  <2>2. F = [S -> Seq(B)]
    BY Zenon DEF F
  <2>3. G \in [[S -> Seq(B)] \X S -> Seq(B)]
    BY <1>5, <2>2, Zenon
  <2>4. \E h \in [S -> Seq(B)] : \A x \in S : h[x] = G[<<h, x>>]
    <3>1. Recurses(S, Seq(B), n, rank, G)
      BY <1>3, <1>7, <2>1, <2>3, Zenon DEF Recurses
    <3>2. HasFixed(S, Seq(B), G)
      BY ONLY <3>1, Recursion, Zenon
    <3> QED
      BY ONLY <3>2, Zenon DEF HasFixed
  <2> QED
    BY <2>2, <2>4, Zenon
<1>9. \A x \in S : G[<<f, x>>] = FlatBody(f, ss, x)
  BY Zenon DEF G
<1>10. f = [x \in S |-> FlatBody(f, ss, x)]
  <2>1. f = [x \in S |-> f[x]]
    BY Zenon
  <2> QED
    BY <1>8, <1>9, <2>1, Zenon
<1> QED
  BY <1>1, <1>10, Zenon DEF IsFlat, S

\* and no other,
LEMMA FlatUnique ==
  ASSUME NEW B, NEW ss \in Seq(Seq(B)), NEW f, NEW g, IsFlat(f, ss), IsFlat(g, ss)
  PROVE  f = g
<1>1. PICK n \in Nat : n = Len(ss)
  OBVIOUS
<1>2. /\ \A i \in 1 .. n : f[i] = FlatBody(f, ss, i)
      /\ \A i \in 1 .. n : g[i] = FlatBody(g, ss, i)
      /\ f = [i \in 1 .. n |-> f[i]]
      /\ g = [i \in 1 .. n |-> g[i]]
  BY <1>1, Zenon DEF IsFlat
<1> DEFINE S == {i \in 0 .. n : i = 0 \/ f[i] = g[i]}
<1>3. 0 \in S
  OBVIOUS
<1>4. ASSUME NEW i \in 1 .. n, i - 1 \in S PROVE i \in S
  <2>0. i \in 0 .. n
    OBVIOUS
  <2>1. CASE i = 1
    BY <1>2, <2>0, <2>1, Zenon DEF FlatBody
  <2>2. CASE i # 1
    <3>1. i - 1 # 0 /\ i \in 0 .. n
      BY <2>2
    <3>2. f[i - 1] = g[i - 1]
      BY <1>4, <3>1, Zenon
    <3> QED
      <4>1. FlatBody(f, ss, i) = f[i - 1] \o ss[i]
        BY <2>2, Zenon DEF FlatBody
      <4>2. FlatBody(g, ss, i) = g[i - 1] \o ss[i]
        BY <2>2, Zenon DEF FlatBody
      <4> QED
        BY <1>2, <2>0, <3>2, <4>1, <4>2, Zenon
  <2> QED
    BY <2>1, <2>2
<1> HIDE DEF S
<1>5. 0 .. n \subseteq S
  BY <1>3, <1>4, UpTo, Zenon
<1>6. \A i \in 1 .. n : f[i] = g[i]
  <2>1. ASSUME NEW i \in 1 .. n PROVE i \in 0 .. n /\ i # 0
    OBVIOUS
  <2> QED
    BY <1>5, <2>1, Zenon DEF S
<1> QED
  BY <1>2, <1>6, Zenon

\* One sequence is put behind the other.
Flattens(f, ss, n) ==
  f[0] = << >> /\ (\A i \in 1 .. n : f[i] = f[i - 1] \o ss[i]) /\ FlattenSeq(ss) = f[n]

\* so that its value is what the concatenations of the first ones lead to.
LEMMA FlattenIs ==
  ASSUME NEW B, NEW ss \in Seq(Seq(B)), NEW n \in Nat, n = Len(ss)
  PROVE  \E f \in [0 .. n -> Seq(B)] : Flattens(f, ss, n)
<1>1. PICK g \in [1 .. n -> Seq(B)] : IsFlat(g, ss)
  BY FlatExists, Zenon
<1>2. g = CHOOSE f : IsFlat(f, ss)
  BY <1>1, FlatUnique, Zenon
<1> DEFINE f == [i \in 0 .. n |-> IF i = 0 THEN << >> ELSE g[i]]
<1>3. f \in [0 .. n -> Seq(B)]
  <2>1. ASSUME NEW i \in 0 .. n PROVE (IF i = 0 THEN << >> ELSE g[i]) \in Seq(B)
    <3>1. << >> \in Seq(B)
      OBVIOUS
    <3>2. i # 0 => i \in 1 .. n
      OBVIOUS
    <3> QED
      BY <3>1, <3>2, Zenon
  <2> QED
    BY <2>1, Zenon
<1>4. f[0] = << >>
  OBVIOUS
<1>5. ASSUME NEW i \in 1 .. n PROVE f[i] = f[i - 1] \o ss[i]
  <2>1. i \in 0 .. n /\ i # 0 /\ i - 1 \in 0 .. n
    OBVIOUS
  <2>2. f[i] = g[i] /\ g[i] = FlatBody(g, ss, i)
    BY <1>1, <2>1, Zenon DEF IsFlat
  <2>3. CASE i = 1
    <3>1. f[i - 1] = << >>
      BY <2>3
    <3>2. ss[i] \in Seq(B)
      OBVIOUS
    <3>3. << >> \o ss[i] = ss[i]
      BY ONLY <3>2
    <3> QED
      BY <2>2, <2>3, <3>1, <3>3, Zenon DEF FlatBody
  <2>4. CASE i # 1
    <3>1. i - 1 # 0
      BY <2>4
    <3>2. f[i - 1] = g[i - 1]
      BY <2>1, <3>1, Zenon
    <3> QED
      BY <2>2, <2>4, <3>2, Zenon DEF FlatBody
  <2> QED
    BY <2>3, <2>4
<1>6. FlattenSeq(ss) = f[n]
  <2>1. CASE n = 0
    <3>1. ss = << >>
      BY <2>1, EmptySeq, Zenon
    <3> QED
      BY <1>4, <2>1, <3>1, Zenon DEF FlattenSeq
  <2>2. CASE n # 0
    <3>1. n \in 0 .. n
      OBVIOUS
    <3>2. FlattenSeq(ss) = g[n]
      BY <1>2, <2>2, Zenon DEF FlattenSeq, IsFlat, FlatBody
    <3> QED
      BY <2>2, <3>1, <3>2, Zenon
  <2> QED
    BY <2>1, <2>2
<1> HIDE DEF f
<1> QED
  BY <1>3, <1>4, <1>5, <1>6, Zenon DEF Flattens

\* Of the sequences behind the first.
LEMMA FlattenTail ==
  ASSUME NEW B, NEW l \in Seq(B), NEW v \in Seq(Seq(B))
  PROVE  /\ Len(FlattenSeq(<<l>> \o v)) = Len(l) + Len(FlattenSeq(v))
         /\ Len(FlattenSeq(v)) \in Nat
<1>1. PICK n \in Nat : n = Len(v)
  OBVIOUS
<1>2. PICK w : w = <<l>> \o v /\ w \in Seq(Seq(B)) /\ Len(w) = n + 1 /\ w[1] = l
                /\ \A i \in 1 .. n : w[i + 1] = v[i]
  <2>1. /\ <<l>> \o v \in Seq(Seq(B)) /\ Len(<<l>> \o v) = n + 1 /\ (<<l>> \o v)[1] = l
        /\ \A i \in 1 .. n : (<<l>> \o v)[i + 1] = v[i]
    BY <1>1
  <2> QED
    BY <2>1, Zenon
<1>3. PICK f \in [0 .. n -> Seq(B)] : Flattens(f, v, n)
  BY <1>1, FlattenIs, Zenon
<1>4. PICK g \in [0 .. n + 1 -> Seq(B)] : Flattens(g, w, n + 1)
  <2>1. PICK k \in Nat : k = n + 1
    OBVIOUS
  <2>2. w \in Seq(Seq(B)) /\ k = Len(w)
    BY <1>2, <2>1, Zenon
  <2>3. \E g \in [0 .. k -> Seq(B)] : Flattens(g, w, k)
    BY ONLY <2>2, k \in Nat, FlattenIs, Zenon
  <2> QED
    BY <2>1, <2>3, Zenon
<1> DEFINE S == {i \in 0 .. n : Len(g[i + 1]) = Len(l) + Len(f[i])}
<1>5. 0 \in S
  <2>1. 1 \in 1 .. n + 1 /\ 1 - 1 = 0 /\ 0 + 1 = 1 /\ 0 \in 0 .. n
    OBVIOUS
  <2>2. g[1] = << >> \o l /\ f[0] = << >>
    <3>1. f[0] = << >> /\ g[0] = << >>
      BY <1>3, <1>4, Zenon DEF Flattens
    <3>2. g[1] = g[1 - 1] \o w[1]
      BY <1>4, <2>1, Zenon DEF Flattens
    <3> QED
      BY <1>2, <2>1, <3>1, <3>2, Zenon
  <2>3. Len(g[1]) = Len(l) + Len(f[0])
    BY ONLY <2>2, l \in Seq(B)
  <2> QED
    BY <2>1, <2>3, Zenon
<1>6. ASSUME NEW i \in 1 .. n, i - 1 \in S PROVE i \in S
  <2>1. /\ i + 1 \in 1 .. n + 1 /\ (i + 1) - 1 = i /\ (i - 1) + 1 = i
        /\ i \in 0 .. n /\ i - 1 \in 0 .. n /\ i \in 0 .. n + 1
    OBVIOUS
  <2>2. g[i + 1] = g[i] \o v[i] /\ f[i] = f[i - 1] \o v[i]
    BY <1>2, <1>3, <1>4, <2>1, Zenon DEF Flattens
  <2>3. v[i] \in Seq(B) /\ g[i] \in Seq(B) /\ f[i - 1] \in Seq(B)
    <3>1. v[i] \in Seq(B)
      BY <1>1
    <3> QED
      BY <2>1, <3>1, Zenon
  <2>4. Len(g[i]) = Len(l) + Len(f[i - 1])
    BY <1>6, <2>1, Zenon
  <2>5. Len(g[i + 1]) = Len(l) + Len(f[i])
    <3>1. PICK a \in Seq(B), b \in Seq(B), c \in Seq(B) : a = g[i] /\ b = f[i - 1] /\ c = v[i]
      BY <2>3, Zenon
    <3>2. Len(a \o c) = Len(l) + Len(b \o c)
      <4>1. Len(a) = Len(l) + Len(b)
        BY <2>4, <3>1, Zenon
      <4>2. Len(a \o c) = Len(a) + Len(c) /\ Len(b \o c) = Len(b) + Len(c)
        OBVIOUS
      <4>3. Len(a) \in Nat /\ Len(b) \in Nat /\ Len(c) \in Nat /\ Len(l) \in Nat
        OBVIOUS
      <4> QED
        BY ONLY <4>1, <4>2, <4>3
    <3> QED
      BY <2>2, <3>1, <3>2, Zenon
  <2> QED
    BY <2>1, <2>5, Zenon
<1> HIDE DEF S
<1>7. 0 .. n \subseteq S
  BY <1>5, <1>6, UpTo, Zenon
<1>8. n \in S /\ f[n] \in Seq(B)
  <2>1. n \in 0 .. n
    OBVIOUS
  <2> QED
    BY <1>7, <2>1, Zenon
<1>9. Len(g[n + 1]) = Len(l) + Len(f[n])
  BY <1>8, Zenon DEF S
<1> QED
  <2>1. FlattenSeq(w) = g[n + 1] /\ FlattenSeq(v) = f[n]
    BY <1>3, <1>4, Zenon DEF Flattens
  <2>2. Len(f[n]) \in Nat
    BY <1>8
  <2> QED
    BY <1>2, <1>9, <2>1, <2>2, Zenon

-----------------------------------------------------------------------------
(* What the walk finds, the readers find *)

LabelOK(l) == Len(l) \in 1 .. 63 /\ LabelMatches(l)

\* Of a valid name, the first label and what follows it are valid.
LEMMA ValidTail ==
  ASSUME NEW l \in Seq(Byte), NEW v \in Seq(Seq(Byte)), Validate(<<l>> \o v)
  PROVE  LabelOK(l) /\ Validate(v)
<1>1. PICK w : w = <<l>> \o v
  OBVIOUS
<1>2. /\ Len(w) = Len(v) + 1 /\ DOMAIN w = 1 .. Len(v) + 1 /\ w[1] = l
      /\ DOMAIN v = 1 .. Len(v) /\ \A i \in 1 .. Len(v) : w[i + 1] = v[i]
  BY <1>1
<1>3. Validate(w)
  BY <1>1, Zenon
<1>4. \A i \in 1 .. Len(v) + 1 : LabelOK(w[i])
  BY <1>2, <1>3, Zenon DEF Validate, LabelOK
<1>5. LabelOK(l)
  <2>1. 1 \in 1 .. Len(v) + 1
    OBVIOUS
  <2> QED
    BY <1>2, <1>4, <2>1, Zenon
<1>6. \A i \in 1 .. Len(v) : LabelOK(v[i])
  <2>1. ASSUME NEW i \in 1 .. Len(v) PROVE i + 1 \in 1 .. Len(v) + 1
    OBVIOUS
  <2> QED
    BY <1>2, <1>4, <2>1, Zenon
<1>7. 1 + Len(v) + Len(FlattenSeq(v)) <= 255
  <2>1. PICK a : a = Len(FlattenSeq(w))
    OBVIOUS
  <2>2. PICK b \in Nat : b = Len(FlattenSeq(v)) /\ a = Len(l) + b
    BY <1>1, <2>1, FlattenTail, Zenon
  <2>3. 1 + Len(w) + a <= 255
    BY <1>3, <2>1, Zenon DEF Validate
  <2>4. 1 + Len(v) + b <= 255
    BY ONLY <1>2, <2>2, <2>3, l \in Seq(Byte), v \in Seq(Seq(Byte))
  <2> QED
    BY <2>2, <2>4, Zenon
<1> QED
  BY <1>2, <1>5, <1>6, <1>7, Zenon DEF Validate, LabelOK

\* A byte of a label is a letter, a digit or a hyphen.
LEMMA LabelBytes ==
  ASSUME NEW l \in Seq(Byte), LabelOK(l), NEW i \in 1 .. Len(l)
  PROVE  l[i] \in 45 .. 122 /\ l[i] # Dot
<1>1. ToSet(l) \subseteq LetterOrDigit \union {45}
  BY Zenon DEF LabelOK, LabelMatches
<1>2. l[i] \in ToSet(l)
  <2>1. i \in DOMAIN l
    OBVIOUS
  <2> QED
    BY <2>1, Zenon DEF ToSet
<1>3. l[i] \in LetterOrDigit \union {45}
  BY <1>1, <1>2, Zenon
<1>4. PICK x \in LetterOrDigit \union {45} : x = l[i]
  BY <1>3, Zenon
<1>5. x \in 45 .. 122 /\ x # Dot
  BY ONLY x \in LetterOrDigit \union {45} DEF LetterOrDigit, Letter, Dot
<1> QED
  BY <1>4, <1>5, Zenon

\* The reader has all of the data, or what is before a pointer where the walk has been.
Led(data, end, V) == end = Len(data) \/ (end \in V /\ end < Len(data) /\ data[end + 1] >= 192)

Reads(data, end, off) ==
  off <= end =>
    \A V \in SUBSET (0 .. Len(data)) : \A name \in WalkAt(data, off, V) :
      Led(data, end, V) /\ Validate(name) =>
        ~Failed(ReadAt(data, end, off)) /\ ReadAt(data, end, off).value = name

\* The step of the induction: what the walk finds, the code reads.
LEMMA ReaderFinds ==
  ASSUME NEW data \in Seq(Byte), NEW end \in 0 .. Len(data), NEW off \in 0 .. Len(data),
         \A p \in 0 .. Len(data) : p < off /\ off < end => Reads(data, off, p),
         \A m \in 0 .. Len(data) : off < m => Reads(data, end, m)
  PROVE  Reads(data, end, off)
<1>0. end \in Nat /\ off \in Nat /\ end <= Len(data) /\ Len(data) \in Nat
  OBVIOUS
<1>1. SUFFICES ASSUME off <= end, NEW V \in SUBSET (0 .. Len(data)),
                      NEW name \in WalkAt(data, off, V), Led(data, end, V), Validate(name)
               PROVE  ~Failed(ReadAt(data, end, off)) /\ ReadAt(data, end, off).value = name
  BY Zenon DEF Reads
<1>2. off < Len(data) /\ off \notin V /\ ~IsReserved(data[off + 1])
  <2>1. ~(off >= Len(data)) /\ off \notin V /\ ~IsReserved(data[off + 1])
    BY WalkEnd, Zenon
  <2> QED
    BY ONLY <1>0, <2>1
<1>3. off < end
  <2>1. CASE end = Len(data)
    BY <1>2, <2>1
  <2>2. CASE end \in V
    <3>1. off # end
      BY <1>2, <2>2, Zenon
    <3> QED
      BY ONLY <1>0, <1>1, <3>1
  <2> QED
    BY <1>1, <2>1, <2>2, Zenon DEF Led
<1>4. PICK b \in Byte : b = data[off + 1]
  BY <1>0, <1>2, ByteAt, Zenon
<1>5. CASE b >= 192
  <2>1. GoesOn(data, off, V)
    BY <1>2, <1>4, <1>5, WalkPointer, Zenon
  <2>2. PICK p : /\ p = Target(data, off) /\ p \in 0 .. Len(data)
                 /\ V \union {off} \in SUBSET (0 .. Len(data))
                 /\ WalkAt(data, off, V) = WalkAt(data, p, V \union {off})
    BY <1>2, <1>4, <1>5, <2>1, WalkPointer, Zenon
  <2>3. p < off /\ off + 1 < Len(data) /\ ~(off + 1 \in V /\ data[off + 2] >= 192)
    BY <2>1, <2>2, Zenon DEF GoesOn
  <2>4. off + 1 < end
    <3>1. CASE end = Len(data)
      BY <2>3, <3>1, Zenon
    <3>2. CASE end \in V /\ data[end + 1] >= 192
      <4>1. ASSUME off + 1 = end PROVE FALSE
        <5>1. (off + 1) + 1 = off + 2
          BY <1>0
        <5> QED
          BY <2>3, <3>2, <4>1, <5>1, Zenon
      <4> QED
        BY ONLY <1>0, <1>3, <4>1
    <3> QED
      BY <1>1, <3>1, <3>2, Zenon DEF Led
  <2>5. Led(data, off, V \union {off})
    BY <1>2, <1>4, <1>5, Zenon DEF Led
  <2>6. Reads(data, off, p) /\ p <= off /\ p \in Nat
    <3>1. p <= off /\ p \in Nat
      BY ONLY <1>0, <2>2, <2>3
    <3> QED
      BY <1>3, <2>2, <2>3, <3>1, Zenon
  <2>7. name \in WalkAt(data, p, V \union {off})
    BY <2>2, Zenon
  <2>8. ~Failed(ReadAt(data, off, p)) /\ ReadAt(data, off, p).value = name
    BY <1>1, <2>2, <2>5, <2>6, <2>7, Zenon DEF Reads
  <2>9. Followed(data, end, off)
    BY <1>1, <2>2, <2>3, <2>4, <2>6, <2>8, Zenon DEF Followed
  <2>10. ReadAt(data, end, off) = Read(name, off + 2)
    BY <1>3, <1>4, <1>5, <2>2, <2>8, <2>9, ReadPointer, Zenon
  <2> QED
    BY ONLY <2>10, ValueOf, Zenon
<1>6. CASE b = 0
  <2>1. name = << >>
    <3>1. WalkAt(data, off, V) = {<< >>}
      BY <1>2, <1>4, <1>6, WalkZero, Zenon
    <3> QED
      BY <3>1, Zenon
  <2>2. ReadAt(data, end, off) = Read(name, off + 1)
    BY <1>3, <1>4, <1>6, <2>1, ReadZero, Zenon
  <2> QED
    BY ONLY <2>2, ValueOf, Zenon
<1>7. CASE IsLength(b)
  <2>1. PICK m \in Nat : /\ m = After(data, off) /\ off + 1 < m
                         /\ m <= Len(data) /\ m \in 0 .. Len(data)
    <3>1. IsLength(data[off + 1])
      BY <1>4, <1>7, Zenon
    <3>2. PICK m \in Nat : m = After(data, off) /\ off + 1 < m
      BY <1>2, <3>1, WalkAfter, Zenon
    <3>3. m <= Len(data)
      BY <1>2, <3>1, <3>2, WalkGoesOn, Zenon
    <3>4. m \in 0 .. Len(data)
      BY ONLY <3>3, m \in Nat, data \in Seq(Byte)
    <3> QED
      BY <3>2, <3>3, <3>4, Zenon
  <2>2. PICK v : v \in WalkAt(data, m, V \union {off}) /\ name = <<LabelOf(data, off)>> \o v
    <3>1. WalkAt(data, off, V) =
            {<<LabelOf(data, off)>> \o v : v \in WalkAt(data, m, V \union {off})}
      <4>1. IsLength(data[off + 1])
        BY <1>4, <1>7, Zenon
      <4>2. After(data, off) <= Len(data)
        BY <2>1, Zenon
      <4>3. Beyond(data, off, V)
        BY <1>2, <4>1, <4>2, WalkOn, Zenon
      <4> QED
        BY ONLY <2>1, <4>3, Zenon DEF Beyond
    <3> QED
      BY <3>1, Zenon
  <2>3. PICK l \in Seq(Byte) : /\ l = LabelOf(data, off) /\ Len(l) = b
                               /\ \A i \in 1 .. b : l[i] = data[off + 1 + i]
    <3>1. Len(data) \in 0 .. Len(data) /\ off \in Nat
      BY <1>0
    <3>2. IsLength(data[off + 1])
      BY <1>4, <1>7, Zenon
    <3>3. IsLabel(LabelOf(data, off), data, off)
      BY <1>2, <2>1, <3>1, <3>2, LabelHasBytes, Zenon
    <3> QED
      BY <1>4, <3>3, Zenon DEF IsLabel
  <2>4. V \union {off} \in SUBSET (0 .. Len(data))
    OBVIOUS
  <2>5. v \in Seq(Seq(Byte))
    BY <2>1, <2>2, <2>4, WalkAtIs, Zenon DEF NameSets
  <2>6. LabelOK(l) /\ Validate(v)
    BY <1>1, <2>2, <2>3, <2>5, ValidTail, Zenon
  <2>7. m <= end
    <3>1. ASSUME end < m, end \in V, end < Len(data), data[end + 1] >= 192 PROVE FALSE
      <4>1. m = off + 1 + b
        BY <1>4, <2>1, Zenon DEF After
      <4>2. end - off \in 1 .. b /\ off + 1 + (end - off) = end + 1
        BY ONLY <1>0, <1>3, <3>1, <4>1, b \in Byte DEF Byte
      <4>3. PICK i \in 1 .. b : off + 1 + i = end + 1
        BY <4>2, Zenon
      <4>4. l[i] = data[end + 1]
        BY <2>3, <4>3, Zenon
      <4>5. PICK x \in 45 .. 122 : x = l[i]
        BY <2>3, <2>6, LabelBytes, Zenon
      <4>6. x >= 192
        BY <3>1, <4>4, <4>5, Zenon
      <4> QED
        BY ONLY <4>6, x \in 45 .. 122
    <3>2. end # Len(data) => end \in V /\ end < Len(data) /\ data[end + 1] >= 192
      BY <1>1, Zenon DEF Led
    <3>3. CASE end = Len(data)
      BY <2>1, <3>3, Zenon
    <3>4. CASE end # Len(data)
      <4>1. ~(end < m)
        BY <3>1, <3>2, <3>4, Zenon
      <4> QED
        BY ONLY <1>0, <4>1, m \in Nat
    <3> QED
      BY <3>3, <3>4
  <2>8. Led(data, end, V \union {off})
    BY <1>1, Zenon DEF Led
  <2>9. Reads(data, end, m)
    <3>1. off < m
      BY ONLY <1>0, <2>1
    <3> QED
      BY <2>1, <3>1, Zenon
  <2>10. ~Failed(ReadAt(data, end, m)) /\ ReadAt(data, end, m).value = v
    BY <2>2, <2>4, <2>6, <2>7, <2>8, <2>9, Zenon DEF Reads
  <2>11. Labelled(data, end, off)
    BY <2>1, <2>7, <2>10, Zenon DEF Labelled
  <2>12. PICK o : ReadAt(data, end, off) = Read(name, o)
    BY <1>3, <1>4, <1>7, <2>1, <2>2, <2>10, <2>11, ReadLabel, Zenon
  <2> QED
    BY ONLY <2>12, ValueOf, Zenon
<1>8. b >= 192 \/ IsReserved(b) \/ b = 0 \/ IsLength(b)
  BY ONLY b \in Byte, ByteCases, Zenon
<1> QED
  BY <1>2, <1>4, <1>5, <1>6, <1>7, <1>8, Zenon

\* Wherever it starts.
LEMMA WalkIsCode ==
  ASSUME NEW data \in Seq(Byte)
  PROVE  \A end, off \in 0 .. Len(data) : Reads(data, end, off)
<1>1. PICK n \in Nat : n = Len(data)
  OBVIOUS
<1> DEFINE S == {q \in (0 .. n) \X (0 .. n) : Reads(data, q[1], q[2])}
<1>2. ASSUME NEW end \in 0 .. n, NEW off \in 0 .. n
      PROVE  <<end, off>> \in S <=> Reads(data, end, off)
  BY Zenon
<1>3. ASSUME NEW end \in 0 .. n, NEW off \in 0 .. n,
             \A p \in 0 .. n : p < off /\ off < end => <<off, p>> \in S,
             \A m \in 0 .. n : off < m => <<end, m>> \in S
      PROVE  <<end, off>> \in S
  BY <1>1, <1>2, <1>3, ReaderFinds, Zenon
<1> HIDE DEF S
<1>4. \A end, off \in 0 .. n : <<end, off>> \in S
  BY <1>3, ReaderInduction, Zenon
<1> QED
  BY <1>1, <1>2, <1>4, Zenon

\* What readDomain finds is the one valid name that the walk finds.
LEMMA DomainIsWalk ==
  ASSUME NEW data \in Seq(Byte), NEW start \in 0 .. Len(data), NEW r, r = readDomain(data, start)
  PROVE  WalkName(data, start) = IF Failed(r) THEN {} ELSE {r.value}
<1>1. PICK n : n = Len(data) /\ n \in 0 .. Len(data) /\ start <= n
  OBVIOUS
<1>2. PICK q : q = ReadAt(data, n, start) /\ q \in Results
  BY <1>1, ReadAtType, Zenon
<1>3. r = Checked(q)
  BY <1>1, <1>2, DomainIs, Zenon
<1>4. {} \in SUBSET (0 .. Len(data))
  OBVIOUS
<1>5. Led(data, n, {}) /\ AllSpent(data, {}, n, start)
  BY <1>1, Zenon DEF Led, AllSpent
<1>6. ASSUME NEW name \in WalkAt(data, start, {}), Validate(name)
      PROVE  ~Failed(q) /\ q.value = name
  <2>1. Reads(data, n, start)
    BY <1>1, WalkIsCode, Zenon
  <2> QED
    BY <1>1, <1>2, <1>4, <1>5, <1>6, <2>1, Zenon DEF Reads
<1>7. ~Failed(q) => q.value \in WalkAt(data, start, {})
  <2>1. Finds(data, n, start)
    BY <1>1, CodeIsWalk, Zenon
  <2> QED
    BY <1>2, <1>4, <1>5, <2>1, Zenon DEF Finds
<1>8. /\ Failed(r) <=> Failed(q) \/ ~Validate(q.value)
      /\ ~Failed(r) => r = q
  BY <1>2, <1>3, CheckedType, Zenon
<1> QED
  BY <1>6, <1>7, <1>8, WalkIs, Zenon

-----------------------------------------------------------------------------
(* Where a name ends *)

\* A byte that ends a name.
Final(b) == b = 0 \/ b >= 192

EndsAt(data, off, after) ==
  \E last \in off + 1 .. Len(data) :
    /\ Final(data[last])
    /\ \A i \in off + 1 .. last - 1 : ~Final(data[i])
    /\ after = IF data[last] = 0 THEN last ELSE last + 1

Ends(data, end, off) ==
  ~Failed(ReadAt(data, end, off)) /\ Validate(ReadAt(data, end, off).value) =>
    EndsAt(data, off, ReadAt(data, end, off).off)

\* The step of the induction: the reader ends behind the first final byte.
LEMMA ReaderEnds ==
  ASSUME NEW data \in Seq(Byte), NEW end \in 0 .. Len(data), NEW off \in 0 .. Len(data),
         \A m \in 0 .. Len(data) : off < m => Ends(data, end, m)
  PROVE  Ends(data, end, off)
<1>0. end \in Nat /\ off \in Nat /\ end <= Len(data) /\ Len(data) \in Nat
  OBVIOUS
<1>1. SUFFICES ASSUME ~Failed(ReadAt(data, end, off)), Validate(ReadAt(data, end, off).value)
               PROVE  EndsAt(data, off, ReadAt(data, end, off).off)
  BY Zenon DEF Ends
<1>2. off < end /\ off < Len(data) /\ ~IsReserved(data[off + 1])
  <2>1. ~(off >= end) /\ ~IsReserved(data[off + 1])
    BY <1>1, ReadEnd, Zenon
  <2> QED
    BY ONLY <1>0, <2>1
<1>3. /\ off + 1 \in off + 1 .. Len(data) /\ (off + 1) + 1 = off + 2
      /\ \A i \in off + 1 .. (off + 1) - 1 : FALSE
  <2>1. PICK n \in Nat : n = Len(data) /\ off < n
    BY <1>0, <1>2, Zenon
  <2>2. off + 1 \in off + 1 .. n /\ (off + 1) + 1 = off + 2
    BY ONLY <1>0, <2>1
  <2>3. \A i \in off + 1 .. (off + 1) - 1 : FALSE
    BY ONLY <1>0
  <2> QED
    BY <2>1, <2>2, <2>3, Zenon
<1>4. PICK b \in Byte : b = data[off + 1]
  BY <1>0, <1>2, ByteAt, Zenon
<1>5. CASE b >= 192
  <2>1. PICK v : ReadAt(data, end, off) = Read(v, off + 2)
    BY <1>1, <1>2, <1>4, <1>5, ReadPointer, Zenon
  <2>2. ReadAt(data, end, off).off = off + 2
    BY ONLY <2>1, ValueOf, Zenon
  <2>3. b # 0
    BY ONLY <1>5, b \in Byte
  <2> QED
    BY <1>3, <1>4, <1>5, <2>2, <2>3, Zenon DEF EndsAt, Final
<1>6. CASE b = 0
  <2>1. ReadAt(data, end, off) = Read(<< >>, off + 1)
    BY <1>2, <1>4, <1>6, ReadZero, Zenon
  <2>2. ReadAt(data, end, off).off = off + 1
    BY ONLY <2>1, ValueOf, Zenon
  <2> QED
    BY <1>3, <1>4, <1>6, <2>2, Zenon DEF EndsAt, Final
<1>7. CASE IsLength(b)
  <2>1. PICK m \in Nat : /\ m = After(data, off) /\ off + 1 < m /\ m <= end
                         /\ ~Failed(ReadAt(data, end, m))
    <3>1. IsLength(data[off + 1])
      BY <1>4, <1>7, Zenon
    <3>2. Labelled(data, end, off)
      BY ONLY <1>1, <1>2, <3>1, data \in Seq(Byte), end \in 0 .. Len(data),
              off \in 0 .. Len(data), ReadIsLabelled, Zenon
    <3> QED
      BY <3>2, Zenon DEF Labelled
  <2>2. off < m /\ m <= Len(data) /\ m \in 0 .. Len(data) /\ m = off + 1 + b
    <3>1. m = off + 1 + b
      BY <1>4, <2>1, Zenon DEF After
    <3> QED
      BY ONLY <1>0, <2>1, <3>1, m \in Nat
  <2>3. PICK v, o : /\ v = ReadAt(data, end, m).value /\ o = ReadAt(data, end, m).off
                    /\ v \in Seq(Seq(Byte))
    BY <2>2, ReadAtType, Zenon
  <2>4. PICK l \in Seq(Byte) : /\ l = LabelOf(data, off) /\ Len(l) = b
                               /\ \A i \in 1 .. b : l[i] = data[off + 1 + i]
    <3>1. IsLength(data[off + 1])
      BY <1>4, <1>7, Zenon
    <3>2. IsLabel(LabelOf(data, off), data, off)
      BY <1>0, <1>2, <2>1, <3>1, LabelHasBytes, Zenon
    <3> QED
      BY <1>4, <3>2, Zenon DEF IsLabel
  <2>5. PICK w : w = <<l>> \o v /\ ReadAt(data, end, off) = Read(w, o)
    <3>1. IsLength(data[off + 1])
      BY <1>4, <1>7, Zenon
    <3>2. Labelled(data, end, off)
      BY <2>1, Zenon DEF Labelled
    <3>3. ReadAt(data, end, off) =
            Read(<<LabelOf(data, off)>> \o ReadAt(data, end, After(data, off)).value,
                 ReadAt(data, end, After(data, off)).off)
      BY <1>2, <3>1, <3>2, LabelledIsRead, Zenon
    <3> QED
      BY <2>1, <2>3, <2>4, <3>3, Zenon
  <2>6. ReadAt(data, end, off).value = w /\ ReadAt(data, end, off).off = o
    BY ONLY <2>5, ValueOf, Zenon
  <2>7. LabelOK(l) /\ Validate(v)
    <3>1. Validate(<<l>> \o v)
      BY <1>1, <2>5, <2>6, Zenon
    <3> QED
      BY ONLY <3>1, <2>3, l \in Seq(Byte), ValidTail, Zenon
  <2>8. EndsAt(data, m, o)
    BY <2>1, <2>2, <2>3, <2>7, Zenon DEF Ends
  <2>9. PICK last \in m + 1 .. Len(data) :
          /\ Final(data[last])
          /\ \A i \in m + 1 .. last - 1 : ~Final(data[i])
          /\ o = IF data[last] = 0 THEN last ELSE last + 1
    BY <2>8, Zenon DEF EndsAt
  <2>10. last \in off + 1 .. Len(data)
    BY ONLY <1>0, <2>2, last \in m + 1 .. Len(data)
  <2>11. ASSUME NEW i \in off + 1 .. last - 1 PROVE ~Final(data[i])
    <3>1. CASE i = off + 1
      <4>1. ~(b = 0) /\ ~(b >= 192)
        BY <1>7 DEF IsLength
      <4> QED
        BY <1>4, <3>1, <4>1, Zenon DEF Final
    <3>2. CASE i \in off + 2 .. m
      <4>1. PICK j \in 1 .. b : off + 1 + j = i
        <5>1. i - off - 1 \in 1 .. b /\ off + 1 + (i - off - 1) = i
          BY ONLY <1>0, <2>2, <3>2, b \in Byte DEF Byte
        <5> QED
          BY <5>1, Zenon
      <4>2. l[j] = data[i]
        BY <2>4, <4>1, Zenon
      <4>3. PICK x \in 45 .. 122 : x = l[j]
        BY <2>4, <2>7, LabelBytes, Zenon
      <4>4. ~(x = 0) /\ ~(x >= 192)
        OBVIOUS
      <4> QED
        BY <4>2, <4>3, <4>4, Zenon DEF Final
    <3>3. CASE i \in m + 1 .. last - 1
      BY <2>9, <3>3, Zenon
    <3>4. i = off + 1 \/ i \in off + 2 .. m \/ i \in m + 1 .. last - 1
      BY ONLY <1>0, <2>2, i \in off + 1 .. last - 1, last \in m + 1 .. Len(data)
    <3> QED
      BY <3>1, <3>2, <3>3, <3>4
  <2> QED
    BY <2>6, <2>9, <2>10, <2>11, Zenon DEF EndsAt
<1>8. b >= 192 \/ IsReserved(b) \/ b = 0 \/ IsLength(b)
  BY ONLY b \in Byte, ByteCases, Zenon
<1> QED
  BY <1>2, <1>4, <1>5, <1>6, <1>7, <1>8, Zenon

\* Behind the name and not where its pointers led.
LEMMA DomainEnds ==
  ASSUME NEW data \in Seq(Byte), NEW start \in 0 .. Len(data), NEW r, r = readDomain(data, start),
         ~Failed(r)
  PROVE  LET last == Min({off \in start + 1 .. Len(data) : data[off] = 0 \/ data[off] >= 192})
         IN r.off = IF data[last] = 0 THEN last ELSE last + 1
<1>1. PICK n \in Nat : n = Len(data) /\ n \in 0 .. Len(data)
  OBVIOUS
<1> DEFINE S == {q \in (0 .. n) \X (0 .. n) : Ends(data, q[1], q[2])}
<1>2. ASSUME NEW end \in 0 .. n, NEW off \in 0 .. n
      PROVE  <<end, off>> \in S <=> Ends(data, end, off)
  BY Zenon
<1>3. ASSUME NEW end \in 0 .. n, NEW off \in 0 .. n,
             \A p \in 0 .. n : p < off /\ off < end => <<off, p>> \in S,
             \A m \in 0 .. n : off < m => <<end, m>> \in S
      PROVE  <<end, off>> \in S
  BY <1>1, <1>2, <1>3, ReaderEnds, Zenon
<1> HIDE DEF S
<1>4. \A end, off \in 0 .. n : <<end, off>> \in S
  BY <1>3, ReaderInduction, Zenon
<1>5. Ends(data, n, start)
  BY <1>1, <1>2, <1>4, Zenon
<1>6. PICK q : q = ReadAt(data, n, start) /\ q \in Results
  BY <1>1, ReadAtType, Zenon
<1>7. r = Checked(q)
  BY <1>1, <1>6, DomainIs, Zenon
<1>8. r = q /\ ~Failed(q) /\ Validate(q.value)
  BY <1>6, <1>7, CheckedType, Zenon
<1>9. EndsAt(data, start, r.off)
  BY <1>5, <1>6, <1>8, Zenon DEF Ends
<1>10. PICK last \in start + 1 .. Len(data) :
         /\ Final(data[last])
         /\ \A i \in start + 1 .. last - 1 : ~Final(data[i])
         /\ r.off = IF data[last] = 0 THEN last ELSE last + 1
  BY <1>9, Zenon DEF EndsAt
<1> DEFINE T == {off \in start + 1 .. Len(data) : data[off] = 0 \/ data[off] >= 192}
<1>11. last \in T
  BY <1>10, Zenon DEF Final
<1>12. ASSUME NEW i \in T PROVE last <= i
  <2>1. i \in start + 1 .. Len(data) /\ Final(data[i])
    BY Zenon DEF Final
  <2>2. i \notin start + 1 .. last - 1
    BY <1>10, <2>1, Zenon
  <2> QED
    BY ONLY <2>1, <2>2, last \in start + 1 .. Len(data), start \in 0 .. Len(data),
            data \in Seq(Byte)
<1>13. ASSUME NEW x \in T, \A y \in T : x <= y PROVE x = last
  <2>1. x <= last /\ last <= x
    BY <1>11, <1>12, <1>13, Zenon
  <2>2. x \in start + 1 .. Len(data)
    OBVIOUS
  <2> QED
    BY ONLY <2>1, <2>2, last \in start + 1 .. Len(data), start \in 0 .. Len(data),
            data \in Seq(Byte)
<1> HIDE DEF T
<1>14. Min(T) = last
  BY <1>11, <1>12, <1>13, Zenon DEF Min
<1> QED
  BY <1>10, <1>14, Zenon DEF T

-----------------------------------------------------------------------------
(* The text of a name *)

\* A sequence with an item behind it.
Appended(w, s, x) ==
  /\ Len(w) = Len(s) + 1 /\ Len(s) \in Nat
  /\ \A i \in 1 .. Len(s) : w[i] = s[i]
  /\ w[Len(s) + 1] = x

\* What Append gives, with its items.
LEMMA AppendIs ==
  ASSUME NEW B, NEW s \in Seq(B), NEW x \in B, NEW w, w = Append(s, x)
  PROVE  w \in Seq(B) /\ Appended(w, s, x)
<1>1. Len(s) \in Nat
  BY ONLY s \in Seq(B)
<1>2. /\ Append(s, x) \in Seq(B) /\ Len(Append(s, x)) = Len(s) + 1
      /\ \A i \in 1 .. Len(s) : Append(s, x)[i] = s[i]
      /\ Append(s, x)[Len(s) + 1] = x
  BY ONLY s \in Seq(B), x \in B, AppendProperties
<1> QED
  BY ONLY <1>1, <1>2, w = Append(s, x), Zenon DEF Appended

\* The last item of a sequence, and those before it.
LEMMA FrontLast ==
  ASSUME NEW B, NEW s \in Seq(B), NEW x \in B
  PROVE  /\ Append(s, x) \in Seq(B) /\ Append(s, x) # << >>
         /\ Front(Append(s, x)) = s /\ Last(Append(s, x)) = x
<1>1. PICK w : w = Append(s, x)
  OBVIOUS
<1>2. /\ w \in Seq(B) /\ w # << >> /\ Len(w) = Len(s) + 1
      /\ \A i \in 1 .. Len(s) : w[i] = s[i]
      /\ w[Len(s) + 1] = x
  <2>1. w = Append(s, x)
    BY <1>1, Zenon
  <2>2. w \in Seq(B) /\ Appended(w, s, x)
    BY ONLY <2>1, s \in Seq(B), x \in B, AppendIs, Zenon
  <2>3. Append(s, x) # << >>
    BY ONLY s \in Seq(B), x \in B, AppendProperties
  <2> QED
    BY <2>1, <2>2, <2>3, Zenon DEF Appended
<1>3. Len(s) \in Nat
  OBVIOUS
<1>4. Len(w) - 1 = Len(s)
  BY ONLY <1>2, <1>3
<1>5. SubSeq(w, 1, Len(s)) = s
  <2>1. SubSeq(w, 1, Len(s)) \in Seq(B) /\ Len(SubSeq(w, 1, Len(s))) = Len(s)
        /\ \A i \in 1 .. Len(s) : SubSeq(w, 1, Len(s))[i] = w[i]
    BY ONLY <1>2, <1>3
  <2> QED
    BY ONLY <1>2, <2>1, s \in Seq(B), SeqEqual, Zenon
<1> QED
  BY <1>1, <1>2, <1>4, <1>5, Zenon DEF Front, Last

\* The parts of a sequence that is not empty.
LEMMA FrontType ==
  ASSUME NEW B, NEW s \in Seq(B), s # << >>
  PROVE  Front(s) \in Seq(B) /\ Last(s) \in B
<1>1. PICK t \in Seq(B), x \in B : s = Append(t, x)
  BY SequenceEmptyOrAppend, Zenon
<1> QED
  BY <1>1, FrontLast, Zenon

\* A byte of a text goes on with the last label, or a dot begins another.
Take(parts, b) ==
  IF b = Dot THEN Append(parts, << >>) ELSE Append(Front(parts), Append(Last(parts), b))

Parts == {s \in Seq(Seq(Byte)) : s # << >>}

\* The labels so far are never none.
LEMMA TakeType ==
  ASSUME NEW parts \in Parts, NEW b \in Byte
  PROVE  Take(parts, b) \in Parts
<1>1. parts \in Seq(Seq(Byte)) /\ parts # << >>
  BY Zenon DEF Parts
<1>2. Front(parts) \in Seq(Seq(Byte)) /\ Last(parts) \in Seq(Byte)
  BY <1>1, FrontType, Zenon
<1>3. << >> \in Seq(Byte)
  OBVIOUS
<1>4. Append(Last(parts), b) \in Seq(Byte)
  <2>1. PICK l \in Seq(Byte) : l = Last(parts)
    BY <1>2, Zenon
  <2>2. Append(l, b) \in Seq(Byte)
    OBVIOUS
  <2> QED
    BY <2>1, <2>2, Zenon
<1>5. Append(parts, << >>) \in Parts
  <2>1. Append(parts, << >>) \in Seq(Seq(Byte))
    BY ONLY <1>1, <1>3
  <2>2. Append(parts, << >>) # << >>
    BY ONLY <1>1, <1>3, AppendProperties
  <2> QED
    BY <2>1, <2>2, Zenon DEF Parts
<1>6. Append(Front(parts), Append(Last(parts), b)) \in Parts
  <2>1. PICK s, l : s = Front(parts) /\ l = Append(Last(parts), b)
    OBVIOUS
  <2>2. s \in Seq(Seq(Byte)) /\ l \in Seq(Byte)
    BY <1>2, <1>4, <2>1, Zenon
  <2>3. Append(s, l) \in Seq(Seq(Byte)) /\ Append(s, l) # << >>
    BY <2>2, FrontLast, Zenon
  <2> QED
    BY <2>1, <2>3, Zenon DEF Parts
<1> QED
  BY <1>5, <1>6, Zenon DEF Take

\* What a byte does to the labels so far, by its last one.
LEMMA TakeIs ==
  ASSUME NEW s \in Seq(Seq(Byte)), NEW l \in Seq(Byte), NEW b \in Byte
  PROVE  Take(Append(s, l), b) =
           IF b = Dot THEN Append(Append(s, l), << >>) ELSE Append(s, Append(l, b))
  BY FrontLast, Zenon DEF Take

SplitBody(f, body, i) == IF i = 0 THEN <<<< >>>> ELSE Take(f[i - 1], body[i])
IsSplit(f, body) == f = [i \in 0 .. Len(body) |-> SplitBody(f, body, i)]
SplitOf(body) == (CHOOSE f : IsSplit(f, body))[Len(body)]

\* Without a dot at the end.
Undotted(text) == IF text # << >> /\ Last(text) = Dot THEN Front(text) ELSE text

\* ParseDomainName, by what it splits.
LEMMA ParseIs ==
  ASSUME NEW text
  PROVE  ParseDomainName(text) =
           IF Validate(SplitOf(Undotted(text))) THEN Read(SplitOf(Undotted(text)), Len(text))
           ELSE Fail("name")
  BY Zenon DEF ParseDomainName, Undotted, SplitOf, IsSplit, SplitBody, Take

\* There is a function that splits,
LEMMA SplitExists ==
  ASSUME NEW body \in Seq(Byte)
  PROVE  \E f \in [0 .. Len(body) -> Parts] : IsSplit(f, body)
<1>1. PICK n \in Nat : n = Len(body)
  OBVIOUS
<1> DEFINE S == 0 .. n
           F == [S -> Parts]
           rank == [i \in S |-> i]
           G == [q \in F \X S |-> SplitBody(q[1], body, q[2])]
<1>2. \A i \in 1 .. n : body[i] \in Byte
  BY <1>1, ElementOfSeq, Zenon
<1>3. rank \in [S -> 0 .. n]
  BY Zenon
<1>7. <<<< >>>> \in Parts
  <2>1. <<<< >>>> \in Seq(Seq(Byte)) /\ <<<< >>>> # << >>
    OBVIOUS
  <2> QED
    BY <2>1, Zenon DEF Parts
<1>a. ASSUME NEW i \in S, i # 0 PROVE i \in 1 .. n /\ i - 1 \in S /\ i - 1 < i
  BY <1>a
<1>4. ASSUME NEW f \in F, NEW i \in S PROVE SplitBody(f, body, i) \in Parts
  <2>1. CASE i = 0
    BY <1>7, <2>1, Zenon DEF SplitBody
  <2>2. CASE i # 0
    <3>1. i \in 1 .. n /\ i - 1 \in S
      BY <1>a, <2>2, Zenon
    <3>2. f[i - 1] \in Parts /\ body[i] \in Byte
      BY <1>2, <3>1, Zenon
    <3>3. Take(f[i - 1], body[i]) \in Parts
      BY ONLY <3>2, TakeType, Zenon
    <3> QED
      BY <2>2, <3>3, Zenon DEF SplitBody
  <2> QED
    BY <2>1, <2>2
<1>5. G \in [F \X S -> Parts]
  <2>1. ASSUME NEW q \in F \X S PROVE SplitBody(q[1], body, q[2]) \in Parts
    <3>1. q[1] \in F /\ q[2] \in S
      BY Zenon
    <3> QED
      BY <1>4, <3>1, Zenon
  <2> QED
    BY <2>1, Zenon
<1>6. ASSUME NEW f \in F, NEW g \in F, NEW i \in S,
             \A j \in S : rank[j] < rank[i] => f[j] = g[j]
      PROVE  G[<<f, i>>] = G[<<g, i>>]
  <2>1. G[<<f, i>>] = SplitBody(f, body, i) /\ G[<<g, i>>] = SplitBody(g, body, i)
    BY Zenon
  <2>2. CASE i = 0
    BY <2>1, <2>2, Zenon DEF SplitBody
  <2>3. CASE i # 0
    <3>1. i - 1 \in S /\ i - 1 < i
      BY <1>a, <2>3, Zenon
    <3>2. rank[i - 1] = i - 1 /\ rank[i] = i
      BY <3>1, Zenon
    <3>3. f[i - 1] = g[i - 1]
      BY <1>6, <3>1, <3>2, Zenon
    <3> QED
      BY <2>1, <2>3, <3>3, Zenon DEF SplitBody
  <2> QED
    BY <2>2, <2>3
<1> HIDE DEF S, rank, G
<1>8. PICK f \in F : \A x \in S : f[x] = G[<<f, x>>]
  <2>1. \A h, g \in [S -> Parts], x \in S :
          (\A y \in S : rank[y] < rank[x] => h[y] = g[y]) => G[<<h, x>>] = G[<<g, x>>]
    BY <1>6, Zenon
  <2> HIDE DEF F
  <2>2. F = [S -> Parts]
    BY Zenon DEF F
  <2>3. G \in [[S -> Parts] \X S -> Parts]
    BY <1>5, <2>2, Zenon
  <2>4. \E h \in [S -> Parts] : \A x \in S : h[x] = G[<<h, x>>]
    <3>1. Recurses(S, Parts, n, rank, G)
      BY <1>3, <1>7, <2>1, <2>3, Zenon DEF Recurses
    <3>2. HasFixed(S, Parts, G)
      BY ONLY <3>1, Recursion, Zenon
    <3> QED
      BY ONLY <3>2, Zenon DEF HasFixed
  <2> QED
    BY <2>2, <2>4, Zenon
<1>9. \A x \in S : G[<<f, x>>] = SplitBody(f, body, x)
  BY Zenon DEF G
<1>10. f = [x \in S |-> SplitBody(f, body, x)]
  <2>1. f = [x \in S |-> f[x]]
    BY Zenon
  <2> QED
    BY <1>8, <1>9, <2>1, Zenon
<1> QED
  BY <1>1, <1>10, Zenon DEF IsSplit, S

\* and no other,
LEMMA SplitUnique ==
  ASSUME NEW body \in Seq(Byte), NEW f, NEW g, IsSplit(f, body), IsSplit(g, body)
  PROVE  f = g
<1>1. PICK n \in Nat : n = Len(body)
  OBVIOUS
<1>2. /\ \A i \in 0 .. n : f[i] = SplitBody(f, body, i)
      /\ \A i \in 0 .. n : g[i] = SplitBody(g, body, i)
      /\ f = [i \in 0 .. n |-> f[i]]
      /\ g = [i \in 0 .. n |-> g[i]]
  BY <1>1, Zenon DEF IsSplit
<1> DEFINE S == {i \in 0 .. n : f[i] = g[i]}
<1>3. 0 \in S
  <2>1. 0 \in 0 .. n
    OBVIOUS
  <2> QED
    BY <1>2, <2>1, Zenon DEF SplitBody
<1>4. ASSUME NEW i \in 1 .. n, i - 1 \in S PROVE i \in S
  <2>1. i # 0 /\ i \in 0 .. n
    OBVIOUS
  <2>2. f[i - 1] = g[i - 1]
    BY <1>4, Zenon
  <2> QED
    BY <1>2, <2>1, <2>2, Zenon DEF SplitBody
<1> HIDE DEF S
<1>5. 0 .. n \subseteq S
  BY <1>3, <1>4, UpTo, Zenon
<1>6. \A i \in 0 .. n : f[i] = g[i]
  BY <1>5, Zenon DEF S
<1> QED
  BY <1>2, <1>6, Zenon

\* Step by step.
Splits(f, body, n) ==
  f[0] = <<<< >>>> /\ (\A i \in 1 .. n : f[i] = Take(f[i - 1], body[i])) /\ SplitOf(body) = f[n]

\* so that it takes one byte after the other.
LEMMA SplitIs ==
  ASSUME NEW body \in Seq(Byte), NEW n \in Nat, n = Len(body)
  PROVE  \E f \in [0 .. n -> Parts] : Splits(f, body, n)
<1>1. PICK f \in [0 .. n -> Parts] : IsSplit(f, body)
  BY SplitExists, Zenon
<1>2. f = CHOOSE g : IsSplit(g, body)
  BY <1>1, SplitUnique, Zenon
<1>3. \A i \in 0 .. n : f[i] = SplitBody(f, body, i)
  BY <1>1, Zenon DEF IsSplit
<1>4. f[0] = <<<< >>>>
  <2>1. 0 \in 0 .. n
    OBVIOUS
  <2> QED
    BY <1>3, <2>1, Zenon DEF SplitBody
<1>5. ASSUME NEW i \in 1 .. n PROVE f[i] = Take(f[i - 1], body[i])
  <2>1. i # 0 /\ i \in 0 .. n
    OBVIOUS
  <2> QED
    BY <1>3, <2>1, Zenon DEF SplitBody
<1>6. SplitOf(body) = f[n]
  BY <1>2, Zenon DEF SplitOf
<1> QED
  BY <1>4, <1>5, <1>6, Zenon DEF Splits

\* Where the items of each sequence are.
AllAt(f, ss, n) ==
  \A k \in 1 .. n : \A j \in 1 .. Len(ss[k]) :
    /\ Len(f[k - 1]) + j \in 1 .. Len(f[n])
    /\ f[n][Len(f[k - 1]) + j] = ss[k][j]

\* The items of each sequence are behind those of the sequences before it.
LEMMA FlattenAt ==
  ASSUME NEW B, NEW ss \in Seq(Seq(B)), NEW n \in Nat, n = Len(ss),
         NEW f \in [0 .. n -> Seq(B)], Flattens(f, ss, n)
  PROVE  AllAt(f, ss, n)
<1> DEFINE At(m, k, j) ==
             /\ Len(f[k - 1]) + j \in 1 .. Len(f[m])
             /\ f[m][Len(f[k - 1]) + j] = ss[k][j]
           S == {m \in 0 .. n : \A k \in 1 .. m : \A j \in 1 .. Len(ss[k]) : At(m, k, j)}
<1>1. 0 \in S
  OBVIOUS
<1>2. ASSUME NEW m \in 1 .. n, m - 1 \in S PROVE m \in S
  <2>1. m \in 0 .. n /\ m - 1 \in 0 .. n
    OBVIOUS
  <2>2. PICK a \in Seq(B), b \in Seq(B) : a = f[m - 1] /\ b = ss[m] /\ f[m] = a \o b
    <3>1. f[m - 1] \in Seq(B) /\ ss[m] \in Seq(B)
      BY <2>1, ElementOfSeq, Zenon
    <3> QED
      BY <3>1, Zenon DEF Flattens
  <2>3. /\ Len(f[m]) = Len(a) + Len(b) /\ Len(a) \in Nat /\ Len(b) \in Nat
        /\ \A i \in 1 .. Len(a) : f[m][i] = a[i]
        /\ \A i \in 1 .. Len(b) : f[m][Len(a) + i] = b[i]
    <3>1. /\ Len(a \o b) = Len(a) + Len(b) /\ Len(a) \in Nat /\ Len(b) \in Nat
          /\ \A i \in 1 .. Len(a) : (a \o b)[i] = a[i]
          /\ \A i \in 1 .. Len(b) : (a \o b)[Len(a) + i] = b[i]
      BY ONLY a \in Seq(B), b \in Seq(B)
    <3> QED
      BY <2>2, <3>1, Zenon
  <2>4. ASSUME NEW k \in 1 .. m, NEW j \in 1 .. Len(ss[k]) PROVE At(m, k, j)
    <3>1. CASE k = m
      <4>1. j \in 1 .. Len(b) /\ f[k - 1] = a /\ ss[k] = b
        BY <2>2, <3>1, Zenon
      <4>2. Len(a) + j \in 1 .. Len(f[m])
        BY ONLY <2>3, <4>1
      <4> QED
        BY <2>3, <4>1, <4>2, Zenon
    <3>2. CASE k # m
      <4>1. k \in 1 .. m - 1
        BY <3>2
      <4>2. At(m - 1, k, j)
        BY <1>2, <4>1, Zenon
      <4>3. PICK i : i = Len(f[k - 1]) + j /\ i \in 1 .. Len(a) /\ a[i] = ss[k][j]
        BY <2>2, <4>2, Zenon
      <4>4. i \in 1 .. Len(f[m])
        <5>1. PICK x \in Nat, y \in Nat : x = Len(a) /\ y = Len(b) /\ Len(f[m]) = x + y
          BY <2>3, Zenon
        <5>2. i \in 1 .. x
          BY <4>3, <5>1, Zenon
        <5>3. i \in 1 .. x + y
          BY ONLY <5>2, x \in Nat, y \in Nat
        <5> QED
          BY <5>1, <5>3, Zenon
      <4> QED
        BY <2>3, <4>3, <4>4, Zenon
    <3> QED
      BY <3>1, <3>2
  <2> HIDE DEF At
  <2> QED
    BY <2>1, <2>4, Zenon
<1> HIDE DEF S
<1>3. 0 .. n \subseteq S
  BY <1>1, <1>2, UpTo, Zenon
<1>4. n \in S
  <2>1. n \in 0 .. n
    OBVIOUS
  <2> QED
    BY <1>3, <2>1, Zenon
<1> QED
  BY <1>4, Zenon DEF S, AllAt

\* The text of a name: the labels begin behind the places P, and dots are there.
LaidOut(body, P, name, n) ==
  /\ body \in Seq(Byte)
  /\ P \in [0 .. n -> Nat] /\ P[0] = 0 /\ Len(body) = P[n] - 1
  /\ \A k \in 1 .. n : P[k] = P[k - 1] + Len(name[k]) + 1
  /\ \A k \in 1 .. n : \A j \in 1 .. Len(name[k]) :
       P[k - 1] + j \in 1 .. Len(body) /\ body[P[k - 1] + j] = name[k][j]
  /\ \A k \in 1 .. n - 1 : P[k] \in 1 .. Len(body) /\ body[P[k]] = Dot

\* To append behind a concatenation is to append to its second part.
LEMMA AppendConcat ==
  ASSUME NEW B, NEW s \in Seq(B), NEW t \in Seq(B), NEW x \in B
  PROVE  s \o Append(t, x) = Append(s \o t, x) /\ s \o t \in Seq(B)
<1>1. PICK u \in Seq(B) : u = <<x>>
  <2>1. <<x>> \in Seq(B)
    OBVIOUS
  <2> QED
    BY <2>1, Zenon
<1>2. s \o t \in Seq(B)
  BY ConcatProperties, Zenon
<1>3. Append(t, x) = t \o <<x>> /\ Append(s \o t, x) = (s \o t) \o <<x>>
  BY <1>2, AppendIsConcat, Zenon
<1>4. (s \o t) \o u = s \o (t \o u)
  BY ONLY s \in Seq(B), t \in Seq(B), u \in Seq(B), ConcatAssociative
<1> QED
  BY <1>1, <1>2, <1>3, <1>4, Zenon

\* The text that String writes is laid out so.
LEMMA TextLaidOut ==
  ASSUME NEW name \in Seq(Seq(Byte)), NEW n \in Nat \ {0}, n = Len(name)
  PROVE  \E P : LaidOut(String(name), P, name, n)
<1> DEFINE ss == [i \in DOMAIN name |-> Append(name[i], Dot)]
<1>0. Dot \in Byte
  BY DEF Dot, Byte
<1>1. DOMAIN name = 1 .. n /\ \A i \in 1 .. n : name[i] \in Seq(Byte)
  OBVIOUS
<1>2. ASSUME NEW i \in 1 .. n
      PROVE  /\ ss[i] = Append(name[i], Dot) /\ ss[i] \in Seq(Byte)
             /\ Len(ss[i]) = Len(name[i]) + 1 /\ Len(name[i]) \in Nat
             /\ \A j \in 1 .. Len(name[i]) : ss[i][j] = name[i][j]
             /\ ss[i][Len(name[i]) + 1] = Dot
  <2>1. PICK l \in Seq(Byte) : l = name[i]
    BY <1>1, Zenon
  <2>2. PICK w : w = ss[i] /\ w = Append(l, Dot)
    BY <1>1, <2>1, Zenon
  <2>3. w = Append(l, Dot)
    BY <2>2, Zenon
  <2>4. w \in Seq(Byte) /\ Appended(w, l, Dot)
    BY ONLY <1>0, <2>3, l \in Seq(Byte), AppendIs, Zenon
  <2> QED
    BY <2>1, <2>2, <2>4, Zenon DEF Appended
<1>3. ss \in Seq(Seq(Byte)) /\ Len(ss) = n
  <2>1. ss = [i \in 1 .. n |-> ss[i]]
    BY <1>1, Zenon
  <2>2. ss \in [1 .. n -> Seq(Byte)]
    BY <1>2, <2>1, Zenon
  <2> HIDE DEF ss
  <2> QED
    BY ONLY <2>2, n \in Nat \ {0}
<1>4. PICK f \in [0 .. n -> Seq(Byte)] : Flattens(f, ss, n)
  <2>1. n \in Nat
    OBVIOUS
  <2> QED
    BY <1>3, <2>1, FlattenIs, Zenon
<1>5. \A k \in 1 .. n : \A j \in 1 .. Len(ss[k]) :
        /\ Len(f[k - 1]) + j \in 1 .. Len(f[n])
        /\ f[n][Len(f[k - 1]) + j] = ss[k][j]
  <2>1. n \in Nat /\ n = Len(ss) /\ ss \in Seq(Seq(Byte))
    BY <1>3, Zenon
  <2> HIDE DEF ss
  <2>2. AllAt(f, ss, n)
    BY ONLY <1>4, <2>1, f \in [0 .. n -> Seq(Byte)], FlattenAt, Zenon
  <2> QED
    BY ONLY <2>2, Zenon DEF AllAt
<1>6. \A k \in 0 .. n : f[k] \in Seq(Byte) /\ Len(f[k]) \in Nat
  <2>1. ASSUME NEW k \in 0 .. n PROVE f[k] \in Seq(Byte)
    BY Zenon
  <2>2. \A s \in Seq(Byte) : Len(s) \in Nat
    OBVIOUS
  <2> QED
    BY <2>1, <2>2, Zenon
<1>7. ASSUME NEW k \in 1 .. n PROVE Len(f[k]) = Len(f[k - 1]) + Len(name[k]) + 1
  <2>1. k - 1 \in 0 .. n
    OBVIOUS
  <2>2. PICK a \in Seq(Byte), b \in Seq(Byte) : a = f[k - 1] /\ b = ss[k] /\ f[k] = a \o b
    <3>1. f[k - 1] \in Seq(Byte) /\ ss[k] \in Seq(Byte)
      BY <1>2, <1>6, <2>1, Zenon
    <3>2. f[k] = f[k - 1] \o ss[k]
      BY <1>4, Zenon DEF Flattens
    <3> QED
      BY <3>1, <3>2, Zenon
  <2>3. Len(a \o b) = Len(a) + Len(b) /\ Len(a) \in Nat /\ Len(b) \in Nat
    BY ONLY a \in Seq(Byte), b \in Seq(Byte)
  <2>4. PICK x \in Nat : x = Len(name[k]) /\ Len(b) = x + 1
    BY <1>2, <2>2, Zenon
  <2>5. Len(a) + (x + 1) = Len(a) + x + 1
    BY <2>3
  <2> QED
    BY <2>2, <2>3, <2>4, <2>5, Zenon
<1>8. PICK h \in Seq(Byte) : f[n] = Append(h, Dot)
  <2>1. n \in 1 .. n /\ n - 1 \in 0 .. n
    OBVIOUS
  <2>2. PICK a \in Seq(Byte), b \in Seq(Byte) : /\ a = f[n - 1] /\ b = name[n]
                                                /\ f[n] = a \o Append(b, Dot)
    BY <1>1, <1>2, <1>4, <1>6, <2>1, Zenon DEF Flattens
  <2>3. a \o Append(b, Dot) = Append(a \o b, Dot) /\ a \o b \in Seq(Byte)
    BY <1>0, AppendConcat, Zenon
  <2> QED
    BY <2>2, <2>3, Zenon
<1>9. String(name) = h
  <2>1. name # << >>
    OBVIOUS
  <2>2. String(name) = Front(FlattenSeq(ss))
    BY <2>1, Zenon DEF String
  <2>3. FlattenSeq(ss) = Append(h, Dot)
    BY <1>4, <1>8, Zenon DEF Flattens
  <2> QED
    BY <1>0, <2>2, <2>3, FrontLast, Zenon
<1>10. /\ Len(f[n]) = Len(h) + 1 /\ Len(h) \in Nat
       /\ \A i \in 1 .. Len(h) : f[n][i] = h[i]
  <2>1. PICK w : w = f[n] /\ w = Append(h, Dot)
    BY <1>8, Zenon
  <2>2. w = Append(h, Dot)
    BY <2>1, Zenon
  <2>3. Appended(w, h, Dot)
    BY ONLY <1>0, <2>2, h \in Seq(Byte), AppendIs, Zenon
  <2> QED
    BY <2>1, <2>3, Zenon DEF Appended
<1> DEFINE P == [k \in 0 .. n |-> Len(f[k])]
<1> HIDE DEF ss
<1>11. P \in [0 .. n -> Nat] /\ \A k \in 0 .. n : P[k] = Len(f[k])
  BY <1>6, Zenon
<1>12. P[0] = 0 /\ Len(h) = P[n] - 1
  <2>1. 0 \in 0 .. n /\ n \in 0 .. n
    OBVIOUS
  <2>2. P[0] = Len(<< >>) /\ P[n] = Len(h) + 1
    BY <1>4, <1>10, <1>11, <2>1, Zenon DEF Flattens
  <2>3. Len(<< >>) = 0 /\ (Len(h) + 1) - 1 = Len(h)
    BY <1>10
  <2> QED
    BY <2>2, <2>3, Zenon
<1>13. \A k \in 1 .. n : P[k] = P[k - 1] + Len(name[k]) + 1
  <2>1. ASSUME NEW k \in 1 .. n PROVE k \in 0 .. n /\ k - 1 \in 0 .. n
    OBVIOUS
  <2> QED
    BY <1>7, <1>11, <2>1, Zenon
<1>14. ASSUME NEW k \in 1 .. n, NEW j \in 1 .. Len(name[k])
       PROVE  P[k - 1] + j \in 1 .. Len(h) /\ h[P[k - 1] + j] = name[k][j]
  <2>1. k - 1 \in 0 .. n /\ k \in 0 .. n /\ n \in 0 .. n
    OBVIOUS
  <2>2. PICK x \in Nat, y \in Nat : x = Len(name[k]) /\ y = P[k - 1] /\ y = Len(f[k - 1])
    BY <1>2, <1>11, <2>1, Zenon
  <2>3. j \in 1 .. x + 1 /\ j + 1 \in 1 .. x + 1 /\ j \in 1 .. x
    BY <2>2
  <2>4. Len(ss[k]) = x + 1
    BY <1>2, <2>2, Zenon
  <2>5. j \in 1 .. Len(ss[k]) /\ j + 1 \in 1 .. Len(ss[k])
    BY <2>3, <2>4, Zenon
  <2>6. y + j \in 1 .. Len(f[n]) /\ f[n][y + j] = ss[k][j]
    BY <1>5, <2>2, <2>5, Zenon
  <2>7. y + (j + 1) \in 1 .. Len(f[n])
    BY <1>5, <2>2, <2>5, Zenon
  <2>8. y + j \in 1 .. Len(h)
    <3>1. PICK u \in Nat : u = Len(h) /\ Len(f[n]) = u + 1
      BY <1>10, Zenon
    <3>2. y + (j + 1) \in 1 .. u + 1
      BY <2>7, <3>1, Zenon
    <3>3. y + j \in 1 .. u
      BY ONLY <2>3, <3>2, x \in Nat, y \in Nat, u \in Nat
    <3> QED
      BY <3>1, <3>3, Zenon
  <2>9. ss[k][j] = name[k][j]
    BY <1>2, Zenon
  <2> QED
    BY <1>10, <2>2, <2>6, <2>8, <2>9, Zenon
<1>15. ASSUME NEW k \in 1 .. n - 1 PROVE P[k] \in 1 .. Len(h) /\ h[P[k]] = Dot
  <2>1. k \in 0 .. n /\ k - 1 \in 0 .. n /\ k \in 1 .. n /\ k + 1 \in 1 .. n /\ (k + 1) - 1 = k
    OBVIOUS
  <2>2. PICK x \in Nat, y \in Nat : x = Len(name[k]) /\ y = P[k - 1] /\ y = Len(f[k - 1])
    BY <1>2, <1>11, <2>1, Zenon
  <2>3. PICK z \in Nat : z = P[k] /\ z = Len(f[k]) /\ z = y + x + 1
    BY <1>11, <1>13, <2>1, <2>2, Zenon
  <2>4. PICK u \in Nat : u = Len(name[k + 1]) /\ Len(ss[k + 1]) = u + 1
    BY <1>2, <2>1, Zenon
  <2>5. 1 \in 1 .. u + 1 /\ x + 1 \in 1 .. x + 1 /\ y + (x + 1) = z
    <3>1. z = y + x + 1
      BY <2>3, Zenon
    <3> QED
      BY ONLY <3>1, x \in Nat, y \in Nat, u \in Nat, z \in Nat
  <2>6. z + 1 \in 1 .. Len(f[n])
    BY <1>5, <2>1, <2>3, <2>4, <2>5, Zenon
  <2>7. z \in 1 .. Len(h)
    <3>1. z = y + x + 1
      BY <2>3
    <3> QED
      BY ONLY <1>10, <2>6, <3>1, x \in Nat, y \in Nat, z \in Nat
  <2>8. Len(ss[k]) = x + 1 /\ ss[k][x + 1] = Dot
    BY <1>2, <2>1, <2>2, Zenon
  <2>9. f[n][y + (x + 1)] = ss[k][x + 1]
    <3>1. PICK j : j = x + 1
      OBVIOUS
    <3>2. j \in 1 .. Len(ss[k])
      BY <2>5, <2>8, <3>1, Zenon
    <3>3. f[n][Len(f[k - 1]) + j] = ss[k][j]
      BY <1>5, <2>1, <3>2, Zenon
    <3> QED
      BY <2>2, <3>1, <3>3, Zenon
  <2> QED
    BY <1>10, <2>3, <2>5, <2>7, <2>8, <2>9, Zenon
<1> HIDE DEF P
<1>16. LaidOut(h, P, name, n)
  BY <1>11, <1>12, <1>13, <1>14, <1>15, Zenon DEF LaidOut
<1> QED
  BY <1>9, <1>16, Zenon

\* The first j items of a sequence, and one more.
LEMMA FirstOf ==
  ASSUME NEW B, NEW s \in Seq(B)
  PROVE  /\ SubSeq(s, 1, 0) = << >> /\ SubSeq(s, 1, Len(s)) = s
         /\ \A j \in 1 .. Len(s) : SubSeq(s, 1, j) = Append(SubSeq(s, 1, j - 1), s[j])
         /\ \A j \in 0 .. Len(s) : SubSeq(s, 1, j) \in Seq(B)
<1>1. SubSeq(s, 1, 0) = << >>
  BY SubSeqEmpty
<1>2. SubSeq(s, 1, Len(s)) = s
  BY SubSeqFull
<1>3. ASSUME NEW j \in 0 .. Len(s) PROVE SubSeq(s, 1, j) \in Seq(B)
  <2>1. 1 \in Int /\ j \in Int /\ \A i \in 1 .. j : i \in 1 .. Len(s)
    OBVIOUS
  <2>2. \A i \in 1 .. j : s[i] \in B
    BY <2>1, ElementOfSeq, Zenon
  <2> QED
    BY <2>1, <2>2, SubSeqProperties
<1>4. ASSUME NEW j \in 1 .. Len(s) PROVE SubSeq(s, 1, j) = Append(SubSeq(s, 1, j - 1), s[j])
  <2>1. 1 \in 1 .. Len(s) /\ j \in 1 .. Len(s) /\ j - 1 \in 0 .. Len(s)
    OBVIOUS
  <2>2. SubSeq(s, 1, j) = SubSeq(s, 1, j - 1) \o <<s[j]>>
    BY <2>1, SubSeqRecursiveSecond, Zenon
  <2>3. PICK t \in Seq(B), x \in B : t = SubSeq(s, 1, j - 1) /\ x = s[j]
    BY <1>3, <2>1, ElementOfSeq, Zenon
  <2>4. Append(t, x) = t \o <<x>>
    BY AppendIsConcat, Zenon
  <2> QED
    BY <2>2, <2>3, <2>4, Zenon
<1> QED
  BY <1>1, <1>2, <1>3, <1>4

\* The text of labels without dots in them is split into them.
LEMMA SplitBack ==
  ASSUME NEW name \in Seq(Seq(Byte)), NEW n \in Nat \ {0}, n = Len(name),
         \A k \in 1 .. n : \A j \in 1 .. Len(name[k]) : name[k][j] # Dot,
         NEW body, NEW P, LaidOut(body, P, name, n)
  PROVE  SplitOf(body) = name
<1>1. PICK N \in Nat : N = Len(body) /\ N = P[n] - 1 /\ body \in Seq(Byte)
  <2>1. body \in Seq(Byte) /\ Len(body) = P[n] - 1
    BY Zenon DEF LaidOut
  <2>2. Len(body) \in Nat
    BY <2>1
  <2> QED
    BY <2>1, <2>2, Zenon
<1>2. PICK g \in [0 .. N -> Parts] : Splits(g, body, N)
  BY <1>1, SplitIs, Zenon
<1>3. /\ P \in [0 .. n -> Nat] /\ P[0] = 0
      /\ \A k \in 1 .. n : P[k] = P[k - 1] + Len(name[k]) + 1
      /\ \A k \in 1 .. n : \A j \in 1 .. Len(name[k]) :
           P[k - 1] + j \in 1 .. N /\ body[P[k - 1] + j] = name[k][j]
      /\ \A k \in 1 .. n - 1 : P[k] \in 1 .. N /\ body[P[k]] = Dot
  BY <1>1, Zenon DEF LaidOut
<1>4. /\ g[0] = <<<< >>>>
      /\ \A i \in 1 .. N : g[i] = Take(g[i - 1], body[i])
      /\ SplitOf(body) = g[N]
  BY <1>2, Zenon DEF Splits
<1>5. Dot \in Byte
  BY DEF Dot, Byte
<1> DEFINE Before(k) == SubSeq(name, 1, k - 1)
           Begun(k) == g[P[k - 1]] = Append(Before(k), << >>)
           Done(k) == g[P[k - 1] + Len(name[k])] = Append(Before(k), name[k])
<1>6. ASSUME NEW k \in 1 .. n, Begun(k) PROVE Done(k)
  <2>1. PICK s \in Seq(Seq(Byte)), l \in Seq(Byte), p \in Nat :
          s = Before(k) /\ l = name[k] /\ p = P[k - 1]
    <3>1. k - 1 \in 0 .. n /\ k - 1 \in 0 .. Len(name) /\ k \in 1 .. Len(name)
      OBVIOUS
    <3>2. Before(k) \in Seq(Seq(Byte))
      BY <3>1, FirstOf, Zenon
    <3>3. name[k] \in Seq(Byte)
      BY <3>1, ElementOfSeq, Zenon
    <3>4. P[k - 1] \in Nat
      BY <1>3, <3>1, Zenon
    <3> QED
      BY <3>2, <3>3, <3>4, Zenon
  <2> DEFINE T == {j \in 0 .. Len(l) : g[p + j] = Append(s, SubSeq(l, 1, j))}
  <2>2. PICK m \in Nat : m = Len(l)
    OBVIOUS
  <2>3. 0 \in T
    <3>1. 0 \in 0 .. Len(l) /\ p + 0 = p
      BY <2>2
    <3>2. SubSeq(l, 1, 0) = << >>
      BY FirstOf, Zenon
    <3> QED
      BY <1>6, <2>1, <3>1, <3>2, Zenon
  <2>4. ASSUME NEW j \in 1 .. m, j - 1 \in T PROVE j \in T
    <3>1. j \in 1 .. Len(l) /\ j \in 0 .. Len(l) /\ j - 1 \in 0 .. Len(l)
      BY ONLY <2>2, m \in Nat, j \in 1 .. m
    <3>2. /\ p + j \in 1 .. N /\ body[p + j] = l[j] /\ l[j] # Dot
      BY <1>3, <2>1, <3>1, Zenon
    <3>3. PICK b \in Byte : b = l[j]
      BY <3>1, ElementOfSeq, Zenon
    <3>4. (p + j) - 1 = p + (j - 1)
      BY ONLY p \in Nat, j \in 1 .. m, m \in Nat
    <3>5. PICK t \in Seq(Byte) : t = SubSeq(l, 1, j - 1)
      BY <3>1, FirstOf, Zenon
    <3>6. g[p + j] = Take(Append(s, t), b)
      BY <1>4, <2>4, <3>2, <3>3, <3>4, <3>5, Zenon
    <3>7. Take(Append(s, t), b) = Append(s, Append(t, b))
      BY <3>2, <3>3, TakeIs, Zenon
    <3>8. SubSeq(l, 1, j) = Append(t, b)
      BY <3>1, <3>3, <3>5, FirstOf, Zenon
    <3> QED
      BY <3>1, <3>6, <3>7, <3>8, Zenon
  <2> HIDE DEF T
  <2>5. 0 .. m \subseteq T
    BY <2>3, <2>4, UpTo, Zenon
  <2>6. m \in T
    <3>1. m \in 0 .. m
      OBVIOUS
    <3> QED
      BY <2>5, <3>1, Zenon
  <2>7. SubSeq(l, 1, m) = l
    BY <2>2, FirstOf, Zenon
  <2> QED
    BY <2>1, <2>2, <2>6, <2>7, Zenon DEF T
<1> DEFINE S == {k \in 0 .. n - 1 : Begun(k + 1)}
<1>7. 0 \in S
  <2>1. 0 \in 0 .. n - 1 /\ 0 + 1 = 1 /\ 1 - 1 = 0
    OBVIOUS
  <2>2. SubSeq(name, 1, 0) = << >>
    BY FirstOf, Zenon
  <2>3. Append(<< >>, << >>) = <<<< >>>>
    OBVIOUS
  <2>4. Begun(1)
    BY <1>3, <1>4, <2>1, <2>2, <2>3, Zenon
  <2> HIDE DEF Begun
  <2> QED
    BY <2>1, <2>4, Zenon
<1>8. ASSUME NEW k \in 1 .. n - 1, k - 1 \in S PROVE k \in S
  <2>1. k \in 1 .. n /\ k \in 0 .. n - 1 /\ (k - 1) + 1 = k /\ (k + 1) - 1 = k
        /\ k - 1 \in 0 .. n /\ k - 1 \in 0 .. Len(name) /\ k \in 1 .. Len(name)
    OBVIOUS
  <2>2. Begun(k)
    <3> HIDE DEF Begun
    <3> QED
      BY <1>8, <2>1, Zenon
  <2>3. Done(k)
    BY <1>6, <2>1, <2>2, Zenon
  <2>4. PICK s \in Seq(Seq(Byte)), l \in Seq(Byte), p \in Nat, q \in Nat :
          s = Before(k) /\ l = name[k] /\ p = P[k - 1] /\ q = P[k]
    <3>2. Before(k) \in Seq(Seq(Byte))
      BY <2>1, FirstOf, Zenon
    <3>3. name[k] \in Seq(Byte)
      BY <2>1, ElementOfSeq, Zenon
    <3>4. k \in 0 .. n
      BY <2>1
    <3>5. P[k - 1] \in Nat /\ P[k] \in Nat
      BY <1>3, <2>1, <3>4, Zenon
    <3> QED
      BY <3>2, <3>3, <3>5, Zenon
  <2>5. q - 1 = p + Len(l)
    <3>1. q = p + Len(l) + 1
      BY <1>3, <2>1, <2>4, Zenon
    <3>2. Len(l) \in Nat
      OBVIOUS
    <3> QED
      BY ONLY <3>1, <3>2, p \in Nat, q \in Nat
  <2>6. q \in 1 .. N /\ body[q] = Dot
    BY <1>3, <2>4, Zenon
  <2>7. g[q] = Take(Append(s, l), Dot)
    BY <1>4, <2>3, <2>4, <2>5, <2>6, Zenon
  <2>8. Take(Append(s, l), Dot) = Append(Append(s, l), << >>)
    BY <1>5, TakeIs, Zenon
  <2>9. SubSeq(name, 1, k) = Append(s, l)
    BY <2>1, <2>4, FirstOf, Zenon
  <2>10. Begun(k + 1)
    BY <2>1, <2>4, <2>7, <2>8, <2>9, Zenon
  <2> HIDE DEF Begun
  <2> QED
    BY <2>1, <2>10, Zenon
<1> HIDE DEF S
<1>9. 0 .. n - 1 \subseteq S
  <2>1. PICK m \in Nat : m = n - 1
    <3>1. n - 1 \in Nat
      BY ONLY n \in Nat \ {0}
    <3> QED
      BY ONLY <3>1, Zenon
  <2> QED
    BY <1>7, <1>8, <2>1, UpTo, Zenon
<1>10. Done(n)
  <2>1. n - 1 \in 0 .. n - 1 /\ (n - 1) + 1 = n /\ n \in 1 .. n
    OBVIOUS
  <2>2. Begun(n)
    <3> HIDE DEF Begun
    <3> QED
      BY <1>9, <2>1, Zenon DEF S
  <2> QED
    BY <1>6, <2>1, <2>2, Zenon
<1>11. N = P[n - 1] + Len(name[n])
  <2>1. n \in 1 .. n /\ n - 1 \in 0 .. n /\ n \in 1 .. Len(name)
    OBVIOUS
  <2>2. PICK p \in Nat, l \in Seq(Byte) : p = P[n - 1] /\ l = name[n]
    BY <1>3, <2>1, ElementOfSeq, Zenon
  <2>3. N = (p + Len(l) + 1) - 1
    BY <1>1, <1>3, <2>1, <2>2, Zenon
  <2>4. Len(l) \in Nat
    OBVIOUS
  <2>5. N = p + Len(l)
    BY ONLY <2>3, <2>4, p \in Nat
  <2> QED
    BY <2>2, <2>5, Zenon
<1>12. SubSeq(name, 1, n) = Append(SubSeq(name, 1, n - 1), name[n]) /\ SubSeq(name, 1, n) = name
  <2>1. n \in 1 .. Len(name)
    OBVIOUS
  <2> QED
    BY <2>1, FirstOf, Zenon
<1> QED
  BY <1>4, <1>10, <1>11, <1>12, Zenon

\* The text of a valid name, with a dot at its end or not, is parsed back to it.
LEMMA TextIsParsed ==
  ASSUME NEW name \in Seq(Seq(Byte)), name # << >>, Validate(name),
         NEW text \in {String(name), Append(String(name), Dot)}
  PROVE  ParseDomainName(text) = Read(name, Len(text))
<1>1. PICK n \in Nat \ {0} : n = Len(name) /\ DOMAIN name = 1 .. n
  <2>1. Len(name) \in Nat \ {0} /\ DOMAIN name = 1 .. Len(name)
    BY EmptySeq, LenProperties, Zenon
  <2> QED
    BY <2>1, Zenon
<1>2. \A k \in 1 .. n : name[k] \in Seq(Byte) /\ LabelOK(name[k])
  <2>1. \A k \in 1 .. n : LabelOK(name[k])
    BY <1>1, Zenon DEF Validate, LabelOK
  <2> QED
    BY <1>1, <2>1, ElementOfSeq, Zenon
<1>3. \A k \in 1 .. n : \A j \in 1 .. Len(name[k]) : name[k][j] # Dot
  BY <1>2, LabelBytes, Zenon
<1>4. PICK body : body = String(name)
  OBVIOUS
<1>5. PICK P : LaidOut(body, P, name, n)
  BY <1>1, <1>4, TextLaidOut, Zenon
<1>6. SplitOf(body) = name
  BY <1>1, <1>3, <1>5, SplitBack, Zenon
<1>7. body \in Seq(Byte) /\ body # << >> /\ Last(body) # Dot
  <2>1. n \in 1 .. n /\ n - 1 \in 0 .. n
    OBVIOUS
  <2>2. PICK l \in Seq(Byte), p \in Nat : l = name[n] /\ p = P[n - 1] /\ LabelOK(l)
    BY <1>2, <1>5, <2>1, Zenon DEF LaidOut
  <2>3. PICK x \in 1 .. 63 : x = Len(l)
    BY <2>2, Zenon DEF LabelOK
  <2>4. x \in 1 .. x
    OBVIOUS
  <2>5. p + x \in 1 .. Len(body) /\ body[p + x] = l[x] /\ l[x] # Dot
    BY <1>3, <1>5, <2>1, <2>2, <2>3, <2>4, Zenon DEF LaidOut
  <2>6. Len(body) = p + x
    <3>1. Len(body) = (p + x + 1) - 1
      BY <1>5, <2>1, <2>2, <2>3, Zenon DEF LaidOut
    <3> QED
      BY ONLY <3>1, p \in Nat, x \in 1 .. 63
  <2>7. Last(body) # Dot
    BY <2>5, <2>6, Zenon DEF Last
  <2>8. body \in Seq(Byte)
    BY <1>5, Zenon DEF LaidOut
  <2>9. Len(body) # 0
    BY ONLY <2>6, p \in Nat, x \in 1 .. 63
  <2>10. Len(<< >>) = 0
    OBVIOUS
  <2> QED
    BY <2>7, <2>8, <2>9, <2>10, Zenon
<1>8. Undotted(text) = body
  <2>1. CASE text = body
    BY <1>7, <2>1, Zenon DEF Undotted
  <2>2. CASE text = Append(body, Dot)
    <3>1. Dot \in Byte
      BY DEF Dot, Byte
    <3>2. text # << >> /\ Last(text) = Dot /\ Front(text) = body
      BY <1>7, <2>2, <3>1, FrontLast, Zenon
    <3> QED
      BY <3>2, Zenon DEF Undotted
  <2> QED
    BY <1>4, <2>1, <2>2, Zenon
<1> QED
  BY <1>6, <1>8, ParseIs, Zenon

-----------------------------------------------------------------------------
(* Names are read right *)

\* What has been made of the bytes of a name is what readDomain makes of them.
NamesInv ==
  /\ sent.kind = "name" => wire \in Seq(Byte)
  /\ got.kind = "name" =>
       /\ sent.kind = "name"
       /\ \E start \in 0 .. Len(wire) :
            got = [kind |-> "name", start |-> start, result |-> readDomain(wire, start)]

\* In the beginning nothing has been read.
LEMMA NamesInit == FormatsInit => NamesInv
<1>1. Nothing.kind # "name"
  BY DEF Nothing
<1> QED
  BY <1>1, Zenon DEF FormatsInit, NamesInv

\* What is sent, if it is something to read a name from, is bytes.
LEMMA NamesPut ==
  ASSUME NamesInv, got.kind # "name", NEW what, NEW bytes, Put(what, bytes),
         what.kind = "name" => bytes \in Seq(Byte)
  PROVE  NamesInv'
<1>1. sent' = what /\ wire' = bytes /\ got' = got
  BY Zenon DEF Put
<1> QED
  BY <1>1, Zenon DEF NamesInv

\* To send anything preserves the invariant.
LEMMA NamesSend == NamesInv /\ sent = Nothing /\ Send => NamesInv'
<1> SUFFICES ASSUME NamesInv, sent = Nothing, Send PROVE NamesInv'
  OBVIOUS
<1>1. got.kind # "name"
  <2>1. Nothing.kind # "name"
    BY DEF Nothing
  <2> QED
    BY <2>1, Zenon DEF NamesInv
<1>2. ASSUME NEW source \in Endpoints, NEW dest \in Endpoints, NEW data \in Payloads,
             NEW n \in Numbers, SendUDP(source, dest, data, n)
      PROVE  NamesInv'
  <2>1. PICK what, bytes : Put(what, bytes) /\ what.kind = "udp"
    <3>1. [kind |-> "udp", source |-> source, dest |-> dest, data |-> data].kind = "udp"
      OBVIOUS
    <3> QED
      BY <1>2, <3>1, Zenon DEF SendUDP
  <2>2. what.kind # "name"
    BY <2>1
  <2> QED
    BY <1>1, <2>1, <2>2, NamesPut, Zenon
<1>3. ASSUME NEW source \in Endpoints, NEW dest \in Endpoints, NEW data \in Payloads,
             NEW n \in Numbers, NEW fin \in BOOLEAN, SendTCP(source, dest, n, data, fin)
      PROVE  NamesInv'
  <2>1. PICK what, bytes : Put(what, bytes) /\ what.kind = "tcp"
    <3> DEFINE flags == {"ACK"} \union (IF fin THEN {"FIN"} ELSE {})
    <3>1. [kind |-> "tcp", source |-> source, dest |-> dest, seqNum |-> <<n, 1>>,
           ackNum |-> <<1, n>>, windowSize |-> n, data |-> data, flags |-> flags].kind = "tcp"
      OBVIOUS
    <3> QED
      BY <1>3, <3>1, Zenon DEF SendTCP
  <2>2. what.kind # "name"
    BY <2>1
  <2> QED
    BY <1>1, <2>1, <2>2, NamesPut, Zenon
<1>4. ASSUME NEW source \in Endpoints, NEW dest \in Endpoints, NEW data \in Payloads,
             SendPing(source, dest, data)
      PROVE  NamesInv'
  <2>1. PICK what, bytes : Put(what, bytes) /\ what.kind = "ping"
    <3>1. [kind |-> "ping", source |-> source, dest |-> dest, data |-> data].kind = "ping"
      OBVIOUS
    <3> QED
      BY <1>4, <3>1, Zenon DEF SendPing
  <2>2. what.kind # "name"
    BY <2>1
  <2> QED
    BY <1>1, <2>1, <2>2, NamesPut, Zenon
<1>5. ASSUME NEW m \in Messages, SendMessage(m) PROVE NamesInv'
  <2>1. PICK what, bytes : Put(what, bytes) /\ what.kind = "dns"
    <3>1. [kind |-> "dns", message |-> AutoFill(m)].kind = "dns"
      OBVIOUS
    <3> QED
      BY <1>5, <3>1, Zenon DEF SendMessage
  <2>2. what.kind # "name"
    BY <2>1
  <2> QED
    BY <1>1, <2>1, <2>2, NamesPut, Zenon
<1>6. ASSUME NEW data \in NameBytes, SendName(data) PROVE NamesInv'
  <2>1. data \in Seq(Byte)
    BY FormatsAssumption DEF Byte
  <2> QED
    BY <1>1, <1>6, <2>1, NamesPut, Zenon DEF SendName
<1> QED
  BY <1>2, <1>3, <1>4, <1>5, <1>6, Zenon DEF Send

\* What is received of something else is not a name.
LEMMA NamesGet ==
  ASSUME NamesInv, NEW what, Get(what), what.kind # "name"
  PROVE  NamesInv'
<1>1. sent' = sent /\ wire' = wire /\ got' = what
  BY Zenon DEF Get
<1> QED
  BY <1>1, Zenon DEF NamesInv

\* To receive anything preserves it.
LEMMA NamesReceive == NamesInv /\ Receive => NamesInv'
<1> SUFFICES ASSUME NamesInv, Receive PROVE NamesInv'
  OBVIOUS
<1>0. Dropped.kind # "name"
  BY DEF Dropped
<1>1. CASE ReceiveUDP
  <2>1. PICK what : Get(what) /\ what.kind # "name"
    <3>1. [kind |-> "udp", source |-> UDPSource(wire), dest |-> UDPDest(wire),
           data |-> UDPPayload(wire)].kind # "name"
      OBVIOUS
    <3> QED
      BY <1>0, <1>1, <3>1, Zenon DEF ReceiveUDP
  <2> QED
    BY <2>1, NamesGet, Zenon
<1>2. CASE ReceiveTCP
  <2>1. PICK what : Get(what) /\ what.kind # "name"
    <3> DEFINE h == TCPHeader(wire)
    <3>1. [kind |-> "tcp", source |-> TCPSource(wire), dest |-> TCPDest(wire),
           seqNum |-> SeqNum(h), ackNum |-> AckNum(h), windowSize |-> WindowSize(h),
           data |-> TCPPayload(wire), flags |-> Flags(h)].kind # "name"
      OBVIOUS
    <3> QED
      BY <1>0, <1>2, <3>1, Zenon DEF ReceiveTCP
  <2> QED
    BY <2>1, NamesGet, Zenon
<1>3. CASE Respond
  <2>1. PICK what : Get(what) /\ what.kind # "name"
    <3>1. [kind |-> "reply", packet |-> RespondToPing(wire)].kind # "name"
      OBVIOUS
    <3> QED
      BY <1>0, <1>3, <3>1, Zenon DEF Respond
  <2> QED
    BY <2>1, NamesGet, Zenon
<1>4. ASSUME NEW k \in 0 .. Len(wire) + 1, ReceiveMessage(k) PROVE NamesInv'
  <2>1. PICK what : Get(what) /\ what.kind # "name"
    <3>1. [kind |-> "dns", k |-> k,
           result |-> DecodeMessage(SubSeq(wire \o <<0>>, 1, k))].kind # "name"
      OBVIOUS
    <3> QED
      BY <1>4, <3>1, Zenon DEF ReceiveMessage
  <2> QED
    BY <2>1, NamesGet, Zenon
<1>5. ASSUME NEW off \in 0 .. Len(wire), ReceiveName(off) PROVE NamesInv'
  <2>1. /\ sent.kind = "name" /\ sent' = sent /\ wire' = wire
        /\ got' = [kind |-> "name", start |-> off, result |-> readDomain(wire, off)]
    BY <1>5, Zenon DEF ReceiveName, Get
  <2> QED
    BY <2>1, Zenon DEF NamesInv
<1> QED
  BY <1>1, <1>2, <1>3, <1>4, <1>5, Zenon DEF Receive

\* Every step preserves it.
LEMMA NamesStep == NamesInv /\ [FormatsNext]_formatsVars => NamesInv'
<1> SUFFICES ASSUME NamesInv, [FormatsNext]_formatsVars PROVE NamesInv'
  OBVIOUS
<1>1. CASE sent = Nothing /\ Send
  BY <1>1, NamesSend, Zenon
<1>2. CASE got = Nothing /\ Receive
  BY <1>2, NamesReceive, Zenon
<1>3. ASSUME NEW i \in 2 .. Len(wire), NEW b \in {0, 255, (wire[i] + 1) % 256}, Corrupt(i, b)
      PROVE  NamesInv'
  <2>1. sent.kind # "name" /\ sent' = sent /\ got' = got
    BY <1>3 DEF Corrupt
  <2> QED
    BY <2>1, Zenon DEF NamesInv
<1>4. CASE UNCHANGED formatsVars
  <2>1. sent' = sent /\ wire' = wire /\ got' = got
    BY <1>4, Zenon DEF formatsVars
  <2> QED
    BY <2>1, Zenon DEF NamesInv
<1> QED
  BY <1>1, <1>2, <1>3, <1>4, Zenon DEF FormatsNext

\* A name that was read.
ReadRight(data, start, r) ==
  /\ WalkName(data, start) = IF Failed(r) THEN {} ELSE {r.value}
  /\ ~Failed(r) =>
       LET last == Min({off \in start + 1 .. Len(data) : data[off] = 0 \/ data[off] >= 192})
       IN r.off = IF data[last] = 0 THEN last ELSE last + 1
  /\ ~Failed(r) /\ r.value # << >> =>
       \A text \in {String(r.value), Append(String(r.value), Dot)} :
         ParseDomainName(text) = Read(r.value, Len(text))

\* What readDomain makes of any bytes at any place is right.
LEMMA NamesAgreeOn ==
  ASSUME NEW data \in Seq(Byte), NEW start \in 0 .. Len(data), NEW r, r = readDomain(data, start)
  PROVE  ReadRight(data, start, r)
<1>1. WalkName(data, start) = IF Failed(r) THEN {} ELSE {r.value}
  BY DomainIsWalk, Zenon
<1>2. ASSUME ~Failed(r) PROVE r.value \in Seq(Seq(Byte)) /\ Validate(r.value)
  <2>1. r.value \in WalkName(data, start)
    BY <1>1, <1>2, Zenon
  <2>2. r.value \in WalkAt(data, start, {}) /\ Validate(r.value)
    BY <2>1, WalkIs, Zenon
  <2>3. {} \in SUBSET (0 .. Len(data))
    OBVIOUS
  <2>4. WalkAt(data, start, {}) \in NameSets
    BY <2>3, WalkAtIs, Zenon
  <2> QED
    BY <2>2, <2>4, Zenon DEF NameSets
<1>3. ASSUME ~Failed(r), r.value # << >>
      PROVE  \A text \in {String(r.value), Append(String(r.value), Dot)} :
               ParseDomainName(text) = Read(r.value, Len(text))
  BY <1>2, <1>3, TextIsParsed, Zenon
<1>4. ~Failed(r) =>
        LET last == Min({off \in start + 1 .. Len(data) : data[off] = 0 \/ data[off] >= 192})
        IN r.off = IF data[last] = 0 THEN last ELSE last + 1
  BY DomainEnds, Zenon
<1> QED
  BY <1>1, <1>3, <1>4, Zenon DEF ReadRight

\* The property follows from the invariant.
LEMMA NamesInvAgree == NamesInv => NamesAgree
<1> SUFFICES ASSUME NamesInv, got.kind = "name" PROVE ReadRight(wire, got.start, got.result)
  BY Zenon DEF NamesAgree, ReadRight
<1>1. PICK start \in 0 .. Len(wire) :
        got = [kind |-> "name", start |-> start, result |-> readDomain(wire, start)]
  BY Zenon DEF NamesInv
<1>2. wire \in Seq(Byte)
  BY Zenon DEF NamesInv
<1>3. PICK r : r = readDomain(wire, start)
  OBVIOUS
<1>4. got.start = start /\ got.result = r
  BY <1>1, <1>3
<1>5. ReadRight(wire, start, r)
  BY <1>2, <1>3, NamesAgreeOn, Zenon
<1> QED
  BY <1>4, <1>5, Zenon

\* readDomain, with its readers of ever less data, finds at any place of any bytes
\* exactly the valid names of the walk that RFC 1035 describes, fails if there is none,
\* and goes on behind the name and not where its pointers led; and ParseDomainName gives
\* back the name that String wrote.
THEOREM NamesAreReadRight == FormatsSpec => []NamesAgree
<1>1. FormatsSpec => []NamesInv
  BY NamesInit, NamesStep, PTL DEF FormatsSpec
<1> QED
  BY <1>1, NamesInvAgree, PTL
=============================================================================

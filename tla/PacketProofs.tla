----------------------------- MODULE PacketProofs -----------------------------
(***************************************************************************)
(* What a packet carries arrives or is dropped, for all payloads that fit, *)
(* all endpoints, identifiers and sequence numbers, and a byte changed     *)
(* anywhere; and the safety of the tunnel that packets are read from and   *)
(* written to, for any number of goroutines.                               *)
(*                                                                         *)
(* The sum of the words of a packet, folded, is 0 only for a sum of 0 and  *)
(* otherwise in 1 .. 65535 and congruent to it modulo 65535.  A checksum   *)
(* in the place of 0 makes the sum a multiple of 65535, and one byte is    *)
(* worth less than that, so that no change of one byte leaves it so.  The  *)
(* rest is where each of the functions that make a packet puts its bytes,  *)
(* and that the functions that read it find them there.                    *)
(*                                                                         *)
(* The properties of the descriptor are not inductive.  What makes them so *)
(* is that refCount counts the goroutines inside operate, and that         *)
(* syscall.Close has been called exactly if the tunnel is closed and there *)
(* are none.  The stream uses the descriptor only the way FdTunnel allows, *)
(* so they hold under its loops and its callers.                           *)
(***************************************************************************)
EXTENDS Formats, TunnelStream, FiniteSetTheorems, WellFoundedInduction, SequenceTheorems, TLAPS

-----------------------------------------------------------------------------
(* Numbers *)

\* A set of natural numbers has a least one.
LEMMA LeastNumber ==
  ASSUME NEW T, T \subseteq Nat, T # {}
  PROVE  \E n \in T : \A m \in T : n <= m
<1> DEFINE Less == {p \in Nat \X Nat : p[1] < p[2]}
<1>1. IsWellFoundedOn(Less, Nat)
  <2>1. IsWellFoundedOn(OpToRel(<, Nat), Nat)
    BY NatLessThanWellFounded
  <2>2. Less = OpToRel(<, Nat)
    BY Zenon DEF OpToRel
  <2> QED
    BY <2>1, <2>2
<1>2. PICK n \in T : \A m \in T : ~(<<m, n>> \in Less)
  BY <1>1, WFMin
<1>3. \A m \in T : ~(m < n)
  BY <1>2
<1> QED
  BY <1>3

\* Induction up to n, about the members of a set.
LEMMA UpTo ==
  ASSUME NEW n \in Nat, NEW S, 0 \in S, \A i \in 1 .. n : i - 1 \in S => i \in S
  PROVE  0 .. n \subseteq S
<1> DEFINE T == {i \in 0 .. n : i \notin S}
<1>1. ASSUME T # {} PROVE FALSE
  <2>1. T \subseteq Nat
    OBVIOUS
  <2>2. PICK i \in T : \A j \in T : i <= j
    BY ONLY <1>1, <2>1, LeastNumber, Zenon
  <2>3. i \in 0 .. n /\ i \notin S
    BY <2>2
  <2>4. i \in 1 .. n /\ i - 1 \in 0 .. n /\ ~(i <= i - 1)
    BY <2>3
  <2>5. i - 1 \in S
    BY <2>2, <2>4
  <2> QED
    BY <2>3, <2>4, <2>5
<1> QED
  BY <1>1

-----------------------------------------------------------------------------
(* The sum of the words of a packet *)

Byte == 0 .. 255

\* What byte b in place i adds to the sum.
Weight(i, b) == IF i % 2 = 1 THEN 256 * b ELSE b

\* A byte's weight is a number.
LEMMA WeightType ==
  ASSUME NEW i \in Nat, NEW b \in Byte
  PROVE  Weight(i, b) \in Nat
  BY DEF Weight, Byte

\* f[i] is the sum of the first i bytes of d, for i up to n.
Sums(f, d, n) ==
  f = [i \in 0 .. n |-> IF i = 0 THEN 0 ELSE f[i - 1] + Weight(i, d[i])]

\* The partial sums of bytes exist.
LEMMA SumsExist ==
  ASSUME NEW d, NEW n \in Nat
  PROVE  \E f : Sums(f, d, n)
<1> DEFINE S == {i \in 0 .. n : \E f : Sums(f, d, i)}
<1>1. 0 \in S
  <2> DEFINE f == [i \in 0 .. 0 |-> 0]
  <2>1. f = [i \in 0 .. 0 |-> IF i = 0 THEN 0 ELSE f[i - 1] + Weight(i, d[i])]
    OBVIOUS
  <2>2. Sums(f, d, 0)
    BY <2>1 DEF Sums
  <2> QED
    BY <2>2
<1>2. ASSUME NEW i \in 1 .. n, i - 1 \in S PROVE i \in S
  <2>1. PICK f : Sums(f, d, i - 1)
    BY <1>2
  <2>2. \A j \in 0 .. i - 1 : f[j] = IF j = 0 THEN 0 ELSE f[j - 1] + Weight(j, d[j])
    BY <2>1, Zenon DEF Sums
  <2> DEFINE g == [j \in 0 .. i |-> IF j = i THEN f[i - 1] + Weight(i, d[i]) ELSE f[j]]
  <2>3. ASSUME NEW j \in 0 .. i
        PROVE  g[j] = IF j = 0 THEN 0 ELSE g[j - 1] + Weight(j, d[j])
    <3>1. CASE j = i
      <4>1. g[i] = f[i - 1] + Weight(i, d[i]) /\ i # 0
        OBVIOUS
      <4>2. g[i - 1] = f[i - 1]
        OBVIOUS
      <4> QED
        BY <3>1, <4>1, <4>2, Zenon
    <3>2. CASE j # i /\ j # 0
      <4>1. g[j] = f[j] /\ g[j - 1] = f[j - 1]
        BY <3>2
      <4>2. j \in 0 .. i - 1
        BY <3>2
      <4> QED
        BY <2>2, <3>2, <4>1, <4>2, Zenon
    <3>3. CASE j = 0
      <4>1. g[0] = f[0] /\ 0 \in 0 .. i - 1
        OBVIOUS
      <4> QED
        BY <2>2, <3>3, <4>1, Zenon
    <3> QED
      BY <3>1, <3>2, <3>3
  <2>4. g = [j \in 0 .. i |-> g[j]]
    BY Zenon
  <2> HIDE DEF g
  <2>5. Sums(g, d, i)
    BY <2>3, <2>4, Zenon DEF Sums
  <2> QED
    BY <2>5
<1> HIDE DEF S
<1>3. 0 .. n \subseteq S
  BY ONLY n \in Nat, <1>1, <1>2, UpTo, Zenon
<1> QED
  BY <1>3 DEF S

\* WordSum is the last of them.
LEMMA WordSumIs ==
  ASSUME NEW d, Len(d) \in Nat
  PROVE  \E f : Sums(f, d, Len(d)) /\ WordSum(d) = f[Len(d)]
<1> DEFINE p == CHOOSE f : Sums(f, d, Len(d))
<1>1. Sums(p, d, Len(d))
  BY SumsExist, Zenon
<1>2. WordSum(d) = p[Len(d)]
  BY Zenon DEF WordSum, Sums, Weight
<1> QED
  BY <1>1, <1>2, Zenon

\* The equations of the sum.
Adds(f, d, n) == f[0] = 0 /\ \A i \in 1 .. n : f[i] = f[i - 1] + Weight(i, d[i])

\* Each sum adds a byte to the one before it.
LEMMA SumsAdd ==
  ASSUME NEW f, NEW d, NEW n \in Nat, Sums(f, d, n)
  PROVE  Adds(f, d, n)
<1>1. \A i \in 0 .. n : f[i] = IF i = 0 THEN 0 ELSE f[i - 1] + Weight(i, d[i])
  BY Zenon DEF Sums
<1>2. 0 \in 0 .. n /\ \A i \in 1 .. n : i \in 0 .. n /\ i # 0
  OBVIOUS
<1> QED
  BY <1>1, <1>2, Zenon DEF Adds

\* The sum of the words is the last of the sums of the bytes.
LEMMA SumOf ==
  ASSUME NEW d \in Seq(Byte)
  PROVE  \E f : /\ Adds(f, d, Len(d)) /\ WordSum(d) = f[Len(d)]
                /\ \A i \in 0 .. Len(d) : f[i] \in Nat
<1>1. PICK n \in Nat : n = Len(d)
  OBVIOUS
<1>2. PICK f : Sums(f, d, n) /\ WordSum(d) = f[n]
  BY <1>1, WordSumIs, Zenon
<1>3. Adds(f, d, n)
  BY <1>2, SumsAdd, Zenon
<1> DEFINE S == {i \in 0 .. n : f[i] \in Nat}
<1>4. 0 \in S
  <2>1. 0 \in 0 .. n /\ 0 \in Nat
    OBVIOUS
  <2>2. f[0] \in Nat
    BY <1>3, <2>1, Zenon DEF Adds
  <2> QED
    BY <2>1, <2>2
<1>5. ASSUME NEW i \in 1 .. n, i - 1 \in S PROVE i \in S
  <2>1. f[i] = f[i - 1] + Weight(i, d[i])
    BY <1>3, Zenon DEF Adds
  <2>2. d[i] \in Byte /\ i \in Nat /\ i \in 0 .. n
    BY <1>1
  <2>3. PICK x \in Nat, y \in Nat : x = f[i - 1] /\ y = Weight(i, d[i])
    BY <1>5, <2>2, WeightType, Zenon
  <2>4. x + y \in Nat
    BY ONLY x \in Nat, y \in Nat
  <2> QED
    BY <2>1, <2>2, <2>3, <2>4
<1> HIDE DEF S
<1>6. 0 .. n \subseteq S
  BY ONLY n \in Nat, <1>4, <1>5, UpTo, Zenon
<1>7. \A i \in 0 .. n : f[i] \in Nat
  BY <1>6, Zenon DEF S
<1> QED
  BY <1>1, <1>2, <1>3, <1>7, Zenon

\* The sum is a number.
LEMMA WordSumType ==
  ASSUME NEW d \in Seq(Byte)
  PROVE  WordSum(d) \in Nat
<1>1. Len(d) \in 0 .. Len(d)
  OBVIOUS
<1> QED
  BY <1>1, SumOf, Zenon

\* A packet with another byte in place i.
With(s, i, b) == [s EXCEPT ![i] = b]

\* It is as long as the packet, and differs in place i.
LEMMA WithType ==
  ASSUME NEW d \in Seq(Byte), NEW k \in 1 .. Len(d), NEW b \in Byte
  PROVE  /\ With(d, k, b) \in Seq(Byte)
         /\ Len(With(d, k, b)) = Len(d)
         /\ \A i \in 1 .. Len(d) : With(d, k, b)[i] = IF i = k THEN b ELSE d[i]
  BY ExceptSeq, SMT DEF With

IsWith(e, d, k, b) ==
  /\ e \in Seq(Byte) /\ Len(e) = Len(d)
  /\ \A i \in 1 .. Len(d) : e[i] = IF i = k THEN b ELSE d[i]

\* The same, said in one word.
LEMMA WithIs ==
  ASSUME NEW d \in Seq(Byte), NEW k \in 1 .. Len(d), NEW b \in Byte
  PROVE  IsWith(With(d, k, b), d, k, b)
  BY WithType, SMT DEF IsWith

\* A byte that changes changes the sum by the difference in its weight.
LEMMA SumChanges ==
  ASSUME NEW d \in Seq(Byte), NEW k \in 1 .. Len(d), NEW b \in Byte
  PROVE  WordSum(With(d, k, b)) + Weight(k, d[k]) = WordSum(d) + Weight(k, b)
<1> DEFINE e == With(d, k, b)
<1>0. /\ e \in Seq(Byte) /\ Len(e) = Len(d)
      /\ \A i \in 1 .. Len(d) : e[i] = IF i = k THEN b ELSE d[i]
  <2>1. IsWith(e, d, k, b)
    BY ONLY d \in Seq(Byte), k \in 1 .. Len(d), b \in Byte, WithIs, Zenon
  <2> QED
    BY <2>1, Zenon DEF IsWith
<1> HIDE DEF e
<1>1. PICK n \in Nat : n = Len(d) /\ n = Len(e)
  BY <1>0
<1>2. PICK f : Adds(f, d, n) /\ WordSum(d) = f[n] /\ \A i \in 0 .. n : f[i] \in Nat
  BY <1>1, SumOf, Zenon
<1>3. PICK g : Adds(g, e, n) /\ WordSum(e) = g[n] /\ \A i \in 0 .. n : g[i] \in Nat
  BY <1>0, <1>1, SumOf, Zenon
<1>4. PICK u \in Nat, v \in Nat : u = Weight(k, d[k]) /\ v = Weight(k, b)
  <2>1. k \in Nat /\ d[k] \in Byte
    OBVIOUS
  <2> QED
    BY <2>1, WeightType, Zenon
<1> DEFINE S == {i \in 0 .. n : IF i < k THEN g[i] = f[i] ELSE g[i] + u = f[i] + v}
<1>5. 0 \in S
  <2>1. 0 \in 0 .. n /\ 0 < k
    OBVIOUS
  <2>2. g[0] = f[0]
    BY <1>2, <1>3, Zenon DEF Adds
  <2> QED
    BY <2>1, <2>2
<1>6. ASSUME NEW i \in 1 .. n, i - 1 \in S PROVE i \in S
  <2>1. i \in 0 .. n /\ i - 1 \in 0 .. n /\ i \in Nat /\ i \in 1 .. Len(d)
    BY <1>1
  <2>2. f[i] = f[i - 1] + Weight(i, d[i]) /\ g[i] = g[i - 1] + Weight(i, e[i])
    BY <1>2, <1>3, Zenon DEF Adds
  <2>3. PICK x \in Nat, y \in Nat : x = f[i - 1] /\ y = g[i - 1]
    BY <1>2, <1>3, <2>1, Zenon
  <2>4. CASE i = k
    <3>1. e[i] = b
      BY <1>0, <2>1, <2>4
    <3>2. f[i] = x + u /\ g[i] = y + v
      BY <1>4, <2>2, <2>3, <2>4, <3>1, Zenon
    <3>3. y = x
      BY <1>6, <2>3, <2>4
    <3>4. g[i] + u = f[i] + v
      <4>1. (x + v) + u = (x + u) + v
        BY ONLY x \in Nat, u \in Nat, v \in Nat
      <4> QED
        BY <3>2, <3>3, <4>1, Zenon
    <3> QED
      BY <2>1, <2>4, <3>4
  <2>5. CASE i # k
    <3>1. e[i] = d[i] /\ d[i] \in Byte
      BY <1>0, <2>1, <2>5
    <3>2. PICK w \in Nat : w = Weight(i, d[i])
      BY <2>1, <3>1, WeightType, Zenon
    <3>3. f[i] = x + w /\ g[i] = y + w
      BY <2>2, <2>3, <3>1, <3>2, Zenon
    <3>4. IF i < k THEN y = x ELSE y + u = x + v
      <4>1. IF i - 1 < k THEN y = x ELSE y + u = x + v
        BY <1>6, <2>3
      <4>2. i - 1 < k <=> i < k
        BY <2>5
      <4> QED
        BY <4>1, <4>2
    <3>5. IF i < k THEN y + w = x + w ELSE (y + w) + u = (x + w) + v
      BY ONLY <3>4, x \in Nat, y \in Nat, u \in Nat, v \in Nat, w \in Nat
    <3>6. IF i < k THEN g[i] = f[i] ELSE g[i] + u = f[i] + v
      BY <3>3, <3>5, Zenon
    <3> QED
      BY <2>1, <3>6
  <2> QED
    BY <2>4, <2>5
<1> HIDE DEF S
<1>7. 0 .. n \subseteq S
  BY ONLY n \in Nat, <1>5, <1>6, UpTo, Zenon
<1>8. n \in S /\ ~(n < k)
  BY <1>1, <1>7
<1>9. g[n] + u = f[n] + v
  BY <1>8 DEF S
<1> QED
  BY <1>2, <1>3, <1>4, <1>9, Zenon DEF e

-----------------------------------------------------------------------------
(* Folding carries *)

\* What is left of a sum when its carries are folded: 0 of 0, and otherwise the
\* number from 1 to 65535 that is congruent to it modulo 65535.
Folded(s) == IF s = 0 THEN 0 ELSE ((s - 1) % 65535) + 1

Word == {n \in Nat : n < 65536}
Ones == 65535

\* It has 16 bits.
LEMMA FoldedType ==
  ASSUME NEW s \in Nat
  PROVE  Folded(s) \in Word
  BY SMT DEF Folded, Word

Short(s) == s < 65536
Carried(s) == (s % 65536) + (s \div 65536)

\* Adding the carry once does not change it.
LEMMA FoldedStep ==
  ASSUME NEW s \in Nat, ~Short(s)
  PROVE  Carried(s) \in Nat /\ Carried(s) < s /\ Folded(s) = Folded(Carried(s))
  BY SMT DEF Folded, Short, Carried

\* A sum without a carry is what is left of it.
LEMMA FoldedBase ==
  ASSUME NEW s \in Nat, Short(s)
  PROVE  Folded(s) = s
  BY SMT DEF Folded, Short

\* The equation of Carry.
CarryEq(f) == f = [sum \in Nat |-> IF Short(sum) THEN sum ELSE f[Carried(sum)]]

\* Carry satisfies its equation.
LEMMA CarryIs == CarryEq(Carry)
<1> DEFINE f == [s \in Nat |-> Folded(s)]
<1>1. ASSUME NEW s \in Nat
      PROVE  f[s] = IF Short(s) THEN s ELSE f[Carried(s)]
  BY FoldedStep, FoldedBase, Zenon
<1>2. f = [s \in Nat |-> f[s]]
  BY Zenon
<1> HIDE DEF f
<1>3. CarryEq(f)
  BY <1>1, <1>2, Zenon DEF CarryEq
<1>4. CarryEq(CHOOSE g : CarryEq(g))
  BY <1>3, Zenon
<1>5. Carry = CHOOSE g : CarryEq(g)
  BY SMT DEF Carry, CarryEq, Short, Carried
<1> QED
  BY <1>4, <1>5, Zenon

\* Carry leaves what is left of the sum.
LEMMA CarryFolds ==
  ASSUME NEW s \in Nat
  PROVE  Carry[s] = Folded(s)
<1> DEFINE T == {t \in Nat : Carry[t] # Folded(t)}
<1>1. \A t \in Nat : Carry[t] = IF Short(t) THEN t ELSE Carry[Carried(t)]
  BY CarryIs, Zenon DEF CarryEq
<1>2. ASSUME T # {} PROVE FALSE
  <2>1. T \subseteq Nat
    BY Zenon
  <2>2. PICK t \in T : \A u \in T : t <= u
    BY ONLY <1>2, <2>1, LeastNumber, Zenon
  <2>3. t \in Nat /\ Carry[t] # Folded(t)
    BY <2>2, Zenon
  <2>4. ~Short(t)
    BY <1>1, <2>3, FoldedBase, Zenon
  <2>5. Carried(t) \in Nat /\ Carried(t) < t /\ Folded(t) = Folded(Carried(t))
    BY <2>3, <2>4, FoldedStep, Zenon
  <2>6. ~(t <= Carried(t))
    BY ONLY t \in Nat, <2>5, SMT
  <2>7. Carry[Carried(t)] = Folded(Carried(t))
    BY <2>2, <2>5, <2>6, Zenon
  <2> QED
    BY <1>1, <2>3, <2>4, <2>5, <2>7, Zenon
<1> QED
  BY <1>2, Zenon

\* InternetChecksum is the complement of what is left of the sum.
LEMMA ChecksumIs ==
  ASSUME NEW d \in Seq(Byte)
  PROVE  InternetChecksum(d) = 65535 - Folded(WordSum(d))
<1>1. Carry[WordSum(d)] = Folded(WordSum(d))
  BY WordSumType, CarryFolds, Zenon
<1> QED
  BY ONLY <1>1, SMT DEF InternetChecksum
\* The complement of 16 bits.
LEMMA Complement ==
  ASSUME NEW c \in Word
  PROVE  65535 - c \in Word /\ (65535 - c = 0 <=> c = 65535)
  BY SMT DEF Word

\* A checksum has 16 bits.
LEMMA ChecksumType ==
  ASSUME NEW d \in Seq(Byte)
  PROVE  InternetChecksum(d) \in Word
<1>1. PICK c \in Word : c = Folded(WordSum(d))
  BY WordSumType, FoldedType, Zenon
<1> QED
  BY <1>1, ChecksumIs, Complement, SMT

\* A sum of words that checks.
Checks(s) == Folded(s) = 65535

\* The checksum of a packet is 0 exactly if its sum checks.
LEMMA ChecksIff ==
  ASSUME NEW d \in Seq(Byte)
  PROVE  InternetChecksum(d) = 0 <=> Checks(WordSum(d))
<1>1. PICK s \in Nat : s = WordSum(d)
  BY WordSumType, Zenon
<1>2. PICK c \in Word : c = Folded(s)
  BY FoldedType, Zenon
<1>3. InternetChecksum(d) = 65535 - c
  BY <1>1, <1>2, ChecksumIs, SMT
<1>4. (65535 - c = 0) <=> (c = 65535)
  BY Complement, SMT
<1> QED
  BY <1>1, <1>2, <1>3, <1>4, SMT DEF Checks

\* The checksum makes the sum that it is added to check, and so does 65535 in
\* the place of 0.
LEMMA FillChecks ==
  ASSUME NEW s \in Nat
  PROVE  /\ Checks(s + (65535 - Folded(s)))
         /\ Folded(s) = 65535 => Checks(s + 65535)
  BY SMTT(30) DEF Checks, Folded

\* A sum that checks does not when it changes by less than 65535.
LEMMA ChangeFails ==
  ASSUME NEW s \in Nat, NEW t \in Nat, Checks(s), t # s, t < s + 65535, s < t + 65535
  PROVE  ~Checks(t)
  BY SMTT(30) DEF Checks, Folded

\* Two bytes differ by less than 65535 in their place.
LEMMA WeightsDiffer ==
  ASSUME NEW i \in Nat, NEW b \in Byte, NEW c \in Byte, b # c
  PROVE  /\ Weight(i, b) # Weight(i, c)
         /\ Weight(i, b) < Weight(i, c) + 65535
  BY SMT DEF Weight, Byte

\* A sequence of bytes whose InternetChecksum is 0, as a receiver of a packet finds it,
\* has another checksum when one of its bytes, whichever, is made another.
THEOREM ChangeIsFound ==
  ASSUME NEW d \in Seq(Byte), NEW k \in 1 .. Len(d), NEW b \in Byte, b # d[k],
         InternetChecksum(d) = 0
  PROVE  InternetChecksum(With(d, k, b)) # 0
<1>1. PICK e \in Seq(Byte) : e = With(d, k, b)
  <2>1. IsWith(With(d, k, b), d, k, b)
    BY ONLY d \in Seq(Byte), k \in 1 .. Len(d), b \in Byte, WithIs, Zenon
  <2> QED
    BY <2>1, Zenon DEF IsWith
<1>2. PICK c \in Byte, i \in Nat : c = d[k] /\ i = k
  BY SMT
<1>3. PICK s \in Nat, t \in Nat : s = WordSum(d) /\ t = WordSum(e)
  BY WordSumType, Zenon
<1>4. PICK u \in Nat, v \in Nat : u = Weight(k, d[k]) /\ v = Weight(k, b)
  BY <1>2, WeightType, Zenon
<1>5. t + u = s + v
  <2>1. WordSum(With(d, k, b)) + Weight(k, d[k]) = WordSum(d) + Weight(k, b)
    BY SumChanges, Zenon
  <2> QED
    BY <1>1, <1>3, <1>4, <2>1, Zenon
<1>6. u # v /\ u < v + 65535 /\ v < u + 65535
  BY <1>2, <1>4, WeightsDiffer, SMT
<1>7. Checks(s)
  BY <1>3, ChecksIff, Zenon
<1>8. t # s /\ t < s + 65535 /\ s < t + 65535
  BY ONLY s \in Nat, t \in Nat, u \in Nat, v \in Nat, <1>5, <1>6, SMT
<1>9. ~Checks(t)
  BY <1>7, <1>8, ChangeFails, SMT
<1> QED
  BY <1>1, <1>3, <1>9, ChecksIff, Zenon

-----------------------------------------------------------------------------
(* A 16-bit number as two bytes *)

Hi(v) == (v \div 256) % 256
Lo(v) == v % 256

\* The two bytes of a 16-bit number.
LEMMA Halves ==
  ASSUME NEW v \in Word
  PROVE  Hi(v) \in Byte /\ Lo(v) \in Byte /\ 256 * Hi(v) + Lo(v) = v
  BY SMT DEF Hi, Lo, Byte, Word

\* PutU16 sets two bytes.
LEMMA PutType ==
  ASSUME NEW d \in Seq(Byte), NEW off \in Nat, off + 2 <= Len(d), NEW v \in Word
  PROVE  /\ PutU16(d, off, v) \in Seq(Byte)
         /\ Len(PutU16(d, off, v)) = Len(d)
         /\ \A i \in 1 .. Len(d) :
              PutU16(d, off, v)[i] = IF i = off + 1 THEN Hi(v) ELSE IF i = off + 2 THEN Lo(v) ELSE d[i]
<1>1. PICK i \in 1 .. Len(d), j \in 1 .. Len(d) : i = off + 1 /\ j = off + 2 /\ i # j
  OBVIOUS
<1>2. PICK h \in Byte, l \in Byte : h = Hi(v) /\ l = Lo(v)
  BY Halves, SMT
<1> DEFINE e == With(d, i, h)
<1>4. /\ e \in Seq(Byte) /\ Len(e) = Len(d)
      /\ \A k \in 1 .. Len(d) : e[k] = IF k = i THEN h ELSE d[k]
  <2>1. IsWith(e, d, i, h)
    BY ONLY d \in Seq(Byte), i \in 1 .. Len(d), h \in Byte, WithIs, Zenon
  <2> QED
    BY <2>1, Zenon DEF IsWith
<1>5. PutU16(d, off, v) = With(e, j, l)
  BY <1>1, <1>2, Zenon DEF PutU16, With, Hi, Lo
<1> HIDE DEF e
<1>6. /\ PutU16(d, off, v) \in Seq(Byte) /\ Len(PutU16(d, off, v)) = Len(d)
      /\ \A k \in 1 .. Len(d) : PutU16(d, off, v)[k] = IF k = j THEN l ELSE e[k]
  <2>1. e \in Seq(Byte) /\ j \in 1 .. Len(e)
    BY <1>4
  <2>2. /\ With(e, j, l) \in Seq(Byte) /\ Len(With(e, j, l)) = Len(e)
        /\ \A k \in 1 .. Len(e) : With(e, j, l)[k] = IF k = j THEN l ELSE e[k]
    <3>1. IsWith(With(e, j, l), e, j, l)
      BY ONLY <2>1, l \in Byte, WithIs, Zenon
    <3> QED
      BY <3>1, Zenon DEF IsWith
  <2> QED
    BY <1>4, <1>5, <2>2, Zenon
<1>7. ASSUME NEW k \in 1 .. Len(d)
      PROVE  PutU16(d, off, v)[k]
               = IF k = off + 1 THEN Hi(v) ELSE IF k = off + 2 THEN Lo(v) ELSE d[k]
  <2>1. e[k] = IF k = off + 1 THEN Hi(v) ELSE d[k]
    BY <1>1, <1>2, <1>4, Zenon
  <2>2. PutU16(d, off, v)[k] = IF k = off + 2 THEN Lo(v) ELSE e[k]
    BY <1>1, <1>2, <1>6, Zenon
  <2>3. off + 1 # off + 2
    BY <1>1
  <2> QED
    BY <2>1, <2>2, <2>3, Zenon
<1> QED
  BY <1>6, <1>7, Zenon

\* A number that is put in the place of 0 is added to the sum.
LEMMA PutAdds ==
  ASSUME NEW d \in Seq(Byte), NEW off \in Nat, off % 2 = 0, off + 2 <= Len(d),
         d[off + 1] = 0, d[off + 2] = 0, NEW v \in Word
  PROVE  WordSum(PutU16(d, off, v)) = WordSum(d) + v
<1>1. PICK i \in 1 .. Len(d), j \in 1 .. Len(d) : i = off + 1 /\ j = off + 2
  OBVIOUS
<1>2. PICK h \in Byte, l \in Byte : h = Hi(v) /\ l = Lo(v) /\ 256 * h + l = v
  BY Halves, SMT
<1> DEFINE e == With(d, i, h)
<1>3. /\ e \in Seq(Byte) /\ Len(e) = Len(d)
      /\ \A k \in 1 .. Len(d) : e[k] = IF k = i THEN h ELSE d[k]
  <2>1. IsWith(e, d, i, h)
    BY ONLY d \in Seq(Byte), i \in 1 .. Len(d), h \in Byte, WithIs, Zenon
  <2> QED
    BY <2>1, Zenon DEF IsWith
<1>5. PutU16(d, off, v) = With(e, j, l)
  BY <1>1, <1>2, SMT DEF PutU16, With, Hi, Lo
<1> HIDE DEF e
<1>4. j \in 1 .. Len(e) /\ e[j] = 0 /\ d[i] = 0
  BY <1>1, <1>3
<1>6. WordSum(e) + Weight(i, 0) = WordSum(d) + Weight(i, h)
  <2>1. WordSum(With(d, i, h)) + Weight(i, d[i]) = WordSum(d) + Weight(i, h)
    BY SumChanges, Zenon
  <2> QED
    BY <1>4, <2>1, Zenon DEF e
<1>7. WordSum(PutU16(d, off, v)) + Weight(j, 0) = WordSum(e) + Weight(j, l)
  <2>1. WordSum(With(e, j, l)) + Weight(j, e[j]) = WordSum(e) + Weight(j, l)
    BY <1>3, <1>4, SumChanges, Zenon
  <2> QED
    BY <1>4, <1>5, <2>1, Zenon
<1>8. Weight(i, 0) = 0 /\ Weight(j, 0) = 0 /\ Weight(i, h) = 256 * h /\ Weight(j, l) = l
  BY <1>1, SMT DEF Weight
<1>9. PICK x \in Nat, y \in Nat, z \in Nat :
        x = WordSum(d) /\ y = WordSum(e) /\ z = WordSum(PutU16(d, off, v))
  BY <1>3, PutType, WordSumType, Zenon
<1>10. y + 0 = x + 256 * h /\ z + 0 = y + l
  BY <1>6, <1>7, <1>8, <1>9, Zenon
<1>11. z = x + v
  BY ONLY <1>10, <1>2, x \in Nat, y \in Nat, z \in Nat, h \in Byte, l \in Byte, SMT DEF Byte
<1> QED
  BY <1>9, <1>11, Zenon

\* The checksum that is put in the place of 0 makes the checksum 0; where it was 0
\* before, 65535 does so too.
LEMMA PutFills ==
  ASSUME NEW d \in Seq(Byte), NEW off \in Nat, off % 2 = 0, off + 2 <= Len(d),
         d[off + 1] = 0, d[off + 2] = 0
  PROVE  /\ InternetChecksum(PutU16(d, off, InternetChecksum(d))) = 0
         /\ InternetChecksum(d) = 0 => InternetChecksum(PutU16(d, off, Ones)) = 0
<1>1. PICK s \in Nat : s = WordSum(d)
  BY WordSumType, Zenon
<1>2. PICK v \in Word : v = InternetChecksum(d) /\ v = 65535 - Folded(s)
  BY <1>1, ChecksumType, ChecksumIs, SMT
<1>3. PICK m \in Word : m = 65535
  BY SMT DEF Word
<1>4. WordSum(PutU16(d, off, v)) = s + v /\ WordSum(PutU16(d, off, m)) = s + m
  BY <1>1, PutAdds, Zenon
<1>5. /\ InternetChecksum(PutU16(d, off, v)) = 0 <=> Checks(s + v)
      /\ InternetChecksum(PutU16(d, off, m)) = 0 <=> Checks(s + m)
  BY <1>4, PutType, ChecksIff, ZenonT(40)
<1>6. Checks(s + v) /\ (v = 0 => Checks(s + m))
  <2>1. PICK c \in Word : c = Folded(s)
    BY FoldedType, Zenon
  <2>2. v = 0 => c = 65535
    BY <1>2, <2>1, Complement, SMT
  <2> QED
    BY <1>2, <1>3, <2>1, <2>2, FillChecks, SMT
<1> QED
  BY <1>2, <1>3, <1>5, <1>6, SMT DEF Ones

-----------------------------------------------------------------------------
(* Sequences of bytes one after the other *)

\* The length and the bytes of two sequences, one after the other.
LEMMA CatType ==
  ASSUME NEW a \in Seq(Byte), NEW b \in Seq(Byte)
  PROVE  /\ a \o b \in Seq(Byte)
         /\ Len(a \o b) = Len(a) + Len(b)
         /\ \A i \in 1 .. Len(a) : (a \o b)[i] = a[i]
         /\ \A i \in 1 .. Len(b) : (a \o b)[Len(a) + i] = b[i]
  OBVIOUS

\* A byte that is set in the first of two sequences.
LEMMA CatSetLeft ==
  ASSUME NEW a \in Seq(Byte), NEW b \in Seq(Byte), NEW i \in 1 .. Len(a), NEW x \in Byte
  PROVE  With(a \o b, i, x) = With(a, i, x) \o b
<1> DEFINE s == a \o b
           e == With(a, i, x)
           t == e \o b
           u == With(s, i, x)
<1>1. /\ s \in Seq(Byte) /\ Len(s) = Len(a) + Len(b)
      /\ \A k \in 1 .. Len(a) : s[k] = a[k]
      /\ \A k \in 1 .. Len(b) : s[Len(a) + k] = b[k]
  BY CatType, Zenon
<1>2. /\ e \in Seq(Byte) /\ Len(e) = Len(a)
      /\ \A k \in 1 .. Len(a) : e[k] = IF k = i THEN x ELSE a[k]
  <2>1. IsWith(e, a, i, x)
    BY ONLY a \in Seq(Byte), i \in 1 .. Len(a), x \in Byte, WithIs, Zenon
  <2> QED
    BY <2>1, Zenon DEF IsWith
<1> HIDE DEF e
<1>3. /\ t \in Seq(Byte) /\ Len(t) = Len(a) + Len(b)
      /\ \A k \in 1 .. Len(a) : t[k] = e[k]
      /\ \A k \in 1 .. Len(b) : t[Len(a) + k] = b[k]
  <2>1. /\ t \in Seq(Byte) /\ Len(t) = Len(e) + Len(b)
        /\ \A k \in 1 .. Len(e) : t[k] = e[k]
        /\ \A k \in 1 .. Len(b) : t[Len(e) + k] = b[k]
    BY <1>2, CatType, Zenon
  <2> QED
    BY <1>2, <2>1, Zenon
<1> HIDE DEF s, t
<1>4. i \in 1 .. Len(s)
  BY <1>1
<1>5. /\ u \in Seq(Byte) /\ Len(u) = Len(s)
      /\ \A k \in 1 .. Len(s) : u[k] = IF k = i THEN x ELSE s[k]
  <2>1. IsWith(u, s, i, x)
    BY <1>1, <1>4, WithIs, Zenon
  <2> QED
    BY <2>1, Zenon DEF IsWith
<1> HIDE DEF u
<1>6. ASSUME NEW k \in 1 .. Len(u) PROVE u[k] = t[k]
  <2>1. k \in 1 .. Len(s)
    BY <1>5
  <2>2. CASE k \in 1 .. Len(a)
    BY <1>1, <1>2, <1>3, <1>5, <2>1, <2>2, Zenon
  <2>3. CASE k \notin 1 .. Len(a)
    <3>1. PICK m \in 1 .. Len(b) : k = Len(a) + m
      <4>1. k - Len(a) \in 1 .. Len(b) /\ k = Len(a) + (k - Len(a))
        BY <1>1, <2>1, <2>3
      <4> QED
        BY <4>1, Zenon
    <3>2. k # i
      BY <2>3
    <3>3. u[k] = s[k]
      BY <1>5, <2>1, <3>2, Zenon
    <3>4. s[k] = b[m] /\ t[k] = b[m]
      BY <1>1, <1>3, <3>1, Zenon
    <3> QED
      BY <3>3, <3>4, Zenon
  <2> QED
    BY <2>2, <2>3
<1>7. u = t
  <2>1. Len(u) = Len(t)
    BY <1>1, <1>3, <1>5, Zenon
  <2> QED
    BY <1>3, <1>5, <1>6, <2>1, SeqEqual, Zenon
<1> QED
  BY <1>7, Zenon DEF u, s, t, e

\* A byte that is set in the second.
LEMMA CatSetRight ==
  ASSUME NEW a \in Seq(Byte), NEW b \in Seq(Byte), NEW i \in 1 .. Len(b), NEW x \in Byte
  PROVE  With(a \o b, Len(a) + i, x) = a \o With(b, i, x)
<1> DEFINE s == a \o b
           e == With(b, i, x)
           t == a \o e
           u == With(s, Len(a) + i, x)
<1>1. /\ s \in Seq(Byte) /\ Len(s) = Len(a) + Len(b)
      /\ \A k \in 1 .. Len(a) : s[k] = a[k]
      /\ \A k \in 1 .. Len(b) : s[Len(a) + k] = b[k]
  BY CatType, Zenon
<1>2. /\ e \in Seq(Byte) /\ Len(e) = Len(b)
      /\ \A k \in 1 .. Len(b) : e[k] = IF k = i THEN x ELSE b[k]
  <2>1. IsWith(e, b, i, x)
    BY ONLY b \in Seq(Byte), i \in 1 .. Len(b), x \in Byte, WithIs, Zenon
  <2> QED
    BY <2>1, Zenon DEF IsWith
<1> HIDE DEF e
<1>3. /\ t \in Seq(Byte) /\ Len(t) = Len(a) + Len(b)
      /\ \A k \in 1 .. Len(a) : t[k] = a[k]
      /\ \A k \in 1 .. Len(b) : t[Len(a) + k] = e[k]
  <2>1. /\ t \in Seq(Byte) /\ Len(t) = Len(a) + Len(e)
        /\ \A k \in 1 .. Len(a) : t[k] = a[k]
        /\ \A k \in 1 .. Len(e) : t[Len(a) + k] = e[k]
    BY <1>2, CatType, Zenon
  <2> QED
    BY <1>2, <2>1, Zenon
<1> HIDE DEF s, t
<1>4. Len(a) + i \in 1 .. Len(s)
  BY <1>1
<1>5. /\ u \in Seq(Byte) /\ Len(u) = Len(s)
      /\ \A k \in 1 .. Len(s) : u[k] = IF k = Len(a) + i THEN x ELSE s[k]
  <2>1. IsWith(u, s, Len(a) + i, x)
    BY <1>1, <1>4, WithIs, Zenon
  <2> QED
    BY <2>1, Zenon DEF IsWith
<1> HIDE DEF u
<1>6. ASSUME NEW k \in 1 .. Len(u) PROVE u[k] = t[k]
  <2>1. k \in 1 .. Len(s)
    BY <1>5
  <2>2. CASE k \in 1 .. Len(a)
    <3>1. k # Len(a) + i
      BY <2>2
    <3> QED
      BY <1>1, <1>3, <1>5, <2>1, <2>2, <3>1, Zenon
  <2>3. CASE k \notin 1 .. Len(a)
    <3>1. PICK m \in 1 .. Len(b) : k = Len(a) + m
      <4>1. k - Len(a) \in 1 .. Len(b) /\ k = Len(a) + (k - Len(a))
        BY <1>1, <2>1, <2>3
      <4> QED
        BY <4>1, Zenon
    <3>2. m = i <=> k = Len(a) + i
      BY <3>1
    <3> QED
      BY <1>1, <1>2, <1>3, <1>5, <2>1, <3>1, <3>2, Zenon
  <2> QED
    BY <2>2, <2>3
<1>7. u = t
  <2>1. Len(u) = Len(t)
    BY <1>1, <1>3, <1>5, Zenon
  <2> QED
    BY <1>3, <1>5, <1>6, <2>1, SeqEqual, Zenon
<1> QED
  BY <1>7, Zenon DEF u, s, t, e

\* A number that is put into the first.
LEMMA CatPutLeft ==
  ASSUME NEW a \in Seq(Byte), NEW b \in Seq(Byte), NEW off \in Nat, off + 2 <= Len(a),
         NEW v \in Word
  PROVE  PutU16(a \o b, off, v) = PutU16(a, off, v) \o b
<1>1. PICK i \in 1 .. Len(a), j \in 1 .. Len(a) : i = off + 1 /\ j = off + 2
  OBVIOUS
<1>2. PICK h \in Byte, l \in Byte : h = Hi(v) /\ l = Lo(v)
  BY Halves, SMT
<1>3. PICK e \in Seq(Byte) : e = With(a, i, h) /\ Len(e) = Len(a)
  <2>1. With(a, i, h) \in Seq(Byte) /\ Len(With(a, i, h)) = Len(a)
    <3>1. IsWith(With(a, i, h), a, i, h)
      BY ONLY a \in Seq(Byte), i \in 1 .. Len(a), h \in Byte, WithIs, Zenon
    <3> QED
      BY <3>1, Zenon DEF IsWith
  <2> QED
    BY <2>1, Zenon
<1>4. With(a \o b, i, h) = With(a, i, h) \o b
  BY CatSetLeft, Zenon
<1>5. With(e \o b, j, l) = With(e, j, l) \o b
  <2>1. j \in 1 .. Len(e)
    BY <1>3, Zenon
  <2> QED
    BY <2>1, CatSetLeft, Zenon
<1> QED
  BY <1>1, <1>2, <1>3, <1>4, <1>5, ZenonT(40) DEF PutU16, With, Hi, Lo

\* A number that is put into the second.
LEMMA CatPutRight ==
  ASSUME NEW a \in Seq(Byte), NEW b \in Seq(Byte), NEW off \in Nat, off + 2 <= Len(b),
         NEW v \in Word, NEW pos \in Nat, pos = Len(a) + off
  PROVE  PutU16(a \o b, pos, v) = a \o PutU16(b, off, v)
<1>1. PICK i \in 1 .. Len(b), j \in 1 .. Len(b) : i = off + 1 /\ j = off + 2
  OBVIOUS
<1>2. PICK h \in Byte, l \in Byte : h = Hi(v) /\ l = Lo(v)
  BY Halves, SMT
<1>3. PICK e \in Seq(Byte) : e = With(b, i, h) /\ Len(e) = Len(b)
  <2>1. With(b, i, h) \in Seq(Byte) /\ Len(With(b, i, h)) = Len(b)
    <3>1. IsWith(With(b, i, h), b, i, h)
      BY ONLY b \in Seq(Byte), i \in 1 .. Len(b), h \in Byte, WithIs, Zenon
    <3> QED
      BY <3>1, Zenon DEF IsWith
  <2> QED
    BY <2>1, Zenon
<1>4. Len(a) + i = pos + 1 /\ Len(a) + j = pos + 2
  BY <1>1
<1>5. With(a \o b, Len(a) + i, h) = a \o With(b, i, h)
  BY CatSetRight, ZenonT(40)
<1>6. With(a \o e, Len(a) + j, l) = a \o With(e, j, l)
  <2>1. j \in 1 .. Len(e)
    BY <1>3, Zenon
  <2> QED
    BY <2>1, CatSetRight, ZenonT(40)
<1>7. With(a \o b, pos + 1, h) = a \o e /\ With(a \o e, pos + 2, l) = a \o With(e, j, l)
  BY <1>3, <1>4, <1>5, <1>6, Zenon
<1>8. PutU16(b, off, v) = With(e, j, l)
  BY <1>1, <1>2, <1>3, SMT DEF PutU16, With, Hi, Lo
<1>9. PutU16(a \o b, pos, v) = With(With(a \o b, pos + 1, h), pos + 2, l)
  BY <1>2, Zenon DEF PutU16, With, Hi, Lo
<1> QED
  BY <1>7, <1>8, <1>9, Zenon

\* A part of a sequence of bytes.
LEMMA SubType ==
  ASSUME NEW a \in Seq(Byte), NEW m \in Nat, NEW n \in Nat, 1 <= m, m <= n, n <= Len(a)
  PROVE  /\ SubSeq(a, m, n) \in Seq(Byte)
         /\ Len(SubSeq(a, m, n)) = n - m + 1
         /\ \A i \in 1 .. n - m + 1 : SubSeq(a, m, n)[i] = a[m + i - 1]
<1>1. m \in Int /\ n \in Int /\ \A i \in m .. n : a[i] \in Byte
  OBVIOUS
<1>2. SubSeq(a, m, n) \in Seq(Byte)
  BY ONLY <1>1, SubSeqProperties, SMT
<1> QED
  BY <1>2, SMT

\* A part that lies in the first of two sequences.
LEMMA CatSub ==
  ASSUME NEW a \in Seq(Byte), NEW b \in Seq(Byte), NEW m \in Nat, NEW n \in Nat,
         1 <= m, m <= n, n <= Len(a)
  PROVE  SubSeq(a \o b, m, n) = SubSeq(a, m, n)
<1> DEFINE s == a \o b
           u == SubSeq(s, m, n)
           t == SubSeq(a, m, n)
<1>1. /\ s \in Seq(Byte) /\ Len(s) = Len(a) + Len(b)
      /\ \A i \in 1 .. Len(a) : s[i] = a[i]
  BY CatType, Zenon
<1> HIDE DEF s
<1>2. n <= Len(s)
  BY <1>1
<1>3. u \in Seq(Byte) /\ Len(u) = n - m + 1 /\ \A i \in 1 .. n - m + 1 : u[i] = s[m + i - 1]
  BY <1>1, <1>2, SubType, Zenon
<1>4. t \in Seq(Byte) /\ Len(t) = n - m + 1 /\ \A i \in 1 .. n - m + 1 : t[i] = a[m + i - 1]
  BY SubType, Zenon
<1> HIDE DEF u, t
<1>5. ASSUME NEW k \in 1 .. Len(u) PROVE u[k] = t[k]
  <2>1. k \in 1 .. n - m + 1 /\ m + k - 1 \in 1 .. Len(a)
    BY <1>3
  <2> QED
    BY <1>1, <1>3, <1>4, <2>1, Zenon
<1>6. u = t
  BY <1>3, <1>4, <1>5, SeqEqual, Zenon
<1> QED
  BY <1>6, Zenon DEF u, t, s

\* The first of two sequences.
LEMMA CatFirst ==
  ASSUME NEW a \in Seq(Byte), NEW b \in Seq(Byte), NEW n, n = Len(a)
  PROVE  SubSeq(a \o b, 1, n) = a
<1>1. PICK s \in Seq(Byte) : s = a \o b /\ Len(s) = Len(a) + Len(b) /\ \A i \in 1 .. Len(a) : s[i] = a[i]
  BY CatType, Zenon
<1>2. PICK u \in Seq(Byte) : u = SubSeq(s, 1, n) /\ Len(u) = n
  BY <1>1
<1>3. ASSUME NEW k \in 1 .. Len(u) PROVE u[k] = a[k]
  BY <1>1, <1>2
<1> QED
  BY <1>1, <1>2, <1>3, SeqEqual

\* The second.
LEMMA CatDrop ==
  ASSUME NEW a \in Seq(Byte), NEW b \in Seq(Byte), NEW n, n = Len(a)
  PROVE  Drop(a \o b, n) = b
<1>1. PICK s \in Seq(Byte) : /\ s = a \o b /\ Len(s) = n + Len(b)
                             /\ \A i \in 1 .. Len(b) : s[n + i] = b[i]
  BY CatType, ZenonT(40)
<1>2. PICK u \in Seq(Byte) : u = SubSeq(s, n + 1, Len(s)) /\ Len(u) = Len(b)
  BY <1>1
<1>3. ASSUME NEW k \in 1 .. Len(u) PROVE u[k] = b[k]
  BY <1>1, <1>2
<1> QED
  BY <1>1, <1>2, <1>3, SeqEqual DEF Drop

-----------------------------------------------------------------------------
(* IPv4 packets *)

Address == [1 .. 4 -> Byte]

\* The bytes of an address.
LEMMA AddressType ==
  ASSUME NEW s \in Address
  PROVE  s \in Seq(Byte) /\ Len(s) = 4
<1>1. s \in [1 .. 4 -> Byte] /\ 4 \in Nat
  BY DEF Address
<1>2. s \in Seq(Byte)
  BY ONLY <1>1, SeqDef, Zenon
<1> QED
  BY ONLY <1>1, <1>2, LenProperties, SMT

\* The twelve bytes before the addresses of a header that NewIPv4Packet makes.
Fixed(total, id, proto, c) ==
  <<69, 0, Hi(total), Lo(total), Hi(id), Lo(id), 0, 0, 64, proto, Hi(c), Lo(c)>>

Header(total, id, proto, c, s, d) == Fixed(total, id, proto, c) \o (s \o d)

\* What may be in its fields.
Fields(total, id, proto, s, d) ==
  total \in Word /\ id \in Word /\ proto \in Byte /\ s \in Address /\ d \in Address

\* They are twelve bytes.
LEMMA FixedType ==
  ASSUME NEW t \in Word, NEW i \in Word, NEW p \in Byte, NEW c \in Word
  PROVE  Fixed(t, i, p, c) \in Seq(Byte) /\ Len(Fixed(t, i, p, c)) = 12
<1>1. PICK a \in Byte, b \in Byte, e \in Byte, f \in Byte, g \in Byte, h \in Byte :
        a = Hi(t) /\ b = Lo(t) /\ e = Hi(i) /\ f = Lo(i) /\ g = Hi(c) /\ h = Lo(c)
  BY Halves, SMT
<1>2. 69 \in Byte /\ 0 \in Byte /\ 64 \in Byte
  BY SMT DEF Byte
<1>3. Fixed(t, i, p, c) = <<69, 0, a, b, e, f, 0, 0, 64, p, g, h>>
  BY <1>1, Zenon DEF Fixed
<1> QED
  BY <1>2, <1>3

\* A header has 20 bytes.
LEMMA HeaderType ==
  ASSUME NEW t, NEW i, NEW p, NEW s, NEW d, Fields(t, i, p, s, d), NEW c \in Word
  PROVE  /\ Header(t, i, p, c, s, d) \in Seq(Byte)
         /\ Len(Header(t, i, p, c, s, d)) = 20
         /\ \A k \in 1 .. 12 : Header(t, i, p, c, s, d)[k] = Fixed(t, i, p, c)[k]
<1>1. Fixed(t, i, p, c) \in Seq(Byte) /\ Len(Fixed(t, i, p, c)) = 12
  BY FixedType, Zenon DEF Fields
<1>2. s \in Seq(Byte) /\ d \in Seq(Byte) /\ Len(s) = 4 /\ Len(d) = 4
  BY AddressType, Zenon DEF Fields
<1>3. PICK a \in Seq(Byte) : a = s \o d /\ Len(a) = Len(s) + Len(d)
  BY <1>2, CatType, Zenon
<1>4. PICK f \in Seq(Byte) : f = Fixed(t, i, p, c) /\ Len(f) = 12
  BY <1>1, Zenon
<1>5. f \o a \in Seq(Byte) /\ Len(f \o a) = Len(f) + Len(a) /\ \A k \in 1 .. Len(f) : (f \o a)[k] = f[k]
  BY CatType, Zenon
<1>6. Len(f) + Len(a) = 20
  BY <1>2, <1>3, <1>4
<1> QED
  BY <1>3, <1>4, <1>5, <1>6, Zenon DEF Header

\* The checksum of a header is in bytes 11 and 12.
LEMMA HeaderPut ==
  ASSUME NEW t, NEW i, NEW p, NEW s, NEW d, Fields(t, i, p, s, d), NEW c \in Word, NEW v \in Word
  PROVE  /\ PutU16(Header(t, i, p, c, s, d), 4, v) = Header(t, v, p, c, s, d)
         /\ PutU16(Header(t, i, p, c, s, d), 10, v) = Header(t, i, p, v, s, d)
<1>1. PICK f \in Seq(Byte) : f = Fixed(t, i, p, c) /\ Len(f) = 12
  BY FixedType, Zenon DEF Fields
<1>2. PICK a \in Seq(Byte) : a = s \o d
  <2>1. s \in Seq(Byte) /\ d \in Seq(Byte)
    BY AddressType, Zenon DEF Fields
  <2> QED
    BY <2>1, CatType, Zenon
<1>3. 4 \in Nat /\ 10 \in Nat /\ 4 + 2 <= Len(f) /\ 10 + 2 <= Len(f)
  BY <1>1
<1>4. PutU16(f \o a, 4, v) = PutU16(f, 4, v) \o a
  BY <1>3, CatPutLeft, Zenon
<1>5. PutU16(f \o a, 10, v) = PutU16(f, 10, v) \o a
  BY <1>3, CatPutLeft, Zenon
<1>6. PutU16(f, 4, v) = Fixed(t, v, p, c) /\ PutU16(f, 10, v) = Fixed(t, i, p, v)
  BY <1>1, SMT DEF PutU16, Fixed, Hi, Lo
<1> QED
  BY <1>1, <1>2, <1>4, <1>5, <1>6, Zenon DEF Header

\* With its checksum.
IPHeader(t, i, p, s, d) ==
  Header(t, i, p, InternetChecksum(Header(t, i, p, 0, s, d)), s, d)

\* The identifier and the checksum of a new packet.
LEMMA ZeroWord == 0 \in Word
  BY SMT DEF Word

\* SetIPChecksum's checksum makes the header's 0.
LEMMA IPHeaderChecks ==
  ASSUME NEW t, NEW i, NEW p, NEW s, NEW d, Fields(t, i, p, s, d)
  PROVE  /\ InternetChecksum(Header(t, i, p, 0, s, d)) \in Word
         /\ InternetChecksum(IPHeader(t, i, p, s, d)) = 0
<1>0. PICK z \in Word : z = 0
  BY ZeroWord, Zenon
<1> DEFINE h == Header(t, i, p, z, s, d)
<1>1. h \in Seq(Byte) /\ Len(h) = 20 /\ \A k \in 1 .. 12 : h[k] = Fixed(t, i, p, z)[k]
  BY HeaderType, SMT
<1>2. Fixed(t, i, p, z)[11] = 0 /\ Fixed(t, i, p, z)[12] = 0
  BY <1>0, SMT DEF Fixed, Hi, Lo
<1>3. \A v \in Word : PutU16(h, 10, v) = Header(t, i, p, v, s, d)
  BY HeaderPut, SMT
<1> HIDE DEF h
<1>4. 10 \in Nat /\ 10 % 2 = 0 /\ 10 + 2 <= Len(h) /\ h[10 + 1] = 0 /\ h[10 + 2] = 0
  BY <1>1, <1>2
<1>5. PICK v \in Word : v = InternetChecksum(h)
  BY <1>1, ChecksumType, Zenon
<1>6. InternetChecksum(PutU16(h, 10, InternetChecksum(h))) = 0
  BY <1>1, <1>4, PutFills, SMT
<1> QED
  BY <1>0, <1>3, <1>5, <1>6, Zenon DEF IPHeader, h

\* What is read from a packet w whose header h has 20 bytes.
IsPacket(w, h, b) ==
  /\ w \in Seq(Byte)
  /\ Len(w) = 20 + Len(b)
  /\ \A k \in 1 .. 20 : w[k] = h[k]
  /\ \A k \in 1 .. Len(b) : w[20 + k] = b[k]
  /\ IPHeaderSize(w) = 20
  /\ IPPayload(w) = b
  /\ IPChecksum(w) = InternetChecksum(h)
  /\ IPSource(w) = SubSeq(h, 13, 16)
  /\ IPDest(w) = SubSeq(h, 17, 20)

\* The header and the payload of a packet.
LEMMA PacketReads ==
  ASSUME NEW h \in Seq(Byte), Len(h) = 20, h[1] = 69, NEW b \in Seq(Byte)
  PROVE  IsPacket(h \o b, h, b)
<1>1. /\ h \o b \in Seq(Byte) /\ Len(h \o b) = Len(h) + Len(b)
      /\ \A k \in 1 .. Len(h) : (h \o b)[k] = h[k]
      /\ \A k \in 1 .. Len(b) : (h \o b)[Len(h) + k] = b[k]
  BY ONLY h \in Seq(Byte), b \in Seq(Byte), CatType, Zenon
<1>2. /\ h \o b \in Seq(Byte) /\ Len(h \o b) = 20 + Len(b)
      /\ \A k \in 1 .. 20 : (h \o b)[k] = h[k]
      /\ \A k \in 1 .. Len(b) : (h \o b)[20 + k] = b[k]
  BY <1>1, Zenon
<1>3. IPHeaderSize(h \o b) = 20
  <2>1. (h \o b)[1] = 69
    BY <1>2
  <2>2. 4 * (69 % 16) = 20
    BY ONLY SMT
  <2> QED
    BY ONLY <2>1, <2>2, Zenon DEF IPHeaderSize
<1>4. Drop(h \o b, 20) = b /\ SubSeq(h \o b, 1, 20) = h
  <2>1. Drop(h \o b, Len(h)) = b /\ SubSeq(h \o b, 1, Len(h)) = h
    BY ONLY h \in Seq(Byte), b \in Seq(Byte), CatDrop, CatFirst, Zenon
  <2> QED
    BY <2>1, Zenon
<1>5. SubSeq(h \o b, 13, 16) = SubSeq(h, 13, 16) /\ SubSeq(h \o b, 17, 20) = SubSeq(h, 17, 20)
  <2>1. /\ 13 \in Nat /\ 16 \in Nat /\ 1 <= 13 /\ 13 <= 16 /\ 16 <= Len(h)
        /\ 17 \in Nat /\ 20 \in Nat /\ 1 <= 17 /\ 17 <= 20 /\ 20 <= Len(h)
    OBVIOUS
  <2> QED
    BY ONLY h \in Seq(Byte), b \in Seq(Byte), <2>1, CatSub, SMT
<1> QED
  BY <1>2, <1>3, <1>4, <1>5, Zenon DEF IsPacket, IPPayload, IPChecksum, IPSource, IPDest

\* Four bytes of a header are an address.
LEMMA SubFour ==
  ASSUME NEW a \in Seq(Byte), NEW m \in Nat, NEW n \in Nat, 1 <= m, n = m + 3, n <= Len(a),
         NEW s \in Seq(Byte), Len(s) = 4, \A k \in 1 .. 4 : a[m + k - 1] = s[k]
  PROVE  SubSeq(a, m, n) = s
<1> DEFINE u == SubSeq(a, m, n)
<1>1. m <= n /\ n - m + 1 = 4
  OBVIOUS
<1>2. u \in Seq(Byte) /\ Len(u) = n - m + 1 /\ \A k \in 1 .. n - m + 1 : u[k] = a[m + k - 1]
  BY <1>1, SubType
<1> HIDE DEF u
<1>3. Len(u) = Len(s) /\ \A k \in 1 .. Len(u) : u[k] = s[k]
  BY <1>1, <1>2
<1> QED
  BY <1>2, <1>3, SeqEqual DEF u

\* What is read from a header.
IsHeader(h, t, p, s, d) ==
  /\ h \in Seq(Byte) /\ Len(h) = 20
  /\ h[1] = 69 /\ h[7] = 0 /\ h[8] = 0 /\ h[10] = p
  /\ U16(h, 2) = t
  /\ SubSeq(h, 13, 16) = s
  /\ SubSeq(h, 17, 20) = d

\* The fields of a header are read from where they were put.
LEMMA HeaderReads ==
  ASSUME NEW t, NEW i, NEW p, NEW s, NEW d, Fields(t, i, p, s, d), NEW c \in Word
  PROVE  IsHeader(Header(t, i, p, c, s, d), t, p, s, d)
<1> DEFINE h == Header(t, i, p, c, s, d)
<1>1. h \in Seq(Byte) /\ Len(h) = 20 /\ \A k \in 1 .. 12 : h[k] = Fixed(t, i, p, c)[k]
  BY HeaderType, SMT
<1>2. PICK f \in Seq(Byte) : f = Fixed(t, i, p, c) /\ Len(f) = 12
  BY FixedType, Zenon DEF Fields
<1>3. f[1] = 69 /\ f[3] = Hi(t) /\ f[4] = Lo(t) /\ f[7] = 0 /\ f[8] = 0 /\ f[10] = p
  BY <1>2, SMT DEF Fixed
<1>4. h[1] = 69 /\ h[3] = Hi(t) /\ h[4] = Lo(t) /\ h[7] = 0 /\ h[8] = 0 /\ h[10] = p
  BY <1>1, <1>2, <1>3
<1>5. U16(h, 2) = t
  <2>1. 256 * Hi(t) + Lo(t) = t
    BY Halves, SMT DEF Fields
  <2>2. U16(h, 2) = 256 * h[3] + h[4]
    BY SMT DEF U16
  <2> QED
    BY <1>4, <2>1, <2>2, Zenon
<1>6. s \in Seq(Byte) /\ d \in Seq(Byte) /\ Len(s) = 4 /\ Len(d) = 4
  BY AddressType, Zenon DEF Fields
<1>7. s \o d \in Seq(Byte) /\ Len(s \o d) = 8
      /\ (\A k \in 1 .. 4 : (s \o d)[k] = s[k])
      /\ (\A k \in 1 .. 4 : (s \o d)[4 + k] = d[k])
  <2>1. /\ s \o d \in Seq(Byte) /\ Len(s \o d) = Len(s) + Len(d)
        /\ \A k \in 1 .. Len(s) : (s \o d)[k] = s[k]
        /\ \A k \in 1 .. Len(d) : (s \o d)[Len(s) + k] = d[k]
    <3>1. s \in Seq(Byte) /\ d \in Seq(Byte)
      BY <1>6
    <3> QED
      BY ONLY <3>1, CatType, Zenon
  <2>2. 4 + 4 = 8
    BY ONLY SMT
  <2> QED
    BY <1>6, <2>1, <2>2, Zenon
<1>8. PICK a \in Seq(Byte) : /\ a = s \o d /\ Len(a) = 8
                             /\ \A k \in 1 .. 4 : a[k] = s[k]
                             /\ \A k \in 1 .. 4 : a[4 + k] = d[k]
  BY <1>7, Zenon
<1>9. h = f \o a
  BY <1>2, <1>8, Zenon DEF Header
<1>10. \A k \in 1 .. 8 : h[12 + k] = a[k]
  <2>1. \A k \in 1 .. Len(a) : (f \o a)[Len(f) + k] = a[k]
    BY ONLY f \in Seq(Byte), a \in Seq(Byte), CatType, Zenon
  <2> QED
    BY <1>2, <1>8, <1>9, <2>1, Zenon
<1>11. \A k \in 1 .. 4 : h[13 + k - 1] = s[k] /\ h[17 + k - 1] = d[k]
  <2>1. ASSUME NEW k \in 1 .. 4 PROVE h[13 + k - 1] = s[k] /\ h[17 + k - 1] = d[k]
    <3>1. k \in 1 .. 8 /\ 4 + k \in 1 .. 8 /\ 12 + k = 13 + k - 1 /\ 12 + (4 + k) = 17 + k - 1
      OBVIOUS
    <3> QED
      BY <1>8, <1>10, <3>1, ZenonT(40)
  <2> QED
    BY <2>1
<1>12. SubSeq(h, 13, 16) = s /\ SubSeq(h, 17, 20) = d
  BY <1>1, <1>6, <1>11, SubFour, SMTT(30)
<1> QED
  BY <1>1, <1>4, <1>5, <1>12, Zenon DEF IsHeader

\* SetIPChecksum puts the checksum into a header, whatever was in its place.
LEMMA SetIPChecksumIs ==
  ASSUME NEW t, NEW i, NEW p, NEW s, NEW d, Fields(t, i, p, s, d), NEW c \in Word,
         NEW b \in Seq(Byte)
  PROVE  SetIPChecksum(Header(t, i, p, c, s, d) \o b) = IPHeader(t, i, p, s, d) \o b
<1>0. PICK z \in Word : z = 0
  BY ZeroWord, Zenon
<1> DEFINE h == Header(t, i, p, c, s, d)
           g == Header(t, i, p, z, s, d)
<1>1. IsHeader(h, t, p, s, d) /\ IsHeader(g, t, p, s, d)
  BY HeaderReads, Zenon
<1>2. PutU16(h, 10, z) = g /\ \A v \in Word : PutU16(g, 10, v) = Header(t, i, p, v, s, d)
  BY HeaderPut, SMT
<1> HIDE DEF h, g
<1>3. h \in Seq(Byte) /\ Len(h) = 20 /\ g \in Seq(Byte) /\ Len(g) = 20 /\ g[1] = 69
  BY <1>1, Zenon DEF IsHeader
<1>4. PICK v \in Word : v = InternetChecksum(g)
  BY <1>3, ChecksumType, Zenon
<1>5. IPChecksum(g \o b) = v
  BY <1>3, <1>4, PacketReads, Zenon DEF IsPacket
<1>6. 10 \in Nat /\ 10 + 2 <= Len(h) /\ 10 + 2 <= Len(g)
  BY <1>3
<1>7. /\ PutU16(h \o b, 10, z) = PutU16(h, 10, z) \o b
      /\ PutU16(g \o b, 10, v) = PutU16(g, 10, v) \o b
  <2>1. h \in Seq(Byte) /\ g \in Seq(Byte)
    BY <1>3
  <2> QED
    BY ONLY <2>1, <1>6, b \in Seq(Byte), z \in Word, v \in Word, CatPutLeft, ZenonT(40)
<1>8. SetIPChecksum(h \o b) = PutU16(g \o b, 10, v)
  BY <1>0, <1>2, <1>5, <1>7, Zenon DEF SetIPChecksum
<1>9. PutU16(g, 10, v) = IPHeader(t, i, p, s, d)
  BY <1>0, <1>2, <1>4, Zenon DEF IPHeader, g
<1> QED
  BY <1>7, <1>8, <1>9, Zenon DEF h

\* So they are when the header has its checksum.
LEMMA IPHeaderReads ==
  ASSUME NEW t, NEW i, NEW p, NEW s, NEW d, Fields(t, i, p, s, d)
  PROVE  IsHeader(IPHeader(t, i, p, s, d), t, p, s, d)
  BY IPHeaderChecks, HeaderReads, Zenon DEF IPHeader

\* Such a packet passes the filters.
IsInOrder(w, p, s, d, b) ==
  /\ w \in Seq(Byte)
  /\ IPFilters(w, p, d)
  /\ IPValid(w)
  /\ IPHeaderSize(w) = 20
  /\ IPPayload(w) = b
  /\ IPSource(w) = s
  /\ IPDest(w) = d

\* With its total length, a packet passes.
LEMMA PacketPasses ==
  ASSUME NEW t, NEW i, NEW p, NEW s, NEW d, Fields(t, i, p, s, d),
         NEW b \in Seq(Byte), t = 20 + Len(b)
  PROVE  IsInOrder(IPHeader(t, i, p, s, d) \o b, p, s, d, b)
<1> DEFINE h == IPHeader(t, i, p, s, d)
           w == h \o b
<1>1. IsHeader(h, t, p, s, d) /\ InternetChecksum(h) = 0
  BY IPHeaderReads, IPHeaderChecks, Zenon
<1> HIDE DEF h
<1>2. IsPacket(w, h, b)
  BY <1>1, PacketReads, Zenon DEF IsHeader
<1> HIDE DEF w
<1>3. U16(w, 2) = U16(h, 2) /\ w[1] = 69 /\ w[10] = p
  <2>1. 1 \in 1 .. 20 /\ 3 \in 1 .. 20 /\ 4 \in 1 .. 20 /\ 10 \in 1 .. 20
    BY ONLY SMT
  <2>2. w[1] = h[1] /\ w[3] = h[3] /\ w[4] = h[4] /\ w[10] = h[10]
    BY <1>2, <2>1, Zenon DEF IsPacket
  <2>3. U16(w, 2) = 256 * w[3] + w[4] /\ U16(h, 2) = 256 * h[3] + h[4]
    BY ONLY SMT DEF U16
  <2> QED
    BY <1>1, <2>2, <2>3, SMT DEF IsHeader
<1>4. IPValid(w)
  <2>1. w \in Seq(Byte) /\ IPHeaderSize(w) = 20 /\ U16(w, 2) = Len(w) /\ Len(w) = 20 + Len(b)
    BY <1>1, <1>2, <1>3, Zenon DEF IsPacket, IsHeader
  <2>2. Len(w) >= 20 /\ 69 \div 16 = 4 /\ 20 \in 20 .. Len(w)
    BY <2>1
  <2> QED
    BY <1>3, <2>1, <2>2, Zenon DEF IPValid
<1> QED
  BY <1>1, <1>2, <1>3, <1>4, Zenon DEF IsInOrder, IPFilters, Proto, IsPacket, IsHeader, w, h

\* One whose header was changed does not.
LEMMA ChangedHeaderFails ==
  ASSUME NEW t, NEW i, NEW p, NEW s, NEW d, Fields(t, i, p, s, d),
         NEW b \in Seq(Byte), NEW k \in 2 .. 20, NEW x \in Byte,
         x # (IPHeader(t, i, p, s, d) \o b)[k], NEW q, NEW a
  PROVE  ~IPFilters(With(IPHeader(t, i, p, s, d) \o b, k, x), q, a)
<1> DEFINE h == IPHeader(t, i, p, s, d)
           g == With(h, k, x)
<1>1. IsHeader(h, t, p, s, d) /\ InternetChecksum(h) = 0
  BY IPHeaderReads, IPHeaderChecks, Zenon
<1>2. x # (h \o b)[k]
  OBVIOUS
<1> HIDE DEF h
<1>3. h \in Seq(Byte) /\ Len(h) = 20 /\ h[1] = 69
  BY <1>1, Zenon DEF IsHeader
<1>4. k \in 1 .. 20 /\ k # 1 /\ 1 \in 1 .. Len(h)
  BY <1>3
<1>5. h \in Seq(Byte)
  BY <1>3
<1>6. k \in 1 .. Len(h)
  BY <1>3
<1>7. x # h[k]
  BY <1>2, <1>3, <1>4, PacketReads, Zenon DEF IsPacket
<1>8. With(h \o b, k, x) = g \o b
  BY ONLY <1>5, <1>6, b \in Seq(Byte), x \in Byte, CatSetLeft, Zenon
<1>9. g \in Seq(Byte) /\ Len(g) = Len(h) /\ \A j \in 1 .. Len(h) : g[j] = IF j = k THEN x ELSE h[j]
  <2>1. IsWith(g, h, k, x)
    BY ONLY <1>5, <1>6, x \in Byte, WithIs, Zenon
  <2> QED
    BY <2>1, Zenon DEF IsWith
<1>10. InternetChecksum(g) # 0
  BY ONLY <1>1, <1>5, <1>6, x \in Byte, <1>7, ChangeIsFound, Zenon
<1> HIDE DEF g
<1>11. Len(g) = 20 /\ g[1] = 69
  BY <1>3, <1>4, <1>9, Zenon
<1>12. IPChecksum(g \o b) = InternetChecksum(g)
  BY <1>9, <1>11, PacketReads, Zenon DEF IsPacket
<1> QED
  BY <1>8, <1>10, <1>12, Zenon DEF IPFilters, h

\* New bytes are 0.
LEMMA ZerosType ==
  ASSUME NEW n \in Nat
  PROVE  Zeros(n) \in Seq(Byte) /\ Len(Zeros(n)) = n /\ \A i \in 1 .. n : Zeros(n)[i] = 0
<1> DEFINE f == [i \in 1 .. n |-> 0]
<1>1. f \in [1 .. n -> Byte]
  <2>1. 0 \in Byte
    BY DEF Byte
  <2> QED
    BY <2>1
<1>2. f \in Seq(Byte)
  BY <1>1, SeqDef, Zenon
<1>3. Len(f) = n
  OBVIOUS
<1>4. \A i \in 1 .. n : f[i] = 0
  OBVIOUS
<1> HIDE DEF f
<1>5. f \o << >> = f
  BY <1>2
<1>6. Zeros(n) = f
  BY <1>5, Zenon DEF Zeros, f
<1> QED
  BY <1>2, <1>3, <1>4, <1>6, Zenon

\* Concatenation is associative.
LEMMA CatAssociates ==
  ASSUME NEW a \in Seq(Byte), NEW b \in Seq(Byte), NEW c \in Seq(Byte), NEW e \in Seq(Byte)
  PROVE  ((a \o b) \o c) \o e = (a \o (b \o c)) \o e
  BY SMTT(30)

\* What is left of a sequence, of which nothing may be.
LEMMA DropType ==
  ASSUME NEW a \in Seq(Byte), NEW n \in Nat, n <= Len(a)
  PROVE  Drop(a, n) \in Seq(Byte) /\ Len(Drop(a, n)) = Len(a) - n
<1>1. n + 1 \in Int /\ Len(a) \in Int /\ \A i \in n + 1 .. Len(a) : a[i] \in Byte
  OBVIOUS
<1>2. SubSeq(a, n + 1, Len(a)) \in Seq(Byte)
  BY ONLY <1>1, SubSeqProperties, SMT
<1> QED
  BY <1>2, SMT DEF Drop

\* The packet of NewIPv4Packet, without addresses and a payload of n bytes.
Blank(n, p) == [SetTotalLength(<<69>> \o Zeros(19 + n)) EXCEPT ![9] = 64 % 256, ![10] = p % 256]

\* Its length, and the bytes that its header begins with.
LEMMA BlankIs ==
  ASSUME NEW n \in Nat, 20 + n \in Word, NEW p \in Byte
  PROVE  /\ Blank(n, p) \in Seq(Byte)
         /\ Len(Blank(n, p)) = 20 + n
         /\ SubSeq(Blank(n, p), 1, 12) = Fixed(20 + n, 0, p, 0)
<1> DEFINE q == Blank(n, p)
<1>1. PICK m \in Nat : m = 19 + n
  OBVIOUS
<1>2. PICK zs \in Seq(Byte) : zs = Zeros(m) /\ Len(zs) = m /\ \A i \in 1 .. m : zs[i] = 0
  BY ZerosType, Zenon
<1>3. PICK r \in Seq(Byte) : /\ r = <<69>> \o zs /\ Len(r) = 20 + n /\ r[1] = 69
                             /\ \A i \in 2 .. 12 : r[i] = 0
  <2>1. 69 \in Byte
    BY DEF Byte
  <2>2. <<69>> \in Seq(Byte) /\ Len(<<69>>) = 1 /\ <<69>>[1] = 69
    BY <2>1
  <2>3. PICK h \in Seq(Byte) : h = <<69>> /\ Len(h) = 1 /\ h[1] = 69
    BY <2>2, Zenon
  <2>4. /\ h \o zs \in Seq(Byte) /\ Len(h \o zs) = Len(h) + Len(zs)
        /\ \A i \in 1 .. Len(h) : (h \o zs)[i] = h[i]
        /\ \A i \in 1 .. Len(zs) : (h \o zs)[Len(h) + i] = zs[i]
    BY ONLY h \in Seq(Byte), zs \in Seq(Byte), CatType, Zenon
  <2>5. PICK r : r = h \o zs
    OBVIOUS
  <2>6. r \in Seq(Byte) /\ Len(r) = 20 + n /\ r[1] = 69
    BY <1>1, <1>2, <2>3, <2>4, <2>5
  <2>7. ASSUME NEW i \in 2 .. 12 PROVE r[i] = 0
    <3>1. PICK j \in 1 .. Len(zs) : i = Len(h) + j
      <4>1. i - 1 \in 1 .. Len(zs) /\ i = Len(h) + (i - 1)
        BY <1>1, <1>2, <2>3
      <4> QED
        BY <4>1, Zenon
    <3>2. zs[j] = 0
      BY <1>2
    <3> QED
      BY <2>4, <2>5, <3>1, <3>2, Zenon
  <2> QED
    BY <2>3, <2>5, <2>6, <2>7, Zenon
<1> DEFINE e == PutU16(r, 2, 20 + n)
<1>4. /\ e \in Seq(Byte) /\ Len(e) = 20 + n
      /\ \A i \in 1 .. Len(r) : e[i] = IF i = 3 THEN Hi(20 + n) ELSE IF i = 4 THEN Lo(20 + n) ELSE r[i]
  <2>1. 2 \in Nat /\ 2 + 2 <= Len(r) /\ 2 + 1 = 3 /\ 2 + 2 = 4
    BY <1>3
  <2>2. /\ e \in Seq(Byte) /\ Len(e) = Len(r)
        /\ \A i \in 1 .. Len(r) :
             e[i] = IF i = 2 + 1 THEN Hi(20 + n) ELSE IF i = 2 + 2 THEN Lo(20 + n) ELSE r[i]
    BY <2>1, PutType, SMT
  <2> QED
    BY <1>3, <2>1, <2>2, SMTT(30)
<1>5. SetTotalLength(<<69>> \o Zeros(19 + n)) = e
  BY <1>1, <1>2, <1>3, Zenon DEF SetTotalLength
<1> HIDE DEF e
<1>6. 64 % 256 = 64 /\ p % 256 = p /\ 64 \in Byte
  <2>1. 64 % 256 = 64
    BY ONLY SMT
  <2>2. p % 256 = p
    <3>1. p \in Nat /\ p < 256
      BY DEF Byte
    <3> QED
      BY ONLY <3>1, SMT
  <2>3. 64 \in Byte
    BY ONLY SMT DEF Byte
  <2> QED
    BY <2>1, <2>2, <2>3
<1>7. q = With(With(e, 9, 64), 10, p)
  BY <1>5, <1>6, Zenon DEF With, Blank
<1> HIDE DEF q
<1>8. /\ q \in Seq(Byte) /\ Len(q) = 20 + n
      /\ \A i \in 1 .. 20 + n : q[i] = IF i = 10 THEN p ELSE IF i = 9 THEN 64 ELSE e[i]
  <2>1. 9 \in 1 .. Len(e) /\ 10 \in 1 .. Len(e)
    BY <1>4
  <2> DEFINE g == With(e, 9, 64)
  <2>2. g \in Seq(Byte) /\ Len(g) = Len(e) /\ \A i \in 1 .. Len(e) : g[i] = IF i = 9 THEN 64 ELSE e[i]
    <3>1. e \in Seq(Byte) /\ 9 \in 1 .. Len(e) /\ 64 \in Byte
      BY <1>4, <1>6, <2>1, Zenon
    <3> QED
      BY ONLY <3>1, WithType
  <2> HIDE DEF g
  <2>3. 10 \in 1 .. Len(g)
    BY <2>1, <2>2
  <2>4. /\ With(g, 10, p) \in Seq(Byte) /\ Len(With(g, 10, p)) = Len(g)
        /\ \A i \in 1 .. Len(g) : With(g, 10, p)[i] = IF i = 10 THEN p ELSE g[i]
    <3>1. IsWith(With(g, 10, p), g, 10, p)
      BY <2>2, <2>3, WithIs, Zenon
    <3> QED
      BY <3>1, Zenon DEF IsWith
  <2> QED
    BY <1>4, <1>7, <2>2, <2>4, SMT DEF g
<1>9. PICK u \in Seq(Byte) : u = SubSeq(q, 1, 12) /\ Len(u) = 12 /\ \A i \in 1 .. 12 : u[i] = q[i]
  <2>1. 1 \in Nat /\ 12 \in Nat /\ 1 <= 1 /\ 1 <= 12 /\ 12 <= Len(q) /\ 12 - 1 + 1 = 12
    BY <1>8
  <2>2. /\ SubSeq(q, 1, 12) \in Seq(Byte) /\ Len(SubSeq(q, 1, 12)) = 12 - 1 + 1
        /\ \A i \in 1 .. 12 - 1 + 1 : SubSeq(q, 1, 12)[i] = q[1 + i - 1]
    <3>1. q \in Seq(Byte)
      BY <1>8, Zenon
    <3> QED
      BY ONLY <3>1, <2>1, SubType, Zenon
  <2>3. ASSUME NEW i \in 1 .. 12 PROVE SubSeq(q, 1, 12)[i] = q[i]
    <3>1. 1 + i - 1 = i
      OBVIOUS
    <3> QED
      BY <2>1, <2>2, <3>1, Zenon
  <2> QED
    BY <2>1, <2>2, <2>3, Zenon
<1>10. PICK f \in Seq(Byte) : f = Fixed(20 + n, 0, p, 0) /\ Len(f) = 12
  BY ZeroWord, FixedType, SMT
<1>11. /\ f[1] = 69 /\ f[2] = 0 /\ f[3] = Hi(20 + n) /\ f[4] = Lo(20 + n) /\ f[5] = 0 /\ f[6] = 0
       /\ f[7] = 0 /\ f[8] = 0 /\ f[9] = 64 /\ f[10] = p /\ f[11] = 0 /\ f[12] = 0
  <2>1. Hi(0) = 0 /\ Lo(0) = 0
    BY SMT DEF Hi, Lo
  <2> QED
    BY <1>10, <2>1, SMT DEF Fixed
<1>12. ASSUME NEW i \in 1 .. 12 PROVE u[i] = f[i]
  <2>1. i \in 1 .. 20 + n /\ i \in 1 .. Len(r)
    BY <1>3, SMTT(30)
  <2>2. u[i] = IF i = 10 THEN p ELSE IF i = 9 THEN 64 ELSE e[i]
    BY <1>8, <1>9, <2>1, Zenon
  <2>3. e[i] = IF i = 3 THEN Hi(20 + n) ELSE IF i = 4 THEN Lo(20 + n) ELSE r[i]
    BY <1>4, <2>1, Zenon
  <2>4. r[i] = IF i = 1 THEN 69 ELSE 0
    BY <1>3, SMTT(30)
  <2>5. PICK x, y : x = Hi(20 + n) /\ y = Lo(20 + n)
    OBVIOUS
  <2>6. u[i] = IF i = 1 THEN 69 ELSE IF i = 3 THEN x ELSE IF i = 4 THEN y
               ELSE IF i = 9 THEN 64 ELSE IF i = 10 THEN p ELSE 0
    BY <2>2, <2>3, <2>4, <2>5, SMT
  <2>7. f[i] = IF i = 1 THEN 69 ELSE IF i = 3 THEN x ELSE IF i = 4 THEN y
               ELSE IF i = 9 THEN 64 ELSE IF i = 10 THEN p ELSE 0
    <3>1. /\ f[1] = 69 /\ f[2] = 0 /\ f[3] = x /\ f[4] = y /\ f[5] = 0 /\ f[6] = 0
          /\ f[7] = 0 /\ f[8] = 0 /\ f[9] = 64 /\ f[10] = p /\ f[11] = 0 /\ f[12] = 0
      BY <1>11, <2>5, Zenon
    <3>2. i = 1 \/ i = 2 \/ i = 3 \/ i = 4 \/ i = 5 \/ i = 6
          \/ i = 7 \/ i = 8 \/ i = 9 \/ i = 10 \/ i = 11 \/ i = 12
      BY ONLY i \in 1 .. 12, SMT
    <3> QED
      BY ONLY <3>1, <3>2, SMTT(30)
  <2> QED
    BY <2>6, <2>7, Zenon
<1>13. u = f
  BY <1>9, <1>10, <1>12, SeqEqual
<1> QED
  BY <1>8, <1>9, <1>10, <1>13, Zenon DEF q

\* NewIPv4Packet makes a header with its checksum, and the payload behind it.
LEMMA NewIPv4PacketIs ==
  ASSUME NEW p \in Byte, NEW s \in Address, NEW d \in Address,
         NEW b \in Seq(Byte), 20 + Len(b) \in Word
  PROVE  NewIPv4Packet(64, p, s, d, b) = IPHeader(20 + Len(b), 0, p, s, d) \o b
<1>0. PICK n \in Nat, t \in Word, z \in Word : n = Len(b) /\ t = 20 + n /\ z = 0
  BY ZeroWord, SMT
<1> DEFINE q == Blank(n, p)
<1>1. q \in Seq(Byte) /\ Len(q) = 20 + n /\ SubSeq(q, 1, 12) = Fixed(t, z, p, z)
  <2>1. q \in Seq(Byte) /\ Len(q) = 20 + n /\ SubSeq(q, 1, 12) = Fixed(20 + n, 0, p, 0)
    BY <1>0, BlankIs
  <2> QED
    BY <1>0, <2>1, Zenon
<1>2. NewIPv4Packet(64, p, s, d, b) = SubSeq(SetIPChecksum(SetIPAddrs(q, s, d)), 1, 20) \o b
  BY <1>0, Zenon DEF NewIPv4Packet, Blank
<1> HIDE DEF q
<1>3. PICK r \in Seq(Byte) : r = Drop(q, 20)
  <2>1. 20 \in Nat /\ 20 <= Len(q)
    BY <1>1
  <2> QED
    BY <1>1, <2>1, DropType, Zenon
<1>4. Fields(t, z, p, s, d)
  BY Zenon DEF Fields
<1>5. s \in Seq(Byte) /\ d \in Seq(Byte) /\ Fixed(t, z, p, z) \in Seq(Byte)
  BY AddressType, FixedType, Zenon
<1>6. SetIPAddrs(q, s, d) = Header(t, z, p, z, s, d) \o r
  <2>1. ((Fixed(t, z, p, z) \o s) \o d) \o r = (Fixed(t, z, p, z) \o (s \o d)) \o r
    BY ONLY <1>5, r \in Seq(Byte), CatAssociates, SMTT(30)
  <2> QED
    BY <1>1, <1>3, <2>1, Zenon DEF SetIPAddrs, Header
<1>7. SetIPChecksum(SetIPAddrs(q, s, d)) = IPHeader(t, z, p, s, d) \o r
  <2>1. SetIPChecksum(Header(t, z, p, z, s, d) \o r) = IPHeader(t, z, p, s, d) \o r
    BY ONLY <1>4, z \in Word, r \in Seq(Byte), SetIPChecksumIs, SMTT(20)
  <2> QED
    BY <1>6, <2>1, Zenon
<1>8. IPHeader(t, z, p, s, d) \in Seq(Byte) /\ 20 = Len(IPHeader(t, z, p, s, d))
  BY ONLY <1>4, IPHeaderReads, SMTT(20) DEF IsHeader
<1>9. SubSeq(IPHeader(t, z, p, s, d) \o r, 1, 20) = IPHeader(t, z, p, s, d)
  BY <1>8, CatFirst, Zenon
<1> QED
  BY <1>0, <1>2, <1>7, <1>9, Zenon

\* An identifier is put into the header, and the checksum is set again.
LEMMA AddIdentifierIs ==
  ASSUME NEW t, NEW x, NEW i \in Word, NEW p, NEW s, NEW d, Fields(t, x, p, s, d), NEW b \in Seq(Byte)
  PROVE  AddIdentifier(IPHeader(t, x, p, s, d) \o b, i) = IPHeader(t, i, p, s, d) \o b
<1> DEFINE h == IPHeader(t, x, p, s, d)
           w == h \o b
<1>1. IsHeader(h, t, p, s, d)
  BY IPHeaderReads, Zenon
<1>2. PICK c \in Word : h = Header(t, x, p, c, s, d)
  BY IPHeaderChecks, Zenon DEF IPHeader
<1>3. IsPacket(w, h, b)
  BY <1>1, PacketReads, Zenon DEF IsHeader
<1>4. ~MoreFrags(w) /\ FragOffset(w) = 0
  <2>1. w[7] = 0 /\ w[8] = 0
    <3>1. 7 \in 1 .. 20 /\ 8 \in 1 .. 20
      BY ONLY SMT
    <3> QED
      BY <1>1, <1>3, <3>1, Zenon DEF IsPacket, IsHeader
  <2>2. ~((0 \div 2 ^ 5) % 2 = 1)
    BY ONLY SMT
  <2>3. (256 * 0 + 0) % 8192 = 0
    BY ONLY SMT
  <2> HIDE DEF w
  <2>4. U16(w, 6) = 256 * w[7] + w[8]
    BY ONLY SMT DEF U16
  <2> QED
    BY <2>1, <2>2, <2>3, <2>4, SMT DEF MoreFrags, HasBit, FragOffset
<1>5. PutU16(h, 4, i) = Header(t, i, p, c, s, d)
  BY <1>2, HeaderPut
<1>6. PutU16(h \o b, 4, i) = PutU16(h, 4, i) \o b
  <2>1. h \in Seq(Byte) /\ 4 \in Nat /\ 4 + 2 <= Len(h)
    BY <1>1 DEF IsHeader
  <2> QED
    BY ONLY <2>1, b \in Seq(Byte), i \in Word, CatPutLeft, Zenon
<1>7. SetIPChecksum(Header(t, i, p, c, s, d) \o b) = IPHeader(t, i, p, s, d) \o b
  <2>1. Fields(t, i, p, s, d)
    BY Zenon DEF Fields
  <2> QED
    BY ONLY <2>1, c \in Word, b \in Seq(Byte), SetIPChecksumIs, SMTT(20)
<1> QED
  BY <1>4, <1>5, <1>6, <1>7, Zenon DEF AddIdentifier, SetIdentification

-----------------------------------------------------------------------------
(* Pseudo headers *)

Pseudo(s, d, proto, n) == s \o d \o <<0, proto>> \o PutU16(Zeros(2), 0, n)

\* The parts of a sequence that begins with n bytes.
LEMMA CatParts ==
  ASSUME NEW a \in Seq(Byte), NEW b \in Seq(Byte), NEW n, Len(a) = n
  PROVE  /\ a \o b \in Seq(Byte)
         /\ Len(a \o b) = n + Len(b)
         /\ \A i \in 1 .. n : (a \o b)[i] = a[i]
         /\ \A i \in 1 .. Len(b) : (a \o b)[n + i] = b[i]
<1>1. /\ a \o b \in Seq(Byte) /\ Len(a \o b) = Len(a) + Len(b)
      /\ \A i \in 1 .. Len(a) : (a \o b)[i] = a[i]
      /\ \A i \in 1 .. Len(b) : (a \o b)[Len(a) + i] = b[i]
  BY ONLY a \in Seq(Byte), b \in Seq(Byte), CatType, Zenon
<1> QED
  BY <1>1, Zenon

\* The pseudo-header has twelve bytes.
LEMMA PseudoType ==
  ASSUME NEW s \in Address, NEW d \in Address, NEW proto \in Byte, NEW n \in Word
  PROVE  Pseudo(s, d, proto, n) \in Seq(Byte) /\ Len(Pseudo(s, d, proto, n)) = 12
<1>1. s \in Seq(Byte) /\ d \in Seq(Byte) /\ Len(s) = 4 /\ Len(d) = 4
  BY AddressType, Zenon
<1>2. <<0, proto>> \in Seq(Byte) /\ Len(<<0, proto>>) = 2
  <2>1. 0 \in Byte
    BY SMT DEF Byte
  <2> QED
    BY <2>1, SMT
<1>3. PutU16(Zeros(2), 0, n) \in Seq(Byte) /\ Len(PutU16(Zeros(2), 0, n)) = 2
  <2>0. 2 \in Nat
    BY ONLY SMT
  <2>1. Zeros(2) \in Seq(Byte) /\ Len(Zeros(2)) = 2
    BY ONLY <2>0, ZerosType, Zenon
  <2>2. 0 \in Nat /\ 0 + 2 <= 2
    BY ONLY SMT
  <2> QED
    BY ONLY <2>1, <2>2, n \in Word, PutType, Zenon
<1>4. s \o d \in Seq(Byte) /\ Len(s \o d) = 4 + Len(d)
  <2>1. s \in Seq(Byte) /\ d \in Seq(Byte)
    BY <1>1, Zenon
  <2>2. s \o d \in Seq(Byte) /\ Len(s \o d) = Len(s) + Len(d)
    BY ONLY <2>1, CatType, Zenon
  <2> QED
    BY <1>1, <2>2, Zenon
<1>5. Len(s \o d) = 8
  BY ONLY <1>1, <1>4, SMT
<1>6. (s \o d) \o <<0, proto>> \in Seq(Byte) /\ Len((s \o d) \o <<0, proto>>) = 8 + Len(<<0, proto>>)
  BY ONLY <1>2, <1>4, <1>5, CatParts, SMTT(20)
<1>7. Len((s \o d) \o <<0, proto>>) = 10
  BY ONLY <1>2, <1>6, SMT
<1>8. /\ ((s \o d) \o <<0, proto>>) \o PutU16(Zeros(2), 0, n) \in Seq(Byte)
      /\ Len(((s \o d) \o <<0, proto>>) \o PutU16(Zeros(2), 0, n)) = 10 + Len(PutU16(Zeros(2), 0, n))
  BY ONLY <1>3, <1>6, <1>7, CatParts, SMTT(20)
<1>9. 10 + Len(PutU16(Zeros(2), 0, n)) = 12
  <2>1. 10 + 2 = 12
    BY ONLY SMT
  <2> QED
    BY ONLY <1>3, <2>1, Zenon
<1> QED
  BY <1>8, <1>9, Zenon DEF Pseudo

\* The checksum of TCP or UDP, when its place in the body b holds 0, makes the
\* checksum 0, and so does 65535 where it is 0.
LEMMA PseudoFills ==
  ASSUME NEW s \in Address, NEW d \in Address, NEW proto \in Byte, NEW n \in Word,
         NEW b \in Seq(Byte), NEW off \in Nat, off % 2 = 0, off + 2 <= Len(b),
         b[off + 1] = 0, b[off + 2] = 0, NEW v \in Word,
         \/ v = InternetChecksum(Pseudo(s, d, proto, n) \o b)
         \/ InternetChecksum(Pseudo(s, d, proto, n) \o b) = 0 /\ v = Ones
  PROVE  InternetChecksum(Pseudo(s, d, proto, n) \o PutU16(b, off, v)) = 0
<1> DEFINE h == Pseudo(s, d, proto, n)
           q == h \o b
<1>1. h \in Seq(Byte) /\ Len(h) = 12
  BY PseudoType, Zenon
<1>2. v = InternetChecksum(q) \/ (InternetChecksum(q) = 0 /\ v = Ones)
  BY Zenon
<1> HIDE DEF h
<1>3. /\ q \in Seq(Byte) /\ Len(q) = 12 + Len(b)
      /\ \A k \in 1 .. Len(b) : q[12 + k] = b[k]
  <2>1. h \in Seq(Byte)
    BY <1>1, Zenon
  <2>2. /\ q \in Seq(Byte) /\ Len(q) = Len(h) + Len(b)
        /\ \A j \in 1 .. Len(b) : q[Len(h) + j] = b[j]
    BY ONLY <2>1, b \in Seq(Byte), CatType, Zenon DEF q
  <2> QED
    BY <1>1, <2>2, Zenon
<1> HIDE DEF q
<1>4. PICK pos \in Nat : pos = Len(h) + off /\ pos % 2 = 0 /\ pos + 2 <= Len(q)
  BY <1>1, <1>3, SMT
<1>5. q[pos + 1] = 0 /\ q[pos + 2] = 0
  <2>1. /\ off + 1 \in 1 .. Len(b) /\ off + 2 \in 1 .. Len(b)
        /\ 12 + (off + 1) = pos + 1 /\ 12 + (off + 2) = pos + 2
    BY <1>1, <1>4, SMT
  <2> QED
    BY <1>3, <2>1, Zenon
<1>6. PutU16(q, pos, v) = h \o PutU16(b, off, v)
  <2>1. h \in Seq(Byte) /\ off + 2 <= Len(b) /\ pos = Len(h) + off
    BY <1>1, <1>4, Zenon
  <2> QED
    BY ONLY <2>1, b \in Seq(Byte), off \in Nat, v \in Word, pos \in Nat, CatPutRight, SMTT(30) DEF q
<1>7. /\ InternetChecksum(PutU16(q, pos, InternetChecksum(q))) = 0
      /\ InternetChecksum(q) = 0 => InternetChecksum(PutU16(q, pos, Ones)) = 0
  BY ONLY <1>3, <1>4, <1>5, pos \in Nat, PutFills, Zenon
<1> QED
  BY <1>2, <1>6, <1>7, Zenon DEF h

\* A byte that changes in the body changes the checksum from 0.
LEMMA PseudoChange ==
  ASSUME NEW s \in Address, NEW d \in Address, NEW proto \in Byte, NEW n \in Word,
         NEW b \in Seq(Byte), NEW k \in 1 .. Len(b), NEW x \in Byte, x # b[k],
         InternetChecksum(Pseudo(s, d, proto, n) \o b) = 0
  PROVE  InternetChecksum(Pseudo(s, d, proto, n) \o With(b, k, x)) # 0
<1> DEFINE h == Pseudo(s, d, proto, n)
           q == h \o b
<1>1. h \in Seq(Byte) /\ Len(h) = 12
  BY PseudoType, Zenon
<1>2. InternetChecksum(q) = 0
  BY Zenon
<1> HIDE DEF h
<1>3. /\ q \in Seq(Byte) /\ Len(q) = 12 + Len(b)
      /\ \A j \in 1 .. Len(b) : q[12 + j] = b[j]
  <2>1. h \in Seq(Byte)
    BY <1>1, Zenon
  <2>2. /\ q \in Seq(Byte) /\ Len(q) = Len(h) + Len(b)
        /\ \A j \in 1 .. Len(b) : q[Len(h) + j] = b[j]
    BY ONLY <2>1, b \in Seq(Byte), CatType, Zenon DEF q
  <2> QED
    BY <1>1, <2>2, Zenon
<1>4. With(q, Len(h) + k, x) = h \o With(b, k, x)
  <2>1. h \in Seq(Byte)
    BY <1>1, Zenon
  <2> QED
    BY ONLY <2>1, b \in Seq(Byte), k \in 1 .. Len(b), x \in Byte, CatSetRight, Zenon
<1> HIDE DEF q
<1>5. PICK pos \in 1 .. Len(q) : pos = Len(h) + k /\ pos = 12 + k
  BY <1>1, <1>3, SMT
<1>6. x # q[pos]
  BY <1>3, <1>5, Zenon
<1>7. InternetChecksum(With(q, pos, x)) # 0
  BY ONLY <1>2, <1>3, <1>6, pos \in 1 .. Len(q), x \in Byte, ChangeIsFound, Zenon
<1> QED
  BY <1>4, <1>5, <1>7, Zenon DEF h

-----------------------------------------------------------------------------
(* Datagrams *)

UDPHead(sp, dp, n, c) ==
  <<Hi(sp), Lo(sp), Hi(dp), Lo(dp), Hi(8 + n), Lo(8 + n), Hi(c), Lo(c)>>

UDPBody(sp, dp, c, data) == UDPHead(sp, dp, Len(data), c) \o data

\* A datagram's header has eight bytes.
LEMMA UDPHeadType ==
  ASSUME NEW sp \in Word, NEW dp \in Word, NEW n \in Nat, 8 + n \in Word, NEW c \in Word
  PROVE  UDPHead(sp, dp, n, c) \in Seq(Byte) /\ Len(UDPHead(sp, dp, n, c)) = 8
<1>1. PICK m \in Word : m = 8 + n
  BY Zenon
<1>2. PICK e \in Byte, f \in Byte, g \in Byte, h \in Byte, i \in Byte, j \in Byte, k \in Byte, l \in Byte :
        /\ e = Hi(sp) /\ f = Lo(sp) /\ g = Hi(dp) /\ h = Lo(dp)
        /\ i = Hi(m) /\ j = Lo(m) /\ k = Hi(c) /\ l = Lo(c)
  BY Halves, SMT
<1>3. UDPHead(sp, dp, n, c) = <<e, f, g, h, i, j, k, l>>
  BY <1>1, <1>2, Zenon DEF UDPHead
<1> QED
  BY <1>3, SMT

\* Its checksum is in the last two.
LEMMA UDPHeadPut ==
  ASSUME NEW sp, NEW dp, NEW n, NEW c, NEW v
  PROVE  PutU16(UDPHead(sp, dp, n, c), 6, v) = UDPHead(sp, dp, n, v)
  BY SMT DEF PutU16, UDPHead, Hi, Lo

\* What NewUDP4Packet puts into zeros is the header.
LEMMA UDPHeadNew ==
  ASSUME NEW sp, NEW dp, NEW n
  PROVE  PutU16(PutU16(PutU16(Zeros(8), 0, sp), 2, dp), 4, 8 + n) = UDPHead(sp, dp, n, 0)
<1>1. Zeros(8) = <<0, 0, 0, 0, 0, 0, 0, 0>>
  BY SMT DEF Zeros
<1>2. PutU16(<<0, 0, 0, 0, 0, 0, 0, 0>>, 0, sp) = <<Hi(sp), Lo(sp), 0, 0, 0, 0, 0, 0>>
  BY SMT DEF PutU16, Hi, Lo
<1>3. PutU16(<<Hi(sp), Lo(sp), 0, 0, 0, 0, 0, 0>>, 2, dp)
        = <<Hi(sp), Lo(sp), Hi(dp), Lo(dp), 0, 0, 0, 0>>
  BY SMT DEF PutU16, Hi, Lo
<1>4. PutU16(<<Hi(sp), Lo(sp), Hi(dp), Lo(dp), 0, 0, 0, 0>>, 4, 8 + n)
        = <<Hi(sp), Lo(sp), Hi(dp), Lo(dp), Hi(8 + n), Lo(8 + n), 0, 0>>
  BY SMT DEF PutU16, Hi, Lo
<1>5. Hi(0) = 0 /\ Lo(0) = 0
  BY SMT DEF Hi, Lo
<1> QED
  BY <1>1, <1>2, <1>3, <1>4, <1>5, Zenon DEF UDPHead

\* What is read from the header of a datagram.
LEMMA UDPHeadReads ==
  ASSUME NEW sp \in Word, NEW dp \in Word, NEW n \in Nat, 8 + n \in Word, NEW c \in Word
  PROVE  /\ U16(UDPHead(sp, dp, n, c), 0) = sp
         /\ U16(UDPHead(sp, dp, n, c), 2) = dp
         /\ U16(UDPHead(sp, dp, n, c), 4) = 8 + n
         /\ U16(UDPHead(sp, dp, n, c), 6) = c
<1>1. /\ 256 * Hi(sp) + Lo(sp) = sp
      /\ 256 * Hi(dp) + Lo(dp) = dp
      /\ 256 * Hi(8 + n) + Lo(8 + n) = 8 + n
      /\ 256 * Hi(c) + Lo(c) = c
  BY Halves, SMT
<1>2. /\ U16(UDPHead(sp, dp, n, c), 0) = 256 * Hi(sp) + Lo(sp)
      /\ U16(UDPHead(sp, dp, n, c), 2) = 256 * Hi(dp) + Lo(dp)
      /\ U16(UDPHead(sp, dp, n, c), 4) = 256 * Hi(8 + n) + Lo(8 + n)
      /\ U16(UDPHead(sp, dp, n, c), 6) = 256 * Hi(c) + Lo(c)
  BY SMT DEF U16, UDPHead
<1> QED
  BY <1>1, <1>2, Zenon

\* What a body may hold behind a header of k bytes, and IPv4's of 20.
Fits(k, data) == data \in Seq(Byte) /\ Len(data) \in Nat /\ k + Len(data) \in Word
                 /\ 20 + (k + Len(data)) \in Word

\* The header and the data.
LEMMA UDPBodyType ==
  ASSUME NEW sp \in Word, NEW dp \in Word, NEW data, Fits(8, data), NEW c \in Word
  PROVE  /\ UDPBody(sp, dp, c, data) \in Seq(Byte)
         /\ Len(UDPBody(sp, dp, c, data)) = 8 + Len(data)
         /\ \A i \in 1 .. 8 : UDPBody(sp, dp, c, data)[i] = UDPHead(sp, dp, Len(data), c)[i]
<1>1. data \in Seq(Byte) /\ Len(data) \in Nat /\ 8 + Len(data) \in Word
  BY Zenon DEF Fits
<1> DEFINE h == UDPHead(sp, dp, Len(data), c)
<1>2. h \in Seq(Byte) /\ Len(h) = 8
  BY <1>1, UDPHeadType, Zenon
<1> HIDE DEF h
<1>3. h \o data \in Seq(Byte) /\ Len(h \o data) = Len(h) + Len(data)
      /\ \A i \in 1 .. Len(h) : (h \o data)[i] = h[i]
  <2>1. h \in Seq(Byte) /\ data \in Seq(Byte)
    BY <1>1, <1>2, Zenon
  <2> QED
    BY ONLY <2>1, CatType, Zenon
<1> QED
  BY <1>2, <1>3, Zenon DEF UDPBody, h

\* The checksum is put into the body.
LEMMA UDPBodyPut ==
  ASSUME NEW sp \in Word, NEW dp \in Word, NEW data, Fits(8, data), NEW c \in Word, NEW v \in Word
  PROVE  PutU16(UDPBody(sp, dp, c, data), 6, v) = UDPBody(sp, dp, v, data)
<1>1. data \in Seq(Byte) /\ Len(data) \in Nat /\ 8 + Len(data) \in Word
  BY Zenon DEF Fits
<1> DEFINE h == UDPHead(sp, dp, Len(data), c)
<1>2. h \in Seq(Byte) /\ Len(h) = 8
  BY <1>1, UDPHeadType, Zenon
<1>3. PutU16(h, 6, v) = UDPHead(sp, dp, Len(data), v)
  BY UDPHeadPut, SMT
<1> HIDE DEF h
<1>4. 6 \in Nat /\ 6 + 2 <= Len(h)
  BY <1>2, SMT
<1>5. PutU16(h \o data, 6, v) = PutU16(h, 6, v) \o data
  <2>1. h \in Seq(Byte) /\ data \in Seq(Byte)
    BY <1>1, <1>2, Zenon
  <2> QED
    BY ONLY <1>4, <2>1, v \in Word, CatPutLeft, Zenon
<1> QED
  BY <1>3, <1>5, Zenon DEF UDPBody, h

UDPChecks(s, d, sp, dp, c, data) ==
  InternetChecksum(Pseudo(s, d, 17, 8 + Len(data)) \o UDPBody(sp, dp, c, data)) = 0

\* The packet w of a datagram with identifier i.
UDPPacket(w, i, s, d, sp, dp, data) ==
  \E c \in Word :
    /\ c # 0
    /\ UDPChecks(s, d, sp, dp, c, data)
    /\ w = IPHeader(20 + (8 + Len(data)), i, 17, s, d) \o UDPBody(sp, dp, c, data)

\* What SetUDPChecksum makes of a datagram without a checksum.
LEMMA SetUDPChecksumIs ==
  ASSUME NEW s \in Address, NEW d \in Address, NEW sp \in Word, NEW dp \in Word,
         NEW data, Fits(8, data), NEW i \in Word
  PROVE  UDPPacket(SetUDPChecksum(IPHeader(20 + (8 + Len(data)), i, 17, s, d) \o UDPBody(sp, dp, 0, data)),
                   i, s, d, sp, dp, data)
<1>0. PICK z \in Word : z = 0
  BY ZeroWord, Zenon
<1> DEFINE n == 8 + Len(data)
           t == 20 + n
           h == IPHeader(t, i, 17, s, d)
           b == UDPBody(sp, dp, z, data)
<1>1. Fields(t, i, 17, s, d) /\ n \in Word
  <2>1. 17 \in Byte
    BY ONLY SMT DEF Byte
  <2> QED
    BY <2>1, Zenon DEF Fields, Fits
<1>2. b \in Seq(Byte) /\ Len(b) = n /\ \A j \in 1 .. 8 : b[j] = UDPHead(sp, dp, Len(data), z)[j]
  BY UDPBodyType, SMT
<1>3. \A v \in Word : PutU16(b, 6, v) = UDPBody(sp, dp, v, data)
  BY UDPBodyPut, Zenon
<1>4. b[7] = 0 /\ b[8] = 0
  <2>1. UDPHead(sp, dp, Len(data), z)[7] = 0 /\ UDPHead(sp, dp, Len(data), z)[8] = 0
    BY <1>0, SMT DEF UDPHead, Hi, Lo
  <2>2. 7 \in 1 .. 8 /\ 8 \in 1 .. 8
    BY ONLY SMT
  <2> QED
    BY <1>2, <2>1, <2>2, Zenon
<1>5. IsHeader(h, t, 17, s, d)
  BY <1>1, IPHeaderReads, Zenon
<1>6. Len(b) >= 8
  <2>1. Len(data) \in Nat /\ Len(b) = 8 + Len(data)
    BY <1>2, Zenon DEF Fits
  <2> QED
    BY ONLY <2>1, SMT
<1>7. PutU16(b, 6, z) = b
  BY <1>3, Zenon
<1> HIDE DEF n, t, h, b
<1>8. IsInOrder(h \o b, 17, s, d, b)
  BY <1>1, <1>2, PacketPasses, Zenon DEF h, t
<1>9. \A v \in Word : PutU16(h \o b, 26, v) = h \o PutU16(b, 6, v)
  <2>1. h \in Seq(Byte) /\ 6 \in Nat /\ 6 + 2 <= Len(b) /\ 26 \in Nat /\ 26 = Len(h) + 6
    BY <1>5, <1>6, SMT DEF IsHeader
  <2>2. b \in Seq(Byte)
    BY <1>2, Zenon
  <2> QED
    BY ONLY <2>1, <2>2, CatPutRight, SMTT(20)
<1>10. PICK sum \in Word : sum = InternetChecksum(Pseudo(s, d, 17, n) \o b)
  <2>1. 17 \in Byte
    BY ONLY SMT DEF Byte
  <2>2. Pseudo(s, d, 17, n) \in Seq(Byte)
    BY <1>1, <2>1, PseudoType, Zenon
  <2>3. Pseudo(s, d, 17, n) \o b \in Seq(Byte)
    BY <1>2, <2>2, CatType, Zenon
  <2> QED
    BY <2>3, ChecksumType, Zenon
<1>11. UDPChecksum(h \o b) = sum
  BY <1>2, <1>8, <1>10, Zenon DEF IsInOrder, UDPChecksum, PseudoChecksum, Pseudo
<1>12. PICK c \in Word : c = IF sum = 0 THEN Ones ELSE sum
  BY SMT DEF Word, Ones
<1>13. c # 0
  BY <1>12, SMT DEF Ones
<1>14. InternetChecksum(Pseudo(s, d, 17, n) \o PutU16(b, 6, c)) = 0
  <2>1. 17 \in Byte /\ 6 \in Nat /\ 6 % 2 = 0 /\ 6 + 1 = 7 /\ 6 + 2 = 8
    BY ONLY SMT DEF Byte
  <2>2. 6 + 2 <= Len(b) /\ b[6 + 1] = 0 /\ b[6 + 2] = 0
    BY <1>4, <1>6, <2>1, SMT
  <2>3. \/ c = InternetChecksum(Pseudo(s, d, 17, n) \o b)
        \/ InternetChecksum(Pseudo(s, d, 17, n) \o b) = 0 /\ c = Ones
    BY <1>10, <1>12, Zenon
  <2> QED
    BY <1>1, <1>2, <2>1, <2>2, <2>3, PseudoFills, SMTT(20)
<1>15. SetUDPChecksum(h \o b) = h \o PutU16(b, 6, c)
  <2>1. 20 + 6 = 26
    BY ONLY SMT
  <2>2. IPHeaderSize(h \o b) + 6 = 26
    BY <1>8, <2>1, Zenon DEF IsInOrder
  <2>3. PutU16(h \o b, 26, 0) = h \o b
    BY <1>0, <1>7, <1>9, Zenon
  <2>4. (IF sum = 0 THEN 65535 ELSE sum) = c
    BY <1>12, SMT DEF Ones
  <2> DEFINE w == h \o b
  <2>5. IPHeaderSize(w) + 6 = 26 /\ PutU16(w, 26, 0) = w /\ UDPChecksum(w) = sum
    BY <1>11, <2>2, <2>3, Zenon
  <2> HIDE DEF w
  <2>6. SetUDPChecksum(w) = PutU16(w, 26, c)
    BY ONLY <2>4, <2>5, SMT DEF SetUDPChecksum
  <2> QED
    BY <1>9, <2>6, Zenon DEF w
<1> QED
  BY <1>0, <1>3, <1>13, <1>14, <1>15, Zenon DEF UDPChecks, UDPPacket, n, t, h, b

\* A byte that is not in the header is in the body.
LEMMA BehindHeader ==
  ASSUME NEW b \in Seq(Byte), NEW n, n = 20 + Len(b), NEW k \in 2 .. n, k \notin 2 .. 20
  PROVE  k \in 21 .. 20 + Len(b)
<1>1. Len(b) \in Nat
  OBVIOUS
<1> QED
  BY ONLY <1>1, n = 20 + Len(b), k \in 2 .. n, k \notin 2 .. 20, SMT

\* A packet with a changed byte behind the header is still in order for IPv4.
LEMMA ChangedBody ==
  ASSUME NEW t, NEW i, NEW p, NEW s, NEW d, Fields(t, i, p, s, d),
         NEW b \in Seq(Byte), t = 20 + Len(b),
         NEW k \in 21 .. 20 + Len(b), NEW x \in Byte, x # (IPHeader(t, i, p, s, d) \o b)[k]
  PROVE  \E j \in 1 .. Len(b) :
           /\ x # b[j] /\ With(b, j, x) \in Seq(Byte) /\ Len(With(b, j, x)) = Len(b)
           /\ IsInOrder(With(IPHeader(t, i, p, s, d) \o b, k, x), p, s, d, With(b, j, x))
<1> DEFINE h == IPHeader(t, i, p, s, d)
<1>1. IsHeader(h, t, p, s, d)
  BY IPHeaderReads, Zenon
<1>2. x # (h \o b)[k]
  BY Zenon
<1> HIDE DEF h
<1>3. PICK j \in 1 .. Len(b) : k = 20 + j
  <2>1. k - 20 \in 1 .. Len(b) /\ k = 20 + (k - 20)
    OBVIOUS
  <2> QED
    BY <2>1, Zenon
<1>4. IsPacket(h \o b, h, b)
  BY <1>1, PacketReads, Zenon DEF IsHeader
<1>5. x # b[j]
  BY <1>2, <1>3, <1>4, Zenon DEF IsPacket
<1> DEFINE e == With(b, j, x)
<1>6. e \in Seq(Byte) /\ Len(e) = Len(b)
  <2>1. IsWith(e, b, j, x)
    BY ONLY b \in Seq(Byte), j \in 1 .. Len(b), x \in Byte, WithIs, Zenon
  <2> QED
    BY <2>1, Zenon DEF IsWith
<1>7. With(h \o b, k, x) = h \o e
  <2>1. h \in Seq(Byte) /\ k = Len(h) + j
    BY <1>1, <1>3, Zenon DEF IsHeader
  <2>2. With(h \o b, Len(h) + j, x) = h \o e
    BY ONLY <2>1, b \in Seq(Byte), j \in 1 .. Len(b), x \in Byte, CatSetRight, Zenon
  <2> QED
    BY <2>1, <2>2, Zenon
<1> HIDE DEF e
<1>8. IsInOrder(h \o e, p, s, d, e)
  <2>1. t = 20 + Len(e) /\ e \in Seq(Byte)
    BY <1>6, Zenon
  <2>2. Fields(t, i, p, s, d)
    BY Zenon
  <2> QED
    BY ONLY <2>1, <2>2, PacketPasses, Zenon DEF h
<1> QED
  BY <1>5, <1>6, <1>7, <1>8, Zenon DEF e, h

\* What a connection reads from a datagram with header g.
LEMMA UDPReads ==
  ASSUME NEW w, NEW s, NEW d, NEW b, IsInOrder(w, 17, s, d, b),
         NEW g \in Seq(Byte), NEW data \in Seq(Byte), b = g \o data, Len(g) = 8
  PROVE  /\ UDPHeader(w) = g
         /\ UDPPayload(w) = data
         /\ UDPSource(w) = [ip |-> s, port |-> U16(g, 0)]
         /\ UDPDest(w) = [ip |-> d, port |-> U16(g, 2)]
<1>1. IPPayload(w) = g \o data /\ IPSource(w) = s /\ IPDest(w) = d
  BY Zenon DEF IsInOrder
<1>2. SubSeq(g \o data, 1, Len(g)) = g /\ Drop(g \o data, Len(g)) = data
  BY ONLY g \in Seq(Byte), data \in Seq(Byte), CatFirst, CatDrop, Zenon
<1>3. SubSeq(g \o data, 1, 8) = g /\ Drop(g \o data, 8) = data
  BY <1>2, Zenon
<1> QED
  BY <1>1, <1>3, Zenon DEF UDPHeader, UDPPayload, UDPSource, UDPDest

\* The packet w of a datagram m, whatever its identifier is.
Datagram(w, m) ==
  \E i \in Word : UDPPacket(w, i, m.source.ip, m.dest.ip, m.source.port, m.dest.port, m.data)

Endpoint == [ip : Address, port : Word]

\* The fields of an endpoint.
LEMMA EndpointType ==
  ASSUME NEW e \in Endpoint
  PROVE  e.ip \in Address /\ e.port \in Word /\ e = [ip |-> e.ip, port |-> e.port]
  BY DEF Endpoint

\* What fits may be in the fields of a header.
LEMMA FitsFields ==
  ASSUME NEW k, NEW data, Fits(k, data), NEW i \in Word, NEW p \in Byte,
         NEW s \in Address, NEW d \in Address
  PROVE  Fields(20 + (k + Len(data)), i, p, s, d)
  BY Zenon DEF Fits, Fields

\* The numbers of the protocols.
LEMMA ProtoType == 1 \in Byte /\ 6 \in Byte /\ 17 \in Byte
  BY SMT DEF Byte

\* Such a packet is accepted, and what was sent is read from it.
LEMMA DatagramArrives ==
  ASSUME NEW w, NEW m, Datagram(w, m), m.source \in Endpoint, m.dest \in Endpoint, Fits(8, m.data)
  PROVE  /\ w \in Seq(Byte) /\ IPFilters(w, 17, m.dest.ip) /\ UDPAccepts(w)
         /\ UDPSource(w) = m.source /\ UDPDest(w) = m.dest /\ UDPPayload(w) = m.data
<1> DEFINE s == m.source.ip
           d == m.dest.ip
           sp == m.source.port
           dp == m.dest.port
           data == m.data
           n == 8 + Len(data)
<1>1. /\ s \in Address /\ d \in Address /\ sp \in Word /\ dp \in Word
      /\ m.source = [ip |-> s, port |-> sp] /\ m.dest = [ip |-> d, port |-> dp]
  BY EndpointType, Zenon
<1>2. PICK i \in Word, c \in Word : /\ c # 0 /\ UDPChecks(s, d, sp, dp, c, data)
                                    /\ w = IPHeader(20 + n, i, 17, s, d) \o UDPBody(sp, dp, c, data)
  BY Zenon DEF Datagram, UDPPacket
<1>3. data \in Seq(Byte) /\ Len(data) \in Nat /\ n \in Word
  BY Zenon DEF Fits
<1>4. Fits(8, data)
  BY Zenon
<1> DEFINE g == UDPHead(sp, dp, Len(data), c)
           b == UDPBody(sp, dp, c, data)
<1> HIDE DEF s, d, sp, dp, data
<1>5. /\ g \in Seq(Byte) /\ Len(g) = 8
      /\ U16(g, 0) = sp /\ U16(g, 2) = dp /\ U16(g, 4) = n
  BY <1>1, <1>3, UDPHeadType, UDPHeadReads, SMT
<1>6. b \in Seq(Byte) /\ Len(b) = n
  BY <1>1, <1>4, UDPBodyType, SMT
<1>7. b = g \o data
  BY Zenon DEF UDPBody
<1>8. IsInOrder(w, 17, s, d, b)
  <2>1. Fields(20 + n, i, 17, s, d)
    BY <1>1, <1>4, FitsFields, ProtoType, Zenon
  <2>2. 20 + n = 20 + Len(b) /\ b \in Seq(Byte)
    BY <1>6, Zenon
  <2>3. IsInOrder(IPHeader(20 + n, i, 17, s, d) \o b, 17, s, d, b)
    BY ONLY <2>1, <2>2, PacketPasses, Zenon
  <2> QED
    BY <1>2, <2>3, Zenon
<1> HIDE DEF g, b, n
<1>9. /\ UDPHeader(w) = g
      /\ UDPPayload(w) = data
      /\ UDPSource(w) = [ip |-> s, port |-> U16(g, 0)]
      /\ UDPDest(w) = [ip |-> d, port |-> U16(g, 2)]
  BY <1>3, <1>5, <1>7, <1>8, UDPReads, Zenon
<1>10. UDPChecksum(w) = 0
  <2>1. UDPChecksum(w) = InternetChecksum(Pseudo(s, d, 17, Len(b)) \o b)
    BY <1>8, Zenon DEF IsInOrder, UDPChecksum, PseudoChecksum, Pseudo
  <2> QED
    BY <1>2, <1>6, <2>1, Zenon DEF UDPChecks, n, b
<1>11. UDPValid(w)
  <2>1. IPValid(w) /\ IPPayload(w) = b
    BY <1>8, Zenon DEF IsInOrder
  <2>2. Len(b) >= 8
    BY <1>3, <1>6, SMT DEF n
  <2>3. U16(UDPHeader(w), 4) = 8 + Len(UDPPayload(w))
    BY <1>5, <1>9, Zenon DEF n
  <2> QED
    BY <2>1, <2>2, <2>3, Zenon DEF UDPValid
<1>12. w \in Seq(Byte) /\ IPFilters(w, 17, d)
  BY <1>8, Zenon DEF IsInOrder
<1> QED
  BY <1>1, <1>5, <1>9, <1>10, <1>11, <1>12, Zenon DEF UDPAccepts, s, d, sp, dp, data

\* What a connection sends is a datagram.
LEMMA DatagramSent ==
  ASSUME NEW m, m.source \in Endpoint, m.dest \in Endpoint, Fits(8, m.data), NEW id \in Word
  PROVE  Datagram(AddIdentifier(NewUDP4Packet(64, m.source, m.dest, m.data), id), m)
<1> DEFINE s == m.source.ip
           d == m.dest.ip
           sp == m.source.port
           dp == m.dest.port
           data == m.data
           t == 20 + (8 + Len(data))
<1>1. s \in Address /\ d \in Address /\ sp \in Word /\ dp \in Word
  BY EndpointType, Zenon
<1>2. Fits(8, data)
  OBVIOUS
<1>0. PICK z \in Word : z = 0
  BY ZeroWord, Zenon
<1> HIDE DEF s, d, sp, dp, data
<1> DEFINE b == UDPBody(sp, dp, z, data)
<1>3. b \in Seq(Byte) /\ Len(b) = 8 + Len(data)
  BY <1>1, <1>2, UDPBodyType, SMT
<1>4. PutU16(PutU16(PutU16(Zeros(8), 0, sp), 2, dp), 4, 8 + Len(data)) \o data = b
  BY <1>0, UDPHeadNew, Zenon DEF UDPBody
<1>5. Fields(t, z, 17, s, d) /\ Fields(t, id, 17, s, d)
  BY <1>1, <1>2, FitsFields, ProtoType, Zenon
<1>6. NewIPv4Packet(64, 17, s, d, b) = IPHeader(t, z, 17, s, d) \o b
  <2>1. b \in Seq(Byte) /\ 20 + Len(b) \in Word
    BY <1>2, <1>3, Zenon DEF Fits
  <2>2. 17 \in Byte
    BY ProtoType
  <2>3. s \in Address /\ d \in Address
    BY <1>1
  <2>4. NewIPv4Packet(64, 17, s, d, b) = IPHeader(20 + Len(b), 0, 17, s, d) \o b
    BY ONLY <2>1, <2>2, <2>3, NewIPv4PacketIs, SMTT(20)
  <2> QED
    BY <1>0, <1>3, <2>4, Zenon
<1>7. UDPPacket(SetUDPChecksum(IPHeader(t, z, 17, s, d) \o UDPBody(sp, dp, 0, data)), z, s, d, sp, dp, data)
  <2>1. s \in Address /\ d \in Address /\ sp \in Word /\ dp \in Word /\ Fits(8, data)
    BY <1>1, <1>2
  <2> QED
    BY ONLY <2>1, z \in Word, SetUDPChecksumIs, SMTT(20) DEF t
<1>11. PICK c \in Word : /\ c # 0 /\ UDPChecks(s, d, sp, dp, c, data)
                         /\ SetUDPChecksum(IPHeader(t, z, 17, s, d) \o UDPBody(sp, dp, 0, data))
                              = IPHeader(t, z, 17, s, d) \o UDPBody(sp, dp, c, data)
  BY <1>7, Zenon DEF UDPPacket
<1> DEFINE e == UDPBody(sp, dp, c, data)
<1>8. e \in Seq(Byte)
  BY <1>1, <1>2, UDPBodyType, Zenon
<1>9. NewUDP4Packet(64, m.source, m.dest, data) = IPHeader(t, z, 17, s, d) \o e
  <2>1. NewUDP4Packet(64, m.source, m.dest, data) = SetUDPChecksum(NewIPv4Packet(64, 17, s, d, b))
    BY <1>4, Zenon DEF NewUDP4Packet, s, d, sp, dp
  <2> QED
    BY <1>0, <1>6, <1>11, <2>1, Zenon
<1> HIDE DEF b, t, e
<1>10. AddIdentifier(IPHeader(t, z, 17, s, d) \o e, id) = IPHeader(t, id, 17, s, d) \o e
  <2>1. PICK p : p = 17
    OBVIOUS
  <2>2. Fields(t, z, p, s, d) /\ e \in Seq(Byte)
    BY <1>5, <1>8, <2>1, Zenon
  <2>3. AddIdentifier(IPHeader(t, z, p, s, d) \o e, id) = IPHeader(t, id, p, s, d) \o e
    BY ONLY <2>2, id \in Word, AddIdentifierIs, Z3T(30)
  <2> QED
    BY <2>1, <2>3, Zenon
<1> QED
  BY <1>9, <1>10, <1>11, Zenon DEF Datagram, UDPPacket, s, d, sp, dp, data, t, e

\* One that was changed is not accepted; or nothing but its checksum was changed,
\* to 0, and what was sent is read from it.
LEMMA DatagramChanged ==
  ASSUME NEW w, NEW m, Datagram(w, m), m.source \in Endpoint, m.dest \in Endpoint, Fits(8, m.data),
         NEW k \in 2 .. Len(w), NEW x \in Byte, x # w[k]
  PROVE  \/ ~(IPFilters(With(w, k, x), 17, m.dest.ip) /\ UDPAccepts(With(w, k, x)))
         \/ /\ UDPSource(With(w, k, x)) = m.source /\ UDPDest(With(w, k, x)) = m.dest
            /\ UDPPayload(With(w, k, x)) = m.data
<1> DEFINE s == m.source.ip
           d == m.dest.ip
           sp == m.source.port
           dp == m.dest.port
           data == m.data
           n == 8 + Len(data)
           t == 20 + n
           v == With(w, k, x)
<1>1. /\ s \in Address /\ d \in Address /\ sp \in Word /\ dp \in Word
      /\ m.source = [ip |-> s, port |-> sp] /\ m.dest = [ip |-> d, port |-> dp]
  BY EndpointType, Zenon
<1>2. PICK i \in Word, c \in Word : /\ c # 0 /\ UDPChecks(s, d, sp, dp, c, data)
                                    /\ w = IPHeader(t, i, 17, s, d) \o UDPBody(sp, dp, c, data)
  BY Zenon DEF Datagram, UDPPacket
<1>3. data \in Seq(Byte) /\ Len(data) \in Nat /\ n \in Word
  BY Zenon DEF Fits
<1>4. Fits(8, data)
  BY Zenon
<1> DEFINE g == UDPHead(sp, dp, Len(data), c)
           b == UDPBody(sp, dp, c, data)
<1> HIDE DEF s, d, sp, dp, data
<1>5. /\ g \in Seq(Byte) /\ Len(g) = 8
      /\ U16(g, 0) = sp /\ U16(g, 2) = dp /\ U16(g, 6) = c
  <2>1. sp \in Word /\ dp \in Word /\ Len(data) \in Nat /\ 8 + Len(data) \in Word
    BY <1>1, <1>3
  <2>2. g \in Seq(Byte) /\ Len(g) = 8
    BY <2>1, UDPHeadType, Zenon
  <2>3. U16(g, 0) = sp /\ U16(g, 2) = dp /\ U16(g, 4) = 8 + Len(data) /\ U16(g, 6) = c
    BY ONLY <2>1, c \in Word, UDPHeadReads, Z3
  <2> QED
    BY <2>2, <2>3, Zenon
<1>6. b \in Seq(Byte) /\ Len(b) = n
  BY <1>1, <1>4, UDPBodyType, SMT
<1>7. b = g \o data
  BY Zenon DEF UDPBody
<1>8. Fields(t, i, 17, s, d) /\ t = 20 + Len(b) /\ 17 \in Byte
  BY <1>1, <1>4, <1>6, FitsFields, ProtoType, Zenon
<1>9. InternetChecksum(Pseudo(s, d, 17, n) \o b) = 0
  BY <1>2, Zenon DEF UDPChecks
<1> HIDE DEF g, b, n, t
<1>10. w = IPHeader(t, i, 17, s, d) \o b
  BY <1>2, Zenon DEF b
<1>11. Len(w) = 20 + Len(b)
  <2>1. IsHeader(IPHeader(t, i, 17, s, d), t, 17, s, d)
    BY <1>8, IPHeaderReads, Zenon
  <2> QED
    BY <1>6, <1>10, <2>1, PacketReads, Zenon DEF IsHeader, IsPacket
<1>12. CASE k \in 2 .. 20
  <2>1. x # (IPHeader(t, i, 17, s, d) \o b)[k]
    BY <1>10, Zenon
  <2>2. b \in Seq(Byte)
    BY <1>6
  <2>3. Fields(t, i, 17, s, d)
    BY <1>8
  <2>4. ~IPFilters(With(IPHeader(t, i, 17, s, d) \o b, k, x), 17, d)
    BY ONLY <1>12, <2>1, <2>2, <2>3, x \in Byte, ChangedHeaderFails, Zenon
  <2> QED
    BY <1>10, <2>4, Zenon DEF d
<1>13. CASE k \notin 2 .. 20
  <2>1. PICK j \in 1 .. Len(b) :
          /\ x # b[j] /\ With(b, j, x) \in Seq(Byte) /\ Len(With(b, j, x)) = Len(b)
          /\ IsInOrder(v, 17, s, d, With(b, j, x))
    <3>1. k \in 21 .. 20 + Len(b)
      <4>1. b \in Seq(Byte) /\ Len(w) = 20 + Len(b)
        BY <1>6, <1>11
      <4> QED
        BY ONLY <4>1, k \in 2 .. Len(w), <1>13, BehindHeader, Zenon
    <3>2. x # (IPHeader(t, i, 17, s, d) \o b)[k] /\ b \in Seq(Byte)
      BY <1>6, <1>10, Zenon
    <3>3. Fields(t, i, 17, s, d) /\ t = 20 + Len(b)
      BY <1>8
    <3>4. \E j \in 1 .. Len(b) :
            /\ x # b[j] /\ With(b, j, x) \in Seq(Byte) /\ Len(With(b, j, x)) = Len(b)
            /\ IsInOrder(With(IPHeader(t, i, 17, s, d) \o b, k, x), 17, s, d, With(b, j, x))
      BY ONLY <3>1, <3>2, <3>3, x \in Byte, ChangedBody, Zenon
    <3> QED
      BY <1>10, <3>4, Zenon
  <2> DEFINE e == With(b, j, x)
  <2>2. UDPChecksum(v) # 0
    <3>1. InternetChecksum(Pseudo(s, d, 17, n) \o e) # 0
      <4>1. s \in Address /\ d \in Address /\ 17 \in Byte /\ n \in Word /\ b \in Seq(Byte) /\ x # b[j]
        BY <1>1, <1>3, <1>6, <1>8, <2>1, Zenon
      <4> QED
        BY ONLY <1>9, <4>1, j \in 1 .. Len(b), x \in Byte, PseudoChange, Z3
    <3> HIDE DEF e
    <3>2. UDPChecksum(v) = InternetChecksum(Pseudo(s, d, 17, Len(e)) \o e)
      BY <2>1, Zenon DEF IsInOrder, UDPChecksum, PseudoChecksum, Pseudo, e
    <3>3. Len(e) = n
      BY <1>6, <2>1, Zenon DEF e
    <3> QED
      BY <3>1, <3>2, <3>3, Zenon
  <2>3. \/ \E l \in 1 .. 8 : x # g[l] /\ e = With(g, l, x) \o data
        \/ \E l \in 1 .. Len(data) : e = g \o With(data, l, x)
    <3>1. g \in Seq(Byte) /\ data \in Seq(Byte) /\ Len(g) = 8
      BY <1>3, <1>5, Zenon
    <3>2. CASE j \in 1 .. 8
      <4>1. j \in 1 .. Len(g)
        BY <3>1, <3>2, Zenon
      <4>2. With(g \o data, j, x) = With(g, j, x) \o data /\ (g \o data)[j] = g[j]
        BY ONLY <3>1, <4>1, x \in Byte, CatSetLeft, CatType, Zenon
      <4> QED
        BY <1>7, <2>1, <3>2, <4>2, Zenon
    <3>3. CASE j \notin 1 .. 8
      <4>1. PICK l \in 1 .. Len(data) : j = Len(g) + l
        <5>1. Len(b) = 8 + Len(data)
          BY <1>6 DEF n
        <5>2. j - 8 \in 1 .. Len(data) /\ j = 8 + (j - 8)
          BY <1>3, <3>3, <5>1
        <5> QED
          BY <3>1, <5>2, Zenon
      <4>2. With(g \o data, Len(g) + l, x) = g \o With(data, l, x)
        BY ONLY <3>1, x \in Byte, l \in 1 .. Len(data), CatSetRight, Zenon
      <4> QED
        BY <1>7, <4>1, <4>2, Zenon
    <3> QED
      BY <3>2, <3>3
  <2> HIDE DEF e, v
  <2>4. IsInOrder(v, 17, s, d, e)
    BY <2>1, Zenon DEF e
  <2>5. ASSUME NEW l \in 1 .. 8, x # g[l], e = With(g, l, x) \o data, UDPAccepts(v)
        PROVE  UDPSource(v) = m.source /\ UDPDest(v) = m.dest /\ UDPPayload(v) = data
    <3> DEFINE f == With(g, l, x)
    <3>1. l \in 1 .. Len(g) /\ g \in Seq(Byte)
      BY <1>5, Zenon
    <3>2. f \in Seq(Byte) /\ Len(f) = 8 /\ \A a \in 1 .. 8 : f[a] = IF a = l THEN x ELSE g[a]
      <4>1. f \in Seq(Byte) /\ Len(f) = Len(g) /\ \A a \in 1 .. Len(g) : f[a] = IF a = l THEN x ELSE g[a]
        <5>1. IsWith(f, g, l, x)
          BY ONLY <3>1, x \in Byte, WithIs, Zenon
        <5> QED
          BY <5>1, Zenon DEF IsWith
      <4> QED
        BY <1>5, <4>1, Zenon
    <3>3. e = f \o data
      BY <2>5
    <3> HIDE DEF f
    <3>4. /\ UDPHeader(v) = f
          /\ UDPPayload(v) = data
          /\ UDPSource(v) = [ip |-> s, port |-> U16(f, 0)]
          /\ UDPDest(v) = [ip |-> d, port |-> U16(f, 2)]
      BY <1>3, <2>4, <3>2, <3>3, UDPReads, ZenonT(30)
    <3>5. U16(f, 6) = 0
      BY <2>2, <2>5, <3>4, Zenon DEF UDPAccepts, UseChecksum
    <3>6. l = 7 \/ l = 8
      <4>1. ASSUME l # 7, l # 8 PROVE FALSE
        <5>1. f[7] = g[7] /\ f[8] = g[8]
          <6>1. 7 \in 1 .. 8 /\ 8 \in 1 .. 8
            BY ONLY SMT
          <6> QED
            BY <3>2, <4>1, <6>1, Zenon
        <5>2. U16(f, 6) = U16(g, 6)
          BY <5>1, SMT DEF U16
        <5> QED
          BY <1>2, <1>5, <3>5, <5>2, Zenon
      <4> QED
        BY <4>1
    <3>7. U16(f, 0) = U16(g, 0) /\ U16(f, 2) = U16(g, 2)
      <4>1. f[1] = g[1] /\ f[2] = g[2] /\ f[3] = g[3] /\ f[4] = g[4]
        BY <3>2, <3>6, SMT
      <4> QED
        BY ONLY <4>1, SMT DEF U16
    <3> QED
      BY <1>1, <1>5, <3>4, <3>7, Zenon
  <2>6. ASSUME NEW l \in 1 .. Len(data), e = g \o With(data, l, x)
        PROVE  ~UDPAccepts(v)
    <3> DEFINE o == With(data, l, x)
    <3>1. o \in Seq(Byte)
      <4>1. data \in Seq(Byte)
        BY <1>3, Zenon
      <4> QED
        <5>1. IsWith(o, data, l, x)
          BY ONLY <4>1, l \in 1 .. Len(data), x \in Byte, WithIs, Zenon
        <5> QED
          BY <5>1, Zenon DEF IsWith
    <3>2. e = g \o o
      BY <2>6
    <3> HIDE DEF o
    <3>3. UDPHeader(v) = g
      BY <1>5, <2>4, <3>1, <3>2, UDPReads, Zenon
    <3> QED
      BY <1>2, <1>5, <2>2, <3>3, Zenon DEF UDPAccepts, UseChecksum
  <2> QED
    BY <2>3, <2>5, <2>6, Zenon DEF v, data
<1> QED
  BY <1>12, <1>13

-----------------------------------------------------------------------------
(* Segments *)

\* fl is the byte of the flags from CWR to FIN.
TCPHead(sp, dp, n, fl, c) ==
  <<Hi(sp), Lo(sp), Hi(dp), Lo(dp), Hi(n), Lo(n), 0, 1, 0, 1, Hi(n), Lo(n), 80, fl,
    Hi(n), Lo(n), Hi(c), Lo(c), 0, 0>>

TCPBody(sp, dp, n, fl, c, data) == TCPHead(sp, dp, n, fl, c) \o data

\* A segment's header has 20 bytes.
LEMMA TCPHeadType ==
  ASSUME NEW sp \in Word, NEW dp \in Word, NEW n \in Word, NEW fl \in Byte, NEW c \in Word
  PROVE  TCPHead(sp, dp, n, fl, c) \in Seq(Byte) /\ Len(TCPHead(sp, dp, n, fl, c)) = 20
<1>1. PICK e \in Byte, f \in Byte, g \in Byte, h \in Byte, i \in Byte, j \in Byte, k \in Byte, l \in Byte :
        /\ e = Hi(sp) /\ f = Lo(sp) /\ g = Hi(dp) /\ h = Lo(dp)
        /\ i = Hi(n) /\ j = Lo(n) /\ k = Hi(c) /\ l = Lo(c)
  BY Halves, SMT
<1>2. 0 \in Byte /\ 1 \in Byte /\ 80 \in Byte
  BY SMT DEF Byte
<1>3. TCPHead(sp, dp, n, fl, c) = <<e, f, g, h, i, j, 0, 1, 0, 1, i, j, 80, fl, i, j, k, l, 0, 0>>
  BY <1>1, Zenon DEF TCPHead
<1> QED
  BY <1>2, <1>3, SMT

\* What is read from the header of a segment.
LEMMA TCPHeadReads ==
  ASSUME NEW sp \in Word, NEW dp \in Word, NEW n \in Word, NEW fl, NEW c \in Word, NEW h,
         h = TCPHead(sp, dp, n, fl, c)
  PROVE  /\ U16(h, 0) = sp
         /\ U16(h, 2) = dp
         /\ SeqNum(h) = <<n, 1>>
         /\ AckNum(h) = <<1, n>>
         /\ WindowSize(h) = n
         /\ DataOffset(h) = 5
         /\ h[13] = 80 /\ h[14] = fl
<1>1. /\ 256 * Hi(sp) + Lo(sp) = sp
      /\ 256 * Hi(dp) + Lo(dp) = dp
      /\ 256 * Hi(n) + Lo(n) = n
  BY Halves, SMT
<1>2. /\ U16(h, 0) = 256 * Hi(sp) + Lo(sp)
      /\ U16(h, 2) = 256 * Hi(dp) + Lo(dp)
  BY SMT DEF U16, TCPHead
<1>3. /\ U16(h, 4) = 256 * Hi(n) + Lo(n)
      /\ U16(h, 6) = 256 * 0 + 1
      /\ U16(h, 8) = 256 * 0 + 1
      /\ U16(h, 10) = 256 * Hi(n) + Lo(n)
      /\ U16(h, 14) = 256 * Hi(n) + Lo(n)
  BY SMT DEF U16, TCPHead
<1>4. 256 * 0 + 1 = 1 /\ 4 + 2 = 6 /\ 8 + 2 = 10 /\ 80 \div 16 = 5
  BY ONLY SMT
<1>5. h[13] = 80 /\ h[14] = fl
  BY SMT DEF TCPHead
<1> QED
  BY <1>1, <1>2, <1>3, <1>4, <1>5, SMT DEF SeqNum, AckNum, WindowSize, DataOffset, U32

\* Where the flags of a segment are.
LEMMA FlagIndices ==
  /\ FlagIndex("CWR") = 1 /\ FlagIndex("ECE") = 2 /\ FlagIndex("URG") = 3 /\ FlagIndex("ACK") = 4
  /\ FlagIndex("PSH") = 5 /\ FlagIndex("RST") = 6 /\ FlagIndex("SYN") = 7 /\ FlagIndex("FIN") = 8
<1>1. FlagIndex("CWR") = 1
  BY SMT DEF FlagIndex, FlagNames
<1>2. FlagIndex("ECE") = 2
  BY SMT DEF FlagIndex, FlagNames
<1>3. FlagIndex("URG") = 3
  BY SMT DEF FlagIndex, FlagNames
<1>4. FlagIndex("ACK") = 4
  BY SMT DEF FlagIndex, FlagNames
<1>5. FlagIndex("PSH") = 5
  BY SMT DEF FlagIndex, FlagNames
<1>6. FlagIndex("RST") = 6
  BY SMT DEF FlagIndex, FlagNames
<1>7. FlagIndex("SYN") = 7
  BY SMT DEF FlagIndex, FlagNames
<1>8. FlagIndex("FIN") = 8
  BY SMT DEF FlagIndex, FlagNames
<1> QED
  BY <1>1, <1>2, <1>3, <1>4, <1>5, <1>6, <1>7, <1>8

\* The bits of the bytes of the flags, with and without FIN.
LEMMA FlagBits ==
  /\ ~HasBit(80, 0)
  /\ ~HasBit(16, 0) /\ HasBit(17, 0)
  /\ ~HasBit(16, 1) /\ ~HasBit(16, 2) /\ ~HasBit(16, 3) /\ HasBit(16, 4)
  /\ ~HasBit(16, 5) /\ ~HasBit(16, 6) /\ ~HasBit(16, 7)
  /\ ~HasBit(17, 1) /\ ~HasBit(17, 2) /\ ~HasBit(17, 3) /\ HasBit(17, 4)
  /\ ~HasBit(17, 5) /\ ~HasBit(17, 6) /\ ~HasBit(17, 7)
<1>1. 2 ^ 0 = 1 /\ 2 ^ 1 = 2 /\ 2 ^ 2 = 4 /\ 2 ^ 3 = 8 /\ 2 ^ 4 = 16 /\ 2 ^ 5 = 32 /\ 2 ^ 6 = 64 /\ 2 ^ 7 = 128
  BY SMT
<1>2. ~HasBit(80, 0) /\ ~HasBit(16, 0) /\ HasBit(17, 0)
  BY SMT DEF HasBit
<1>3. /\ ~HasBit(16, 1) /\ ~HasBit(16, 2) /\ ~HasBit(16, 3) /\ HasBit(16, 4)
      /\ ~HasBit(16, 5) /\ ~HasBit(16, 6) /\ ~HasBit(16, 7)
  BY SMT DEF HasBit
<1>4. /\ ~HasBit(17, 1) /\ ~HasBit(17, 2) /\ ~HasBit(17, 3) /\ HasBit(17, 4)
      /\ ~HasBit(17, 5) /\ ~HasBit(17, 6) /\ ~HasBit(17, 7)
  BY SMT DEF HasBit
<1> QED
  BY <1>2, <1>3, <1>4, Zenon

\* Flags reads them.
LEMMA FlagsOf ==
  ASSUME NEW h, h[13] = 80
  PROVE  /\ h[14] = 16 => Flags(h) = {"ACK"}
         /\ h[14] = 17 => Flags(h) = {"ACK", "FIN"}
<1>1. ToSet(FlagNames) = {"NS", "CWR", "ECE", "URG", "ACK", "PSH", "RST", "SYN", "FIN"}
  BY SMT DEF ToSet, FlagNames
<1>2. ~HasFlag(h, "NS")
  BY FlagBits DEF HasFlag
<1>3. /\ HasFlag(h, "CWR") = HasBit(h[14], 7)
      /\ HasFlag(h, "ECE") = HasBit(h[14], 6)
      /\ HasFlag(h, "URG") = HasBit(h[14], 5)
      /\ HasFlag(h, "ACK") = HasBit(h[14], 4)
      /\ HasFlag(h, "PSH") = HasBit(h[14], 3)
      /\ HasFlag(h, "RST") = HasBit(h[14], 2)
      /\ HasFlag(h, "SYN") = HasBit(h[14], 1)
      /\ HasFlag(h, "FIN") = HasBit(h[14], 0)
  <2>1. 8 - 1 = 7 /\ 8 - 2 = 6 /\ 8 - 3 = 5 /\ 8 - 4 = 4 /\ 8 - 5 = 3 /\ 8 - 6 = 2 /\ 8 - 7 = 1 /\ 8 - 8 = 0
    BY ONLY SMT
  <2>2. \A f \in {"CWR", "ECE", "URG", "ACK", "PSH", "RST", "SYN", "FIN"} :
          HasFlag(h, f) = HasBit(h[14], 8 - FlagIndex(f))
    BY ONLY SMT DEF HasFlag
  <2> QED
    BY FlagIndices, <2>1, <2>2, Zenon
<1>4. ASSUME h[14] \in {16, 17}
      PROVE  /\ ~HasFlag(h, "CWR") /\ ~HasFlag(h, "ECE") /\ ~HasFlag(h, "URG") /\ HasFlag(h, "ACK")
             /\ ~HasFlag(h, "PSH") /\ ~HasFlag(h, "RST") /\ ~HasFlag(h, "SYN")
  <2>1. CASE h[14] = 16
    BY FlagBits, <1>3, <2>1, Zenon
  <2>2. CASE h[14] = 17
    BY FlagBits, <1>3, <2>2, Zenon
  <2> QED
    BY <1>4, <2>1, <2>2
<1>5. ASSUME h[14] = 16 PROVE Flags(h) = {"ACK"}
  <2>1. ~HasFlag(h, "FIN")
    BY FlagBits, <1>3, <1>5, Zenon
  <2> QED
    BY <1>1, <1>2, <1>4, <1>5, <2>1 DEF Flags
<1>6. ASSUME h[14] = 17 PROVE Flags(h) = {"ACK", "FIN"}
  <2>1. HasFlag(h, "FIN")
    BY FlagBits, <1>3, <1>6, Zenon
  <2> QED
    BY <1>1, <1>2, <1>4, <1>6, <2>1 DEF Flags
<1> QED
  BY <1>5, <1>6

\* The fold that sets flag x only.
Folds1(it, h, x) ==
  it = [s \in SUBSET {x} |-> IF s = {} THEN h
                             ELSE SetFlag(it[s \ {CHOOSE y \in s : TRUE}], CHOOSE y \in s : TRUE, TRUE)]

\* FoldSet over one flag sets it.
LEMMA OneFlag ==
  ASSUME NEW h, NEW x
  PROVE  FoldSet(LAMBDA f, r : SetFlag(r, f, TRUE), h, {x}) = SetFlag(h, x, TRUE)
<1> DEFINE it == [s \in SUBSET {x} |-> IF s = {} THEN h ELSE SetFlag(h, x, TRUE)]
<1>1. {} \in SUBSET {x} /\ {x} \in SUBSET {x} /\ {x} # {} /\ \A s \in SUBSET {x} : s = {} \/ s = {x}
  BY Zenon
<1>2. ASSUME NEW s \in SUBSET {x}, s # {}
      PROVE  (CHOOSE y \in s : TRUE) = x /\ s \ {CHOOSE y \in s : TRUE} = {}
  <2>1. s = {x}
    BY <1>1, <1>2
  <2>2. (CHOOSE y \in s : TRUE) \in s
    BY <2>1
  <2> QED
    BY <2>1, <2>2
<1>3. it[{}] = h /\ it[{x}] = SetFlag(h, x, TRUE)
  BY <1>1, Zenon
<1>4. ASSUME NEW s \in SUBSET {x}
      PROVE  it[s] = IF s = {} THEN h ELSE SetFlag(it[s \ {CHOOSE y \in s : TRUE}], CHOOSE y \in s : TRUE, TRUE)
  <2>1. CASE s = {}
    BY <1>3, <2>1, Zenon
  <2>2. CASE s # {}
    <3>1. s = {x}
      BY <1>1, <2>2, Zenon
    <3> HIDE DEF it
    <3> QED
      BY <1>2, <1>3, <2>2, <3>1, Zenon
  <2> QED
    BY <2>1, <2>2
<1>5. it = [s \in SUBSET {x} |-> it[s]]
  BY Zenon
<1> HIDE DEF it
<1>6. Folds1(it, h, x)
  BY <1>4, <1>5, Zenon DEF Folds1
<1> DEFINE r == CHOOSE g : Folds1(g, h, x)
<1>7. Folds1(r, h, x)
  BY <1>6, Zenon
<1>8. FoldSet(LAMBDA f, q : SetFlag(q, f, TRUE), h, {x}) = r[{x}]
  BY Zenon DEF FoldSet, MapThenFoldSet, Folds1
<1> HIDE DEF r
<1>9. \A s \in SUBSET {x} :
        r[s] = IF s = {} THEN h ELSE SetFlag(r[s \ {CHOOSE y \in s : TRUE}], CHOOSE y \in s : TRUE, TRUE)
  BY <1>7, Zenon DEF Folds1
<1>10. r[{}] = h
  BY <1>1, <1>9, Zenon
<1>11. r[{x}] = SetFlag(h, x, TRUE)
  BY <1>1, <1>2, <1>9, <1>10, Zenon
<1> QED
  BY <1>8, <1>11, Zenon

\* What NewTCP4Packet puts into zeros is the header.
LEMMA TCPHeadNew ==
  ASSUME NEW sp, NEW dp, NEW n \in Word
  PROVE  FoldSet(LAMBDA f, r : SetFlag(r, f, TRUE),
           SetDataOffset(PutU16(PutU32(PutU32(PutU16(PutU16(Zeros(20), 0, sp), 2, dp), 4, <<n, 1>>),
                                       8, <<1, n>>), 14, n), 5), {"ACK"})
         = TCPHead(sp, dp, n, 16, 0)
<1> DEFINE a == Hi(sp)
           b == Lo(sp)
           c == Hi(dp)
           d == Lo(dp)
           e == Hi(n)
           f == Lo(n)
           h0 == <<0, 0, 0, 0, 0, 0, 0, 0, 0, 0, 0, 0, 0, 0, 0, 0, 0, 0, 0, 0>>
           h1 == <<a, b, 0, 0, 0, 0, 0, 0, 0, 0, 0, 0, 0, 0, 0, 0, 0, 0, 0, 0>>
           h2 == <<a, b, c, d, 0, 0, 0, 0, 0, 0, 0, 0, 0, 0, 0, 0, 0, 0, 0, 0>>
           h3 == <<a, b, c, d, e, f, 0, 0, 0, 0, 0, 0, 0, 0, 0, 0, 0, 0, 0, 0>>
           h4 == <<a, b, c, d, e, f, 0, 1, 0, 0, 0, 0, 0, 0, 0, 0, 0, 0, 0, 0>>
           h5 == <<a, b, c, d, e, f, 0, 1, 0, 1, 0, 0, 0, 0, 0, 0, 0, 0, 0, 0>>
           h6 == <<a, b, c, d, e, f, 0, 1, 0, 1, e, f, 0, 0, 0, 0, 0, 0, 0, 0>>
           h7 == <<a, b, c, d, e, f, 0, 1, 0, 1, e, f, 0, 0, e, f, 0, 0, 0, 0>>
           h8 == <<a, b, c, d, e, f, 0, 1, 0, 1, e, f, 80, 0, e, f, 0, 0, 0, 0>>
           h9 == <<a, b, c, d, e, f, 0, 1, 0, 1, e, f, 80, 16, e, f, 0, 0, 0, 0>>
<1>0. Hi(0) = 0 /\ Lo(0) = 0 /\ Hi(1) = 0 /\ Lo(1) = 1
  BY SMT DEF Hi, Lo
<1>1. Zeros(20) = h0
  BY SMT DEF Zeros
<1>2. PutU16(h0, 0, sp) = h1
  BY SMT DEF PutU16, Hi, Lo
<1>3. PutU16(h1, 2, dp) = h2
  BY SMT DEF PutU16, Hi, Lo
<1>4. PutU16(h2, 4, n) = h3 /\ PutU16(h3, 6, 1) = h4
  BY SMT DEF PutU16, Hi, Lo
<1>5. PutU16(h4, 8, 1) = h5 /\ PutU16(h5, 10, n) = h6
  BY SMT DEF PutU16, Hi, Lo
<1>6. PutU16(h6, 14, n) = h7
  BY SMT DEF PutU16, Hi, Lo
<1>7. SetDataOffset(h7, 5) = h8
  BY SMT DEF SetDataOffset
<1>8. SetFlag(h8, "ACK", TRUE) = h9
  <2>1. 8 - 4 = 4 /\ PutBit(0, 4, TRUE) = 16
    BY SMT DEF PutBit, HasBit, Bit
  <2>2. h8[14] = 0 /\ [h8 EXCEPT ![14] = 16] = h9
    BY SMT
  <2> HIDE DEF h8, h9
  <2>3. SetFlag(h8, "ACK", TRUE) = [h8 EXCEPT ![14] = PutBit(h8[14], 8 - FlagIndex("ACK"), TRUE)]
    BY SMT DEF SetFlag
  <2> QED
    BY <2>1, <2>2, <2>3, FlagIndices, Zenon
<1>9. 4 + 2 = 6 /\ 8 + 2 = 10 /\ <<n, 1>>[1] = n /\ <<n, 1>>[2] = 1 /\ <<1, n>>[1] = 1 /\ <<1, n>>[2] = n
  BY SMT
<1>10. h9 = TCPHead(sp, dp, n, 16, 0)
  BY <1>0, Zenon DEF TCPHead
<1> HIDE DEF h0, h1, h2, h3, h4, h5, h6, h7, h8, h9
<1>11. PutU32(h2, 4, <<n, 1>>) = h4 /\ PutU32(h4, 8, <<1, n>>) = h6
  BY <1>4, <1>5, <1>9, Zenon DEF PutU32
<1>12. FoldSet(LAMBDA g, r : SetFlag(r, g, TRUE), h8, {"ACK"}) = h9
  BY <1>8, OneFlag, Zenon
<1> QED
  BY <1>1, <1>2, <1>3, <1>6, <1>7, <1>10, <1>11, <1>12, Zenon

\* The header and the data.
LEMMA TCPBodyType ==
  ASSUME NEW sp \in Word, NEW dp \in Word, NEW n \in Word, NEW fl \in Byte, NEW c \in Word,
         NEW data, Fits(20, data)
  PROVE  /\ TCPBody(sp, dp, n, fl, c, data) \in Seq(Byte)
         /\ Len(TCPBody(sp, dp, n, fl, c, data)) = 20 + Len(data)
         /\ \A i \in 1 .. 20 : TCPBody(sp, dp, n, fl, c, data)[i] = TCPHead(sp, dp, n, fl, c)[i]
<1>1. data \in Seq(Byte)
  BY Zenon DEF Fits
<1> DEFINE h == TCPHead(sp, dp, n, fl, c)
<1>2. h \in Seq(Byte) /\ Len(h) = 20
  BY TCPHeadType, Zenon
<1> HIDE DEF h
<1>3. h \o data \in Seq(Byte) /\ Len(h \o data) = Len(h) + Len(data)
      /\ \A i \in 1 .. Len(h) : (h \o data)[i] = h[i]
  <2>1. h \in Seq(Byte) /\ data \in Seq(Byte)
    BY <1>1, <1>2, Zenon
  <2> QED
    BY ONLY <2>1, CatType, Zenon
<1> QED
  BY <1>2, <1>3, Zenon DEF TCPBody, h

\* The checksum is put into the body.
LEMMA TCPBodyPut ==
  ASSUME NEW sp \in Word, NEW dp \in Word, NEW n \in Word, NEW fl \in Byte, NEW c \in Word,
         NEW data, Fits(20, data), NEW v \in Word
  PROVE  PutU16(TCPBody(sp, dp, n, fl, c, data), 16, v) = TCPBody(sp, dp, n, fl, v, data)
<1>1. data \in Seq(Byte)
  BY Zenon DEF Fits
<1> DEFINE h == TCPHead(sp, dp, n, fl, c)
<1>2. h \in Seq(Byte) /\ Len(h) = 20
  BY TCPHeadType, Zenon
<1>3. PutU16(h, 16, v) = TCPHead(sp, dp, n, fl, v)
  BY SMT DEF PutU16, TCPHead, Hi, Lo
<1> HIDE DEF h
<1>4. 16 \in Nat /\ 16 + 2 <= Len(h)
  BY <1>2, SMT
<1>5. PutU16(h \o data, 16, v) = PutU16(h, 16, v) \o data
  <2>1. h \in Seq(Byte) /\ data \in Seq(Byte)
    BY <1>1, <1>2, Zenon
  <2> QED
    BY ONLY <1>4, <2>1, v \in Word, CatPutLeft, Zenon
<1> QED
  BY <1>3, <1>5, Zenon DEF TCPBody, h

TCPChecks(s, d, sp, dp, n, fl, c, data) ==
  InternetChecksum(Pseudo(s, d, 6, 20 + Len(data)) \o TCPBody(sp, dp, n, fl, c, data)) = 0

\* The packet w of a segment.
TCPPacket(w, s, d, sp, dp, n, fl, data) ==
  \E c \in Word :
    /\ TCPChecks(s, d, sp, dp, n, fl, c, data)
    /\ w = IPHeader(20 + (20 + Len(data)), 0, 6, s, d) \o TCPBody(sp, dp, n, fl, c, data)

\* What SetTCPChecksum makes of it, whatever was in the place of the checksum.
LEMMA SetTCPChecksumIs ==
  ASSUME NEW s \in Address, NEW d \in Address, NEW sp \in Word, NEW dp \in Word, NEW n \in Word,
         NEW fl \in Byte, NEW x \in Word, NEW data, Fits(20, data)
  PROVE  TCPPacket(SetTCPChecksum(IPHeader(20 + (20 + Len(data)), 0, 6, s, d)
                                    \o TCPBody(sp, dp, n, fl, x, data)),
                   s, d, sp, dp, n, fl, data)
<1>0. PICK z \in Word : z = 0
  BY ZeroWord, Zenon
<1> DEFINE l == 20 + Len(data)
           t == 20 + l
           h == IPHeader(t, z, 6, s, d)
           a == TCPBody(sp, dp, n, fl, x, data)
           b == TCPBody(sp, dp, n, fl, z, data)
<1>1. Fields(t, z, 6, s, d) /\ l \in Word
  <2>1. 6 \in Byte
    BY ProtoType
  <2> QED
    BY <2>1, Zenon DEF Fields, Fits
<1>2. /\ a \in Seq(Byte) /\ Len(a) = l
      /\ b \in Seq(Byte) /\ Len(b) = l /\ \A j \in 1 .. 20 : b[j] = TCPHead(sp, dp, n, fl, z)[j]
  <2>1. a \in Seq(Byte) /\ Len(a) = l
    BY TCPBodyType, Z3
  <2>2. b \in Seq(Byte) /\ Len(b) = l /\ \A j \in 1 .. 20 : b[j] = TCPHead(sp, dp, n, fl, z)[j]
    BY TCPBodyType, Z3
  <2> QED
    BY <2>1, <2>2
<1>3. PutU16(a, 16, z) = b /\ \A v \in Word : PutU16(b, 16, v) = TCPBody(sp, dp, n, fl, v, data)
  <2>1. PutU16(a, 16, z) = b
    BY TCPBodyPut, Z3
  <2>2. \A v \in Word : PutU16(b, 16, v) = TCPBody(sp, dp, n, fl, v, data)
    BY TCPBodyPut, Z3
  <2> QED
    BY <2>1, <2>2
<1>4. b[17] = 0 /\ b[18] = 0
  <2>1. TCPHead(sp, dp, n, fl, z)[17] = 0 /\ TCPHead(sp, dp, n, fl, z)[18] = 0
    BY <1>0, SMT DEF TCPHead, Hi, Lo
  <2>2. 17 \in 1 .. 20 /\ 18 \in 1 .. 20
    BY ONLY SMT
  <2> QED
    BY <1>2, <2>1, <2>2, Zenon
<1>5. IsHeader(h, t, 6, s, d)
  BY <1>1, IPHeaderReads, Zenon
<1>6. Len(a) >= 20 /\ Len(b) >= 20
  <2>1. Len(data) \in Nat /\ Len(a) = 20 + Len(data) /\ Len(b) = 20 + Len(data)
    BY <1>2, Zenon DEF Fits
  <2> QED
    BY ONLY <2>1, SMT
<1> HIDE DEF l, t, h, a, b
<1>7. IsInOrder(h \o a, 6, s, d, a) /\ IsInOrder(h \o b, 6, s, d, b)
  <2>1. t = 20 + Len(a) /\ t = 20 + Len(b) /\ a \in Seq(Byte) /\ b \in Seq(Byte)
    BY <1>2, Zenon DEF t
  <2>2. Fields(t, z, 6, s, d)
    BY <1>1
  <2> QED
    BY ONLY <2>1, <2>2, PacketPasses, Zenon DEF h
<1>8. /\ PutU16(h \o a, 36, z) = h \o PutU16(a, 16, z)
      /\ \A v \in Word : PutU16(h \o b, 36, v) = h \o PutU16(b, 16, v)
  <2>1. h \in Seq(Byte) /\ 16 \in Nat /\ 16 + 2 <= Len(a) /\ 16 + 2 <= Len(b) /\ 36 \in Nat /\ 36 = Len(h) + 16
    BY <1>5, <1>6, SMT DEF IsHeader
  <2>2. a \in Seq(Byte) /\ b \in Seq(Byte)
    BY <1>2, Zenon
  <2>3. PutU16(h \o a, 36, z) = h \o PutU16(a, 16, z)
    BY ONLY <2>1, <2>2, z \in Word, CatPutRight, SMTT(30)
  <2>4. \A v \in Word : PutU16(h \o b, 36, v) = h \o PutU16(b, 16, v)
    BY ONLY <2>1, <2>2, CatPutRight, SMTT(30)
  <2> QED
    BY <2>3, <2>4
<1>9. PICK c \in Word : c = InternetChecksum(Pseudo(s, d, 6, l) \o b)
  <2>1. Pseudo(s, d, 6, l) \in Seq(Byte)
    BY <1>1, PseudoType, ProtoType, Zenon
  <2>2. Pseudo(s, d, 6, l) \o b \in Seq(Byte)
    BY <1>2, <2>1, CatType, Zenon
  <2> QED
    BY <2>2, ChecksumType, Zenon
<1>10. TCPChecksum(h \o b) = c
  BY <1>2, <1>7, <1>9, Zenon DEF IsInOrder, TCPChecksum, PseudoChecksum, Pseudo
<1>11. InternetChecksum(Pseudo(s, d, 6, l) \o PutU16(b, 16, c)) = 0
  <2>1. 6 \in Byte /\ 16 \in Nat /\ 16 % 2 = 0 /\ 16 + 1 = 17 /\ 16 + 2 = 18
    BY ONLY SMT DEF Byte
  <2>2. 16 + 2 <= Len(b) /\ b[16 + 1] = 0 /\ b[16 + 2] = 0
    BY <1>4, <1>6, <2>1, SMT
  <2>3. b \in Seq(Byte) /\ l \in Word
    BY <1>1, <1>2
  <2>4. c = InternetChecksum(Pseudo(s, d, 6, l) \o b)
    BY <1>9
  <2> QED
    BY ONLY <2>1, <2>2, <2>3, <2>4, c \in Word, s \in Address, d \in Address, PseudoFills, Z3
<1>12. SetTCPChecksum(h \o a) = h \o PutU16(b, 16, c)
  <2> DEFINE w == h \o a
             u == h \o b
  <2>1. 20 + 16 = 36
    BY ONLY SMT
  <2>2. IPHeaderSize(w) + 16 = 36
    BY <1>7, <2>1, Zenon DEF IsInOrder
  <2>3. PutU16(w, 36, 0) = u
    BY <1>0, <1>3, <1>8, Zenon
  <2>4. TCPChecksum(u) = c
    BY <1>10
  <2> HIDE DEF w, u
  <2>5. SetTCPChecksum(w) = PutU16(u, 36, c)
    BY <2>2, <2>3, <2>4, Zenon DEF SetTCPChecksum
  <2> QED
    BY <1>8, <2>5, Zenon DEF w, u
<1> QED
  BY <1>0, <1>3, <1>11, <1>12, Zenon DEF TCPChecks, TCPPacket, l, t, h, a, b

\* What sendSegment makes, without FIN and with it.
LEMMA SegmentSent ==
  ASSUME NEW source \in Endpoint, NEW dest \in Endpoint, NEW n \in Word, NEW data, Fits(20, data),
         NEW p, p = NewTCP4Packet(64, source, dest, <<n, 1>>, <<1, n>>, n, data, {"ACK"})
  PROVE  /\ TCPPacket(p, source.ip, dest.ip, source.port, dest.port, n, 16, data)
         /\ TCPPacket(SetTCPChecksum(SubSeq(p, 1, IPHeaderSize(p)) \o SetFlag(IPPayload(p), "FIN", TRUE)),
                      source.ip, dest.ip, source.port, dest.port, n, 17, data)
<1> DEFINE s == source.ip
           d == dest.ip
           sp == source.port
           dp == dest.port
           t == 20 + (20 + Len(data))
<1>1. s \in Address /\ d \in Address /\ sp \in Word /\ dp \in Word
  BY EndpointType, Zenon
<1>0. PICK z \in Word : z = 0
  BY ZeroWord, Zenon
<1>2. 6 \in Byte /\ 16 \in Byte /\ 17 \in Byte
  BY SMT DEF Byte
<1>3. data \in Seq(Byte) /\ 20 + (20 + Len(data)) \in Word
  BY Zenon DEF Fits
<1> HIDE DEF s, d, sp, dp
<1> DEFINE b == TCPBody(sp, dp, n, 16, z, data)
<1>4. b \in Seq(Byte) /\ Len(b) = 20 + Len(data)
  <2>1. sp \in Word /\ dp \in Word /\ 16 \in Byte /\ Fits(20, data)
    BY <1>1, <1>2
  <2> QED
    BY ONLY <2>1, n \in Word, z \in Word, TCPBodyType, Z3
<1>5. Fields(t, z, 6, s, d)
  BY <1>1, <1>2, FitsFields, Zenon
<1>6. NewIPv4Packet(64, 6, s, d, b) = IPHeader(t, z, 6, s, d) \o b
  <2>1. b \in Seq(Byte) /\ 20 + Len(b) \in Word
    BY <1>3, <1>4, Zenon
  <2>2. 6 \in Byte /\ s \in Address /\ d \in Address
    BY <1>1, <1>2
  <2>3. NewIPv4Packet(64, 6, s, d, b) = IPHeader(20 + Len(b), 0, 6, s, d) \o b
    BY ONLY <2>1, <2>2, NewIPv4PacketIs, SMTT(20)
  <2> QED
    BY <1>0, <1>4, <2>3, Zenon
<1>7. p = SetTCPChecksum(IPHeader(t, z, 6, s, d) \o b)
  <2>1. FoldSet(LAMBDA f, r : SetFlag(r, f, TRUE),
          SetDataOffset(PutU16(PutU32(PutU32(PutU16(PutU16(Zeros(20), 0, sp), 2, dp), 4, <<n, 1>>),
                                      8, <<1, n>>), 14, n), 5), {"ACK"}) \o data = b
    BY <1>0, TCPHeadNew, Zenon DEF TCPBody
  <2> HIDE DEF b
  <2>2. p = SetTCPChecksum(NewIPv4Packet(64, 6, s, d, b))
    BY <2>1, Zenon DEF NewTCP4Packet, s, d, sp, dp
  <2> QED
    BY <1>6, <2>2, Zenon
<1>8. TCPPacket(p, s, d, sp, dp, n, 16, data)
  <2>1. s \in Address /\ d \in Address /\ sp \in Word /\ dp \in Word /\ 16 \in Byte /\ Fits(20, data)
    BY <1>1, <1>2
  <2>2. TCPPacket(SetTCPChecksum(IPHeader(t, 0, 6, s, d) \o b), s, d, sp, dp, n, 16, data)
    BY ONLY <2>1, n \in Word, z \in Word, SetTCPChecksumIs, Z3
  <2> QED
    BY <1>0, <1>7, <2>2, Zenon
<1>9. PICK c \in Word : p = IPHeader(t, 0, 6, s, d) \o TCPBody(sp, dp, n, 16, c, data)
  BY <1>8, Zenon DEF TCPPacket
<1> DEFINE h == IPHeader(t, z, 6, s, d)
           a == TCPBody(sp, dp, n, 16, c, data)
<1>10. p = h \o a
  BY <1>0, <1>9, Zenon
<1>11. a \in Seq(Byte) /\ h \in Seq(Byte) /\ Len(h) = 20 /\ h[1] = 69
  <2>1. a \in Seq(Byte)
    BY <1>1, <1>2, TCPBodyType, Zenon
  <2>2. IsHeader(h, t, 6, s, d)
    BY <1>5, IPHeaderReads, Zenon
  <2> QED
    BY <2>1, <2>2, Zenon DEF IsHeader
<1>12. SetFlag(a, "FIN", TRUE) = TCPBody(sp, dp, n, 17, c, data)
  <2> DEFINE g == TCPHead(sp, dp, n, 16, c)
  <2>1. g \in Seq(Byte) /\ Len(g) = 20
    BY <1>1, <1>2, TCPHeadType, Zenon
  <2>2. 8 - 8 = 0 /\ PutBit(16, 0, TRUE) = 17 /\ "FIN" # "NS"
    BY SMT DEF PutBit, HasBit, Bit
  <2>3. g[14] = 16 /\ With(g, 14, 17) = TCPHead(sp, dp, n, 17, c)
    BY SMT DEF TCPHead, With
  <2> HIDE DEF g
  <2>4. (g \o data)[14] = g[14] /\ With(g \o data, 14, 17) = With(g, 14, 17) \o data
    <3>1. g \in Seq(Byte) /\ 14 \in 1 .. Len(g)
      BY <2>1
    <3>2. data \in Seq(Byte) /\ 17 \in Byte
      BY <1>2, <1>3
    <3> QED
      BY ONLY <3>1, <3>2, CatType, CatSetLeft, Zenon
  <2>5. a = g \o data
    BY Zenon DEF TCPBody, g
  <2> HIDE DEF a
  <2>6. SetFlag(a, "FIN", TRUE) = With(a, 14, PutBit(a[14], 8 - FlagIndex("FIN"), TRUE))
    BY <2>2, Zenon DEF SetFlag, With
  <2> QED
    BY <2>2, <2>3, <2>4, <2>5, <2>6, FlagIndices, Zenon DEF TCPBody
<1> HIDE DEF h, a
<1>13. /\ IPHeaderSize(p) = 20 /\ IPPayload(p) = a
       /\ SubSeq(p, 1, 20) = h
  <2>1. IsPacket(p, h, a)
    BY <1>10, <1>11, PacketReads, Zenon
  <2>2. SubSeq(h \o a, 1, 20) = h
    <3>1. h \in Seq(Byte) /\ a \in Seq(Byte) /\ 20 = Len(h)
      BY <1>11
    <3> QED
      BY ONLY <3>1, CatFirst, Zenon
  <2> QED
    BY <1>10, <2>1, <2>2, Zenon DEF IsPacket
<1>14. TCPPacket(SetTCPChecksum(h \o TCPBody(sp, dp, n, 17, c, data)), s, d, sp, dp, n, 17, data)
  <2>1. h = IPHeader(20 + (20 + Len(data)), 0, 6, s, d)
    BY <1>0, Zenon DEF h, t
  <2> QED
    BY <1>1, <1>2, <2>1, SetTCPChecksumIs, Zenon
<1> QED
  BY <1>8, <1>12, <1>13, <1>14, Zenon DEF s, d, sp, dp

\* The packet w of a segment m.
Segment(w, m) ==
  \E n \in Word, fl \in {16, 17} :
    /\ m.seqNum = <<n, 1>> /\ m.ackNum = <<1, n>> /\ m.windowSize = n
    /\ fl = 16 => m.flags = {"ACK"}
    /\ fl = 17 => m.flags = {"ACK", "FIN"}
    /\ TCPPacket(w, m.source.ip, m.dest.ip, m.source.port, m.dest.port, n, fl, m.data)

\* The flags are a byte.
LEMMA FlagsType == {16, 17} \subseteq Byte
  BY SMT DEF Byte

\* What is read from a segment with header g.
LEMMA TCPReads ==
  ASSUME NEW w, NEW s, NEW d, NEW b, IsInOrder(w, 6, s, d, b),
         NEW g \in Seq(Byte), NEW data \in Seq(Byte), b = g \o data, Len(g) = 20, DataOffset(b) = 5
  PROVE  /\ TCPHeader(w) = g
         /\ TCPPayload(w) = data
         /\ TCPSource(w) = [ip |-> s, port |-> U16(g, 0)]
         /\ TCPDest(w) = [ip |-> d, port |-> U16(g, 2)]
         /\ TCPValid(w)
<1>1. IPPayload(w) = g \o data /\ IPSource(w) = s /\ IPDest(w) = d /\ IPValid(w)
  BY Zenon DEF IsInOrder
<1>2. SubSeq(g \o data, 1, Len(g)) = g /\ Drop(g \o data, Len(g)) = data /\ Len(g \o data) = Len(g) + Len(data)
  BY ONLY g \in Seq(Byte), data \in Seq(Byte), CatFirst, CatDrop, CatType, Zenon
<1>3. 4 * 5 = 20 /\ Len(g \o data) >= 20
  <2>1. Len(g \o data) = 20 + Len(data) /\ Len(data) \in Nat
    BY <1>2
  <2> QED
    BY ONLY <2>1, SMT
<1>4. 4 * DataOffset(g \o data) = Len(g)
  BY <1>3, Zenon
<1> QED
  BY <1>1, <1>2, <1>3, <1>4, Zenon DEF TCPHeader, TCPPayload, TCPSource, TCPDest, TCPValid

\* The data offset says that the header has five words.
LEMMA BodyOffset ==
  ASSUME NEW sp \in Word, NEW dp \in Word, NEW n \in Word, NEW fl \in Byte, NEW c \in Word,
         NEW data, Fits(20, data)
  PROVE  DataOffset(TCPBody(sp, dp, n, fl, c, data)) = 5
<1>1. TCPBody(sp, dp, n, fl, c, data)[13] = TCPHead(sp, dp, n, fl, c)[13]
  <2>1. 13 \in 1 .. 20
    BY ONLY SMT
  <2> QED
    BY <2>1, TCPBodyType, Z3
<1>2. TCPHead(sp, dp, n, fl, c)[13] = 80 /\ 80 \div 16 = 5
  BY SMT DEF TCPHead
<1> QED
  BY <1>1, <1>2, Zenon DEF DataOffset

\* Such a packet is accepted, and what was sent is read from it.
LEMMA SegmentArrives ==
  ASSUME NEW w, NEW m, Segment(w, m), m.source \in Endpoint, m.dest \in Endpoint, Fits(20, m.data)
  PROVE  /\ w \in Seq(Byte) /\ IPFilters(w, 6, m.dest.ip) /\ TCPAccepts(w)
         /\ TCPSource(w) = m.source /\ TCPDest(w) = m.dest
         /\ SeqNum(TCPHeader(w)) = m.seqNum /\ AckNum(TCPHeader(w)) = m.ackNum
         /\ WindowSize(TCPHeader(w)) = m.windowSize
         /\ TCPPayload(w) = m.data /\ Flags(TCPHeader(w)) = m.flags
<1> DEFINE s == m.source.ip
           d == m.dest.ip
           sp == m.source.port
           dp == m.dest.port
           data == m.data
           l == 20 + Len(data)
<1>1. /\ s \in Address /\ d \in Address /\ sp \in Word /\ dp \in Word
      /\ m.source = [ip |-> s, port |-> sp] /\ m.dest = [ip |-> d, port |-> dp]
  BY EndpointType, Zenon
<1>2. PICK n \in Word, fl \in {16, 17} :
        /\ m.seqNum = <<n, 1>> /\ m.ackNum = <<1, n>> /\ m.windowSize = n
        /\ fl = 16 => m.flags = {"ACK"}
        /\ fl = 17 => m.flags = {"ACK", "FIN"}
        /\ TCPPacket(w, s, d, sp, dp, n, fl, data)
  BY Zenon DEF Segment
<1>3. PICK c \in Word : /\ TCPChecks(s, d, sp, dp, n, fl, c, data)
                        /\ w = IPHeader(20 + l, 0, 6, s, d) \o TCPBody(sp, dp, n, fl, c, data)
  BY <1>2, Zenon DEF TCPPacket
<1>4. data \in Seq(Byte) /\ l \in Word /\ Fits(20, data) /\ fl \in Byte
  BY FlagsType, Zenon DEF Fits
<1> DEFINE g == TCPHead(sp, dp, n, fl, c)
           b == TCPBody(sp, dp, n, fl, c, data)
<1> HIDE DEF s, d, sp, dp, data
<1>5. g \in Seq(Byte) /\ Len(g) = 20
  BY <1>1, <1>4, TCPHeadType, Z3
<1>6. b \in Seq(Byte) /\ Len(b) = l /\ DataOffset(b) = 5 /\ b = g \o data
  <2>1. b \in Seq(Byte) /\ Len(b) = l
    BY <1>1, <1>4, TCPBodyType, Z3
  <2>2. DataOffset(b) = 5
    BY <1>1, <1>4, BodyOffset, Z3
  <2> QED
    BY <2>1, <2>2, Zenon DEF TCPBody
<1>7. IsInOrder(w, 6, s, d, b)
  <2>1. Fields(20 + l, 0, 6, s, d)
    BY <1>1, <1>4, FitsFields, ProtoType, ZeroWord, Z3
  <2>2. 20 + l = 20 + Len(b) /\ b \in Seq(Byte)
    BY <1>6, Zenon
  <2>3. IsInOrder(IPHeader(20 + l, 0, 6, s, d) \o b, 6, s, d, b)
    BY ONLY <2>1, <2>2, PacketPasses, Zenon
  <2> QED
    BY <1>3, <2>3, Zenon
<1>8. /\ U16(g, 0) = sp /\ U16(g, 2) = dp
      /\ SeqNum(g) = <<n, 1>> /\ AckNum(g) = <<1, n>> /\ WindowSize(g) = n
      /\ g[13] = 80 /\ g[14] = fl
  <2>1. sp \in Word /\ dp \in Word /\ n \in Word /\ c \in Word
    BY <1>1
  <2> QED
    BY ONLY <2>1, TCPHeadReads, Z3
<1> HIDE DEF g, b, l
<1>9. /\ TCPHeader(w) = g
      /\ TCPPayload(w) = data
      /\ TCPSource(w) = [ip |-> s, port |-> U16(g, 0)]
      /\ TCPDest(w) = [ip |-> d, port |-> U16(g, 2)]
      /\ TCPValid(w)
  BY <1>4, <1>5, <1>6, <1>7, TCPReads, Zenon
<1>10. TCPChecksum(w) = 0
  <2>1. TCPChecksum(w) = InternetChecksum(Pseudo(s, d, 6, Len(b)) \o b)
    BY <1>7, Zenon DEF IsInOrder, TCPChecksum, PseudoChecksum, Pseudo
  <2> QED
    BY <1>3, <1>6, <2>1, Zenon DEF TCPChecks, l, b
<1>11. Flags(g) = m.flags
  <2>1. CASE fl = 16
    BY <1>2, <1>8, <2>1, FlagsOf, Zenon
  <2>2. CASE fl = 17
    BY <1>2, <1>8, <2>2, FlagsOf, Zenon
  <2> QED
    BY <2>1, <2>2
<1>12. w \in Seq(Byte) /\ IPFilters(w, 6, d)
  BY <1>7, Zenon DEF IsInOrder
<1> QED
  BY <1>1, <1>2, <1>8, <1>9, <1>10, <1>11, <1>12, Zenon DEF TCPAccepts, s, d, sp, dp, data

\* One that was changed is not.
LEMMA SegmentChanged ==
  ASSUME NEW w, NEW m, Segment(w, m), m.source \in Endpoint, m.dest \in Endpoint, Fits(20, m.data),
         NEW k \in 2 .. Len(w), NEW x \in Byte, x # w[k]
  PROVE  ~(IPFilters(With(w, k, x), 6, m.dest.ip) /\ TCPAccepts(With(w, k, x)))
<1> DEFINE s == m.source.ip
           d == m.dest.ip
           sp == m.source.port
           dp == m.dest.port
           data == m.data
           l == 20 + Len(data)
           t == 20 + l
           v == With(w, k, x)
<1>1. s \in Address /\ d \in Address /\ sp \in Word /\ dp \in Word
  BY EndpointType, Zenon
<1>2. PICK n \in Word, fl \in {16, 17} : TCPPacket(w, s, d, sp, dp, n, fl, data)
  BY Zenon DEF Segment
<1>3. PICK c \in Word : /\ TCPChecks(s, d, sp, dp, n, fl, c, data)
                        /\ w = IPHeader(t, 0, 6, s, d) \o TCPBody(sp, dp, n, fl, c, data)
  BY <1>2, Zenon DEF TCPPacket
<1>4. l \in Word /\ Fits(20, data) /\ fl \in Byte
  BY FlagsType, Zenon DEF Fits
<1> DEFINE b == TCPBody(sp, dp, n, fl, c, data)
<1> HIDE DEF s, d, sp, dp, data
<1>5. b \in Seq(Byte) /\ Len(b) = l
  BY <1>1, <1>4, TCPBodyType, SMTT(30)
<1>6. Fields(t, 0, 6, s, d) /\ t = 20 + Len(b) /\ 6 \in Byte
  <2>1. Fields(t, 0, 6, s, d)
    BY <1>1, <1>4, FitsFields, ProtoType, ZeroWord, Z3
  <2> QED
    BY <1>5, <2>1, ProtoType, Zenon
<1>7. InternetChecksum(Pseudo(s, d, 6, l) \o b) = 0
  BY <1>3, Zenon DEF TCPChecks
<1>8. w = IPHeader(t, 0, 6, s, d) \o b
  BY <1>3, Zenon
<1> HIDE DEF b, l, t
<1>9. Len(w) = 20 + Len(b)
  <2>1. IsHeader(IPHeader(t, 0, 6, s, d), t, 6, s, d)
    BY <1>6, IPHeaderReads, Zenon
  <2> QED
    BY <1>5, <1>8, <2>1, PacketReads, Zenon DEF IsHeader, IsPacket
<1>10. x # (IPHeader(t, 0, 6, s, d) \o b)[k] /\ b \in Seq(Byte)
  BY <1>5, <1>8, Zenon
<1>11. Fields(t, 0, 6, s, d) /\ t = 20 + Len(b)
  BY <1>6
<1>12. CASE k \in 2 .. 20
  <2>1. ~IPFilters(With(IPHeader(t, 0, 6, s, d) \o b, k, x), 6, d)
    BY ONLY <1>10, <1>11, <1>12, x \in Byte, ChangedHeaderFails, Zenon
  <2> QED
    BY <1>8, <2>1, Zenon DEF d
<1>13. CASE k \notin 2 .. 20
  <2>1. PICK j \in 1 .. Len(b) :
          /\ x # b[j] /\ With(b, j, x) \in Seq(Byte) /\ Len(With(b, j, x)) = Len(b)
          /\ IsInOrder(v, 6, s, d, With(b, j, x))
    <3>1. k \in 21 .. 20 + Len(b)
      <4>1. b \in Seq(Byte) /\ Len(w) = 20 + Len(b)
        BY <1>9, <1>10
      <4> QED
        BY ONLY <4>1, k \in 2 .. Len(w), <1>13, BehindHeader, Zenon
    <3>2. \E j \in 1 .. Len(b) :
            /\ x # b[j] /\ With(b, j, x) \in Seq(Byte) /\ Len(With(b, j, x)) = Len(b)
            /\ IsInOrder(With(IPHeader(t, 0, 6, s, d) \o b, k, x), 6, s, d, With(b, j, x))
      BY ONLY <3>1, <1>10, <1>11, x \in Byte, ChangedBody, Zenon
    <3> QED
      BY <1>8, <3>2, Zenon
  <2> DEFINE e == With(b, j, x)
  <2>2. InternetChecksum(Pseudo(s, d, 6, l) \o e) # 0
    <3>1. s \in Address /\ d \in Address /\ 6 \in Byte /\ l \in Word /\ b \in Seq(Byte) /\ x # b[j]
      BY <1>1, <1>4, <1>5, <1>6, <2>1, Zenon
    <3> QED
      BY ONLY <1>7, <3>1, j \in 1 .. Len(b), x \in Byte, PseudoChange, Z3
  <2> HIDE DEF e, v
  <2>3. TCPChecksum(v) = InternetChecksum(Pseudo(s, d, 6, Len(e)) \o e)
    BY <2>1, Zenon DEF IsInOrder, TCPChecksum, PseudoChecksum, Pseudo, e
  <2>4. Len(e) = l
    BY <1>5, <2>1, Zenon DEF e
  <2> QED
    BY <2>2, <2>3, <2>4, Zenon DEF TCPAccepts, v
<1> QED
  BY <1>12, <1>13

-----------------------------------------------------------------------------
(* Pings *)

EchoHead(type, c) == <<type, 0, Hi(c), Lo(c), 0, 0, 0, 0>>

EchoBody(type, c, data) == EchoHead(type, c) \o data

EchoSum(type, data) == InternetChecksum(EchoBody(type, 0, data))

\* An echo's header has eight bytes.
LEMMA EchoHeadType ==
  ASSUME NEW type \in Byte, NEW c \in Word
  PROVE  EchoHead(type, c) \in Seq(Byte) /\ Len(EchoHead(type, c)) = 8
<1>1. PICK k \in Byte, l \in Byte : k = Hi(c) /\ l = Lo(c)
  BY Halves, SMT
<1>2. EchoHead(type, c) = <<type, 0, k, l, 0, 0, 0, 0>>
  BY <1>1, Zenon DEF EchoHead
<1>3. 0 \in Byte
  BY SMT DEF Byte
<1> QED
  BY <1>2, <1>3, SMT

\* The header and the data.
LEMMA EchoBodyType ==
  ASSUME NEW type \in Byte, NEW c \in Word, NEW data, Fits(8, data)
  PROVE  /\ EchoBody(type, c, data) \in Seq(Byte)
         /\ Len(EchoBody(type, c, data)) = 8 + Len(data)
         /\ \A i \in 1 .. 8 : EchoBody(type, c, data)[i] = EchoHead(type, c)[i]
<1> DEFINE h == EchoHead(type, c)
<1>1. h \in Seq(Byte) /\ Len(h) = 8
  BY EchoHeadType, Zenon
<1>2. data \in Seq(Byte)
  BY Zenon DEF Fits
<1> HIDE DEF h
<1>3. /\ h \o data \in Seq(Byte) /\ Len(h \o data) = Len(h) + Len(data)
      /\ \A i \in 1 .. Len(h) : (h \o data)[i] = h[i]
  <2>1. h \in Seq(Byte) /\ data \in Seq(Byte)
    BY <1>1, <1>2, Zenon
  <2> QED
    BY ONLY <2>1, CatType, Zenon
<1> QED
  BY <1>1, <1>3, Zenon DEF EchoBody, h

\* Another type or checksum.
LEMMA EchoBodyPut ==
  ASSUME NEW type \in Byte, NEW c \in Word, NEW data, Fits(8, data), NEW v \in Word, NEW a \in Byte
  PROVE  /\ PutU16(EchoBody(type, c, data), 2, v) = EchoBody(type, v, data)
         /\ With(EchoBody(type, c, data), 1, a) = EchoBody(a, c, data)
<1> DEFINE h == EchoHead(type, c)
<1>1. h \in Seq(Byte) /\ Len(h) = 8
  BY EchoHeadType, Zenon
<1>2. PutU16(h, 2, v) = EchoHead(type, v) /\ With(h, 1, a) = EchoHead(a, c)
  BY SMT DEF PutU16, EchoHead, Hi, Lo, With
<1> HIDE DEF h
<1>3. 2 \in Nat /\ 2 + 2 <= Len(h) /\ 1 \in 1 .. Len(h)
  BY <1>1, SMT
<1>4. h \in Seq(Byte) /\ data \in Seq(Byte)
  BY <1>1, Zenon DEF Fits
<1>5. PutU16(h \o data, 2, v) = PutU16(h, 2, v) \o data
  BY ONLY <1>3, <1>4, v \in Word, CatPutLeft, Zenon
<1>6. With(h \o data, 1, a) = With(h, 1, a) \o data
  BY ONLY <1>3, <1>4, a \in Byte, CatSetLeft, Zenon
<1> QED
  BY <1>2, <1>5, <1>6, Zenon DEF EchoBody, h

\* SetICMPChecksum makes the checksum 0, whatever was in its place.
LEMMA SetICMPChecksumIs ==
  ASSUME NEW type \in Byte, NEW c \in Word, NEW data, Fits(8, data)
  PROVE  /\ EchoSum(type, data) \in Word
         /\ SetICMPChecksum(EchoBody(type, c, data)) = EchoBody(type, EchoSum(type, data), data)
         /\ ICMPChecksum(EchoBody(type, EchoSum(type, data), data)) = 0
<1>0. PICK z \in Word : z = 0
  BY ZeroWord, Zenon
<1> DEFINE b == EchoBody(type, z, data)
<1>1. /\ b \in Seq(Byte) /\ Len(b) = 8 + Len(data)
      /\ \A i \in 1 .. 8 : b[i] = EchoHead(type, z)[i]
  BY EchoBodyType, Z3
<1>2. b[3] = 0 /\ b[4] = 0
  <2>1. EchoHead(type, z)[3] = 0 /\ EchoHead(type, z)[4] = 0
    BY <1>0, SMT DEF EchoHead, Hi, Lo
  <2>2. 3 \in 1 .. 8 /\ 4 \in 1 .. 8
    BY ONLY SMT
  <2> QED
    BY <1>1, <2>1, <2>2, Zenon
<1>3. PutU16(EchoBody(type, c, data), 2, z) = b
  BY EchoBodyPut, Z3
<1>4. \A v \in Word : PutU16(b, 2, v) = EchoBody(type, v, data)
  BY EchoBodyPut, Z3
<1>5. EchoSum(type, data) = InternetChecksum(b)
  BY <1>0, Zenon DEF EchoSum
<1> HIDE DEF b
<1>6. PICK v \in Word : v = InternetChecksum(b)
  BY <1>1, ChecksumType, Zenon
<1>7. InternetChecksum(PutU16(b, 2, v)) = 0
  <2>1. Len(data) \in Nat
    BY Zenon DEF Fits
  <2>2. 2 \in Nat /\ 2 % 2 = 0 /\ 2 + 2 <= Len(b) /\ 2 + 1 = 3 /\ 2 + 2 = 4
    BY <1>1, <2>1, SMT
  <2>3. b \in Seq(Byte) /\ b[2 + 1] = 0 /\ b[2 + 2] = 0
    BY <1>1, <1>2, <2>2, Zenon
  <2>4. InternetChecksum(PutU16(b, 2, InternetChecksum(b))) = 0
    BY ONLY <2>2, <2>3, PutFills, Zenon
  <2> QED
    BY <1>6, <2>4, Zenon
<1> QED
  BY <1>0, <1>3, <1>4, <1>5, <1>6, <1>7, Zenon DEF SetICMPChecksum, ICMPChecksum

\* The packet of a ping.
LEMMA PingIs ==
  ASSUME NEW s \in Address, NEW d \in Address, NEW type \in Byte, NEW data, Fits(8, data)
  PROVE  Ping(s, d, type, data)
           = IPHeader(20 + (8 + Len(data)), 0, 1, s, d) \o EchoBody(type, EchoSum(type, data), data)
<1>0. PICK z \in Word : z = 0
  BY ZeroWord, Zenon
<1> DEFINE b == EchoBody(type, EchoSum(type, data), data)
<1>1. (<<type>> \o Zeros(7)) \o data = EchoBody(type, z, data)
  <2>1. Zeros(7) = <<0, 0, 0, 0, 0, 0, 0>>
    BY SMT DEF Zeros
  <2>2. <<type>> \o <<0, 0, 0, 0, 0, 0, 0>> = <<type, 0, 0, 0, 0, 0, 0, 0>>
    <3> DEFINE a == <<type>>
               o == <<0, 0, 0, 0, 0, 0, 0>>
               g == <<type, 0, 0, 0, 0, 0, 0, 0>>
    <3>1. a \in Seq(Byte) /\ Len(a) = 1 /\ o \in Seq(Byte) /\ Len(o) = 7 /\ g \in Seq(Byte) /\ Len(g) = 8
      <4>1. 0 \in Byte
        BY SMT DEF Byte
      <4> QED
        BY <4>1, SMT
    <3>2. a[1] = g[1] /\ \A i \in 1 .. 7 : o[i] = g[1 + i]
      BY SMT
    <3> HIDE DEF a, o, g
    <3>3. /\ a \o o \in Seq(Byte) /\ Len(a \o o) = 1 + Len(o)
          /\ \A i \in 1 .. 1 : (a \o o)[i] = a[i]
          /\ \A i \in 1 .. Len(o) : (a \o o)[1 + i] = o[i]
      <4>1. a \in Seq(Byte) /\ o \in Seq(Byte)
        BY <3>1
      <4>2. /\ a \o o \in Seq(Byte) /\ Len(a \o o) = Len(a) + Len(o)
            /\ \A i \in 1 .. Len(a) : (a \o o)[i] = a[i]
            /\ \A i \in 1 .. Len(o) : (a \o o)[Len(a) + i] = o[i]
        BY ONLY <4>1, CatType, Zenon
      <4> QED
        BY <3>1, <4>2, Zenon
    <3>4. ASSUME NEW i \in 1 .. 8 PROVE (a \o o)[i] = g[i]
      <4>1. CASE i = 1
        BY <3>2, <3>3, <4>1
      <4>2. CASE i # 1
        <5>1. i - 1 \in 1 .. 7 /\ 1 + (i - 1) = i
          BY <4>2
        <5> QED
          BY <3>1, <3>2, <3>3, <5>1, Zenon
      <4> QED
        BY <4>1, <4>2
    <3>5. Len(a \o o) = 8
      BY <3>1, <3>3
    <3> QED
      BY <3>1, <3>3, <3>4, <3>5, SeqEqual DEF a, o, g
  <2>3. Hi(z) = 0 /\ Lo(z) = 0
    BY <1>0, SMT DEF Hi, Lo
  <2> QED
    BY <2>1, <2>2, <2>3, Zenon DEF EchoBody, EchoHead
<1>2. SetICMPChecksum((<<type>> \o Zeros(7)) \o data) = b
  BY <1>1, SetICMPChecksumIs, Zenon
<1>3. b \in Seq(Byte) /\ Len(b) = 8 + Len(data)
  <2>1. EchoSum(type, data) \in Word
    BY <1>0, SetICMPChecksumIs, Z3
  <2> QED
    BY <2>1, EchoBodyType, Zenon
<1> HIDE DEF b
<1>4. NewIPv4Packet(64, 1, s, d, b) = IPHeader(20 + Len(b), 0, 1, s, d) \o b
  <2>1. b \in Seq(Byte) /\ 20 + Len(b) \in Word
    BY <1>3, Zenon DEF Fits
  <2>2. 1 \in Byte
    BY ProtoType
  <2> QED
    BY ONLY <2>1, <2>2, s \in Address, d \in Address, NewIPv4PacketIs, Z3
<1> QED
  BY <1>2, <1>3, <1>4, Zenon DEF Ping, b

\* SetIPAddrs exchanges the addresses of a packet for others.
LEMMA SetIPAddrsIs ==
  ASSUME NEW t, NEW i, NEW p, NEW s, NEW d, Fields(t, i, p, s, d), NEW c \in Word,
         NEW b \in Seq(Byte), NEW x \in Address, NEW y \in Address
  PROVE  SetIPAddrs(Header(t, i, p, c, s, d) \o b, x, y) = Header(t, i, p, c, x, y) \o b
<1> DEFINE f == Fixed(t, i, p, c)
           a == s \o d
           h == f \o a
<1>1. f \in Seq(Byte) /\ Len(f) = 12
  BY FixedType, Zenon DEF Fields
<1>2. h \in Seq(Byte) /\ Len(h) = 20
  <2>1. Header(t, i, p, c, s, d) \in Seq(Byte) /\ Len(Header(t, i, p, c, s, d)) = 20
    BY HeaderType, Z3
  <2> QED
    BY <2>1, Zenon DEF Header
<1>3. a \in Seq(Byte)
  <2>1. s \in Seq(Byte) /\ d \in Seq(Byte)
    BY AddressType, Zenon DEF Fields
  <2> QED
    BY <2>1, CatType, Zenon
<1> HIDE DEF f, a
<1>4. SubSeq(h, 1, 12) = f
  BY <1>1, <1>3, CatFirst, Zenon
<1> HIDE DEF h
<1>5. SubSeq(h \o b, 1, 12) = SubSeq(h, 1, 12)
  <2>1. h \in Seq(Byte) /\ 1 \in Nat /\ 12 \in Nat /\ 1 <= 1 /\ 1 <= 12 /\ 12 <= Len(h)
    BY <1>2
  <2> QED
    BY ONLY <2>1, b \in Seq(Byte), CatSub, Zenon
<1>6. Drop(h \o b, 20) = b
  BY <1>2, CatDrop, Zenon
<1>7. x \in Seq(Byte) /\ y \in Seq(Byte)
  BY AddressType, Zenon
<1>8. ((f \o x) \o y) \o b = (f \o (x \o y)) \o b
  <2>1. f \in Seq(Byte)
    BY <1>1
  <2> QED
    BY ONLY <1>7, <2>1, b \in Seq(Byte), CatAssociates, SMTT(30)
<1>9. Header(t, i, p, c, s, d) = h /\ Header(t, i, p, c, x, y) = f \o (x \o y)
  BY Zenon DEF Header, h, f, a
<1> QED
  BY <1>4, <1>5, <1>6, <1>8, <1>9, Zenon DEF SetIPAddrs

\* A request is not a reply.
LEMMA EchoTypes == EchoRequest \in Byte /\ EchoReply \in Byte /\ EchoReply # EchoRequest
  BY SMT DEF EchoRequest, EchoReply, Byte

\* What the packet of a ping, or of the reply to one, is.
IsEcho(w, s, d, type, data) ==
  /\ w = IPHeader(20 + (8 + Len(data)), 0, 1, s, d) \o EchoBody(type, EchoSum(type, data), data)
  /\ Fields(20 + (8 + Len(data)), 0, 1, s, d)
  /\ EchoSum(type, data) \in Word
  /\ EchoBody(type, EchoSum(type, data), data) \in Seq(Byte)
  /\ Len(EchoBody(type, EchoSum(type, data), data)) >= 8
  /\ EchoBody(type, EchoSum(type, data), data)[1] = type
  /\ ICMPChecksum(EchoBody(type, EchoSum(type, data), data)) = 0
  /\ IsInOrder(w, 1, s, d, EchoBody(type, EchoSum(type, data), data))
  /\ Len(w) = 20 + Len(EchoBody(type, EchoSum(type, data), data))

\* Such a packet is in order.
LEMMA PingIsEcho ==
  ASSUME NEW s \in Address, NEW d \in Address, NEW type \in Byte, NEW data, Fits(8, data)
  PROVE  IsEcho(Ping(s, d, type, data), s, d, type, data)
<1> DEFINE c == EchoSum(type, data)
           b == EchoBody(type, c, data)
           w == Ping(s, d, type, data)
           t == 20 + (8 + Len(data))
<1>1. w = IPHeader(t, 0, 1, s, d) \o b
  BY PingIs, SMT
<1>2. c \in Word /\ ICMPChecksum(b) = 0
  <2>1. PICK z \in Word : z = 0
    BY ZeroWord, Zenon
  <2> QED
    BY SetICMPChecksumIs, Z3
<1>3. Fields(t, 0, 1, s, d)
  BY FitsFields, ProtoType, ZeroWord, Z3
<1> HIDE DEF c
<1>4. b \in Seq(Byte) /\ Len(b) = 8 + Len(data) /\ \A i \in 1 .. 8 : b[i] = EchoHead(type, c)[i]
  BY <1>2, EchoBodyType, Zenon
<1>5. b[1] = type
  <2>1. EchoHead(type, c)[1] = type /\ 1 \in 1 .. 8
    BY SMT DEF EchoHead
  <2> QED
    BY <1>4, <2>1, Zenon
<1> HIDE DEF b, w
<1>6. Len(b) >= 8
  <2>1. Len(data) \in Nat
    BY Zenon DEF Fits
  <2> QED
    BY <1>4, <2>1, SMT
<1> HIDE DEF t
<1>7. t = 20 + Len(b) /\ b \in Seq(Byte)
  BY <1>4, Zenon DEF t
<1>8. IsInOrder(IPHeader(t, 0, 1, s, d) \o b, 1, s, d, b)
  <2>1. Fields(t, 0, 1, s, d)
    BY <1>3
  <2> QED
    BY ONLY <1>7, <2>1, PacketPasses, Zenon
<1>9. Len(w) = 20 + Len(b)
  <2>1. IsHeader(IPHeader(t, 0, 1, s, d), t, 1, s, d)
    BY <1>3, IPHeaderReads, Zenon
  <2> QED
    BY <1>1, <1>7, <2>1, PacketReads, Zenon DEF IsHeader, IsPacket
<1> QED
  BY <1>1, <1>2, <1>3, <1>5, <1>6, <1>7, <1>8, <1>9, Zenon DEF IsEcho, c, b, w, t

\* A ping is answered by its reply.
LEMMA PingAnswered ==
  ASSUME NEW s \in Address, NEW d \in Address, NEW data, Fits(8, data)
  PROVE  /\ IPFilters(Ping(s, d, EchoRequest, data), 1, d)
         /\ RespondToPing(Ping(s, d, EchoRequest, data)) = Ping(d, s, EchoReply, data)
         /\ Ping(d, s, EchoReply, data) # << >>
<1> DEFINE w == Ping(s, d, EchoRequest, data)
           c == EchoSum(EchoRequest, data)
           m == EchoBody(EchoRequest, c, data)
           r == EchoBody(EchoReply, EchoSum(EchoReply, data), data)
           t == 20 + (8 + Len(data))
<1>1. IsEcho(w, s, d, EchoRequest, data) /\ IsEcho(Ping(d, s, EchoReply, data), d, s, EchoReply, data)
  BY EchoTypes, PingIsEcho, Zenon
<1>2. /\ w = IPHeader(t, 0, 1, s, d) \o m
      /\ Fields(t, 0, 1, s, d)
      /\ c \in Word
      /\ Len(m) >= 8 /\ m[1] = EchoRequest
      /\ ICMPChecksum(m) = 0
      /\ IsInOrder(w, 1, s, d, m)
  BY <1>1, Zenon DEF IsEcho
<1>3. Ping(d, s, EchoReply, data) = IPHeader(t, 0, 1, d, s) \o r /\ r \in Seq(Byte)
      /\ Fields(t, 0, 1, d, s)
  BY <1>1, Zenon DEF IsEcho
<1>4. SetICMPChecksum([m EXCEPT ![1] = EchoReply]) = r
  <2>1. With(m, 1, EchoReply) = EchoBody(EchoReply, c, data)
    BY <1>2, EchoTypes, EchoBodyPut, Z3
  <2>2. SetICMPChecksum(EchoBody(EchoReply, c, data)) = r
    BY <1>2, EchoTypes, SetICMPChecksumIs, Zenon
  <2> QED
    BY <2>1, <2>2, Zenon DEF With
<1>5. Ping(d, s, EchoReply, data) # << >>
  <2>1. Ping(d, s, EchoReply, data) \in Seq(Byte) /\ Len(Ping(d, s, EchoReply, data)) = 20 + Len(r) /\ Len(r) >= 8
    BY <1>1, Zenon DEF IsEcho, IsInOrder
  <2> HIDE DEF r
  <2>2. Len(Ping(d, s, EchoReply, data)) # 0
    BY <1>3, <2>1, SMT
  <2> QED
    BY <2>2, SMT
<1> HIDE DEF m, r, c, t, w
<1>6. IPHeaderSize(w) = 20 /\ IPPayload(w) = m /\ IPSource(w) = s /\ IPDest(w) = d /\ IPFilters(w, 1, d)
  BY <1>2, Zenon DEF IsInOrder
<1> DEFINE h == IPHeader(t, 0, 1, s, d)
<1>7. SubSeq(w, 1, 20) = h
  <2>1. IsHeader(h, t, 1, s, d)
    BY <1>2, IPHeaderReads, Zenon
  <2>2. m \in Seq(Byte)
    BY <1>1, Zenon DEF IsEcho, m, c
  <2>3. w = h \o m
    BY <1>2
  <2> HIDE DEF h
  <2>4. h \in Seq(Byte) /\ 20 = Len(h)
    BY <2>1, Zenon DEF IsHeader
  <2> QED
    BY <2>2, <2>3, <2>4, CatFirst, Zenon
<1>8. PICK k \in Word : h = Header(t, 0, 1, k, s, d)
  BY <1>2, IPHeaderChecks, Zenon DEF IPHeader
<1>9. SetIPAddrs(h \o r, d, s) = Header(t, 0, 1, k, d, s) \o r
  <2>1. Fields(t, 0, 1, s, d) /\ r \in Seq(Byte)
    BY <1>2, <1>3
  <2>2. SetIPAddrs(Header(t, 0, 1, k, s, d) \o r, d, s) = Header(t, 0, 1, k, d, s) \o r
    BY ONLY <2>1, k \in Word, s \in Address, d \in Address, SetIPAddrsIs, Z3
  <2> QED
    BY <1>8, <2>2, Zenon
<1>10. SetIPChecksum(Header(t, 0, 1, k, d, s) \o r) = IPHeader(t, 0, 1, d, s) \o r
  <2>1. Fields(t, 0, 1, d, s) /\ r \in Seq(Byte)
    BY <1>3
  <2> QED
    BY ONLY <2>1, k \in Word, SetIPChecksumIs, Z3
<1> HIDE DEF h
<1>11. RespondToPing(w) = SetIPChecksum(SetIPAddrs(SubSeq(w, 1, IPHeaderSize(w)) \o r, IPDest(w), IPSource(w)))
  BY <1>2, <1>4, <1>6, Zenon DEF RespondToPing
<1>12. RespondToPing(w) = SetIPChecksum(SetIPAddrs(h \o r, d, s))
  BY <1>6, <1>7, <1>11, Zenon
<1> QED
  BY <1>3, <1>5, <1>6, <1>9, <1>10, <1>12, Zenon DEF w, t, r

\* The reply is not answered.
LEMMA ReplyFinal ==
  ASSUME NEW s \in Address, NEW d \in Address, NEW data, Fits(8, data)
  PROVE  /\ IPFilters(Ping(s, d, EchoReply, data), 1, d)
         /\ RespondToPing(Ping(s, d, EchoReply, data)) = << >>
<1> DEFINE w == Ping(s, d, EchoReply, data)
<1>1. IsEcho(w, s, d, EchoReply, data)
  BY EchoTypes, PingIsEcho, Zenon
<1>2. IPFilters(w, 1, d) /\ IPPayload(w)[1] = EchoReply
  BY <1>1, Zenon DEF IsEcho, IsInOrder
<1> HIDE DEF w
<1>3. RespondToPing(w) = << >>
  BY <1>2, EchoTypes, Zenon DEF RespondToPing
<1> QED
  BY <1>2, <1>3, Zenon DEF w

\* A ping that was changed is not answered.
LEMMA PingChanged ==
  ASSUME NEW s \in Address, NEW d \in Address, NEW data, Fits(8, data), NEW w,
         w = Ping(s, d, EchoRequest, data), NEW k \in 2 .. Len(w), NEW x \in Byte, x # w[k]
  PROVE  ~IPFilters(With(w, k, x), 1, d) \/ RespondToPing(With(w, k, x)) = << >>
<1> DEFINE c == EchoSum(EchoRequest, data)
           b == EchoBody(EchoRequest, c, data)
           t == 20 + (8 + Len(data))
           v == With(w, k, x)
<1>1. IsEcho(w, s, d, EchoRequest, data)
  BY EchoTypes, PingIsEcho, Zenon
<1>2. /\ w = IPHeader(t, 0, 1, s, d) \o b
      /\ Fields(t, 0, 1, s, d)
      /\ b \in Seq(Byte)
      /\ ICMPChecksum(b) = 0
      /\ Len(w) = 20 + Len(b)
  BY <1>1, Zenon DEF IsEcho
<1>3. t = 20 + Len(b)
  <2>1. Len(b) = 8 + Len(data)
    <3>1. c \in Word
      BY <1>1, Zenon DEF IsEcho
    <3> QED
      BY <3>1, EchoTypes, EchoBodyType, Zenon
  <2> QED
    BY <2>1, Zenon
<1> HIDE DEF b, t
<1>4. x # (IPHeader(t, 0, 1, s, d) \o b)[k] /\ b \in Seq(Byte) /\ Fields(t, 0, 1, s, d) /\ t = 20 + Len(b)
  BY <1>2, <1>3, Zenon
<1>5. CASE k \in 2 .. 20
  <2>1. ~IPFilters(With(IPHeader(t, 0, 1, s, d) \o b, k, x), 1, d)
    BY ONLY <1>4, <1>5, x \in Byte, ChangedHeaderFails, Zenon
  <2> QED
    BY <1>2, <2>1, Zenon
<1>6. CASE k \notin 2 .. 20
  <2>1. PICK j \in 1 .. Len(b) :
          /\ x # b[j] /\ With(b, j, x) \in Seq(Byte) /\ Len(With(b, j, x)) = Len(b)
          /\ IsInOrder(v, 1, s, d, With(b, j, x))
    <3>1. k \in 21 .. 20 + Len(b)
      <4>1. b \in Seq(Byte) /\ Len(w) = 20 + Len(b)
        BY <1>2
      <4> QED
        BY ONLY <4>1, k \in 2 .. Len(w), <1>6, BehindHeader, Zenon
    <3>2. \E j \in 1 .. Len(b) :
            /\ x # b[j] /\ With(b, j, x) \in Seq(Byte) /\ Len(With(b, j, x)) = Len(b)
            /\ IsInOrder(With(IPHeader(t, 0, 1, s, d) \o b, k, x), 1, s, d, With(b, j, x))
      BY ONLY <3>1, <1>4, x \in Byte, ChangedBody, Zenon
    <3> QED
      BY <1>2, <3>2, Zenon
  <2>2. ICMPChecksum(With(b, j, x)) # 0
    <3>1. b \in Seq(Byte) /\ InternetChecksum(b) = 0 /\ x # b[j]
      BY <1>2, <2>1, Zenon DEF ICMPChecksum
    <3> QED
      BY ONLY <3>1, x \in Byte, j \in 1 .. Len(b), ChangeIsFound, Zenon DEF ICMPChecksum
  <2>3. IPPayload(v) = With(b, j, x)
    BY <2>1, Zenon DEF IsInOrder
  <2> HIDE DEF v
  <2> QED
    BY <2>2, <2>3, Zenon DEF RespondToPing, v
<1> QED
  BY <1>5, <1>6

-----------------------------------------------------------------------------
(* What is sent arrives or is dropped, and pings are answered once *)

\* What the assumption on the constants says of endpoints, numbers and payloads.
LEMMA Constants ==
  /\ \A e \in Endpoints : e \in Endpoint
  /\ \A n \in Numbers : n \in Word
  /\ \A data \in Payloads : Fits(8, data) /\ Fits(20, data)
<1>1. ASSUME NEW n \in Numbers PROVE n \in Word
  BY FormatsAssumption DEF Word
<1>2. ASSUME NEW e \in Endpoints PROVE e \in Endpoint
  BY FormatsAssumption DEF Endpoint, Address, Byte, Word
<1>3. ASSUME NEW data \in Payloads PROVE Fits(8, data) /\ Fits(20, data)
  <2>1. data \in Seq(Byte) /\ 20 + 20 + Len(data) <= 65535
    BY FormatsAssumption DEF Byte
  <2>2. PICK n \in Nat : n = Len(data)
    BY <2>1
  <2>3. 8 + n \in Word /\ 20 + (8 + n) \in Word /\ 20 + n \in Word /\ 20 + (20 + n) \in Word
    BY <2>1, <2>2, SMT DEF Word
  <2>4. data \in Seq(Byte) /\ Len(data) \in Nat
    BY <2>1
  <2> QED
    BY ONLY <2>2, <2>3, <2>4, Zenon DEF Fits
<1> QED
  BY <1>1, <1>2, <1>3, Zenon

\* The messages that IP packets carry.
PacketKinds == {"udp", "tcp", "ping"}

\* w is a packet of what was sent.
IsSent(w) ==
  \/ sent.kind = "udp" /\ Datagram(w, sent)
  \/ sent.kind = "tcp" /\ Segment(w, sent)
  \/ sent.kind = "ping" /\ w = Ping(sent.source.ip, sent.dest.ip, EchoRequest, sent.data)

\* What the fields of a packet that was sent are.
SentOK(m) ==
  /\ m.source \in Endpoint /\ m.dest \in Endpoint
  /\ Fits(8, m.data) /\ Fits(20, m.data)
  /\ m.kind = "udp" => m = [kind |-> "udp", source |-> m.source, dest |-> m.dest, data |-> m.data]
  /\ m.kind = "tcp" => m = [kind |-> "tcp", source |-> m.source, dest |-> m.dest,
                            seqNum |-> m.seqNum, ackNum |-> m.ackNum,
                            windowSize |-> m.windowSize, data |-> m.data, flags |-> m.flags]

\* At most one byte of it is another one on the wire.
OnWire(w) ==
  IF changed THEN \E k \in 2 .. Len(w), x \in Byte : x # w[k] /\ wire = With(w, k, x)
             ELSE wire = w

\* The invariant: on the wire is a packet of what was sent, but for one byte.
PacketsInv ==
  /\ sent = Nothing => got = Nothing /\ ~changed
  /\ sent.kind \in PacketKinds => SentOK(sent) /\ \E w \in Seq(Byte) : IsSent(w) /\ OnWire(w)
  /\ ArrivesOrIsDropped
  /\ RepliesAreFinal

\* Nothing has been sent.
LEMMA PacketsInit == FormatsInit => PacketsInv
BY SMT DEF FormatsInit, PacketsInv, ArrivesOrIsDropped, RepliesAreFinal, Nothing, PacketKinds

\* A packet that was sent is a sequence of bytes.
LEMMA SentType ==
  ASSUME NEW w, IsSent(w), SentOK(sent)
  PROVE  w \in Seq(Byte)
<1>1. CASE sent.kind = "udp" /\ Datagram(w, sent)
  BY <1>1, DatagramArrives, Zenon DEF SentOK
<1>2. CASE sent.kind = "tcp" /\ Segment(w, sent)
  BY <1>2, SegmentArrives, Zenon DEF SentOK
<1>3. CASE sent.kind = "ping" /\ w = Ping(sent.source.ip, sent.dest.ip, EchoRequest, sent.data)
  <2>1. sent.source.ip \in Address /\ sent.dest.ip \in Address /\ Fits(8, sent.data)
    BY EndpointType, Zenon DEF SentOK
  <2>2. IsEcho(w, sent.source.ip, sent.dest.ip, EchoRequest, sent.data)
    BY <1>3, <2>1, EchoTypes, PingIsEcho, Zenon
  <2> QED
    BY <2>2, Zenon DEF IsEcho, IsInOrder
<1> QED
  BY <1>1, <1>2, <1>3, Zenon DEF IsSent

\* A packet is sent.
LEMMA SendPacket ==
  ASSUME PacketsInv, sent = Nothing, NEW m, NEW w,
         Put(m, w), m.kind \in PacketKinds, SentOK(m), w \in Seq(Byte),
         \/ m.kind = "udp" /\ Datagram(w, m)
         \/ m.kind = "tcp" /\ Segment(w, m)
         \/ m.kind = "ping" /\ w = Ping(m.source.ip, m.dest.ip, EchoRequest, m.data)
  PROVE  PacketsInv'
<1>1. sent' = m /\ wire' = w /\ got' = Nothing /\ changed' = changed /\ ~changed
  BY Zenon DEF Put, PacketsInv
<1>2. m # Nothing
  BY SMT DEF Nothing, PacketKinds
<1>3. OnWire(w)' /\ IsSent(w)' /\ SentOK(sent)'
  BY <1>1, Zenon DEF OnWire, IsSent, SentOK
<1>4. ArrivesOrIsDropped' /\ RepliesAreFinal'
  BY <1>1, Zenon DEF ArrivesOrIsDropped, RepliesAreFinal, Nothing
<1> QED
  BY <1>1, <1>2, <1>3, <1>4, Zenon DEF PacketsInv

\* A connection writes a datagram.
LEMMA SendUDPStep ==
  ASSUME PacketsInv, sent = Nothing, NEW source \in Endpoints, NEW dest \in Endpoints,
         NEW data \in Payloads, NEW id \in Numbers, SendUDP(source, dest, data, id)
  PROVE  PacketsInv'
<1> DEFINE m == [kind |-> "udp", source |-> source, dest |-> dest, data |-> data]
           w == AddIdentifier(NewUDP4Packet(64, source, dest, data), id)
<1>1. m.kind = "udp" /\ m.source = source /\ m.dest = dest /\ m.data = data
  OBVIOUS
<1>2. Put(m, w)
  BY Zenon DEF SendUDP
<1> HIDE DEF m
<1>3. m.source \in Endpoint /\ m.dest \in Endpoint /\ Fits(8, m.data) /\ Fits(20, m.data) /\ id \in Word
  BY <1>1, Constants, Zenon
<1>4. Datagram(w, m)
  <2>1. Datagram(AddIdentifier(NewUDP4Packet(64, m.source, m.dest, m.data), id), m)
    BY ONLY <1>3, DatagramSent, Zenon
  <2> QED
    BY <1>1, <2>1, Zenon
<1> HIDE DEF w
<1>5. SentOK(m)
  <2>1. m = [kind |-> "udp", source |-> m.source, dest |-> m.dest, data |-> m.data]
    BY <1>1, Zenon DEF m
  <2>2. m.kind # "tcp"
    BY <1>1
  <2> QED
    BY <1>3, <2>1, <2>2, Zenon DEF SentOK
<1>6. w \in Seq(Byte)
  BY <1>3, <1>4, DatagramArrives, Zenon
<1>7. m.kind \in PacketKinds
  BY <1>1, Zenon DEF PacketKinds
<1> QED
  BY <1>1, <1>2, <1>4, <1>5, <1>6, <1>7, SendPacket, Zenon

\* A connection sends a segment.
LEMMA SendTCPStep ==
  ASSUME PacketsInv, sent = Nothing, NEW source \in Endpoints, NEW dest \in Endpoints,
         NEW data \in Payloads, NEW n \in Numbers, NEW fin \in BOOLEAN,
         SendTCP(source, dest, n, data, fin)
  PROVE  PacketsInv'
<1> DEFINE p == NewTCP4Packet(64, source, dest, <<n, 1>>, <<1, n>>, n, data, {"ACK"})
           q == SetTCPChecksum(SubSeq(p, 1, IPHeaderSize(p)) \o SetFlag(IPPayload(p), "FIN", TRUE))
           w == IF fin THEN q ELSE p
           flags == {"ACK"} \union (IF fin THEN {"FIN"} ELSE {})
           m == [kind |-> "tcp", source |-> source, dest |-> dest, seqNum |-> <<n, 1>>,
                 ackNum |-> <<1, n>>, windowSize |-> n, data |-> data, flags |-> flags]
<1>1. Put(m, w)
  BY Zenon DEF SendTCP
<1>2. /\ m.kind = "tcp" /\ m.source = source /\ m.dest = dest /\ m.data = data
      /\ m.seqNum = <<n, 1>> /\ m.ackNum = <<1, n>> /\ m.windowSize = n /\ m.flags = flags
  OBVIOUS
<1>3. m = [kind |-> "tcp", source |-> m.source, dest |-> m.dest, seqNum |-> m.seqNum,
           ackNum |-> m.ackNum, windowSize |-> m.windowSize, data |-> m.data, flags |-> m.flags]
  BY <1>2, Zenon
<1> HIDE DEF m
<1>4. m.source \in Endpoint /\ m.dest \in Endpoint /\ Fits(8, m.data) /\ Fits(20, m.data)
  BY <1>2, Constants, Zenon
<1>5. source \in Endpoint /\ dest \in Endpoint /\ Fits(20, data) /\ n \in Word
  BY Constants, Zenon
<1>0. p = NewTCP4Packet(64, source, dest, <<n, 1>>, <<1, n>>, n, data, {"ACK"})
  OBVIOUS
<1> HIDE DEF p
<1>6. /\ TCPPacket(p, source.ip, dest.ip, source.port, dest.port, n, 16, data)
      /\ TCPPacket(q, source.ip, dest.ip, source.port, dest.port, n, 17, data)
  BY ONLY <1>0, <1>5, SegmentSent, Zenon
<1> HIDE DEF q
<1>7. Segment(w, m)
  <2>1. CASE fin
    <3>1. w = q /\ flags = {"ACK", "FIN"}
      BY <2>1
    <3>2. TCPPacket(w, m.source.ip, m.dest.ip, m.source.port, m.dest.port, n, 17, m.data)
      BY <1>2, <1>6, <3>1, Zenon
    <3>3. 17 \in {16, 17} /\ 17 # 16
      OBVIOUS
    <3> QED
      BY ONLY <1>2, <1>5, <3>1, <3>2, <3>3, Zenon DEF Segment
  <2>2. CASE ~fin
    <3>1. w = p /\ flags = {"ACK"}
      BY <2>2
    <3>2. TCPPacket(w, m.source.ip, m.dest.ip, m.source.port, m.dest.port, n, 16, m.data)
      BY <1>2, <1>6, <3>1, Zenon
    <3>3. 16 \in {16, 17} /\ 16 # 17
      OBVIOUS
    <3> QED
      BY ONLY <1>2, <1>5, <3>1, <3>2, <3>3, Zenon DEF Segment
  <2> QED
    BY <2>1, <2>2
<1> HIDE DEF w, flags
<1>8. SentOK(m)
  <2>1. m.kind # "udp"
    BY <1>2
  <2> QED
    BY <1>3, <1>4, <2>1, Zenon DEF SentOK
<1>9. w \in Seq(Byte)
  BY <1>4, <1>7, SegmentArrives, Zenon
<1>10. m.kind \in PacketKinds
  BY <1>2, Zenon DEF PacketKinds
<1> QED
  BY <1>1, <1>2, <1>7, <1>8, <1>9, <1>10, SendPacket, Zenon

\* A ping is sent.
LEMMA SendPingStep ==
  ASSUME PacketsInv, sent = Nothing, NEW source \in Endpoints, NEW dest \in Endpoints,
         NEW data \in Payloads, SendPing(source, dest, data)
  PROVE  PacketsInv'
<1> DEFINE m == [kind |-> "ping", source |-> source, dest |-> dest, data |-> data]
           w == Ping(source.ip, dest.ip, EchoRequest, data)
<1>1. m.kind = "ping" /\ m.source = source /\ m.dest = dest /\ m.data = data
  OBVIOUS
<1>2. Put(m, w)
  BY Zenon DEF SendPing
<1> HIDE DEF m
<1>3. m.source \in Endpoint /\ m.dest \in Endpoint /\ Fits(8, m.data) /\ Fits(20, m.data)
  BY <1>1, Constants, Zenon
<1>4. w = Ping(m.source.ip, m.dest.ip, EchoRequest, m.data)
  BY <1>1, Zenon
<1> HIDE DEF w
<1>5. SentOK(m)
  <2>1. m.kind # "udp" /\ m.kind # "tcp"
    BY <1>1
  <2> QED
    BY <1>3, <2>1, Zenon DEF SentOK
<1>6. w \in Seq(Byte)
  <2>1. m.source.ip \in Address /\ m.dest.ip \in Address
    BY <1>3, EndpointType, Zenon
  <2>2. IsEcho(w, m.source.ip, m.dest.ip, EchoRequest, m.data)
    BY <1>3, <1>4, <2>1, EchoTypes, PingIsEcho, Zenon
  <2> QED
    BY <2>2, Zenon DEF IsEcho, IsInOrder
<1>7. m.kind \in PacketKinds
  BY <1>1, Zenon DEF PacketKinds
<1> QED
  BY <1>1, <1>2, <1>4, <1>5, <1>6, <1>7, SendPacket, Zenon

\* Of what is not a packet nothing is said.
LEMMA SendOther ==
  ASSUME PacketsInv, sent = Nothing, NEW m, NEW w, Put(m, w), m.kind \in {"dns", "name"}
  PROVE  PacketsInv'
<1>1. sent' = m /\ got' = Nothing /\ m.kind \notin PacketKinds /\ m # Nothing
  BY SMT DEF Put, PacketsInv, PacketKinds, Nothing
<1>2. ArrivesOrIsDropped' /\ RepliesAreFinal'
  BY <1>1, Zenon DEF ArrivesOrIsDropped, RepliesAreFinal
<1> QED
  BY <1>1, <1>2, Zenon DEF PacketsInv

\* Whatever is sent.
LEMMA SendStep == PacketsInv /\ sent = Nothing /\ Send => PacketsInv'
<1> SUFFICES ASSUME PacketsInv, sent = Nothing, Send PROVE PacketsInv'
  OBVIOUS
<1>1. ASSUME NEW source \in Endpoints, NEW dest \in Endpoints, NEW data \in Payloads,
             \/ \E n \in Numbers : SendUDP(source, dest, data, n)
             \/ \E n \in Numbers, fin \in BOOLEAN : SendTCP(source, dest, n, data, fin)
             \/ SendPing(source, dest, data)
      PROVE  PacketsInv'
  BY <1>1, SendUDPStep, SendTCPStep, SendPingStep, Zenon
<1>2. ASSUME NEW m \in Messages, SendMessage(m) PROVE PacketsInv'
  <2> DEFINE r == [kind |-> "dns", message |-> AutoFill(m)]
  <2>1. Put(r, Encode(AutoFill(m)))
    BY <1>2, Zenon DEF SendMessage
  <2>2. r.kind \in {"dns", "name"}
    OBVIOUS
  <2> QED
    BY <2>1, <2>2, SendOther, Zenon
<1>3. ASSUME NEW data \in NameBytes, SendName(data) PROVE PacketsInv'
  <2> DEFINE r == [kind |-> "name"]
  <2>1. Put(r, data)
    BY <1>3, Zenon DEF SendName
  <2>2. r.kind \in {"dns", "name"}
    OBVIOUS
  <2> QED
    BY <2>1, <2>2, SendOther, Zenon
<1> QED
  BY <1>1, <1>2, <1>3, Zenon DEF Send

\* A byte of the packet is changed.
LEMMA CorruptStep ==
  ASSUME PacketsInv, NEW i \in 2 .. Len(wire), NEW b \in {0, 255, (wire[i] + 1) % 256}, Corrupt(i, b)
  PROVE  PacketsInv'
<1>1. /\ sent.kind \in PacketKinds /\ sent' = sent /\ got = Nothing /\ got' = Nothing
      /\ ~changed /\ changed' = TRUE /\ b # wire[i] /\ wire' = With(wire, i, b)
  BY Zenon DEF Corrupt, With, PacketKinds
<1>2. SentOK(sent) /\ SentOK(sent)'
  BY <1>1, Zenon DEF PacketsInv, SentOK
<1>3. PICK w \in Seq(Byte) : IsSent(w) /\ wire = w
  BY <1>1, Zenon DEF PacketsInv, OnWire
<1>4. IsSent(w)'
  BY <1>1, <1>3, Zenon DEF IsSent
<1>5. w[i] \in Byte /\ b \in Byte
  <2>1. w[i] \in Byte
    <3>1. i \in 1 .. Len(w)
      BY <1>3
    <3> QED
      BY <3>1
  <2>2. PICK v \in Byte : v = w[i]
    BY <2>1, Zenon
  <2>3. b \in {0, 255, (v + 1) % 256}
    BY <1>3, <2>2, Zenon
  <2>4. b \in Byte
    BY ONLY <2>3, v \in Byte, SMT DEF Byte
  <2> QED
    BY <2>1, <2>4
<1>6. OnWire(w)'
  BY <1>1, <1>3, <1>5, Zenon DEF OnWire
<1>7. ArrivesOrIsDropped' /\ RepliesAreFinal'
  BY <1>1, Zenon DEF ArrivesOrIsDropped, RepliesAreFinal
<1>8. sent # Nothing
  BY <1>1, SMT DEF PacketKinds, Nothing
<1> QED
  BY <1>1, <1>2, <1>4, <1>6, <1>7, <1>8, Zenon DEF PacketsInv

\* What is received leaves the packet as it is.
LEMMA GetStep ==
  ASSUME PacketsInv, sent # Nothing, NEW g, Get(g), ArrivesOrIsDropped', RepliesAreFinal'
  PROVE  PacketsInv'
<1>1. sent' = sent /\ wire' = wire /\ changed' = changed
  BY Zenon DEF Get
<1>2. ASSUME sent.kind \in PacketKinds
      PROVE  SentOK(sent)' /\ \E w \in Seq(Byte) : IsSent(w)' /\ OnWire(w)'
  <2>1. SentOK(sent)
    BY <1>2, Zenon DEF PacketsInv
  <2>2. PICK w \in Seq(Byte) : IsSent(w) /\ OnWire(w)
    BY <1>2, Zenon DEF PacketsInv
  <2>3. SentOK(sent)'
    BY <1>1, <2>1, Zenon DEF SentOK
  <2>4. IsSent(w)'
    BY <1>1, <2>2, Zenon DEF IsSent
  <2>5. OnWire(w)'
    BY <1>1, <2>2, Zenon DEF OnWire
  <2> QED
    BY <2>3, <2>4, <2>5, Zenon
<1> QED
  BY <1>1, <1>2, Zenon DEF PacketsInv

\* A datagram is read, or dropped.
LEMMA ReceiveUDPStep ==
  ASSUME PacketsInv, got = Nothing, ReceiveUDP
  PROVE  PacketsInv'
<1> DEFINE g == IF IPFilters(wire, 17, sent.dest.ip) /\ UDPAccepts(wire)
                THEN [kind |-> "udp", source |-> UDPSource(wire), dest |-> UDPDest(wire),
                      data |-> UDPPayload(wire)]
                ELSE Dropped
<1>1. sent.kind = "udp" /\ Get(g)
  BY Zenon DEF ReceiveUDP
<1>2. got' = g /\ sent' = sent /\ changed' = changed
  BY <1>1, Zenon DEF Get
<1>3. SentOK(sent) /\ \E w \in Seq(Byte) : IsSent(w) /\ OnWire(w)
  BY <1>1, Zenon DEF PacketsInv, PacketKinds
<1>4. PICK w \in Seq(Byte) : Datagram(w, sent) /\ OnWire(w)
  BY <1>1, <1>3, SMT DEF IsSent
<1>5. /\ sent.source \in Endpoint /\ sent.dest \in Endpoint /\ Fits(8, sent.data)
      /\ sent = [kind |-> "udp", source |-> sent.source, dest |-> sent.dest, data |-> sent.data]
  BY <1>1, <1>3, Zenon DEF SentOK
<1>6. g = sent \/ (changed /\ g = Dropped)
  <2>1. CASE ~changed
    <3>1. wire = w
      BY <1>4, <2>1, Zenon DEF OnWire
    <3>2. /\ IPFilters(w, 17, sent.dest.ip) /\ UDPAccepts(w)
          /\ UDPSource(w) = sent.source /\ UDPDest(w) = sent.dest /\ UDPPayload(w) = sent.data
      BY ONLY <1>4, <1>5, DatagramArrives, Zenon
    <3>3. g = [kind |-> "udp", source |-> sent.source, dest |-> sent.dest, data |-> sent.data]
      BY <3>1, <3>2, Zenon
    <3> QED
      BY ONLY <1>5, <3>3, Zenon
  <2>2. CASE changed
    <3>1. PICK k \in 2 .. Len(w), x \in Byte : x # w[k] /\ wire = With(w, k, x)
      BY <1>4, <2>2, Zenon DEF OnWire
    <3>2. \/ ~(IPFilters(wire, 17, sent.dest.ip) /\ UDPAccepts(wire))
          \/ /\ UDPSource(wire) = sent.source /\ UDPDest(wire) = sent.dest
             /\ UDPPayload(wire) = sent.data
      BY ONLY <1>4, <1>5, <3>1, DatagramChanged, Zenon
    <3>3. g = Dropped \/ g = [kind |-> "udp", source |-> sent.source, dest |-> sent.dest, data |-> sent.data]
      BY <3>2, Zenon
    <3> QED
      BY ONLY <1>5, <2>2, <3>3, Zenon
  <2> QED
    BY <2>1, <2>2
<1> HIDE DEF g
<1>7. ArrivesOrIsDropped' /\ RepliesAreFinal'
  BY <1>1, <1>2, <1>6 DEF ArrivesOrIsDropped, RepliesAreFinal
<1>8. sent # Nothing
  BY <1>1 DEF Nothing
<1> QED
  BY <1>1, <1>7, <1>8, GetStep, Zenon

\* A segment is received, or dropped.
LEMMA ReceiveTCPStep ==
  ASSUME PacketsInv, got = Nothing, ReceiveTCP
  PROVE  PacketsInv'
<1> DEFINE h == TCPHeader(wire)
           r == [kind |-> "tcp", source |-> TCPSource(wire), dest |-> TCPDest(wire),
                 seqNum |-> SeqNum(h), ackNum |-> AckNum(h), windowSize |-> WindowSize(h),
                 data |-> TCPPayload(wire), flags |-> Flags(h)]
           g == IF IPFilters(wire, 6, sent.dest.ip) /\ TCPAccepts(wire) THEN r ELSE Dropped
<1>1. sent.kind = "tcp" /\ Get(g)
  BY Zenon DEF ReceiveTCP
<1>2. got' = g /\ sent' = sent /\ changed' = changed
  BY <1>1, Zenon DEF Get
<1>3. SentOK(sent) /\ \E w \in Seq(Byte) : IsSent(w) /\ OnWire(w)
  BY <1>1, Zenon DEF PacketsInv, PacketKinds
<1>4. PICK w \in Seq(Byte) : Segment(w, sent) /\ OnWire(w)
  BY <1>1, <1>3, SMT DEF IsSent
<1>5. /\ sent.source \in Endpoint /\ sent.dest \in Endpoint /\ Fits(20, sent.data)
      /\ sent = [kind |-> "tcp", source |-> sent.source, dest |-> sent.dest,
                 seqNum |-> sent.seqNum, ackNum |-> sent.ackNum,
                 windowSize |-> sent.windowSize, data |-> sent.data, flags |-> sent.flags]
  BY <1>1, <1>3, Zenon DEF SentOK
<1>6. g = sent \/ (changed /\ g = Dropped)
  <2>1. CASE ~changed
    <3>1. wire = w
      BY <1>4, <2>1, Zenon DEF OnWire
    <3>2. /\ IPFilters(wire, 6, sent.dest.ip) /\ TCPAccepts(wire)
          /\ TCPSource(wire) = sent.source /\ TCPDest(wire) = sent.dest
          /\ SeqNum(h) = sent.seqNum /\ AckNum(h) = sent.ackNum /\ WindowSize(h) = sent.windowSize
          /\ TCPPayload(wire) = sent.data /\ Flags(h) = sent.flags
      BY ONLY <1>4, <1>5, <3>1, SegmentArrives, Zenon
    <3> HIDE DEF h
    <3>3. g = [kind |-> "tcp", source |-> sent.source, dest |-> sent.dest,
               seqNum |-> sent.seqNum, ackNum |-> sent.ackNum,
               windowSize |-> sent.windowSize, data |-> sent.data, flags |-> sent.flags]
      BY <3>2, Zenon
    <3> QED
      BY ONLY <1>5, <3>3, Zenon
  <2>2. CASE changed
    <3>1. PICK k \in 2 .. Len(w), x \in Byte : x # w[k] /\ wire = With(w, k, x)
      BY <1>4, <2>2, Zenon DEF OnWire
    <3>2. ~(IPFilters(wire, 6, sent.dest.ip) /\ TCPAccepts(wire))
      BY ONLY <1>4, <1>5, <3>1, SegmentChanged, Zenon
    <3> HIDE DEF r
    <3>3. g = Dropped
      BY <3>2, Zenon
    <3> QED
      BY ONLY <2>2, <3>3, Zenon
  <2> QED
    BY <2>1, <2>2
<1> HIDE DEF g
<1>7. ArrivesOrIsDropped' /\ RepliesAreFinal'
  BY <1>1, <1>2, <1>6 DEF ArrivesOrIsDropped, RepliesAreFinal
<1>8. sent # Nothing
  BY <1>1 DEF Nothing
<1> QED
  BY <1>1, <1>7, <1>8, GetStep, Zenon

\* A ping is answered, or dropped.
LEMMA RespondStep ==
  ASSUME PacketsInv, got = Nothing, Respond
  PROVE  PacketsInv'
<1> DEFINE p == RespondToPing(wire)
           g == IF IPFilters(wire, 1, sent.dest.ip) /\ p # << >>
                THEN [kind |-> "reply", packet |-> p] ELSE Dropped
           s == sent.source.ip
           d == sent.dest.ip
           reply == Ping(d, s, EchoReply, sent.data)
<1>1. sent.kind = "ping" /\ Get(g)
  BY Zenon DEF Respond
<1>2. got' = g /\ sent' = sent /\ changed' = changed
  BY <1>1, Zenon DEF Get
<1>3. SentOK(sent) /\ \E w \in Seq(Byte) : IsSent(w) /\ OnWire(w)
  BY <1>1, Zenon DEF PacketsInv, PacketKinds
<1>4. PICK w \in Seq(Byte) : w = Ping(s, d, EchoRequest, sent.data) /\ OnWire(w)
  BY <1>1, <1>3, SMT DEF IsSent
<1>5. s \in Address /\ d \in Address /\ Fits(8, sent.data)
  BY <1>3, EndpointType, Zenon DEF SentOK
<1> HIDE DEF p, s, d
<1>6. IF changed THEN g = Dropped ELSE g = [kind |-> "reply", packet |-> reply]
  <2>1. CASE ~changed
    <3>1. wire = w
      BY <1>4, <2>1, Zenon DEF OnWire
    <3>2. IPFilters(wire, 1, d) /\ RespondToPing(wire) = reply /\ reply # << >>
      BY ONLY <1>4, <1>5, <3>1, PingAnswered, Zenon
    <3> QED
      BY <2>1, <3>2, Zenon DEF p, d
  <2>2. CASE changed
    <3>1. PICK k \in 2 .. Len(w), x \in Byte : x # w[k] /\ wire = With(w, k, x)
      BY <1>4, <2>2, Zenon DEF OnWire
    <3>2. ~IPFilters(wire, 1, d) \/ RespondToPing(wire) = << >>
      BY ONLY <1>4, <1>5, <3>1, PingChanged, Zenon
    <3> QED
      BY <2>2, <3>2, Zenon DEF p, d
  <2> QED
    BY <2>1, <2>2
<1>7. IPFilters(reply, 1, s) /\ RespondToPing(reply) = << >>
  BY <1>5, ReplyFinal, Zenon
<1> HIDE DEF g, reply
<1>8. ArrivesOrIsDropped' /\ RepliesAreFinal'
  <2>1. sent' = sent /\ got' = g /\ changed' = changed
    BY <1>2
  <2>2. ArrivesOrIsDropped'
    BY <1>1, <2>1 DEF ArrivesOrIsDropped
  <2>3. CASE changed
    BY <1>6, <2>1, <2>2, <2>3, Zenon DEF RepliesAreFinal
  <2>4. CASE ~changed
    <3>1. g = [kind |-> "reply", packet |-> reply]
      BY <1>6, <2>4
    <3>2. g.packet = reply
      BY <3>1
    <3> QED
      BY <1>7, <2>1, <2>2, <2>4, <3>1, <3>2, Zenon DEF RepliesAreFinal, reply, s, d
  <2> QED
    BY <2>3, <2>4
<1>9. sent # Nothing
  BY <1>1 DEF Nothing
<1> QED
  BY <1>1, <1>8, <1>9, GetStep, Zenon

\* What is not a packet is none when it was received.
LEMMA ReceiveOther ==
  ASSUME PacketsInv, NEW g, Get(g), sent.kind \in {"dns", "name"}
  PROVE  PacketsInv'
<1>1. sent' = sent /\ sent.kind \notin PacketKinds /\ sent # Nothing
  BY SMT DEF Get, PacketKinds, Nothing
<1>2. ArrivesOrIsDropped' /\ RepliesAreFinal'
  BY <1>1, SMT DEF ArrivesOrIsDropped, RepliesAreFinal, PacketKinds
<1> QED
  BY <1>1, <1>2, GetStep, Zenon

\* Every step keeps the invariant.
LEMMA PacketsStep == PacketsInv /\ [FormatsNext]_formatsVars => PacketsInv'
<1> SUFFICES ASSUME PacketsInv, [FormatsNext]_formatsVars PROVE PacketsInv'
  OBVIOUS
<1>1. CASE sent = Nothing /\ Send
  BY <1>1, SendStep, Zenon
<1>2. CASE got = Nothing /\ Receive
  <2>1. CASE ReceiveUDP
    BY <1>2, <2>1, ReceiveUDPStep, Zenon
  <2>2. CASE ReceiveTCP
    BY <1>2, <2>2, ReceiveTCPStep, Zenon
  <2>3. CASE Respond
    BY <1>2, <2>3, RespondStep, Zenon
  <2>4. ASSUME NEW k \in 0 .. Len(wire) + 1, ReceiveMessage(k) PROVE PacketsInv'
    <3>1. sent.kind \in {"dns", "name"}
      BY <2>4, Zenon DEF ReceiveMessage
    <3> QED
      BY <2>4, <3>1, ReceiveOther, Zenon DEF ReceiveMessage
  <2>5. ASSUME NEW off \in 0 .. Len(wire), ReceiveName(off) PROVE PacketsInv'
    <3>1. sent.kind \in {"dns", "name"}
      BY <2>5, Zenon DEF ReceiveName
    <3> QED
      BY <2>5, <3>1, ReceiveOther, Zenon DEF ReceiveName
  <2> QED
    BY <1>2, <2>1, <2>2, <2>3, <2>4, <2>5, Zenon DEF Receive
<1>3. ASSUME NEW i \in 2 .. Len(wire), NEW b \in {0, 255, (wire[i] + 1) % 256}, Corrupt(i, b)
      PROVE  PacketsInv'
  BY <1>3, CorruptStep, Zenon
<1>4. CASE UNCHANGED formatsVars
  <2>1. sent' = sent /\ wire' = wire /\ changed' = changed /\ got' = got
    BY <1>4, Zenon DEF formatsVars
  <2> QED
    BY <2>1, Zenon DEF PacketsInv, SentOK, IsSent, OnWire, ArrivesOrIsDropped, RepliesAreFinal
<1> QED
  BY <1>1, <1>2, <1>3, <1>4, Zenon DEF FormatsNext

\* It holds in every state.
LEMMA PacketsAlways == FormatsSpec => []PacketsInv
BY PacketsInit, PacketsStep, PTL DEF FormatsSpec

\* A datagram of NewUDP4Packet and AddIdentifier, and a segment of NewTCP4Packet
\* whose FIN sendSegment may have set, pass the filters of the network and of the
\* connection it is for and are read as they were written, whatever their data;
\* one with a changed byte is dropped, unless the change is one that leaves what
\* is read the same.
THEOREM WhatArrivesIsWhatWasSent == FormatsSpec => []ArrivesOrIsDropped
<1>1. PacketsInv => ArrivesOrIsDropped
  BY Zenon DEF PacketsInv
<1> QED
  BY <1>1, PacketsAlways, PTL

\* RespondToPing answers each ping with its data, in a packet whose checksums are
\* right, and does not answer that; it answers none that has a changed byte.
THEOREM PingsAreAnsweredOnce == FormatsSpec => []RepliesAreFinal
<1>1. PacketsInv => RepliesAreFinal
  BY Zenon DEF PacketsInv
<1> QED
  BY <1>1, PacketsAlways, PTL

-----------------------------------------------------------------------------
(* The descriptor *)

Using == {t \in Threads : pc[t] # "idle"}

IInv ==
  /\ FdTypeOK
  /\ refCount = Cardinality(Using)
  /\ closes = IF closed /\ Using = {} THEN 1 ELSE 0

\* The goroutines inside operate are finitely many.
LEMMA UsingFinite == IsFiniteSet(Using)
BY ThreadsAssumption, FS_Subset DEF Using

\* One goroutine more, or one less, is one more or one less to count.
LEMMA CountOneMore ==
  ASSUME NEW S, IsFiniteSet(S), NEW t, t \notin S
  PROVE  Cardinality(S \union {t}) = Cardinality(S) + 1
BY FS_AddElement

LEMMA CountOneLess ==
  ASSUME NEW S, IsFiniteSet(S), NEW t, t \in S
  PROVE  /\ Cardinality(S \ {t}) = Cardinality(S) - 1
         /\ Cardinality(S) - 1 \in Nat
         /\ Cardinality(S) - 1 = 0 <=> S \ {t} = {}
<1>1. Cardinality(S \ {t}) = Cardinality(S) - 1
  BY FS_RemoveElement
<1>2. IsFiniteSet(S \ {t})
  BY FS_RemoveElement
<1>3. Cardinality(S \ {t}) \in Nat
  BY <1>2, FS_CardinalityType
<1>4. Cardinality(S \ {t}) = 0 <=> S \ {t} = {}
  BY <1>2, FS_EmptySet
<1> QED
  BY <1>1, <1>3, <1>4

LEMMA InitIInv == FdInit => IInv
<1> SUFFICES ASSUME FdInit PROVE IInv
  OBVIOUS
<1>1. Using = {}
  BY DEF FdInit, Using
<1>2. Cardinality(Using) = 0
  BY <1>1, FS_EmptySet
<1>3. FdTypeOK
  BY DEF FdInit, FdTypeOK, Places
<1> QED
  BY <1>1, <1>2, <1>3 DEF FdInit, IInv

\* operate takes its reference: the goroutine was idle, and joins the others.
LEMMA BeginStep ==
  ASSUME IInv, NEW t \in Threads, NEW place \in {"use", "shutdown"}, Begin(t, place)
  PROVE  IInv'
<1>1. FdTypeOK'
  BY DEF IInv, FdTypeOK, Begin, Goto, Places
<1>2. Using' = Using \union {t} /\ t \notin Using
  BY DEF IInv, FdTypeOK, Begin, Goto, Using
<1>3. Cardinality(Using') = Cardinality(Using) + 1
  BY <1>2, UsingFinite, CountOneMore
<1>4. refCount' = Cardinality(Using')
  BY <1>3 DEF IInv, Begin
<1>5. ~closed /\ ~closed' /\ closes' = closes
  BY DEF IInv, FdTypeOK, Begin
<1> QED
  BY <1>1, <1>4, <1>5 DEF IInv

\* A step inside operate: the same goroutines are inside, and one of them is t.
LEMMA InsideStep ==
  ASSUME IInv, NEW t \in Threads, Use(t) \/ Shutdown(t) \/ MarkClosed(t)
  PROVE  IInv'
<1>1. FdTypeOK'
  BY DEF IInv, FdTypeOK, Use, Shutdown, MarkClosed, Goto, Places
<1>2. Using' = Using /\ t \in Using
  BY DEF IInv, FdTypeOK, Use, Shutdown, MarkClosed, Goto, Using
<1>3. closes' = closes /\ refCount' = refCount
  BY DEF Use, Shutdown, MarkClosed
<1>4. Using # {} /\ Using' # {}
  BY <1>2
<1>5. refCount' = Cardinality(Using')
  BY <1>2, <1>3 DEF IInv
<1>6. closes = 0
  BY <1>4 DEF IInv
<1>7. closes' = IF closed' /\ Using' = {} THEN 1 ELSE 0
  BY <1>3, <1>4, <1>6
<1> QED
  BY <1>1, <1>5, <1>7 DEF IInv

\* The deferred function: t leaves, and closes the descriptor if nobody is left.
LEMMA ReleaseStep ==
  ASSUME IInv, NEW t \in Threads, Release(t)
  PROVE  IInv'
<1>1. Using' = Using \ {t} /\ t \in Using
  BY DEF IInv, FdTypeOK, Release, Goto, Using
<1>2. /\ Cardinality(Using') = Cardinality(Using) - 1
      /\ Cardinality(Using) - 1 \in Nat
      /\ Cardinality(Using) - 1 = 0 <=> Using' = {}
  BY <1>1, UsingFinite, CountOneLess
<1>3. refCount' = Cardinality(Using) - 1
  BY DEF IInv, Release
<1>4. refCount' = Cardinality(Using')
  BY <1>2, <1>3
<1>5. closes = 0 /\ closed' = closed
  BY <1>1 DEF IInv, Release
<1>6. closes' = IF closed' /\ Using' = {} THEN 1 ELSE 0
  <2>1. refCount' = 0 <=> Using' = {}
    BY <1>2, <1>3
  <2>2. closes' = IF closed /\ refCount' = 0 THEN closes + 1 ELSE closes
    BY DEF Release
  <2>3. closes' = IF closed /\ Using' = {} THEN closes + 1 ELSE closes
    BY <2>1, <2>2, Zenon
  <2>4. closes + 1 = 1
    BY <1>5
  <2> QED
    BY <1>5, <2>3, <2>4
<1>7. refCount' \in Nat
  BY <1>2, <1>3
<1>8. FdTypeOK'
  BY <1>6, <1>7 DEF IInv, FdTypeOK, Release, Goto, Places
<1> QED
  BY <1>4, <1>6, <1>8 DEF IInv

LEMMA NextIInv == IInv /\ [FdNext]_fdVars => IInv'
<1> SUFFICES ASSUME IInv, [FdNext]_fdVars PROVE IInv'
  OBVIOUS
<1>1. CASE FdNext
  BY <1>1, BeginStep, InsideStep, ReleaseStep DEF FdNext
<1>2. CASE UNCHANGED fdVars
  BY <1>2 DEF fdVars, IInv, FdTypeOK, Using
<1> QED
  BY <1>1, <1>2

LEMMA Invariance == FdSpec => []IInv
BY InitIInv, NextIInv, PTL DEF FdSpec

\* A reference count never goes below zero, and nobody leaves operate's places.
THEOREM FdTypeCorrect == FdSpec => []FdTypeOK
<1>1. IInv => FdTypeOK
  BY DEF IInv
<1> QED
  BY <1>1, Invariance, PTL

\* No goroutine makes a system call on a descriptor that was closed, and it is
\* closed once, before the last one has left, for any number of goroutines that
\* operate on the tunnel and close it.
THEOREM DescriptorIsClosedOnce == FdSpec => []ClosedOnceUnused
<1>1. IInv => ClosedOnceUnused
  <2>1. IInv => \A t \in Threads : pc[t] \in {"use", "shutdown"} => closes = 0
    BY DEF IInv, Using
  <2>2. IInv => closes <= 1 /\ (closed /\ (\A t \in Threads : pc[t] = "idle") => closes = 1)
    BY DEF IInv, Using
  <2> QED
    BY <2>1, <2>2 DEF ClosedOnceUnused
<1> QED
  BY <1>1, Invariance, PTL

----------------------------------------------------------------------------
(* The stream *)

\* What a goroutine calls on the tunnel is a step of it, or refused by it.
LEMMA OperateStep ==
  ASSUME NEW t \in Threads, NEW place \in {"use", "shutdown"}, NEW there,
         Operate(t, place, there)
  PROVE  [FdNext]_fdVars
BY DEF Operate, FdNext

LEMMA InsideIsFdStep ==
  ASSUME NEW t \in Threads, Inside(t)
  PROVE  FdNext
BY DEF Inside, FdNext

LEMMA LoopThreads == R \in Threads /\ W \in Threads
BY StreamAssumption

LEMMA CallerThreads == Closers \subseteq Threads /\ Users \subseteq Threads
BY StreamAssumption

LEMMA StepIsFdStep == [Next]_vars => [FdNext]_fdVars
<1> SUFFICES ASSUME [Next]_vars PROVE [FdNext]_fdVars
  OBVIOUS
<1>1. ASSUME NEW t \in Threads, Inside(t) PROVE [FdNext]_fdVars
  BY <1>1, InsideIsFdStep
<1>2. ASSUME NEW there, ReadReturns(there) PROVE [FdNext]_fdVars
  BY <1>2, LoopThreads DEF ReadReturns, FdNext
<1>3. CASE ReadLoop
  <2>1. CASE ReadPacket
    BY <2>1, LoopThreads, OperateStep DEF ReadPacket
  <2>2. CASE Offer \/ CloseIncoming \/ CloseDone
    BY <2>2 DEF Offer, CloseIncoming, CloseDone
  <2> QED
    BY <1>3, <2>1, <2>2 DEF ReadLoop
<1>4. CASE WriteLoop
  <2>1. CASE WritePacket
    BY <2>1, LoopThreads, OperateStep DEF WritePacket
  <2>2. CASE LeaveWriteLoop
    BY <2>2, LoopThreads, OperateStep DEF LeaveWriteLoop
  <2>3. CASE ReceiveOutgoing
    BY <2>3 DEF ReceiveOutgoing
  <2> QED
    BY <1>4, <2>1, <2>2, <2>3 DEF WriteLoop
<1>5. ASSUME NEW c \in Closers, Close(c) \/ CloseReturn(c) PROVE [FdNext]_fdVars
  <2>1. CASE Close(c)
    BY <2>1, CallerThreads, OperateStep DEF Close
  <2>2. CASE CloseReturn(c)
    BY <2>2 DEF CloseReturn
  <2> QED
    BY <1>5, <2>1, <2>2
<1>6. ASSUME NEW u \in Users, Configure(u) PROVE [FdNext]_fdVars
  BY <1>6, CallerThreads, OperateStep DEF Configure
<1>7. CASE SendOutgoing \/ TakeIncoming
  BY <1>7 DEF SendOutgoing, TakeIncoming
<1>8. CASE UNCHANGED vars
  BY <1>8 DEF vars
<1> QED
  BY <1>1, <1>2, <1>3, <1>4, <1>5, <1>6, <1>7, <1>8 DEF Next

\* The stream over a tunnel implements the descriptor's protocol: readLoop,
\* writeLoop and the callers go through operate for all they do to it.
THEOREM StreamImplementsFd == Spec => FdSpec
<1>1. Init => FdInit
  BY DEF Init
<1> QED
  BY <1>1, StepIsFdStep, PTL DEF Spec, FdSpec

\* In a stream no read or write is made on a closed descriptor, whoever closes
\* it (a caller, several of them, or writeLoop after a failed read), and they
\* close it once between them and do not leak it.
THEOREM StreamClosesOnce == Spec => []ClosedOnceUnused
BY StreamImplementsFd, DescriptorIsClosedOnce, PTL

----------------------------------------------------------------------------
(* Types *)

RestOK ==
  /\ at \in [Threads -> {"idle", "read", "reading", "offer", "exit", "finish", "stopped",
                         "select", "write", "wait"}]
  /\ incoming \in 0 .. ReadBuffer
  /\ outgoing \in 0 .. WriteBuffer
  /\ shut \in {"open", "shut", "device"}
  /\ {inClosed, done, returned} \subseteq BOOLEAN

LEMMA RestStep == RestOK /\ [Next]_vars => RestOK'
<1> SUFFICES ASSUME RestOK, [Next]_vars PROVE RestOK'
  OBVIOUS
<1> USE StreamAssumption, LoopThreads, CallerThreads
<1>1. ASSUME NEW t \in Threads, Inside(t) PROVE RestOK'
  BY <1>1 DEF RestOK, Inside
<1>2. ASSUME NEW there \in {"offer", "exit"}, ReadReturns(there) PROVE RestOK'
  BY <1>2 DEF RestOK, ReadReturns, GoOn
<1>3. CASE ReadLoop
  <2>1. CASE ReadPacket
    BY <2>1 DEF RestOK, ReadPacket, Operate, GoOn
  <2>2. CASE Offer
    <3>1. incoming' \in 0 .. ReadBuffer
      BY <2>2 DEF RestOK, Offer
    <3> QED
      BY <2>2, <3>1 DEF RestOK, Offer, GoOn
  <2>3. CASE CloseIncoming \/ CloseDone
    BY <2>3 DEF RestOK, CloseIncoming, CloseDone, GoOn
  <2> QED
    BY <1>3, <2>1, <2>2, <2>3 DEF ReadLoop
<1>4. CASE WriteLoop
  BY <1>4 DEF RestOK, WriteLoop, ReceiveOutgoing, WritePacket, LeaveWriteLoop, Operate, GoOn
<1>5. ASSUME NEW c \in Closers, Close(c) \/ CloseReturn(c) PROVE RestOK'
  BY <1>5 DEF RestOK, Close, CloseReturn, Operate, GoOn
<1>6. ASSUME NEW u \in Users, Configure(u) PROVE RestOK'
  BY <1>6 DEF RestOK, Configure, Operate, GoOn
<1>7. CASE SendOutgoing \/ TakeIncoming
  BY <1>7 DEF RestOK, SendOutgoing, TakeIncoming
<1>8. CASE UNCHANGED vars
  BY <1>8 DEF RestOK, vars
<1> QED
  BY <1>1, <1>2, <1>3, <1>4, <1>5, <1>6, <1>7, <1>8 DEF Next

\* Neither channel holds more than its buffer, and the reference count never
\* goes below zero.
THEOREM TypeCorrect == Spec => []TypeOK
<1>1. Init => RestOK
  <2> SUFFICES ASSUME Init PROVE RestOK
    OBVIOUS
  <2>1. 0 \in 0 .. ReadBuffer /\ 0 \in 0 .. WriteBuffer
    BY StreamAssumption
  <2>2. at \in [Threads -> {"idle", "read", "reading", "offer", "exit", "finish", "stopped",
                           "select", "write", "wait"}]
    BY DEF Init
  <2> QED
    BY <2>1, <2>2, Zenon DEF Init, RestOK
<1>2. Spec => []RestOK
  BY <1>1, RestStep, PTL DEF Spec
<1>3. FdTypeOK /\ RestOK => TypeOK
  BY DEF TypeOK, RestOK
<1> QED
  BY <1>2, <1>3, StreamImplementsFd, FdTypeCorrect, PTL

----------------------------------------------------------------------------
(* Close *)

\* readLoop only ever goes forward from "exit", out of its read; done is closed
\* behind incoming.
ReaderInv ==
  /\ at[R] \in {"read", "reading", "offer", "exit", "finish", "stopped"}
  /\ at[R] \in {"finish", "stopped"} => inClosed /\ pc[R] = "idle"
  /\ done => at[R] = "stopped"

\* A caller that waits in Close has closed the tunnel, or found it closed, or is
\* still on its way to do so.
CloserInv == \A t \in Threads : at[t] = "wait" => pc[t] \in {"shutdown", "mark"} \/ closed

ReturnInv == returned => closed /\ done

CInv == ReaderInv /\ CloserInv /\ ReturnInv

\* R and W are not the same goroutine.
LEMMA LoopsDiffer == R # W
BY DEF R, W

LEMMA CInvInside ==
  ASSUME TypeOK, CInv, NEW t \in Threads, Inside(t)
  PROVE  CInv'
<1> USE LoopThreads
<1>1. UNCHANGED <<at, inClosed, done, returned>>
  BY DEF Inside
<1>2. pc \in [Threads -> Places] /\ closed \in BOOLEAN
  BY DEF TypeOK, FdTypeOK
<1>3. pc[t] # "idle" /\ (\A u \in Threads : u # t => pc'[u] = pc[u]) /\ (closed => closed')
  BY <1>2 DEF Inside, Use, Shutdown, MarkClosed, Release, Goto
<1>4. pc[t] \in {"shutdown", "mark"} => pc'[t] = "mark" \/ closed'
  BY <1>2 DEF Inside, Use, Shutdown, MarkClosed, Release, Goto
<1>5. ReaderInv'
  BY <1>1, <1>3 DEF CInv, ReaderInv
<1>6. CloserInv'
  BY <1>1, <1>3, <1>4 DEF CInv, CloserInv
<1> QED
  BY <1>1, <1>3, <1>5, <1>6 DEF CInv, ReturnInv

\* A goroutine other than readLoop calls the tunnel, and will not wait in Close
\* unless what it calls is Close.
LEMMA CInvOperate ==
  ASSUME TypeOK, CInv, NEW t \in Threads, t # R, NEW place, NEW there,
         At(t, at[t]), Operate(t, place, there),
         there = "wait" => place = "shutdown",
         UNCHANGED <<inClosed, done, returned>>
  PROVE  CInv'
<1> USE LoopThreads
<1>1. at \in [Threads -> {"idle", "read", "reading", "offer", "exit", "finish", "stopped",
                          "select", "write", "wait"}]
  BY DEF TypeOK
<1>2. pc \in [Threads -> Places]
  BY DEF TypeOK, FdTypeOK
<1>3. at'[t] = there /\ \A u \in Threads : u # t => at'[u] = at[u]
  BY <1>1 DEF Operate, GoOn
<1>4. closed' = closed /\ \A u \in Threads : u # t => pc'[u] = pc[u]
  BY <1>2 DEF Operate, Begin, Goto, fdVars
<1>5. pc'[t] = place \/ closed
  BY <1>2 DEF Operate, Begin, Goto, fdVars
<1>6. ReaderInv'
  BY <1>3, <1>4 DEF CInv, ReaderInv
<1>7. CloserInv'
  BY <1>3, <1>4, <1>5 DEF CInv, CloserInv
<1> QED
  BY <1>4, <1>6, <1>7 DEF CInv, ReturnInv

LEMMA CInvReader ==
  ASSUME TypeOK, CInv, ReadLoop \/ \E there \in {"offer", "exit"} : ReadReturns(there)
  PROVE  CInv'
<1> USE LoopThreads
<1>1. at \in [Threads -> {"idle", "read", "reading", "offer", "exit", "finish", "stopped",
                          "select", "write", "wait"}]
  BY DEF TypeOK
<1>2. pc \in [Threads -> Places]
  BY DEF TypeOK, FdTypeOK
<1>3. \A u \in Threads : u # R => at'[u] = at[u] /\ pc'[u] = pc[u]
  BY <1>1, <1>2 DEF ReadLoop, ReadPacket, Offer, CloseIncoming, CloseDone, ReadReturns,
     Operate, GoOn, Begin, Use, Goto, fdVars
<1>4. closed' = closed /\ returned' = returned /\ (done => done')
  BY DEF ReadLoop, ReadPacket, Offer, CloseIncoming, CloseDone, ReadReturns, Operate, Begin,
     Use, fdVars
<1>5. ReaderInv'
  <2>1. CASE ReadPacket
    BY <1>1, <2>1 DEF ReadPacket, At, Operate, GoOn, CInv, ReaderInv
  <2>2. CASE Offer
    BY <1>1, <2>2 DEF Offer, At, GoOn, CInv, ReaderInv
  <2>3. CASE CloseIncoming
    BY <1>1, <2>3 DEF CloseIncoming, At, GoOn, CInv, ReaderInv, fdVars
  <2>4. CASE CloseDone
    BY <1>1, <2>4 DEF CloseDone, At, GoOn, CInv, ReaderInv, fdVars
  <2>5. ASSUME NEW there \in {"offer", "exit"}, ReadReturns(there) PROVE ReaderInv'
    BY <1>1, <2>5 DEF ReadReturns, GoOn, CInv, ReaderInv
  <2> QED
    BY <2>1, <2>2, <2>3, <2>4, <2>5 DEF ReadLoop
<1>6. CloserInv'
  BY <1>3, <1>4, <1>5 DEF CInv, CloserInv, ReaderInv
<1> QED
  BY <1>4, <1>5, <1>6 DEF CInv, ReturnInv

LEMMA CInvStep == TypeOK /\ CInv /\ [Next]_vars => CInv'
<1> SUFFICES ASSUME TypeOK, CInv, [Next]_vars PROVE CInv'
  OBVIOUS
<1> USE LoopThreads, CallerThreads, LoopsDiffer
<1>0. /\ at \in [Threads -> {"idle", "read", "reading", "offer", "exit", "finish", "stopped",
                             "select", "write", "wait"}]
      /\ at[R] \notin {"idle", "wait", "select", "write"}
  BY DEF TypeOK, CInv, ReaderInv
<1>1. ASSUME NEW t \in Threads, Inside(t) PROVE CInv'
  BY <1>1, CInvInside
<1>2. CASE ReadLoop \/ \E there \in {"offer", "exit"} : ReadReturns(there)
  BY <1>2, CInvReader
<1>3. CASE WriteLoop
  <2>1. CASE ReceiveOutgoing
    BY <1>0, <2>1 DEF ReceiveOutgoing, At, GoOn, CInv, ReaderInv, CloserInv, ReturnInv, fdVars
  <2>2. CASE WritePacket
    BY <2>2, CInvOperate DEF WritePacket, At
  <2>3. CASE LeaveWriteLoop
    BY <2>3, CInvOperate DEF LeaveWriteLoop, At
  <2> QED
    BY <1>3, <2>1, <2>2, <2>3 DEF WriteLoop
<1>4. ASSUME NEW c \in Closers, Close(c) PROVE CInv'
  <2>1. c \in Threads /\ c # R /\ At(c, at[c])
    BY <1>0, <1>4 DEF Close, At
  <2> QED
    BY <1>4, <2>1, CInvOperate DEF Close
<1>5. ASSUME NEW c \in Closers, CloseReturn(c) PROVE CInv'
  <2>1. c \in Threads /\ c # R /\ at[c] = "wait" /\ pc[c] = "idle" /\ done
    BY <1>0, <1>5 DEF CloseReturn, At
  <2>2. closed
    BY <2>1 DEF CInv, CloserInv
  <2> QED
    BY <1>0, <1>5, <2>1, <2>2
       DEF CloseReturn, GoOn, CInv, ReaderInv, CloserInv, ReturnInv, fdVars
<1>6. ASSUME NEW u \in Users, Configure(u) PROVE CInv'
  <2>1. u \in Threads /\ u # R /\ At(u, at[u])
    BY <1>0, <1>6 DEF Configure, At
  <2> QED
    BY <1>6, <2>1, CInvOperate DEF Configure
<1>7. CASE SendOutgoing \/ TakeIncoming
  BY <1>7 DEF SendOutgoing, TakeIncoming, CInv, ReaderInv, CloserInv, ReturnInv, fdVars
<1>8. CASE UNCHANGED vars
  BY <1>8 DEF vars, fdVars, CInv, ReaderInv, CloserInv, ReturnInv
<1> QED
  BY <1>1, <1>2, <1>3, <1>4, <1>5, <1>6, <1>7, <1>8 DEF Next

\* When Close returns nil the tunnel is closed, readLoop has left it and closed
\* incoming, and nothing is sent there any more, however many goroutines call Close
\* and use the tunnel meanwhile.
THEOREM CloseStaysFinal == Spec => []CloseIsFinal
<1>1. Init => CInv
  BY LoopThreads, LoopsDiffer DEF Init, CInv, ReaderInv, CloserInv, ReturnInv
<1>2. Spec => []CInv
  BY <1>1, CInvStep, TypeCorrect, PTL DEF Spec
<1>3. CInv => CloseIsFinal
  BY DEF CInv, ReaderInv, ReturnInv, CloseIsFinal
<1> QED
  BY <1>2, <1>3, PTL
==============================================================================

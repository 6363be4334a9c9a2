----------------------------- MODULE TcpRecvProofs -----------------------------
(***************************************************************************)
(* The safety of TcpRecv for every modulus, buffer, set of readers and     *)
(* stream.                                                                 *)
(*                                                                         *)
(* The argument has two parts.  Arithmetic: a byte of a segment that is    *)
(* not too old or too far ahead falls on the offset of its own position in *)
(* the assembler's buffer and on no other (PlacedRight), and so does the   *)
(* FIN (FinRight).  Order: what Skim takes is held without a gap, ends at  *)
(* the FIN and fits the window (SkimFinds), so the read buffer grows by    *)
(* the bytes that come next (AssembleStep).                                *)
(***************************************************************************)
EXTENDS TcpRecv, WellFoundedInduction, TLAPS

----------------------------------------------------------------------------
(* The inductive invariant *)

\* sequence is the image of the position.
SequenceInv == sequence = (IRS + SeqPos) % M

\* Bytes are named by their positions, and the two buffers follow each other.
StreamInv ==
  /\ got \in Seq(Nat) /\ buf \in Seq(Nat)
  /\ \A i \in 1 .. Len(got) : got[i] = i - 1
  /\ \A i \in 1 .. Len(buf) : buf[i] = Len(got) + i - 1
  /\ Len(buf) <= BufSize
  /\ end \in Nat
  /\ Len(got) + Len(buf) <= end

\* Every byte that waits is one of the stream, at its place.
AsmInv ==
  /\ DOMAIN asm \subseteq 0 .. AsmSize - 1
  /\ \A o \in DOMAIN asm : asm[o] = SeqPos + o /\ SeqPos + o < end

\* A FIN that waits is at the end of the stream, and one that has been put is
\* behind all of it.
FinInv ==
  /\ fin \in {NoFin, -1} \union 0 .. AsmSize
  /\ fin >= 0 => SeqPos + fin = end
  /\ fin = -1 => Len(got) + Len(buf) = end
  /\ hitEOF \in BOOLEAN
  /\ hitEOF <=> fin = -1

DataInv == SequenceInv /\ StreamInv /\ AsmInv /\ FinInv

\* The typing of the rest.
ReaderType ==
  /\ failed \in BOOLEAN /\ windowOpen \in BOOLEAN /\ expired \in BOOLEAN
  /\ loop \in {"select", "ack"}
  /\ phase \in [Readers -> {"idle", "start", "lock", "select"}]
  /\ want \in [Readers -> Nat]
  /\ woken \in [Readers -> BOOLEAN]
  /\ announced \in [pos : Nat, window : 0 .. BufSize]

\* The peer has been told of nothing that is not there.
AnnouncedInv ==
  /\ announced.pos <= SeqPos
  /\ announced.pos + announced.window <= SeqPos + Window

IInv ==
  /\ DataInv
  /\ ReaderType
  /\ NoLostWakeup
  /\ ReopenIsAnnounced
  /\ AnnouncedInv

----------------------------------------------------------------------------
(* Numbers *)

\* A set of naturals has a least one.
LEMMA LeastNumber ==
  ASSUME NEW T, T \subseteq Nat, T # {}
  PROVE  \E n \in T : \A m \in T : n <= m
<1> DEFINE Less == {p \in Nat \X Nat : p[1] < p[2]}
<1>1. IsWellFoundedOn(Less, Nat)
  <2>1. IsWellFoundedOn(OpToRel(<, Nat), Nat)
    BY NatLessThanWellFounded
  <2>2. Less = OpToRel(<, Nat)
    BY Zenon DEF OpToRel
  <2> QED
    BY <2>1, <2>2
<1>2. PICK n \in T : \A m \in T : ~(<<m, n>> \in Less)
  BY <1>1, WFMin
<1>3. \A m \in T : ~(m < n)
  BY <1>2
<1> QED
  BY <1>3

LEMMA ModOfSum ==
  ASSUME NEW m \in Nat \ {0}, NEW q \in Int, NEW x \in Int
  PROVE  (q * m + x) % m = x % m
<1> DEFINE r == x % m
           d == x \div m
<1>1. r \in 0 .. m - 1 /\ d \in Int /\ x = d * m + r
  OBVIOUS
<1> HIDE DEF r, d
<1>2. q * m + x = (q + d) * m + r
  BY <1>1
<1>3. ((q + d) * m + r) % m = r
  BY <1>1
<1> QED BY <1>2, <1>3 DEF r

LEMMA ModAdd ==
  ASSUME NEW m \in Nat \ {0}, NEW x \in Int, NEW k \in Int
  PROVE  ((x % m) + k) % m = (x + k) % m
<1> DEFINE r == x % m
           q == x \div m
<1>1. r \in Int /\ q \in Int /\ x = q * m + r
  OBVIOUS
<1> HIDE DEF r, q
<1>2. x + k = q * m + (r + k) /\ r + k \in Int
  BY <1>1
<1>3. (q * m + (r + k)) % m = (r + k) % m
  BY <1>1, <1>2, ModOfSum, Zenon
<1> QED BY <1>2, <1>3 DEF r

LEMMA ModSub ==
  ASSUME NEW m \in Nat \ {0}, NEW x \in Int, NEW y \in Int
  PROVE  ((x % m) - (y % m)) % m = (x - y) % m
<1> DEFINE r == y % m
           q == y \div m
<1>1. r \in Int /\ q \in Int /\ y = q * m + r
  OBVIOUS
<1>2. ((x % m) - r) % m = (x - r) % m
  <2>1. -r \in Int /\ x + (-r) = x - r /\ (x % m) + (-r) = (x % m) - r
    BY <1>1
  <2>2. ((x % m) + (-r)) % m = (x + (-r)) % m
    BY <2>1, ModAdd, Zenon
  <2> QED BY <2>1, <2>2
<1> HIDE DEF r, q
<1>3. x - r = q * m + (x - y) /\ x - y \in Int
  BY <1>1
<1>4. (q * m + (x - y)) % m = (x - y) % m
  BY <1>1, <1>3, ModOfSum, Zenon
<1> QED BY <1>2, <1>3, <1>4 DEF r

LEMMA ModSmall ==
  ASSUME NEW m \in Nat \ {0}, NEW x \in 0 .. m - 1
  PROVE  x % m = x
  OBVIOUS

LEMMA ModNegative ==
  ASSUME NEW m \in Nat \ {0}, NEW x \in Int, -m < x, x < 0
  PROVE  x % m = x + m
  OBVIOUS


----------------------------------------------------------------------------
(* The assembler *)

LEMMA Positions ==
  ASSUME StreamInv
  PROVE  /\ Len(got) \in Nat /\ Len(buf) \in Nat /\ SeqPos \in Nat
         /\ Window \in 0 .. BufSize
         /\ fin # -1 => SeqPos = Len(got) + Len(buf)
         /\ fin = -1 => SeqPos = Len(got) + Len(buf) + 1
<1>1. Len(got) \in Nat /\ Len(buf) \in Nat /\ Len(buf) <= BufSize /\ BufSize \in Nat
  BY RecvAssumption DEF StreamInv
<1> QED
  BY <1>1 DEF SeqPos, Window

\* Where the byte at distance k from the start of a segment of the peer lands.
LEMMA OffsetMod ==
  ASSUME SequenceInv, SeqPos \in Nat, NEW pos \in Nat, NEW k \in Int
  PROVE  /\ (k + sequence - ((IRS + pos) % M)) % M = (k + SeqPos - pos) % M
         /\ (((IRS + pos) % M) + k - sequence) % M = (pos + k - SeqPos) % M
<1> DEFINE x == IRS + SeqPos
           y == IRS + pos
<1>1. M \in Nat \ {0} /\ x \in Int /\ y \in Int /\ sequence = x % M
  BY RecvAssumption DEF SequenceInv
<1>2. x - y = SeqPos - pos /\ y - x = pos - SeqPos
  BY RecvAssumption
<1> HIDE DEF x, y
<1>3. ASSUME NEW u \in Int, NEW v \in Int
      PROVE  ((u % M) - (v % M) + k) % M = (u - v + k) % M
  <2>1. ((u % M) - (v % M)) % M = (u - v) % M
    BY <1>1, ModSub
  <2>2. u % M \in Int /\ v % M \in Int
    BY <1>1
  <2>3. PICK w \in Int : w = (u % M) - (v % M)
    BY <2>2
  <2>4. PICK z \in Int : z = u - v
    OBVIOUS
  <2>5. (w + k) % M = ((w % M) + k) % M
    BY <1>1, ModAdd
  <2>6. ((z % M) + k) % M = (z + k) % M
    BY <1>1, ModAdd
  <2>7. w % M = z % M
    BY <2>1, <2>3, <2>4
  <2> QED
    BY <2>3, <2>4, <2>5, <2>6, <2>7
<1>4. x % M \in Int /\ y % M \in Int
  BY <1>1
<1>5. k + (x % M) - (y % M) = (x % M) - (y % M) + k
      /\ (y % M) + k - (x % M) = (y % M) - (x % M) + k
  BY <1>4
<1>6. x - y + k = k + SeqPos - pos /\ y - x + k = pos + k - SeqPos
  BY <1>2, <1>1
<1>7. ((x % M) - (y % M) + k) % M = (x - y + k) % M
      /\ ((y % M) - (x % M) + k) % M = (y - x + k) % M
  BY <1>1, <1>3
<1> QED
  BY <1>1, <1>5, <1>6, <1>7 DEF y

\* A segment as the peer may send it.
PeerSends(s, pos, len, last) ==
  /\ s = PeerSegment(pos, len, last)
  /\ pos \in Nat /\ len \in Nat /\ last \in BOOLEAN
  /\ InFlight(pos, len, last)

\* A byte of the segment that falls on an offset of the buffer is the byte of that
\* offset: an older or a later one never wraps onto it.
LEMMA PlacedRight ==
  ASSUME DataInv, NEW s, NEW pos, NEW len, NEW last, PeerSends(s, pos, len, last)
  PROVE  /\ DOMAIN Placed(s) \subseteq 0 .. AsmSize - 1
         /\ \A o \in DOMAIN Placed(s) : Placed(s)[o] = SeqPos + o /\ SeqPos + o < end
<1>1. /\ pos \in Nat /\ len \in Nat /\ SeqPos \in Nat /\ end \in Nat /\ M \in Nat \ {0}
      /\ MaxStale \in Nat /\ MaxAhead \in 0 .. M - 1 /\ AsmSize \in Nat
      /\ AsmSize + MaxStale <= M
      /\ pos + len <= end /\ SeqPos - pos <= MaxStale /\ pos + len - SeqPos <= MaxAhead
      /\ s.pos = pos /\ s.len = len /\ s.start = (IRS + pos) % M
  BY Positions, RecvAssumption DEF DataInv, StreamInv, PeerSends, PeerSegment, InFlight
<1>2. ASSUME NEW o \in 0 .. AsmSize - 1, Index(s, o) < s.len
      PROVE  s.pos + Index(s, o) = SeqPos + o /\ SeqPos + o < end
  <2> DEFINE d == o + SeqPos - pos
  <2>1. Index(s, o) = d % M
    BY <1>1, OffsetMod DEF Index, DataInv
  <2>2. d \in Int /\ d <= M - 1 /\ d > -M /\ d + M > len
    BY <1>1
  <2>3. CASE d >= 0
    <3>1. d \in 0 .. M - 1
      BY <2>2, <2>3, <1>1
    <3>2. d % M = d
      BY <1>1, <3>1, ModSmall, Zenon
    <3> QED
      BY <1>1, <1>2, <2>1, <3>2
  <2>4. CASE d < 0
    <3>1. d % M = d + M
      BY <1>1, <2>2, <2>4, ModNegative
    <3> QED
      BY <1>1, <1>2, <2>1, <2>2, <3>1
  <2> QED
    BY <2>2, <2>3, <2>4
<1>3. \A o \in Covered(s) : o \in 0 .. AsmSize - 1 /\ Index(s, o) < s.len
  BY DEF Covered
<1>4. DOMAIN Placed(s) = DOMAIN asm \union Covered(s)
  BY DEF Placed
<1>5. \A o \in DOMAIN Placed(s) :
        Placed(s)[o] = IF o \in Covered(s) THEN s.pos + Index(s, o) ELSE asm[o]
  BY DEF Placed
<1> QED
  BY <1>2, <1>3, <1>4, <1>5 DEF DataInv, AsmInv

\* A FIN that is taken is taken at the end of the stream.  An old one, which might
\* wrap onto the end of the buffer, comes only after the EOF.
LEMMA FinRight ==
  ASSUME DataInv, fin # -1, NEW s, NEW pos, NEW len, NEW last, PeerSends(s, pos, len, last)
  PROVE  /\ FinPlaced(s) \in {NoFin} \union 0 .. AsmSize
         /\ FinPlaced(s) >= 0 => SeqPos + FinPlaced(s) = end
<1>1. /\ pos \in Nat /\ len \in Nat /\ SeqPos \in Nat /\ end \in Nat /\ M \in Nat \ {0}
      /\ MaxAhead \in 0 .. M - 1
      /\ pos + len - SeqPos <= MaxAhead
      /\ s.len = len /\ s.fin = last /\ s.start = (IRS + pos) % M
      /\ last => pos + len = end
      /\ SeqPos <= end
  BY Positions, RecvAssumption DEF DataInv, StreamInv, PeerSends, PeerSegment, InFlight
<1>2. CASE last
  <2> DEFINE d == pos + len - SeqPos
  <2>1. (s.start + s.len - sequence) % M = d % M
    BY <1>1, OffsetMod DEF DataInv
  <2>2. d \in 0 .. M - 1 /\ SeqPos + d = end
    BY <1>1, <1>2
  <2>3. d % M = d
    BY <1>1, <2>2, ModSmall, Zenon
  <2> QED
    BY <1>1, <1>2, <2>1, <2>2, <2>3 DEF FinPlaced, DataInv, FinInv
<1>3. CASE ~last
  BY <1>1, <1>3 DEF FinPlaced, DataInv, FinInv
<1> QED
  BY <1>2, <1>3 DEF PeerSends

\* Skim stops somewhere: what it takes has no gap, reaches no further than the FIN
\* and fits the window.
LEMMA SkimFinds ==
  ASSUME NEW held, NEW f \in {NoFin} \union 0 .. AsmSize, NEW w \in 0 .. BufSize,
         NEW n, n = SkimLength(held, f, w)
  PROVE  /\ n \in 0 .. w
         /\ n <= AsmSize
         /\ 0 .. n - 1 \subseteq held
         /\ f >= 0 => n <= f
<1> DEFINE Stops(k) == k \in {f, w, AsmSize} \/ k \notin held
           T == {k \in 0 .. AsmSize : Stops(k)}
<1>1. AsmSize \in Nat /\ w \in Nat /\ w <= AsmSize /\ AsmSize \in T /\ T \subseteq Nat
  BY RecvAssumption
<1>2. PICK k \in T : \A m \in T : k <= m
  BY <1>1, LeastNumber
<1>3. /\ k \in 0 .. AsmSize
      /\ Stops(k)
      /\ \A m \in 0 .. AsmSize : Stops(m) => k <= m
  BY <1>2
<1> HIDE DEF T
<1>4. ASSUME NEW m \in 0 .. k - 1
      PROVE  m \in held \ {f, w}
  <2>1. m \in 0 .. AsmSize /\ ~(k <= m)
    BY <1>1, <1>3
  <2>2. ~Stops(m)
    BY <1>3, <2>1
  <2> QED
    BY <2>2
<1>5. 0 .. k - 1 \subseteq held \ {f, w}
  BY <1>4
<1>6. /\ n \in 0 .. AsmSize
      /\ n \in {f, w, AsmSize} \/ n \notin held
      /\ 0 .. n - 1 \subseteq held \ {f, w}
  BY <1>3, <1>5, Zenon DEF SkimLength
<1>7. ASSUME NEW m \in Nat, m \in {f, w} PROVE n <= m
  <2>1. CASE m < n
    <3>1. m \in 0 .. n - 1
      BY <1>6, <2>1
    <3>2. m \notin held \ {f, w}
      BY <1>7
    <3> QED
      BY <1>6, <3>1, <3>2
  <2> QED
    BY <1>6, <2>1
<1>8. n <= w
  BY <1>1, <1>7
<1>9. f >= 0 => n <= f
  BY <1>1, <1>7 DEF NoFin
<1> QED
  BY <1>1, <1>6, <1>8, <1>9

\* Shift gives every byte that is left the offset it has from the new front.
LEMMA Shifted ==
  ASSUME NEW bytes, NEW n \in Nat, DOMAIN bytes \subseteq 0 .. AsmSize - 1
  PROVE  /\ DOMAIN Shift(bytes, n) \subseteq 0 .. AsmSize - 1
         /\ \A o \in DOMAIN Shift(bytes, n) :
              o + n \in DOMAIN bytes /\ Shift(bytes, n)[o] = bytes[o + n]
<1>1. DOMAIN Shift(bytes, n) = {p - n : p \in {q \in DOMAIN bytes : q >= n}}
      /\ \A o \in DOMAIN Shift(bytes, n) : Shift(bytes, n)[o] = bytes[o + n]
  BY DEF Shift
<1>2. ASSUME NEW o \in DOMAIN Shift(bytes, n)
      PROVE  o \in 0 .. AsmSize - 1 /\ o + n \in DOMAIN bytes
  <2>1. PICK p \in DOMAIN bytes : p >= n /\ o = p - n
    BY <1>1, <1>2
  <2>2. p \in 0 .. AsmSize - 1 /\ AsmSize \in Nat
    BY <2>1, RecvAssumption
  <2> QED
    BY <2>1, <2>2
<1> QED
  BY <1>1, <1>2

LEMMA Appended ==
  ASSUME NEW p \in Seq(Nat), NEW q \in Seq(Nat)
  PROVE  /\ p \o q \in Seq(Nat) /\ Len(p \o q) = Len(p) + Len(q)
         /\ \A i \in 1 .. Len(p \o q) :
              (p \o q)[i] = IF i <= Len(p) THEN p[i] ELSE q[i - Len(p)]
  OBVIOUS

\* Bytes at their places, and a FIN, if there is one, at the end of the stream.
InPlace(placed, f) ==
  /\ DOMAIN placed \subseteq 0 .. AsmSize - 1
  /\ \A o \in DOMAIN placed : placed[o] = SeqPos + o /\ SeqPos + o < end
  /\ f \in {NoFin} \union 0 .. AsmSize
  /\ f >= 0 => SeqPos + f = end

\* Skim takes n bytes, and the EOF with them or not.
Skims(placed, f, n, eof, size) ==
  /\ n = SkimLength(DOMAIN placed, f, Window)
  /\ eof = (n = f /\ n < AsmSize)
  /\ size = IF eof THEN n + 1 ELSE n

Puts(placed, f, n, eof, size) ==
  /\ sequence' = (sequence + size) % M
  /\ asm' = Shift(placed, size)
  /\ fin' = IF f = NoFin THEN NoFin ELSE f - size
  /\ buf' = buf \o [i \in 1 .. n |-> placed[i - 1]]
  /\ hitEOF' = (hitEOF \/ eof)
  /\ UNCHANGED <<got, end>>

\* What Skim takes is what comes next, and what it leaves is in place.
LEMMA SkimStep ==
  ASSUME DataInv, fin # -1, NEW placed, NEW f, NEW n, NEW eof, NEW size,
         InPlace(placed, f), Skims(placed, f, n, eof, size), Puts(placed, f, n, eof, size)
  PROVE  /\ DataInv'
         /\ SeqPos' = SeqPos + size
         /\ SeqPos' >= SeqPos
         /\ SeqPos' + Window' >= SeqPos + Window
         /\ Window' <= Window
<1>1. /\ Len(got) \in Nat /\ Len(buf) \in Nat /\ SeqPos \in Nat /\ end \in Nat
      /\ Window \in 0 .. BufSize /\ SeqPos = Len(got) + Len(buf)
      /\ BufSize \in Nat /\ AsmSize \in Nat /\ SeqPos <= end
      /\ Window = BufSize - Len(buf)
  BY Positions, RecvAssumption DEF DataInv, StreamInv, Window
<1>2. n \in 0 .. Window /\ n <= AsmSize /\ 0 .. n - 1 \subseteq DOMAIN placed
      /\ (f >= 0 => n <= f)
  BY <1>1, SkimFinds DEF InPlace, Skims
<1>3. n \in Nat /\ size \in Nat /\ eof \in BOOLEAN /\ (eof => size = n + 1)
      /\ (~eof => size = n)
  BY <1>1, <1>2 DEF Skims
<1>4. /\ fin' \in {NoFin, -1} \union 0 .. AsmSize
      /\ eof <=> fin' = -1
      /\ fin' >= 0 => fin' = f - n /\ f >= 0
      /\ eof => f = n
  <2>1. /\ f \in {-2} \union 0 .. AsmSize
        /\ fin' = IF f = -2 THEN -2 ELSE f - size
        /\ eof <=> n = f /\ n < AsmSize
    BY DEF NoFin, Puts, Skims, InPlace
  <2>2. CASE eof
    BY <1>1, <1>2, <1>3, <2>1, <2>2 DEF NoFin
  <2>3. CASE ~eof
    BY <1>1, <1>2, <1>3, <2>1, <2>3 DEF NoFin
  <2> QED
    BY <1>3, <2>2, <2>3
<1>5. UNCHANGED <<got, end>>
  BY DEF Puts
<1>6. SeqPos + n <= end
  <2>1. CASE n = 0
    BY <1>1, <2>1
  <2>2. CASE n > 0
    <3>1. n - 1 \in DOMAIN placed
      BY <1>2, <1>3, <2>2
    <3>2. SeqPos + (n - 1) < end
      BY <3>1 DEF InPlace
    <3> QED
      BY <1>1, <1>3, <3>2
  <2> QED
    BY <1>3, <2>1, <2>2
<1>7. PICK took : took = [i \in 1 .. n |-> placed[i - 1]]
  OBVIOUS
<1>8. \A i \in 1 .. n : took[i] = Len(got) + Len(buf) + i - 1
  <2> TAKE i \in 1 .. n
  <2>1. i - 1 \in DOMAIN placed /\ i \in Nat
    BY <1>2, <1>3
  <2>2. placed[i - 1] = SeqPos + (i - 1)
    BY <2>1 DEF InPlace
  <2> QED
    BY <1>1, <1>7, <2>1, <2>2
<1>9. took \in Seq(Nat) /\ Len(took) = n
  <2>1. \A i \in 1 .. n : took[i] \in Nat
    BY <1>1, <1>3, <1>8
  <2>2. took = [i \in 1 .. n |-> took[i]]
    BY <1>7
  <2>3. took \in [1 .. n -> Nat]
    BY <2>1, <2>2, Zenon
  <2> QED
    BY <1>3, <2>3
<1>10. /\ buf' \in Seq(Nat) /\ Len(buf') = Len(buf) + n
       /\ \A i \in 1 .. Len(buf') :
            buf'[i] = IF i <= Len(buf) THEN buf[i] ELSE took[i - Len(buf)]
  <2>1. buf \in Seq(Nat) /\ buf' = buf \o took
    BY <1>7 DEF DataInv, StreamInv, Puts
  <2> QED
    BY <1>9, <2>1, Appended
<1>11. /\ SeqPos' = SeqPos + size
       /\ Window' = Window - n
  <2>1. SeqPos' = Len(got) + Len(buf') + (IF fin' = -1 THEN 1 ELSE 0)
    BY <1>5 DEF SeqPos
  <2>2. Window' = BufSize - Len(buf')
    BY DEF Window
  <2>3. SeqPos' = Len(got) + (Len(buf) + n) + (IF eof THEN 1 ELSE 0)
    BY <1>4, <1>10, <2>1
  <2>4. Window' = BufSize - (Len(buf) + n)
    BY <1>10, <2>2
  <2> QED
    BY <1>1, <1>3, <2>3, <2>4
<1>12. StreamInv'
  <2>1. \A i \in 1 .. Len(buf') : buf'[i] = Len(got) + i - 1
    <3> TAKE i \in 1 .. Len(buf')
    <3>1. CASE i <= Len(buf)
      <4>1. buf'[i] = buf[i] /\ i \in 1 .. Len(buf)
        BY <1>1, <1>3, <1>10, <3>1
      <4> QED
        BY <4>1 DEF DataInv, StreamInv
    <3>2. CASE i > Len(buf)
      <4>1. i - Len(buf) \in 1 .. n
        BY <1>1, <1>3, <1>10, <3>2
      <4>2. took[i - Len(buf)] = Len(got) + Len(buf) + (i - Len(buf)) - 1
        BY <1>8, <4>1
      <4> QED
        BY <1>1, <1>10, <3>2, <4>2
    <3> QED
      BY <1>1, <1>10, <3>1, <3>2
  <2>2. Len(buf') <= BufSize /\ Len(got) + Len(buf') <= end
    BY <1>1, <1>2, <1>3, <1>6, <1>10
  <2> QED
    BY <1>5, <1>10, <2>1, <2>2 DEF DataInv, StreamInv
<1>13. AsmInv'
  <2>1. DOMAIN placed \subseteq 0 .. AsmSize - 1 /\ asm' = Shift(placed, size)
    BY DEF InPlace, Puts
  <2>2. DOMAIN asm' \subseteq 0 .. AsmSize - 1
        /\ \A o \in DOMAIN asm' : o + size \in DOMAIN placed /\ asm'[o] = placed[o + size]
    BY <1>3, <2>1, Shifted
  <2>3. ASSUME NEW o \in DOMAIN asm'
        PROVE  asm'[o] = SeqPos' + o /\ SeqPos' + o < end'
    <3>1. o + size \in DOMAIN placed /\ asm'[o] = placed[o + size] /\ o \in Int
      BY <2>2
    <3>2. placed[o + size] = SeqPos + (o + size) /\ SeqPos + (o + size) < end
      BY <3>1 DEF InPlace
    <3>3. PICK q \in Nat, z \in Nat, x \in Int : q = SeqPos /\ z = size /\ x = o
      BY ONLY <1>1, <1>3, <3>1, Zenon
    <3>4. q + (x + z) = (q + z) + x
      BY ONLY q \in Nat, z \in Nat, x \in Int, SMT
    <3>5. SeqPos + (o + size) = (SeqPos + size) + o
      BY <3>3, <3>4, Zenon
    <3> QED
      BY <1>5, <1>11, <3>1, <3>2, <3>5, Zenon
  <2> QED
    BY <2>2, <2>3 DEF AsmInv
<1>14. FinInv'
  <2>1. fin' >= 0 => SeqPos' + fin' = end'
    <3> SUFFICES ASSUME fin' >= 0 PROVE SeqPos' + fin' = end'
      OBVIOUS
    <3>1. fin' = f - n /\ SeqPos + f = end /\ f \in Int /\ ~eof
      BY <1>1, <1>4 DEF InPlace, NoFin
    <3>2. size = n
      BY ONLY <1>3, <3>1, Zenon
    <3>3. PICK q \in Nat, y \in Nat : q = SeqPos /\ y = n
      BY ONLY <1>1, <1>3, Zenon
    <3>4. (q + y) + (f - y) = q + f
      BY ONLY q \in Nat, y \in Nat, <3>1, SMT
    <3>5. (SeqPos + n) + (f - n) = SeqPos + f
      BY ONLY <3>3, <3>4, Zenon
    <3> QED
      BY ONLY <1>5, <1>11, <3>1, <3>2, <3>5, Zenon
  <2>2. fin' = -1 => Len(got') + Len(buf') = end'
    <3> SUFFICES ASSUME eof PROVE Len(got) + Len(buf') = end
      BY <1>4, <1>5
    <3>1. SeqPos + n = end
      BY <1>3, <1>4 DEF InPlace
    <3> QED
      BY <1>1, <1>3, <1>10, <3>1
  <2>3. hitEOF = FALSE
    BY DEF DataInv, FinInv
  <2>4. hitEOF' = eof
    BY <1>3, <2>3 DEF Puts
  <2> QED
    BY <1>3, <1>4, <2>1, <2>2, <2>4 DEF FinInv
<1>15. SequenceInv'
  <2>1. IRS \in Nat /\ M \in Nat \ {0} /\ sequence = (IRS + SeqPos) % M
        /\ sequence' = (sequence + size) % M
    BY RecvAssumption DEF DataInv, SequenceInv, Puts
  <2>2. PICK x \in Int : x = IRS + SeqPos
    <3>1. IRS \in Nat /\ SeqPos \in Nat
      BY <1>1, <2>1
    <3> QED
      BY <3>1
  <2>3. ((x % M) + size) % M = (x + size) % M
    <3>1. M \in Nat \ {0} /\ size \in Int
      BY <1>3, <2>1
    <3> QED
      BY <3>1, ModAdd, Zenon
  <2>4. x + size = IRS + SeqPos'
    BY <1>1, <1>3, <1>11, <2>1, <2>2
  <2> QED
    BY <2>1, <2>2, <2>3, <2>4, Zenon DEF SequenceInv
<1> QED
  <2>1. /\ SeqPos' = SeqPos + size
        /\ SeqPos' >= SeqPos /\ SeqPos' + Window' >= SeqPos + Window /\ Window' <= Window
    BY <1>1, <1>3, <1>11
  <2> QED
    BY <2>1, <1>12, <1>13, <1>14, <1>15 DEF DataInv

\* AddSegment, Skim, Put and PutEOF together, for any segment of the peer.
LEMMA AssembleStep ==
  ASSUME DataInv, NEW s, NEW pos, NEW len, NEW last, PeerSends(s, pos, len, last),
         Assemble(s), UNCHANGED <<got, end>>
  PROVE  /\ DataInv'
         /\ SeqPos' >= SeqPos
         /\ SeqPos' + Window' >= SeqPos + Window
         /\ Window' <= Window
<1>1. CASE fin = -1
  <2>1. UNCHANGED <<sequence, asm, fin, buf, hitEOF, got, end>>
    BY <1>1 DEF Assemble, asmVars
  <2>2. SeqPos' = SeqPos /\ Window' = Window
    BY <2>1 DEF SeqPos, Window
  <2>3. SeqPos \in Nat /\ Window \in Int
    BY Positions, RecvAssumption DEF DataInv
  <2>4. DataInv'
    BY <2>1, <2>2 DEF DataInv, SequenceInv, StreamInv, AsmInv, FinInv
  <2> QED
    BY <2>2, <2>3, <2>4
<1>2. CASE fin # -1
  <2>1. PICK placed, f :
          /\ placed = IF fin = 0 THEN asm ELSE Placed(s)
          /\ f = IF fin = 0 THEN fin ELSE FinPlaced(s)
    OBVIOUS
  <2>2. PICK n, eof, size : Skims(placed, f, n, eof, size)
    BY DEF Skims
  <2>3. Puts(placed, f, n, eof, size)
    BY <1>2, <2>1, <2>2, Zenon DEF Assemble, Skims, Puts
  <2>4. InPlace(placed, f)
    <3>1. CASE fin = 0
      BY <2>1, <3>1, RecvAssumption DEF DataInv, AsmInv, FinInv, InPlace
    <3>2. CASE fin # 0
      BY <1>2, <2>1, <3>2, PlacedRight, FinRight DEF InPlace
    <3> QED
      BY <3>1, <3>2
  <2> QED
    BY <1>2, <2>2, <2>3, <2>4, SkimStep
<1> QED
  BY <1>1, <1>2

\* Nothing that the receiver holds or waits for lies beyond position h.
Within(h) ==
  /\ SeqPos <= h
  /\ \A o \in DOMAIN asm : SeqPos + o < h
  /\ fin >= 0 => SeqPos + fin < h

LEMMA SkimWithin ==
  ASSUME DataInv, fin # -1, NEW placed, NEW f, NEW n, NEW eof, NEW size, NEW h \in Nat,
         InPlace(placed, f), Skims(placed, f, n, eof, size), Puts(placed, f, n, eof, size),
         SeqPos <= h, \A o \in DOMAIN placed : SeqPos + o < h, f >= 0 => SeqPos + f < h
  PROVE  Within(h)'
<1>1. PICK q \in Nat : q = SeqPos
  BY Positions DEF DataInv
<1>2. /\ n \in Nat /\ n <= AsmSize /\ 0 .. n - 1 \subseteq DOMAIN placed
      /\ (f >= 0 => n <= f)
      /\ f \in {-2} \union 0 .. AsmSize /\ AsmSize \in Nat
  <2>1. /\ Window \in 0 .. BufSize /\ AsmSize \in Nat /\ BufSize \in Nat
        /\ f \in {NoFin} \union 0 .. AsmSize /\ n = SkimLength(DOMAIN placed, f, Window)
    BY Positions, RecvAssumption DEF InPlace, Skims, DataInv
  <2>2. /\ n \in 0 .. Window /\ n <= AsmSize /\ 0 .. n - 1 \subseteq DOMAIN placed
        /\ (f >= 0 => n <= f)
    BY <2>1, SkimFinds
  <2> QED
    BY <2>1, <2>2 DEF NoFin
<1>3. eof \in BOOLEAN /\ size \in Nat /\ (eof => f = n /\ size = n + 1) /\ (~eof => size = n)
  <2>1. eof \in BOOLEAN /\ (eof => f = n)
    BY DEF Skims
  <2>2. size = IF eof THEN n + 1 ELSE n
    BY DEF Skims
  <2> QED
    BY <1>2, <2>1, <2>2
<1>4. SeqPos' = q + size
  BY <1>1, SkimStep
<1>5. q + size <= h
  <2>1. CASE eof
    BY <1>1, <1>2, <1>3, <2>1
  <2>2. CASE ~eof /\ n > 0
    <3>1. n - 1 \in DOMAIN placed
      BY <1>2, <2>2
    <3>2. SeqPos + (n - 1) < h
      BY <3>1
    <3> QED
      BY <1>1, <1>2, <1>3, <2>2, <3>2
  <2>3. CASE ~eof /\ n = 0
    BY <1>1, <1>3, <2>3
  <2> QED
    BY <1>2, <1>3, <2>1, <2>2, <2>3
<1>6. ASSUME NEW o \in DOMAIN asm' PROVE q + size + o < h
  <2>1. asm' = Shift(placed, size) /\ DOMAIN placed \subseteq 0 .. AsmSize - 1
    BY DEF Puts, InPlace
  <2>2. o + size \in DOMAIN placed /\ o \in 0 .. AsmSize - 1
    BY <1>3, <1>6, <2>1, Shifted
  <2>3. SeqPos + (o + size) < h
    BY <2>2
  <2> QED
    BY <1>1, <1>2, <1>3, <2>2, <2>3
<1>7. PICK g : g = fin'
  OBVIOUS
<1>8. g >= 0 => q + size + g < h
  <2> SUFFICES ASSUME g >= 0 PROVE q + size + g < h
    OBVIOUS
  <2>1. g = IF f = -2 THEN -2 ELSE f - size
    BY <1>7 DEF Puts, NoFin
  <2>2. f \in Nat /\ g = f - size
    BY <1>2, <2>1
  <2> QED
    BY <1>1, <1>3, <2>2
<1> QED
  BY <1>4, <1>5, <1>6, <1>7, <1>8, Zenon DEF Within

\* A segment that lies within h brings nothing that does not.
LEMMA AssembleWithin ==
  ASSUME DataInv, NEW s, NEW pos, NEW len, NEW last, PeerSends(s, pos, len, last),
         Assemble(s), UNCHANGED <<got, end>>, NEW h \in Nat, Within(h),
         pos + len + (IF last THEN 1 ELSE 0) <= h
  PROVE  Within(h)'
<1>1. CASE fin = -1
  <2>1. UNCHANGED <<asm, fin, SeqPos>>
    BY <1>1 DEF Assemble, asmVars, SeqPos
  <2> QED
    BY <2>1 DEF Within
<1>2. CASE fin # -1
  <2>1. PICK placed, f :
          /\ placed = IF fin = 0 THEN asm ELSE Placed(s)
          /\ f = IF fin = 0 THEN fin ELSE FinPlaced(s)
    OBVIOUS
  <2>2. PICK n, eof, size : Skims(placed, f, n, eof, size)
    BY DEF Skims
  <2>3. Puts(placed, f, n, eof, size)
    BY <1>2, <2>1, <2>2, Zenon DEF Assemble, Skims, Puts
  <2>4. CASE fin = 0
    <3>1. InPlace(placed, f)
      BY <2>1, <2>4, RecvAssumption DEF DataInv, AsmInv, FinInv, InPlace
    <3>2. SeqPos <= h /\ (\A o \in DOMAIN placed : SeqPos + o < h)
          /\ (f >= 0 => SeqPos + f < h)
      BY <2>1, <2>4 DEF Within
    <3> QED
      BY <1>2, <2>2, <2>3, <3>1, <3>2, SkimWithin
  <2>5. CASE fin # 0
    <3>1. InPlace(placed, f)
      BY <1>2, <2>1, <2>5, PlacedRight, FinRight DEF InPlace
    <3>2. /\ s.pos = pos /\ s.len = len /\ s.fin = last /\ pos \in Nat /\ len \in Nat
          /\ last \in BOOLEAN /\ (last => pos + len = end)
          /\ SeqPos \in Nat /\ M \in Nat \ {0} /\ s.start = (IRS + pos) % M
      BY Positions, RecvAssumption DEF PeerSends, PeerSegment, InFlight, DataInv
    <3>3. pos + len <= h /\ (last => end < h)
      BY <3>2
    <3>4. ASSUME NEW o \in DOMAIN placed PROVE SeqPos + o < h
      <4>1. placed = Placed(s)
        BY <2>1, <2>5
      <4>2. CASE o \in Covered(s)
        <5>1. Index(s, o) < len /\ o \in 0 .. AsmSize - 1
          BY <3>2, <4>2 DEF Covered
        <5>2. placed[o] = pos + Index(s, o)
          BY <3>2, <3>4, <4>1, <4>2 DEF Placed
        <5>3. placed[o] = SeqPos + o
          BY <3>1, <3>4 DEF InPlace
        <5>4. Index(s, o) \in Int
          <6>1. PICK z \in Int : z = o + SeqPos - pos
            BY <3>2, <5>1
          <6>2. Index(s, o) = z % M
            <7>1. pos \in Nat /\ o \in Int /\ SeqPos \in Nat /\ SequenceInv
              BY <3>2, <5>1 DEF DataInv
            <7>2. (o + sequence - ((IRS + pos) % M)) % M = (o + SeqPos - pos) % M
              BY <7>1, OffsetMod
            <7> QED
              BY <3>2, <6>1, <7>2, Zenon DEF Index
          <6> QED
            BY <3>2, <6>1, <6>2
        <5>5. pos + Index(s, o) < h
          BY <3>2, <3>3, <5>1, <5>4
        <5> QED
          BY <5>2, <5>3, <5>5
      <4>3. CASE o \notin Covered(s)
        BY <3>4, <4>1, <4>3 DEF Placed, Within
      <4> QED
        BY <4>2, <4>3
    <3>5. f >= 0 => SeqPos + f < h
      <4>1. f = fin \/ last
        BY <2>1, <3>2 DEF FinPlaced
      <4>2. f >= 0 => SeqPos + f = end
        BY <3>1 DEF InPlace
      <4> QED
        BY <3>3, <4>1, <4>2 DEF Within
    <3> QED
      BY <1>2, <2>2, <2>3, <3>1, <3>4, <3>5, SkimWithin DEF Within
  <2> QED
    BY <2>4, <2>5
<1> QED
  BY <1>1, <1>2

----------------------------------------------------------------------------
(* The steps *)

\* What a step does that leaves the two buffers alone.
LEMMA SameData ==
  ASSUME UNCHANGED <<asmVars, bufferVars, end>>
  PROVE  /\ DataInv <=> DataInv'
         /\ SeqPos' = SeqPos /\ Window' = Window
<1>1. UNCHANGED <<sequence, asm, fin, buf, hitEOF, got, end>>
  BY DEF asmVars, bufferVars
<1>2. SeqPos' = SeqPos /\ Window' = Window
  BY <1>1 DEF SeqPos, Window
<1> QED
  BY <1>1, <1>2 DEF DataInv, SequenceInv, StreamInv, AsmInv, FinInv

\* What Get moves from one sequence to the other.
LEMMA Halves ==
  ASSUME NEW q \in Seq(Nat), NEW n \in 0 .. Len(q)
  PROVE  /\ SubSeq(q, 1, n) \in Seq(Nat) /\ Len(SubSeq(q, 1, n)) = n
         /\ \A i \in 1 .. n : SubSeq(q, 1, n)[i] = q[i]
         /\ SubSeq(q, n + 1, Len(q)) \in Seq(Nat)
         /\ Len(SubSeq(q, n + 1, Len(q))) = Len(q) - n
         /\ \A i \in 1 .. Len(q) - n : SubSeq(q, n + 1, Len(q))[i] = q[n + i]
  OBVIOUS

LEMMA HowMuch ==
  ASSUME StreamInv, ReaderType, NEW r \in Readers
  PROVE  /\ Readable(r) \in 0 .. Len(buf)
         /\ Readable(r) = 0 => want[r] = 0 \/ Len(buf) = 0
<1>1. Len(buf) \in Nat /\ want[r] \in Nat
  BY DEF StreamInv, ReaderType
<1> QED
  BY <1>1 DEF Readable

\* A Read moves bytes over the boundary between what is read and what is buffered,
\* and no further: the position and the edge of the window are those of the stream.
LEMMA ReadData ==
  ASSUME DataInv, ReaderType, NEW r \in Readers, ReadLocked(r)
  PROVE  /\ DataInv'
         /\ SeqPos' = SeqPos
         /\ Window' = Window + Readable(r)
         /\ Len(buf') = Len(buf) - Readable(r)
         /\ buf' \in Seq(Nat)
<1>1. PICK n : n = Readable(r)
  OBVIOUS
<1>2. /\ got \in Seq(Nat) /\ buf \in Seq(Nat) /\ n \in 0 .. Len(buf) /\ n \in Nat
      /\ Len(got) \in Nat /\ Len(buf) \in Nat /\ BufSize \in Nat
  BY <1>1, HowMuch, RecvAssumption DEF DataInv, StreamInv
<1>3. /\ buf' = SubSeq(buf, n + 1, Len(buf))
      /\ got' = got \o SubSeq(buf, 1, n)
      /\ UNCHANGED <<sequence, asm, fin, hitEOF, end>>
  BY <1>1 DEF ReadLocked, asmVars
<1>4. PICK head : head = SubSeq(buf, 1, n)
  OBVIOUS
<1>5. /\ head \in Seq(Nat) /\ Len(head) = n
      /\ \A i \in 1 .. n : head[i] = buf[i]
      /\ buf' \in Seq(Nat) /\ Len(buf') = Len(buf) - n
      /\ \A i \in 1 .. Len(buf) - n : buf'[i] = buf[n + i]
  BY <1>2, <1>3, <1>4, Halves
<1>6. /\ got' \in Seq(Nat) /\ Len(got') = Len(got) + n
      /\ \A i \in 1 .. Len(got') :
           got'[i] = IF i <= Len(got) THEN got[i] ELSE head[i - Len(got)]
  <2>1. got' = got \o head
    BY <1>3, <1>4
  <2> QED
    BY <1>2, <1>5, <2>1, Appended
<1>7. Len(got') + Len(buf') = Len(got) + Len(buf)
  BY <1>2, <1>5, <1>6
<1>8. SeqPos' = SeqPos
  <2>1. SeqPos' = Len(got') + Len(buf') + (IF fin = -1 THEN 1 ELSE 0)
    BY <1>3 DEF SeqPos
  <2> QED
    BY <1>7, <2>1 DEF SeqPos
<1>9. Window' = Window + n
  BY <1>2, <1>5 DEF Window
<1>10. StreamInv'
  <2>1. ASSUME NEW i \in 1 .. Len(got') PROVE got'[i] = i - 1
    <3> i \in Nat /\ 1 <= i /\ i <= Len(got) + n
      BY <1>2, <1>6
    <3>1. CASE i <= Len(got)
      <4>1. got'[i] = got[i] /\ i \in 1 .. Len(got)
        BY <1>2, <1>6, <3>1
      <4> QED
        BY <4>1 DEF DataInv, StreamInv
    <3>2. CASE i > Len(got)
      <4>1. PICK k \in 1 .. n : k = i - Len(got)
        <5>1. i - Len(got) \in 1 .. n
          BY <1>2, <3>2
        <5> QED
          BY <5>1
      <4>2. got'[i] = buf[k]
        <5>1. ~(i <= Len(got))
          BY ONLY <1>2, <3>2, i \in 1 .. Len(got'), <1>6, SMT
        <5>2. got'[i] = head[i - Len(got)]
          BY ONLY <1>6, <5>1, i \in 1 .. Len(got'), Zenon
        <5> QED
          BY ONLY <1>5, <4>1, <5>2, Zenon
      <4>3. k \in 1 .. Len(buf)
        BY <1>2, <4>1
      <4>4. buf[k] = Len(got) + k - 1
        BY <4>3 DEF DataInv, StreamInv
      <4> QED
        BY <1>2, <4>1, <4>2, <4>4
    <3> QED
      BY <1>2, <1>6, <3>1, <3>2
  <2>2. ASSUME NEW i \in 1 .. Len(buf') PROVE buf'[i] = Len(got') + i - 1
    <3>1. buf'[i] = buf[n + i] /\ n + i \in 1 .. Len(buf)
      <4>1. 1 .. Len(buf') = 1 .. Len(buf) - n
        BY ONLY <1>5, Zenon
      <4>2. buf'[i] = buf[n + i]
        BY ONLY <1>5, <4>1, i \in 1 .. Len(buf'), Zenon
      <4>3. n + i \in 1 .. Len(buf)
        <5>1. PICK b \in Nat : b = Len(buf)
          BY ONLY <1>2, Zenon
        <5>2. i \in 1 .. b - n
          BY ONLY <4>1, <5>1, i \in 1 .. Len(buf'), Zenon
        <5>3. n + i \in 1 .. b
          BY ONLY <1>2, <5>1, <5>2, SMT
        <5> QED
          BY ONLY <5>1, <5>3, Zenon
      <4> QED
        BY <4>2, <4>3
    <3>2. buf[n + i] = Len(got) + (n + i) - 1
      BY <3>1 DEF DataInv, StreamInv
    <3> QED
      BY <1>2, <1>6, <3>1, <3>2
  <2>3. Len(buf') <= BufSize /\ Len(got') + Len(buf') <= end
    BY <1>2, <1>5, <1>7 DEF DataInv, StreamInv
  <2> QED
    BY <1>3, <1>5, <1>6, <2>1, <2>2, <2>3 DEF DataInv, StreamInv
<1>11. SequenceInv' /\ AsmInv' /\ FinInv'
  BY <1>3, <1>7, <1>8 DEF DataInv, SequenceInv, AsmInv, FinInv
<1> QED
  BY <1>1, <1>5, <1>8, <1>9, <1>10, <1>11 DEF DataInv

LEMMA InitSafe == Init => IInv
<1> SUFFICES ASSUME Init PROVE IInv
  OBVIOUS
<1>1. /\ BufSize \in Nat /\ BufSize > 0 /\ AsmSize \in Nat /\ M \in Nat \ {0}
      /\ IRS \in 0 .. M - 1 /\ MaxStream \in Nat
  BY RecvAssumption
<1>2. /\ got = << >> /\ buf = << >> /\ asm = << >> /\ fin = -2 /\ hitEOF = FALSE
      /\ sequence = IRS
      /\ announced = [pos |-> 0, window |-> BufSize]
      /\ end \in 0 .. MaxStream
  BY DEF Init, NoFin
<1>3. Len(got) = 0 /\ Len(buf) = 0 /\ got \in Seq(Nat) /\ buf \in Seq(Nat)
  BY <1>2
<1>4. SeqPos = 0 /\ Window = BufSize
  BY <1>1, <1>2, <1>3 DEF SeqPos, Window
<1>5. SequenceInv
  <2>1. IRS % M = IRS
    BY <1>1, ModSmall
  <2>2. IRS + SeqPos = IRS
    BY <1>1, <1>4
  <2> QED
    BY <1>2, <2>1, <2>2 DEF SequenceInv
<1>6. StreamInv
  BY <1>1, <1>2, <1>3 DEF StreamInv
<1>7. AsmInv
  BY <1>2 DEF AsmInv
<1>8. FinInv
  <2>1. fin = NoFin /\ ~(fin >= 0) /\ fin # -1
    BY <1>2 DEF NoFin
  <2>2. hitEOF \in BOOLEAN /\ ~hitEOF
    BY <1>2
  <2> QED
    BY <2>1, <2>2 DEF FinInv
<1>9. ReaderType
  <2>1. announced \in [pos : Nat, window : 0 .. BufSize]
    BY <1>1, <1>2
  <2>2. failed = FALSE /\ windowOpen = FALSE /\ expired = FALSE /\ loop = "select"
    BY DEF Init
  <2>3. phase \in [Readers -> {"idle", "start", "lock", "select"}]
        /\ want \in [Readers -> Nat] /\ woken \in [Readers -> BOOLEAN]
    BY DEF Init
  <2> QED
    BY <2>1, <2>2, <2>3 DEF ReaderType
<1>10. ReopenIsAnnounced /\ AnnouncedInv
  BY <1>1, <1>2, <1>4 DEF ReopenIsAnnounced, AnnouncedInv
<1>11. NoLostWakeup
  BY DEF Init, NoLostWakeup
<1> QED
  BY <1>5, <1>6, <1>7, <1>8, <1>9, <1>10, <1>11 DEF IInv, DataInv

LEMMA HandleStep ==
  ASSUME IInv, NEW s, NEW pos, NEW len, NEW last, PeerSends(s, pos, len, last), Handle(s)
  PROVE  IInv'
<1>1. /\ DataInv' /\ DataInv
      /\ SeqPos' >= SeqPos /\ SeqPos' + Window' >= SeqPos + Window /\ Window' <= Window
  BY AssembleStep DEF IInv, Handle
<1>2. /\ SeqPos \in Nat /\ SeqPos' \in Nat /\ Window \in Int /\ Window' \in Int
  <2>1. BufSize \in Nat /\ Len(got) \in Nat /\ Len(buf) \in Nat /\ Len(got') \in Nat
        /\ Len(buf') \in Nat
    BY <1>1, RecvAssumption DEF DataInv, StreamInv
  <2> QED
    BY <2>1 DEF SeqPos, Window
<1>3. ReaderType'
  BY DEF IInv, ReaderType, Handle, WakeReaders
<1>4. NoLostWakeup'
  BY DEF IInv, ReaderType, NoLostWakeup, Handle, WakeReaders
<1>5. announced' = announced /\ windowOpen' = windowOpen /\ loop = "select"
  BY DEF Handle
<1>6. ReopenIsAnnounced'
  BY <1>1, <1>2, <1>5 DEF IInv, ReopenIsAnnounced
<1>7. AnnouncedInv'
  <2>1. PICK p \in Int, w \in Int : p = announced.pos /\ w = announced.window
    BY RecvAssumption DEF IInv, ReaderType
  <2>2. p <= SeqPos /\ p + w <= SeqPos + Window
    BY <2>1 DEF IInv, AnnouncedInv
  <2>3. PICK pp \in Int, ww \in Int : pp = SeqPos' /\ ww = Window'
    BY <1>2
  <2>4. pp >= SeqPos /\ pp + ww >= SeqPos + Window
    BY <1>1, <2>3, Zenon
  <2>5. p <= pp /\ p + w <= pp + ww
    BY <1>2, <2>2, <2>4
  <2> QED
    BY <2>1, <2>3, <2>5, <1>5, Zenon DEF AnnouncedInv
<1> QED
  BY <1>1, <1>3, <1>4, <1>6, <1>7 DEF IInv

\* The steps of the loop and the readers that leave the two buffers alone, and the
\* last announcement with them, or make it what is true.
LEMMA LoopStep ==
  ASSUME IInv, Fail \/ TakeWindowOpen \/ SendAck \/ SendSegment
  PROVE  IInv' /\ SeqPos' = SeqPos /\ Window' = Window
<1>1. /\ DataInv' /\ SeqPos' = SeqPos /\ Window' = Window
  <2>1. UNCHANGED <<asmVars, bufferVars, end>>
    BY DEF Fail, TakeWindowOpen, SendAck, SendSegment
  <2> QED
    BY <2>1, SameData DEF IInv
<1>2. SeqPos \in Nat /\ Window \in 0 .. BufSize /\ BufSize \in Nat
  BY Positions, RecvAssumption DEF IInv, DataInv
<1>3. CASE Fail
  <2>1. ReaderType'
    BY <1>3 DEF IInv, ReaderType, Fail, WakeReaders
  <2>2. NoLostWakeup'
    BY <1>3 DEF IInv, ReaderType, NoLostWakeup, Fail, WakeReaders, bufferVars
  <2>3. ReopenIsAnnounced' /\ AnnouncedInv'
    BY <1>1, <1>3 DEF IInv, ReopenIsAnnounced, AnnouncedInv, Fail
  <2> QED
    BY <1>1, <2>1, <2>2, <2>3 DEF IInv
<1>4. CASE TakeWindowOpen
  <2>1. ReaderType'
    BY <1>4 DEF IInv, ReaderType, TakeWindowOpen, readerVars
  <2>2. NoLostWakeup'
    BY <1>4 DEF IInv, NoLostWakeup, TakeWindowOpen, bufferVars, readerVars
  <2>3. ReopenIsAnnounced' /\ AnnouncedInv'
    BY <1>1, <1>4 DEF IInv, ReopenIsAnnounced, AnnouncedInv, TakeWindowOpen
  <2> QED
    BY <1>1, <2>1, <2>2, <2>3 DEF IInv
<1>5. CASE SendAck \/ SendSegment
  <2>1. announced' = [pos |-> SeqPos, window |-> Window]
    BY <1>5 DEF SendAck, SendSegment, Announce
  <2>2. ReaderType'
    <3>1. announced' \in [pos : Nat, window : 0 .. BufSize]
      BY <1>2, <2>1
    <3>2. /\ UNCHANGED <<failed, windowOpen, expired, phase, want, woken>>
          /\ loop' \in {"select", loop}
      BY <1>5 DEF SendAck, SendSegment, readerVars
    <3> QED
      BY <3>1, <3>2 DEF IInv, ReaderType
  <2>3. NoLostWakeup'
    BY <1>5 DEF IInv, NoLostWakeup, SendAck, SendSegment, bufferVars, readerVars
  <2>4. announced'.pos = SeqPos /\ announced'.window = Window
    BY <2>1
  <2>5. AnnouncedInv'
    <3>1. SeqPos <= SeqPos /\ SeqPos + Window <= SeqPos + Window
      BY <1>2
    <3> QED
      BY <1>1, <2>4, <3>1, Zenon DEF AnnouncedInv
  <2>6. ReopenIsAnnounced'
    <3>1. ~(Window = 0 /\ Window > 0)
      OBVIOUS
    <3> QED
      BY <1>1, <2>4, <3>1 DEF ReopenIsAnnounced
  <2> QED
    BY <1>1, <2>2, <2>3, <2>5, <2>6 DEF IInv
<1> QED
  BY <1>1, <1>3, <1>4, <1>5

LEMMA ReaderStep ==
  ASSUME IInv, NEW r \in Readers,
         \/ \E n \in ReadSizes : Read(r, n)
         \/ CheckDeadline(r)
         \/ Wake(r)
         \/ ReadTimeout(r)
  PROVE  IInv'
<1>1. UNCHANGED <<asmVars, bufferVars, end, failed, windowOpen, loop, announced>>
  BY DEF Read, CheckDeadline, Wake, ReadTimeout
<1>2. /\ DataInv' /\ SeqPos' = SeqPos /\ Window' = Window
  BY <1>1, SameData DEF IInv
<1>3. ReopenIsAnnounced' /\ AnnouncedInv'
  BY <1>1, <1>2 DEF IInv, ReopenIsAnnounced, AnnouncedInv
<1>4. /\ phase \in [Readers -> {"idle", "start", "lock", "select"}]
      /\ want \in [Readers -> Nat] /\ woken \in [Readers -> BOOLEAN]
  BY DEF IInv, ReaderType
<1>5. /\ phase' \in [Readers -> {"idle", "start", "lock", "select"}]
      /\ want' \in [Readers -> Nat] /\ woken' \in [Readers -> BOOLEAN]
      /\ expired' = expired
      /\ phase'[r] # "select"
      /\ \A q \in Readers \ {r} : /\ phase'[q] = phase[q]
                                  /\ want'[q] = want[q] /\ woken'[q] = woken[q]
  <2>1. CASE \E n \in ReadSizes : Read(r, n)
    BY <1>4, <2>1, RecvAssumption DEF Read
  <2>2. CASE CheckDeadline(r)
    BY <1>4, <2>2 DEF CheckDeadline, Returns
  <2>3. CASE Wake(r)
    BY <1>4, <2>3 DEF Wake, LeavesSelect
  <2>4. CASE ReadTimeout(r)
    BY <1>4, <2>4 DEF ReadTimeout, LeavesSelect, Returns
  <2> QED
    BY <2>1, <2>2, <2>3, <2>4
<1>6. ReaderType'
  BY <1>1, <1>5 DEF IInv, ReaderType
<1>7. NoLostWakeup'
  BY <1>1, <1>5 DEF IInv, NoLostWakeup, bufferVars
<1> QED
  BY <1>2, <1>3, <1>6, <1>7 DEF IInv

\* A reader that goes to sleep has found nothing, and one that takes the first byte of
\* a full buffer leaves the token.
LEMMA ReadStep ==
  ASSUME IInv, NEW r \in Readers, ReadLocked(r)
  PROVE  IInv'
<1>1. PICK n : n = Readable(r)
  OBVIOUS
<1>2. /\ n \in Nat /\ Len(buf) \in Nat /\ n <= Len(buf)
      /\ SeqPos \in Nat /\ Window \in 0 .. BufSize /\ BufSize \in Nat
      /\ n = 0 => want[r] = 0 \/ Len(buf) = 0
  <2>1. Len(buf) \in Nat
    BY Positions DEF IInv, DataInv
  <2> QED
    BY <1>1, <2>1, HowMuch, Positions, RecvAssumption DEF IInv, DataInv
<1>3. /\ DataInv' /\ SeqPos' = SeqPos /\ Window' = Window + n
      /\ Len(buf') = Len(buf) - n /\ buf' \in Seq(Nat)
  BY <1>1, ReadData DEF IInv
<1>4. /\ windowOpen' = (windowOpen \/ (Window = 0 /\ n > 0))
      /\ UNCHANGED <<hitEOF, failed, loop, woken, expired, announced>>
  BY <1>1 DEF ReadLocked, OpensWindow
<1>5. /\ phase \in [Readers -> {"idle", "start", "lock", "select"}]
      /\ want \in [Readers -> Nat]
  BY DEF IInv, ReaderType
<1>6. /\ phase' \in [Readers -> {"idle", "start", "lock", "select"}]
      /\ want' \in [Readers -> Nat]
      /\ \A q \in Readers \ {r} : phase'[q] = phase[q] /\ want'[q] = want[q]
      /\ phase'[r] = "select" => n = 0 /\ want'[r] = want[r]
                                  /\ ~(n = Len(buf) /\ hitEOF) /\ ~failed
  <2>1. CASE phase' = [phase EXCEPT ![r] = "idle"] /\ want' = [want EXCEPT ![r] = 0]
    BY <1>5, <2>1
  <2>2. CASE /\ phase' = [phase EXCEPT ![r] = "select"] /\ want' = want
             /\ n = 0 /\ ~(n = Len(buf) /\ hitEOF) /\ ~failed
    BY <1>5, <2>2
  <2> QED
    BY <1>1, <2>1, <2>2, Zenon DEF ReadLocked, Returns
<1>7. ReaderType'
  BY <1>4, <1>6 DEF IInv, ReaderType
<1>8. buf = << >> => buf' = << >> /\ n = 0
  <2> SUFFICES ASSUME buf = << >> PROVE buf' = << >> /\ n = 0
    OBVIOUS
  <2>1. Len(buf) = 0
    OBVIOUS
  <2>2. n = 0 /\ Len(buf') = 0
    BY <1>2, <1>3, <2>1
  <2> QED
    BY <1>3, <2>2
<1>9. NoLostWakeup'
  <2> SUFFICES ASSUME NEW q \in Readers, phase'[q] = "select", ~woken'[q]
               PROVE  (want'[q] > 0 => buf' = << >> /\ ~hitEOF') /\ ~failed'
    BY DEF NoLostWakeup
  <2>1. CASE q = r
    <3>1. n = 0 /\ want'[r] = want[r] /\ ~(n = Len(buf) /\ hitEOF) /\ ~failed
      BY <1>6, <2>1
    <3>2. want[r] \in Nat
      BY <1>5
    <3>3. want[r] > 0 => Len(buf) = 0 /\ Len(buf') = 0
      BY <1>2, <1>3, <3>1, <3>2
    <3> QED
      BY <1>3, <1>4, <2>1, <3>1, <3>3
  <2>2. CASE q # r
    <3>1. phase[q] = "select" /\ ~woken[q] /\ want'[q] = want[q]
      BY <1>4, <1>6, <2>2
    <3>2. (want[q] > 0 => buf = << >> /\ ~hitEOF) /\ ~failed
      BY <3>1 DEF IInv, NoLostWakeup
    <3> QED
      BY <1>4, <1>8, <3>1, <3>2
  <2> QED
    BY <2>1, <2>2
<1>10. ReopenIsAnnounced'
  <2> SUFFICES ASSUME announced'.window = 0, Window' > 0
               PROVE  windowOpen' \/ loop' = "ack"
    BY DEF ReopenIsAnnounced
  <2>1. CASE Window > 0
    BY <1>4, <2>1 DEF IInv, ReopenIsAnnounced
  <2>2. CASE Window = 0
    <3>1. n > 0
      BY <1>2, <1>3, <2>2
    <3> QED
      BY <1>4, <2>2, <3>1
  <2> QED
    BY <1>2, <2>1, <2>2
<1>11. AnnouncedInv'
  <2>1. PICK p \in Int, w \in Int : p = announced.pos /\ w = announced.window
    BY RecvAssumption DEF IInv, ReaderType
  <2>2. p <= SeqPos /\ p + w <= SeqPos + Window
    BY <2>1 DEF IInv, AnnouncedInv
  <2>3. p <= SeqPos /\ p + w <= SeqPos + (Window + n)
    BY <1>2, <2>1, <2>2
  <2> QED
    BY <1>3, <1>4, <2>1, <2>3, Zenon DEF AnnouncedInv
<1> QED
  BY <1>3, <1>7, <1>9, <1>10, <1>11 DEF IInv

LEMMA DeadlineStep ==
  ASSUME IInv, Expire \/ SetDeadline
  PROVE  IInv'
<1>1. UNCHANGED <<asmVars, bufferVars, end, failed, windowOpen, loop, announced, phase, want,
                  woken>>
      /\ expired' \in BOOLEAN
  BY DEF Expire, SetDeadline, readerVars
<1>2. /\ DataInv' /\ SeqPos' = SeqPos /\ Window' = Window
  BY <1>1, SameData DEF IInv
<1> QED
  BY <1>1, <1>2 DEF IInv, ReaderType, NoLostWakeup, ReopenIsAnnounced, AnnouncedInv, bufferVars

LEMMA SafeStep == IInv /\ [Next]_vars => IInv'
<1> SUFFICES ASSUME IInv, [Next]_vars PROVE IInv'
  OBVIOUS
<1>1. ASSUME NEW pos \in 0 .. end, NEW len \in 0 .. MaxLen, NEW last \in BOOLEAN,
             InFlight(pos, len, last), Handle(PeerSegment(pos, len, last))
      PROVE  IInv'
  <2>1. pos \in Nat /\ len \in Nat
    BY RecvAssumption DEF IInv, DataInv, StreamInv
  <2>2. PeerSends(PeerSegment(pos, len, last), pos, len, last)
    BY <1>1, <2>1 DEF PeerSends
  <2> QED
    BY <1>1, <2>2, HandleStep
<1>2. CASE Fail \/ TakeWindowOpen \/ SendAck \/ SendSegment
  BY <1>2, LoopStep
<1>3. ASSUME NEW r \in Readers,
             \/ \E n \in ReadSizes : Read(r, n)
             \/ CheckDeadline(r)
             \/ Wake(r)
             \/ ReadTimeout(r)
             \/ ReadLocked(r)
      PROVE  IInv'
  BY <1>3, ReaderStep, ReadStep
<1>4. CASE Expire \/ SetDeadline
  BY <1>4, DeadlineStep
<1>5. CASE UNCHANGED vars
  <2>1. UNCHANGED <<asmVars, bufferVars, end, failed, windowOpen, loop, announced, phase, want,
                    woken, expired>>
    BY <1>5 DEF vars, readerVars
  <2>2. /\ DataInv' /\ SeqPos' = SeqPos /\ Window' = Window
    BY <2>1, SameData DEF IInv
  <2> QED
    BY <2>1, <2>2 DEF IInv, ReaderType, NoLostWakeup, ReopenIsAnnounced, AnnouncedInv, bufferVars
<1> QED
  BY <1>1, <1>2, <1>3, <1>4, <1>5 DEF Next

LEMMA Safe == Spec => []IInv
<1> QED
  BY InitSafe, SafeStep, PTL DEF Spec

----------------------------------------------------------------------------
(* The theorems *)

LEMMA StreamIsRead ==
  ASSUME DataInv
  PROVE  ReadsTheStream
<1>1. got \in Seq(Nat) /\ buf \in Seq(Nat) /\ Len(got) \in Nat /\ Len(buf) \in Nat
  BY DEF DataInv, StreamInv
<1>2. Len(got \o buf) = Len(got) + Len(buf)
      /\ \A i \in 1 .. Len(got \o buf) :
           (got \o buf)[i] = IF i <= Len(got) THEN got[i] ELSE buf[i - Len(got)]
  BY <1>1, Appended
<1>3. ASSUME NEW i \in 1 .. Len(got \o buf)
      PROVE  (got \o buf)[i] = i - 1
  <2>1. i \in Nat /\ 1 <= i /\ i <= Len(got) + Len(buf)
    BY <1>1, <1>2
  <2>2. CASE i <= Len(got)
    <3>1. (got \o buf)[i] = got[i] /\ i \in 1 .. Len(got)
      BY <1>1, <1>2, <2>1, <2>2
    <3> QED
      BY <3>1 DEF DataInv, StreamInv
  <2>3. CASE i > Len(got)
    <3>1. PICK k \in 1 .. Len(buf) : k = i - Len(got)
      <4>1. i - Len(got) \in 1 .. Len(buf)
        BY <1>1, <2>1, <2>3
      <4> QED
        BY <4>1
    <3>2. (got \o buf)[i] = buf[k]
      BY <1>1, <1>2, <2>1, <2>3, <3>1
    <3>3. buf[k] = Len(got) + k - 1
      BY <3>1 DEF DataInv, StreamInv
    <3> QED
      BY <1>1, <2>1, <3>1, <3>2, <3>3
  <2> QED
    BY <1>1, <2>1, <2>2, <2>3
<1> QED
  BY <1>3 DEF DataInv, StreamInv, AsmInv, FinInv, ReadsTheStream

\* Readers get the bytes of the peer's stream in order, once each and without a gap,
\* and the EOF after the last of them, for every order, repetition and overlap of
\* segments that are not older than the numbers allow.
THEOREM ReadsStream == Spec => []ReadsTheStream
<1>1. IInv => ReadsTheStream
  BY StreamIsRead DEF IInv
<1> QED
  BY Safe, <1>1, PTL

\* No reader stays asleep over data, an EOF or an error, whatever the order of
\* arrivals, failures, deadlines and other readers.
THEOREM NoReaderIsLeft == Spec => []NoLostWakeup
<1>1. IInv => NoLostWakeup
  BY DEF IInv
<1> QED
  BY Safe, <1>1, PTL

\* A peer that has been told of a closed window is told when it opens: between the
\* Read that opens it and the ACK, the token or the loop has the news.
THEOREM NewsIsKept == Spec => []ReopenIsAnnounced
<1>1. IInv => ReopenIsAnnounced
  BY DEF IInv
<1> QED
  BY Safe, <1>1, PTL

\* What is announced never takes back what was announced before.
THEOREM EdgeNeverMovesLeft == Spec => WindowNeverShrinks
<1>1. IInv /\ [Next]_vars =>
        [/\ announced'.pos >= announced.pos
         /\ announced'.pos + announced'.window >= announced.pos + announced.window]_vars
  <2> SUFFICES ASSUME IInv, Next
               PROVE  /\ announced'.pos >= announced.pos
                      /\ announced'.pos + announced'.window >= announced.pos + announced.window
    OBVIOUS
  <2>1. announced.pos \in Int /\ announced.window \in Int
    BY RecvAssumption DEF IInv, ReaderType
  <2>2. CASE announced' = announced
    <3>1. announced.pos >= announced.pos
          /\ announced.pos + announced.window >= announced.pos + announced.window
      BY <2>1
    <3> QED
      BY <2>2, <3>1, Zenon
  <2>3. CASE announced' = [pos |-> SeqPos, window |-> Window]
    <3>1. SeqPos \in Int /\ Window \in Int
      BY Positions, RecvAssumption DEF IInv, DataInv
    <3>2. SeqPos >= announced.pos /\ SeqPos + Window >= announced.pos + announced.window
      BY <2>1, <3>1 DEF IInv, AnnouncedInv
    <3>3. announced'.pos = SeqPos /\ announced'.window = Window
      BY <2>3
    <3> QED
      BY <3>2, <3>3, Zenon
  <2>4. CASE SendAck \/ SendSegment
    BY <2>3, <2>4 DEF SendAck, SendSegment, Announce
  <2>5. CASE ~(SendAck \/ SendSegment)
    BY <2>2, <2>5 DEF Next, Handle, Fail, TakeWindowOpen, Read, CheckDeadline, Wake,
                      ReadTimeout, ReadLocked, Expire, SetDeadline
  <2> QED
    BY <2>4, <2>5
<1> QED
  BY Safe, <1>1, PTL DEF Spec, WindowNeverShrinks

\* A Read that could take a byte reports an error or the EOF only when none is left.
THEOREM ErrorsAfterData == Spec => ErrorsComeLast
<1>1. IInv /\ [Next]_vars =>
        [ret' # ret /\ ret'.err \in {"failed", "EOF"} /\ ret'.want > 0 => buf' = << >>]_vars
  <2> SUFFICES ASSUME IInv, Next, ret' # ret, ret'.err \in {"failed", "EOF"}, ret'.want > 0
               PROVE  buf' = << >>
    OBVIOUS
  <2>1. PICK r \in Readers : CheckDeadline(r) \/ ReadTimeout(r) \/ ReadLocked(r)
    BY DEF Next, Handle, Fail, TakeWindowOpen, SendAck, SendSegment, Read, Wake, Expire,
           SetDeadline, readerVars
  <2>2. ReadLocked(r)
    <3>1. ~(ret' = [n |-> 0, want |-> want[r], err |-> "timeout"])
      OBVIOUS
    <3> QED
      BY <2>1, <3>1 DEF CheckDeadline, ReadTimeout, Returns
  <2>3. PICK n : n = Readable(r)
    OBVIOUS
  <2>4. /\ Len(buf) \in Nat /\ want[r] \in Nat /\ n \in 0 .. Len(buf)
        /\ n = 0 => want[r] = 0 \/ Len(buf) = 0
    <3>1. Len(buf) \in Nat /\ want[r] \in Nat
      BY Positions DEF IInv, DataInv, ReaderType
    <3> QED
      BY <2>3, <3>1, HowMuch DEF IInv, DataInv
  <2>5. Len(buf') = Len(buf) - n /\ buf' \in Seq(Nat)
    BY <2>2, <2>3, ReadData DEF IInv
  <2>6. n = Len(buf)
    <3>1. CASE ret' = [n |-> n, want |-> want[r],
                       err |-> IF n = Len(buf) /\ hitEOF THEN "EOF" ELSE "nil"]
      BY <3>1
    <3>2. CASE n = 0 /\ ret' = [n |-> 0, want |-> want[r], err |-> "failed"]
      BY <2>4, <3>2
    <3> QED
      BY <2>2, <2>3, <3>1, <3>2, Zenon DEF ReadLocked, Returns
  <2> QED
    BY <2>4, <2>5, <2>6
<1> QED
  BY Safe, <1>1, PTL DEF Spec, ErrorsComeLast
============================================================================

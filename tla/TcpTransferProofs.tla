--------------------------- MODULE TcpTransferProofs ---------------------------
(***************************************************************************)
(* TcpTransfer implements ByteStream, for every modulus, stream, buffer    *)
(* and segment size, and for a network that loses, repeats and reorders    *)
(* any number of packets.                                                  *)
(*                                                                         *)
(* TcpSendProofs and TcpRecvProofs prove each side safe against a peer     *)
(* that conforms.  Here each side is shown to be such a peer, which is one *)
(* chain of positions:                                                     *)
(*                                                                         *)
(*   SeqPos of the sender <= heard <= SeqPos of the receiver <= high       *)
(*                                <= SeqPos + Remaining of the sender      *)
(*                                                                         *)
(* The sender forgets only what it has heard of, the receiver announces    *)
(* only what it has, has only what was sent, and only what was accepted is *)
(* sent.  What the application sees is at the two ends of the chain.       *)
(***************************************************************************)
EXTENDS TcpTransfer, TLAPS

SP == INSTANCE TcpSendProofs WITH reused <- 0

RP == INSTANCE TcpRecvProofs WITH
       IRS <- ISS, MaxLen <- MSS, MaxAhead <- Ahead,
       sequence <- rSequence, failed <- rFailed, phase <- rPhase, woken <- rWoken,
       timedOut <- rTimedOut, expired <- rExpired, ret <- rRet

----------------------------------------------------------------------------
(* The two sides *)

\* The assumption of TcpSend.
LEMMA SendHolds ==
  /\ M \in Nat \ {0}
  /\ ISS \in 0 .. M - 1
  /\ MSS \in Nat \ {0}
  /\ Windows \subseteq Nat
  /\ Chunks \subseteq Nat \ {0}
  /\ MaxStale \in Nat
  /\ MaxStale + 1 < M
  /\ \A n \in Chunks : MaxStale + n < M
  /\ MaxStream \in Nat
  /\ MaxFired \in Nat
  BY TransferAssumption DEF Windows

\* The assumption of TcpRecv.
LEMMA RecvHolds ==
  /\ M \in Nat \ {0}
  /\ ISS \in 0 .. M - 1
  /\ AsmSize \in Nat
  /\ BufSize \in 1 .. AsmSize
  /\ ReadSizes \subseteq Nat
  /\ MSS \in 0 .. M - 1
  /\ MaxStale \in Nat
  /\ Ahead \in 0 .. M - 1
  /\ AsmSize + MaxStale <= M
  /\ MaxStream \in Nat
  BY TransferAssumption DEF Ahead

\* What TcpTransfer says of the sender, in the names of its proofs.
LEMMA SendNames ==
  /\ S!SeqPos = SP!SeqPos
  /\ S!Init => SP!Init
  /\ \A n : S!Write(n) => SP!Write(n)
  /\ S!Close => SP!Close
  /\ S!Return => SP!Return
  /\ \A s : S!Take(s) => SP!Take(s)
  /\ \A s : S!TimerFires(s) => SP!TimerFires(s)
  /\ \A s : S!TimerSends(s) => SP!TimerSends(s)
  /\ \A a, w : S!Handle(a, w) => SP!Handle(a, w)
<1> USE DEF S!bufVars, SP!bufVars, S!timerVars, SP!timerVars, S!callVars, SP!callVars,
            S!envVars, SP!envVars, S!Returns, SP!Returns, S!SegEnd, SP!SegEnd,
            S!Remaining, SP!Remaining, S!NextSegment, SP!NextSegment, S!MaxSize, SP!MaxSize,
            S!Cancel, SP!Cancel, S!Schedule, SP!Schedule, S!Send, SP!Send,
            S!SendNext, SP!SendNext, S!Admitted, SP!Admitted,
            S!BufferHandle, SP!BufferHandle
<1>1. S!SeqPos = SP!SeqPos
  BY DEF S!SeqPos, SP!SeqPos
<1>2. S!Init => SP!Init
  BY Zenon DEF S!Init, SP!Init
<1>3. \A n : S!Write(n) => SP!Write(n)
  BY Zenon DEF S!Write, SP!Write
<1>4. S!Close => SP!Close
  BY Zenon DEF S!Close, SP!Close
<1>5. S!Return => SP!Return
  BY Zenon DEF S!Return, SP!Return
<1>6. \A s : S!Take(s) => SP!Take(s)
  BY Zenon DEF S!Take, SP!Take
<1>7. \A s : S!TimerFires(s) => SP!TimerFires(s)
  BY Zenon DEF S!TimerFires, SP!TimerFires, S!Cardinality, SP!Cardinality
<1>8. \A s : S!TimerSends(s) => SP!TimerSends(s)
  BY Zenon DEF S!TimerSends, SP!TimerSends
<1>9. \A a, w : S!Handle(a, w) => SP!Handle(a, w)
  BY Zenon DEF S!Handle, SP!Handle
<1> QED
  BY <1>1, <1>2, <1>3, <1>4, <1>5, <1>6, <1>7, <1>8, <1>9

LEMMA SameAssemble ==
  ASSUME NEW s, R!Assemble(s)
  PROVE  RP!Assemble(s)
<1> USE DEF R!asmVars, RP!asmVars, R!NoFin, RP!NoFin
<1>1. R!Placed(s) = RP!Placed(s) /\ R!FinPlaced(s) = RP!FinPlaced(s) /\ R!Window = RP!Window
  BY DEF R!Placed, RP!Placed, R!Covered, RP!Covered, R!Index, RP!Index,
         R!FinPlaced, RP!FinPlaced, R!Window, RP!Window
<1>2. \A held, f, m : R!SkimLength(held, f, m) = RP!SkimLength(held, f, m)
  BY Zenon DEF R!SkimLength, RP!SkimLength
<1>3. \A bytes, n : R!Shift(bytes, n) = RP!Shift(bytes, n)
  BY Zenon DEF R!Shift, RP!Shift
<1>4. CASE fin = -1
  BY <1>4 DEF R!Assemble, RP!Assemble
<1>5. CASE fin # -1
  <2>1. PICK placed, f :
          /\ placed = IF fin = 0 THEN asm ELSE R!Placed(s)
          /\ f = IF fin = 0 THEN fin ELSE R!FinPlaced(s)
    OBVIOUS
  <2>2. PICK n, eof, size :
          /\ n = R!SkimLength(DOMAIN placed, f, R!Window)
          /\ eof = (n = f /\ n < AsmSize)
          /\ size = IF eof THEN n + 1 ELSE n
    OBVIOUS
  <2>3. /\ rSequence' = (rSequence + size) % M
        /\ asm' = R!Shift(placed, size)
        /\ fin' = IF f = -2 THEN -2 ELSE f - size
        /\ buf' = buf \o [i \in 1 .. n |-> placed[i - 1]]
        /\ hitEOF' = (hitEOF \/ eof)
    BY <1>5, <2>1, <2>2, Zenon DEF R!Assemble
  <2>4. /\ placed = IF fin = 0 THEN asm ELSE RP!Placed(s)
        /\ f = IF fin = 0 THEN fin ELSE RP!FinPlaced(s)
        /\ n = RP!SkimLength(DOMAIN placed, f, RP!Window)
        /\ asm' = RP!Shift(placed, size)
    BY <1>1, <1>2, <1>3, <2>1, <2>2, <2>3, Zenon
  <2> QED
    BY <1>5, <2>2, <2>3, <2>4, Zenon DEF RP!Assemble
<1> QED
  BY <1>4, <1>5

\* What it says of the receiver.
LEMMA RecvNames ==
  /\ R!SeqPos = RP!SeqPos
  /\ \A p, n, l : R!PeerSegment(p, n, l) = RP!PeerSegment(p, n, l)
  /\ R!Init => RP!Init
  /\ \A s : R!Handle(s) => RP!Handle(s)
  /\ R!SendAck => RP!SendAck
  /\ R!TakeWindowOpen => RP!TakeWindowOpen
  /\ \A r \in Readers :
       /\ \A n \in ReadSizes : R!Read(r, n) => RP!Read(r, n)
       /\ R!CheckDeadline(r) => RP!CheckDeadline(r)
       /\ R!Wake(r) => RP!Wake(r)
       /\ R!ReadLocked(r) => RP!ReadLocked(r)
<1> USE DEF R!asmVars, RP!asmVars, R!bufferVars, RP!bufferVars, R!readerVars, RP!readerVars,
            R!NoFin, RP!NoFin, R!SeqPos, RP!SeqPos, R!Window, RP!Window,
            R!Index, RP!Index, R!Covered, RP!Covered, R!Placed, RP!Placed,
            R!FinPlaced, RP!FinPlaced, R!SkimLength, RP!SkimLength, R!Shift, RP!Shift,
            R!Assemble, RP!Assemble, R!WakeReaders, RP!WakeReaders,
            R!Announce, RP!Announce, R!Returns, RP!Returns,
            R!LeavesSelect, RP!LeavesSelect, R!Readable, RP!Readable,
            R!OpensWindow, RP!OpensWindow
<1>1. R!SeqPos = RP!SeqPos
  OBVIOUS
<1>2. \A p, n, l : R!PeerSegment(p, n, l) = RP!PeerSegment(p, n, l)
  BY DEF R!PeerSegment, RP!PeerSegment
<1>3. R!Init => RP!Init
  BY Zenon DEF R!Init, RP!Init
<1>4. \A s : R!Handle(s) => RP!Handle(s)
  <2>1. \A s : R!Assemble(s) => RP!Assemble(s)
    BY SameAssemble
  <2>2. R!WakeReaders => RP!WakeReaders
    BY Zenon
  <2> HIDE DEF R!Assemble, RP!Assemble, R!WakeReaders, RP!WakeReaders
  <2> QED
    BY <2>1, <2>2, Zenon DEF R!Handle, RP!Handle
<1>5. (R!SendAck => RP!SendAck) /\ (R!TakeWindowOpen => RP!TakeWindowOpen)
  BY Zenon DEF R!SendAck, RP!SendAck, R!TakeWindowOpen, RP!TakeWindowOpen
<1>6. \A r \in Readers :
        /\ \A n \in ReadSizes : R!Read(r, n) => RP!Read(r, n)
        /\ R!CheckDeadline(r) => RP!CheckDeadline(r)
        /\ R!Wake(r) => RP!Wake(r)
  BY Zenon DEF R!Read, RP!Read, R!CheckDeadline, RP!CheckDeadline, R!Wake, RP!Wake
<1>7. \A r \in Readers : R!ReadLocked(r) => RP!ReadLocked(r)
  BY Zenon DEF R!ReadLocked, RP!ReadLocked
<1> QED
  BY <1>1, <1>2, <1>3, <1>4, <1>5, <1>6, <1>7, Zenon

----------------------------------------------------------------------------
(* The inductive invariant *)

\* The application writes no more than its stream, and closes behind it.
AppInv ==
  /\ base + bufLen <= end
  /\ sendEOF => base + bufLen = end

\* A packet on its way carries a piece of what was accepted and sent.
DataOK(s) ==
  /\ s.pos \in Nat /\ s.len \in Nat /\ s.fin \in BOOLEAN
  /\ s = RP!PeerSegment(s.pos, s.len, s.fin)
  /\ s.pos + s.len <= base + bufLen
  /\ s.fin => sendEOF /\ s.pos + s.len = end
  /\ SP!SegEnd(s) <= high

\* An ack on its way, however old, tells of what has arrived.
AckOK(a) == a.pos \in Nat /\ a.window \in Windows /\ a.pos <= RP!SeqPos

\* The middle of the chain of positions: the ends of it are in the two IInv.
ChainInv ==
  /\ heard <= RP!SeqPos
  /\ RP!Within(high)

TInv ==
  /\ SP!IInv
  /\ RP!IInv
  /\ AppInv
  /\ \A s \in data : DataOK(s)
  /\ \A a \in acks : AckOK(a)
  /\ ChainInv

\* What the steps need of it.
LEMMA Facts ==
  ASSUME TInv
  PROVE  /\ base \in Nat /\ bufLen \in Nat /\ high \in Nat /\ heard \in Nat
         /\ sendEOF \in BOOLEAN /\ sentEOF \in BOOLEAN
         /\ end \in Nat /\ Len(got) \in Nat /\ Len(buf) \in Nat
         /\ RP!SeqPos \in Nat /\ RP!Window \in Windows
         /\ DOMAIN asm \subseteq Int
         /\ fin \in Int /\ hitEOF \in BOOLEAN
<1>1. SP!TypeOK /\ RP!DataInv
  BY DEF TInv, SP!IInv, RP!IInv
<1>2. RP!SeqPos \in Nat /\ RP!Window \in Windows /\ Len(got) \in Nat /\ Len(buf) \in Nat
  BY <1>1, RecvHolds, RP!Positions, Zenon DEF RP!DataInv, Windows
<1>3. DOMAIN asm \subseteq Int /\ fin \in Int
  BY <1>1, RecvHolds DEF RP!DataInv, RP!AsmInv, RP!FinInv, RP!NoFin
<1> QED
  BY <1>1, <1>2, <1>3 DEF SP!TypeOK, RP!DataInv, RP!StreamInv, RP!FinInv

\* A side that takes no step keeps its invariant.
LEMMA RecvStays ==
  ASSUME RP!IInv, UNCHANGED rVars
  PROVE  RP!IInv' /\ RP!SeqPos' = RP!SeqPos
<1>1. UNCHANGED RP!vars
  BY DEF rVars, RP!vars, RP!asmVars, RP!bufferVars, RP!readerVars
<1>2. RP!IInv'
  BY <1>1, RecvHolds, RP!SafeStep, Zenon
<1>3. RP!SeqPos' = RP!SeqPos
  BY DEF rVars, RP!SeqPos
<1> QED
  BY <1>2, <1>3

LEMMA SendStays ==
  ASSUME SP!IInv, UNCHANGED sVars
  PROVE  SP!IInv'
<1>1. UNCHANGED SP!vars
  BY DEF sVars, SP!vars, SP!bufVars, SP!timerVars, SP!callVars, SP!envVars
<1> QED
  BY <1>1, SendHolds, SP!NextInv, Zenon

\* Packets and acks on their way stay what they are while the sender accepts and
\* sends more and the receiver gets more.
LEMMA OnTheWay ==
  ASSUME TInv, base' \in Nat, bufLen' \in Nat, high' \in Nat, base + bufLen <= base' + bufLen',
         sendEOF => sendEOF', end' = end, high <= high',
         NEW p \in Nat, p = RP!SeqPos', RP!SeqPos <= p
  PROVE  /\ \A s : DataOK(s) => DataOK(s)'
         /\ \A a : AckOK(a) => AckOK(a)'
<1>1. ASSUME NEW s, DataOK(s) PROVE DataOK(s)'
  <2>1. PICK b \in Nat, l \in Nat, h \in Nat : b = base' /\ l = bufLen' /\ h = high'
    OBVIOUS
  <2>2. PICK e \in Nat : e = SP!SegEnd(s)
    BY <1>1 DEF DataOK, SP!SegEnd
  <2>3. base + bufLen <= b + l /\ high <= h
    BY <2>1, Zenon
  <2>4. s.pos + s.len <= b + l /\ e <= h
    <3>1. PICK x \in Nat, y \in Nat : x = s.pos /\ y = s.len
      BY <1>1 DEF DataOK
    <3>2. x + y <= base + bufLen /\ e <= high
      BY <1>1, <2>2, <3>1, Zenon DEF DataOK
    <3>3. base \in Nat /\ bufLen \in Nat /\ high \in Nat
      BY Facts
    <3>4. x + y <= b + l /\ e <= h
      BY <2>3, <3>2, <3>3
    <3> QED
      BY <3>1, <3>4, Zenon
  <2>5. s.pos + s.len <= base' + bufLen' /\ SP!SegEnd(s) <= high'
    BY <2>1, <2>2, <2>4, Zenon
  <2>6. (s = RP!PeerSegment(s.pos, s.len, s.fin))'
    BY <1>1 DEF DataOK, RP!PeerSegment
  <2>7. (SP!SegEnd(s) <= high)'
    BY <2>5 DEF SP!SegEnd
  <2> QED
    BY <1>1, <2>5, <2>6, <2>7 DEF DataOK
<1>2. ASSUME NEW a, AckOK(a) PROVE AckOK(a)'
  <2>1. a.pos <= p
    <3>1. RP!SeqPos \in Nat /\ a.pos \in Nat /\ a.pos <= RP!SeqPos
      BY <1>2, Facts, Zenon DEF AckOK
    <3>2. PICK x \in Nat, y \in Nat : x = RP!SeqPos /\ y = a.pos
      BY <3>1, Zenon
    <3>3. y <= x /\ x <= p
      BY <3>1, <3>2, Zenon
    <3>4. y <= p
      BY ONLY x \in Nat, y \in Nat, p \in Nat, <3>3, SMT
    <3> QED
      BY <3>2, <3>4, Zenon
  <2> QED
    BY <1>2, <2>1 DEF AckOK, Windows
<1> QED
  BY <1>1, <1>2

\* The sender is never so far ahead that the numbers would wrap: all it has not
\* forgotten fits the room that its own invariant leaves.
LEMMA NeverFarAhead ==
  ASSUME TInv, NEW s \in data
  PROVE  s.pos + s.len <= end /\ (s.fin => s.pos + s.len = end)
         /\ s.pos + s.len - RP!SeqPos <= Ahead
<1>1. PICK x \in Nat, y \in Nat : x = s.pos /\ y = s.len
  BY DEF TInv, DataOK
<1>2. x + y <= base + bufLen /\ (s.fin => x + y = end)
  BY <1>1, Zenon DEF TInv, DataOK
<1>3. base + bufLen <= end /\ base \in Nat /\ bufLen \in Nat /\ end \in Nat
      /\ sendEOF \in BOOLEAN /\ sentEOF \in BOOLEAN
  BY Facts DEF TInv, AppInv
<1>4. PICK p \in Nat : p = RP!SeqPos
  BY Facts
<1>5. PICK q \in Nat, r \in Nat : q = SP!SeqPos /\ r = SP!Remaining
  BY Facts DEF SP!SeqPos, SP!Remaining
<1>6. q <= p
  <2>1. q <= heard /\ heard <= p
    BY <1>4, <1>5, Zenon DEF TInv, SP!IInv, SP!DropsOnlyAcked, ChainInv
  <2> QED
    BY <2>1, Facts
<1>7. base + bufLen <= q + r
  <2>1. sendEOF => bufLen = 0
    BY DEF TInv, SP!IInv, SP!EOFInv
  <2> QED
    BY <1>3, <1>5, <2>1 DEF SP!SeqPos, SP!Remaining
<1>8. MaxStale + r < M /\ M \in Nat /\ MaxStale \in Nat
  BY <1>5, SendHolds, Zenon DEF TInv, SP!IInv, SP!RoomInv
<1>9. x + y <= end /\ x + y - p <= M - MaxStale - 1
  BY <1>2, <1>3, <1>4, <1>5, <1>6, <1>7, <1>8
<1> QED
  BY <1>1, <1>2, <1>4, <1>9, Zenon DEF Ahead

----------------------------------------------------------------------------
(* The steps *)

LEMMA InitSafe == Init => TInv
<1> SUFFICES ASSUME Init PROVE TInv
  OBVIOUS
<1>1. S!Init /\ R!Init /\ data = {} /\ acks = {}
  BY DEF Init
<1>2. SP!IInv
  BY <1>1, SendHolds, SendNames, SP!InitInv, Zenon
<1>3. RP!IInv
  BY <1>1, RecvHolds, RecvNames, RP!InitSafe, Zenon
<1>4. base = 0 /\ bufLen = 0 /\ sendEOF = FALSE /\ high = 0 /\ heard = 0
  BY <1>1, SendNames DEF SP!Init
<1>5. got = << >> /\ buf = << >> /\ asm = << >> /\ fin = -2
  BY <1>1, RecvNames DEF RP!Init, RP!NoFin
<1>6. RP!SeqPos = 0
  BY <1>5 DEF RP!SeqPos
<1>7. end \in Nat
  BY <1>3 DEF RP!IInv, RP!DataInv, RP!StreamInv
<1>8. AppInv
  BY <1>4, <1>7 DEF AppInv
<1>9. ChainInv
  <2>1. heard <= RP!SeqPos /\ RP!SeqPos <= high
    BY <1>4, <1>6
  <2>2. DOMAIN asm = {} /\ ~(fin >= 0)
    BY <1>5
  <2> QED
    BY <2>1, <2>2 DEF ChainInv, RP!Within
<1> QED
  BY <1>1, <1>2, <1>3, <1>8, <1>9 DEF TInv

\* A step of the sending side, with the segment it sends if it sends one.
LEMMA SendingStep ==
  ASSUME TInv, SP!IInv', UNCHANGED rVars, AppInv',
         base + bufLen <= base' + bufLen', sendEOF => sendEOF', high <= high',
         heard' <= RP!SeqPos, acks' \subseteq acks,
         \A s \in data' : s \in data \/ DataOK(s)'
  PROVE  TInv'
<1>1. RP!IInv' /\ RP!SeqPos' = RP!SeqPos
  BY RecvStays DEF TInv
<1>2. end' = end /\ asm' = asm /\ fin' = fin
  BY DEF rVars
<1>3. base' \in Nat /\ bufLen' \in Nat /\ high' \in Nat
  BY DEF SP!IInv, SP!TypeOK
<1>4. PICK p \in Nat, h \in Nat : p = RP!SeqPos /\ h = high'
  BY <1>3, Facts
<1>5. /\ \A s : DataOK(s) => DataOK(s)'
      /\ \A a : AckOK(a) => AckOK(a)'
  <2>1. p = RP!SeqPos' /\ RP!SeqPos <= p
    BY <1>1, <1>4
  <2> QED
    BY <1>2, <1>3, <2>1, OnTheWay
<1>6. ChainInv'
  <2>1. high <= h /\ high \in Nat
    BY <1>4, Facts, Zenon
  <2>2. p <= high /\ (\A o \in DOMAIN asm : p + o < high) /\ (fin >= 0 => p + fin < high)
    BY <1>4, Zenon DEF TInv, ChainInv, RP!Within
  <2>3. DOMAIN asm \subseteq Int /\ fin \in Int
    BY Facts
  <2>4. p <= h /\ (\A o \in DOMAIN asm : p + o < h) /\ (fin >= 0 => p + fin < h)
    BY <2>1, <2>2, <2>3
  <2>5. RP!Within(high)'
    BY <1>1, <1>2, <1>4, <2>4, Zenon DEF RP!Within
  <2>6. heard' <= RP!SeqPos'
    BY <1>1, Zenon
  <2> QED
    BY <2>5, <2>6 DEF ChainInv
<1>7. \A s \in data' : DataOK(s)'
  BY <1>5 DEF TInv
<1>8. \A a \in acks' : AckOK(a)'
  BY <1>5 DEF TInv
<1> QED
  BY <1>1, <1>6, <1>7, <1>8 DEF TInv

\* What the application and the timers do to the sender.
LEMMA AppStep ==
  ASSUME TInv, AppWrite \/ AppClose \/ AppReturn \/ Timer
  PROVE  /\ TInv'
         /\ UNCHANGED <<base, high, heard>> /\ UNCHANGED rVars
         /\ \/ UNCHANGED <<bufLen, sendEOF>>
            \/ ~sendEOF /\ sendEOF' = TRUE /\ bufLen' = bufLen
            \/ \E n \in Chunks : ~sendEOF /\ UNCHANGED sendEOF /\ bufLen = 0 /\ bufLen' = n
<1>1. UNCHANGED rVars /\ data' = data /\ acks' = acks
  BY DEF AppWrite, AppClose, AppReturn, Timer, net
<1>2. base \in Nat /\ bufLen \in Nat /\ high \in Nat /\ heard \in Nat /\ end \in Nat
      /\ end' = end /\ SP!IInv /\ RP!SeqPos \in Nat
      /\ base + bufLen <= end /\ (sendEOF => base + bufLen = end)
      /\ heard <= RP!SeqPos /\ Chunks \subseteq Nat
  BY <1>1, Facts, SendHolds DEF rVars, TInv, AppInv, ChainInv
<1>3. CASE AppWrite
  <2>1. PICK n \in Chunks : base + n <= end /\ SP!Write(n)
    BY <1>3, SendNames DEF AppWrite
  <2>2. SP!IInv'
    BY <1>2, <2>1, SendHolds, SP!AdmittedStep, Zenon
  <2>3. /\ UNCHANGED <<base, high, heard, sendEOF>> /\ ~sendEOF /\ bufLen = 0 /\ bufLen' = n
    BY <2>1 DEF SP!Write, SP!Admitted, SP!envVars
  <2>4. n \in Nat /\ base + bufLen <= base + n
    BY <1>2, <2>3
  <2>5. AppInv'
    BY <1>2, <2>1, <2>3 DEF AppInv
  <2>6. TInv'
    <3>1. base + bufLen <= base' + bufLen'
      BY <2>3, <2>4, Zenon
    <3>2. high <= high' /\ heard' <= RP!SeqPos
      BY <1>2, <2>3
    <3> QED
      BY <1>1, <2>2, <2>3, <2>5, <3>1, <3>2, SendingStep
  <2> QED
    BY <1>1, <2>3, <2>6
<1>4. CASE AppClose
  <2>1. base = end /\ SP!Close
    BY <1>4, SendNames DEF AppClose
  <2>2. SP!IInv'
    BY <1>2, <2>1, SendHolds, SP!AdmittedStep, Zenon
  <2>3. UNCHANGED <<base, high, heard, bufLen>> /\ ~sendEOF /\ sendEOF' = TRUE /\ bufLen = 0
    BY <2>1 DEF SP!Close, SP!Admitted, SP!envVars
  <2>4. AppInv'
    BY <1>2, <2>1, <2>3 DEF AppInv
  <2>5. base + bufLen <= base' + bufLen' /\ high <= high' /\ heard' <= RP!SeqPos
    BY <1>2, <2>3
  <2> QED
    BY <1>1, <2>2, <2>3, <2>4, <2>5, SendingStep
<1>5. CASE AppReturn \/ Timer
  <2>1. SP!IInv' /\ UNCHANGED <<base, high, heard, bufLen, sendEOF>>
    <3>1. CASE AppReturn
      <4>1. SP!Return
        BY <3>1, SendNames DEF AppReturn
      <4>2. SP!IInv'
        BY <1>2, <4>1, SendHolds, SP!ReturnStep, Zenon
      <4> QED
        BY <4>1, <4>2 DEF SP!Return, SP!bufVars, SP!envVars
    <3>2. CASE Timer
      <4>1. PICK s : (s \in armed /\ SP!TimerFires(s)) \/ (s \in fired /\ SP!TimerSends(s))
        BY <3>2, SendNames DEF Timer
      <4>2. SP!IInv'
        BY <1>2, <4>1, SendHolds, SP!TimerStep, Zenon
      <4> QED
        BY <4>1, <4>2 DEF SP!TimerFires, SP!TimerSends, SP!bufVars, SP!envVars
    <3> QED
      BY <1>5, <3>1, <3>2
  <2>2. AppInv'
    BY <1>2, <2>1 DEF AppInv
  <2>3. base + bufLen <= base' + bufLen' /\ high <= high' /\ heard' <= RP!SeqPos
    BY <1>2, <2>1
  <2> QED
    BY <1>1, <2>1, <2>2, <2>3, SendingStep
<1> QED
  BY <1>3, <1>4, <1>5

\* The loop sends what the timer holds, and every such segment is a faithful one.
LEMMA SendDataStep ==
  ASSUME TInv, SendData
  PROVE  TInv' /\ UNCHANGED <<base, bufLen, sendEOF, heard>> /\ UNCHANGED rVars
<1>1. PICK s \in next : SP!Take(s) /\ data' \in After(data, s) /\ UNCHANGED <<rVars, acks>>
  BY SendNames DEF SendData
<1>2. SP!IInv'
  BY <1>1, SendHolds, SP!TakeStep, Zenon DEF TInv
<1>3. /\ UNCHANGED <<base, bufLen, sendEOF, heard>>
      /\ high' = IF SP!SegEnd(s) > high THEN SP!SegEnd(s) ELSE high
  BY <1>1 DEF SP!Take, SP!bufVars
<1>4. s \in SP!Segment /\ SP!Faithful(s) /\ SP!EOFInv
  BY DEF TInv, SP!IInv, SP!TypeOK, SP!SegmentsInPlace, SP!Held
<1>5. /\ s.pos \in Nat /\ s.len \in Nat /\ s.fin \in BOOLEAN
      /\ s = [start |-> s.start, pos |-> s.pos, len |-> s.len, fin |-> s.fin]
      /\ s.start = (ISS + s.pos) % M
      /\ s.pos + s.len <= base + bufLen
      /\ s.fin => sendEOF /\ s.pos = base /\ s.len = 0
      /\ sendEOF => bufLen = 0
  BY <1>4 DEF SP!Segment, SP!Faithful, SP!EOFInv
<1>6. base + bufLen <= end /\ (sendEOF => base + bufLen = end) /\ end' = end
      /\ base \in Nat /\ bufLen \in Nat /\ high \in Nat
  BY <1>1, Facts DEF TInv, AppInv, rVars
<1>7. PICK e \in Nat, h \in Nat : e = SP!SegEnd(s) /\ h = high'
  <2>1. SP!SegEnd(s) \in Nat
    BY <1>5 DEF SP!SegEnd
  <2> QED
    BY <1>3, <1>6, <2>1
<1>8. h >= high /\ e <= h
  BY <1>3, <1>6, <1>7
<1>9. DataOK(s)'
  <2>1. s = RP!PeerSegment(s.pos, s.len, s.fin)
    BY <1>5, Zenon DEF RP!PeerSegment
  <2>2. s.fin => sendEOF /\ s.pos + s.len = end
    <3> SUFFICES ASSUME s.fin PROVE sendEOF /\ s.pos + s.len = end
      OBVIOUS
    <3>1. sendEOF /\ s.pos = base /\ s.len = 0 /\ bufLen = 0 /\ base + bufLen = end
      BY <1>5, <1>6
    <3> QED
      BY <3>1, <1>6
  <2>3. SP!SegEnd(s) <= high'
    BY <1>7, <1>8, Zenon
  <2>4. (s = RP!PeerSegment(s.pos, s.len, s.fin))'
    BY <2>1 DEF RP!PeerSegment
  <2>5. (SP!SegEnd(s) <= high)'
    BY <2>3 DEF SP!SegEnd
  <2> QED
    BY <1>3, <1>5, <1>6, <2>2, <2>4, <2>5 DEF DataOK
<1>10. AppInv'
  BY <1>3, <1>6 DEF AppInv
<1>11. \A t \in data' : t \in data \/ DataOK(t)'
  <2>1. data' \subseteq data \union {s}
    BY <1>1 DEF After
  <2> QED
    BY <1>9, <2>1
<1>12. base + bufLen <= base' + bufLen' /\ high <= high' /\ heard' <= RP!SeqPos
  <2>1. base + bufLen <= base + bufLen /\ high <= h /\ heard <= RP!SeqPos
    BY <1>6, <1>8 DEF TInv, ChainInv
  <2> QED
    BY <1>3, <1>7, <2>1, Zenon
<1> QED
  BY <1>1, <1>2, <1>3, <1>10, <1>11, <1>12, SendingStep

\* An ack moves the front of the buffer, and never past what the receiver has.
LEMMA AckStep ==
  ASSUME TInv, NEW a \in acks, DeliverAck(a)
  PROVE  /\ TInv' /\ UNCHANGED rVars
         /\ UNCHANGED sendEOF /\ base' + bufLen' = base + bufLen
         /\ base <= base'
<1>1. /\ S!SeqPos - a.pos <= MaxStale /\ SP!Handle(a.pos, a.window)
      /\ acks' \subseteq acks /\ UNCHANGED <<rVars, data>>
  BY SendNames DEF DeliverAck
<1>2. a.pos \in Nat /\ a.window \in Windows /\ a.pos <= RP!SeqPos /\ RP!SeqPos <= high
      /\ high \in Nat /\ RP!SeqPos \in Nat
  BY Facts DEF TInv, AckOK, ChainInv, RP!Within
<1>3. a.pos \in 0 .. high /\ SP!PeerAck(a.pos)
  <2>1. SP!SeqPos - a.pos <= MaxStale
    BY <1>1, SendNames
  <2>2. a.pos <= high
    BY <1>2
  <2> QED
    BY <1>2, <2>1, <2>2 DEF SP!PeerAck
<1>4. SP!IInv'
  BY <1>1, <1>2, <1>3, SendHolds, SP!HandleStep, Zenon DEF TInv
<1>5. /\ SP!TypeOK /\ SP!SequenceInv /\ SP!EOFInv /\ SP!RoomInv /\ SP!PeerInv
      /\ SP!BufferHandle((ISS + a.pos) % M)
      /\ high' = high /\ heard' = IF a.pos > heard THEN a.pos ELSE heard
  BY <1>1, Zenon DEF TInv, SP!IInv, SP!Handle
<1>6. /\ sendEOF' = sendEOF /\ base' + bufLen' = base + bufLen
      /\ bufLen' <= bufLen /\ base' \in Nat /\ bufLen' \in Nat
  BY <1>2, <1>3, <1>5, SendHolds, SP!HandleEffect, Zenon
<1>7. base \in Nat /\ bufLen \in Nat /\ heard \in Nat /\ end \in Nat /\ heard <= RP!SeqPos
      /\ end' = end
  BY <1>1, Facts DEF TInv, ChainInv, rVars
<1>8. PICK b \in Nat, l \in Nat : b = base' /\ l = bufLen'
  BY <1>6
<1>9. b + l = base + bufLen /\ l <= bufLen
  BY <1>6, <1>8, Zenon
<1>10. base <= b
  BY <1>7, <1>9
<1>11. AppInv'
  <2>1. base + bufLen <= end /\ (sendEOF => base + bufLen = end)
    BY DEF TInv, AppInv
  <2> QED
    BY <1>6, <1>7, <2>1, Zenon DEF AppInv
<1>12. heard' <= RP!SeqPos
  BY <1>2, <1>5, <1>7
<1>13. base + bufLen <= base' + bufLen' /\ high <= high'
  <2>1. base + bufLen <= base + bufLen /\ high <= high
    BY <1>2, <1>7
  <2> QED
    BY <1>5, <1>6, <2>1, Zenon
<1>14. TInv'
  BY <1>1, <1>4, <1>6, <1>11, <1>12, <1>13, SendingStep
<1> QED
  BY <1>1, <1>6, <1>8, <1>10, <1>14, Zenon

\* A step of the receiving side, with the ack it sends if it sends one.
LEMMA ReceivingStep ==
  ASSUME TInv, RP!IInv', UNCHANGED sVars, end' = end, data' \subseteq data,
         RP!SeqPos <= RP!SeqPos', RP!Within(high)',
         \A a \in acks' : a \in acks \/ AckOK(a)'
  PROVE  TInv'
<1>1. SP!IInv'
  BY SendStays DEF TInv
<1>2. UNCHANGED <<base, bufLen, sendEOF, high, heard>>
  BY DEF sVars
<1>3. RP!DataInv'
  BY DEF RP!IInv
<1>4. RP!SeqPos' \in Nat
  <2>1. Len(got') \in Nat /\ Len(buf') \in Nat
    BY <1>3 DEF RP!DataInv, RP!StreamInv
  <2> QED
    BY <2>1 DEF RP!SeqPos
<1>5. PICK p \in Nat : p = RP!SeqPos'
  BY <1>4
<1>6. RP!SeqPos <= p /\ RP!SeqPos \in Nat /\ heard \in Nat /\ heard <= RP!SeqPos
  BY <1>5, Facts DEF TInv, ChainInv
<1>7. /\ \A s : DataOK(s) => DataOK(s)'
      /\ \A a : AckOK(a) => AckOK(a)'
  <2>1. base' \in Nat /\ bufLen' \in Nat /\ high' \in Nat
        /\ base + bufLen <= base' + bufLen' /\ high <= high'
    <3>1. base \in Nat /\ bufLen \in Nat /\ high \in Nat
      BY Facts
    <3>2. base + bufLen <= base + bufLen /\ high <= high
      BY <3>1
    <3> QED
      BY <1>2, <3>1, <3>2, Zenon
  <2> QED
    BY <1>2, <1>5, <1>6, <2>1, OnTheWay
<1>8. ChainInv'
  <2>1. heard <= p
    BY <1>6
  <2> QED
    BY <1>2, <1>5, <2>1, Zenon DEF ChainInv
<1>9. AppInv'
  BY <1>2 DEF TInv, AppInv
<1>10. (\A s \in data' : DataOK(s)') /\ (\A a \in acks' : AckOK(a)')
  BY <1>7 DEF TInv
<1> QED
  BY <1>1, <1>8, <1>9, <1>10 DEF TInv

\* A packet that arrives is one that TcpRecv may receive.
LEMMA ArriveStep ==
  ASSUME TInv, NEW s \in data, Deliver(s)
  PROVE  /\ TInv' /\ UNCHANGED sVars /\ UNCHANGED <<got, end>>
         /\ Len(buf) <= Len(buf')
         /\ hitEOF => UNCHANGED <<buf, hitEOF>>
<1>1. /\ R!SeqPos - s.pos <= MaxStale /\ RP!Handle(s)
      /\ data' \subseteq data /\ UNCHANGED <<sVars, acks>>
  BY RecvNames DEF Deliver
<1>2. DataOK(s)
  BY DEF TInv
<1>3. RP!PeerSends(s, s.pos, s.len, s.fin)
  <2>1. RP!SeqPos - s.pos <= MaxStale
    BY <1>1, RecvNames
  <2> QED
    BY <1>2, <2>1, NeverFarAhead, Zenon DEF DataOK, RP!PeerSends, RP!InFlight
<1>4. RP!IInv'
  BY <1>1, <1>3, RecvHolds, RP!HandleStep, Zenon DEF TInv
<1>5. RP!DataInv /\ RP!Assemble(s) /\ UNCHANGED <<got, end>>
  BY <1>1, Zenon DEF TInv, RP!IInv, RP!Handle
<1>6. RP!DataInv' /\ RP!SeqPos' >= RP!SeqPos /\ RP!Window' <= RP!Window
  BY <1>3, <1>5, RecvHolds, RP!AssembleStep, Zenon
<1>7. PICK h \in Nat : h = high
  BY Facts
<1>8. RP!Within(h)'
  <2>1. RP!Within(h)
    BY <1>7 DEF TInv, ChainInv, RP!Within
  <2>2. s.pos + s.len + (IF s.fin THEN 1 ELSE 0) <= h
    BY <1>2, <1>7 DEF DataOK, SP!SegEnd
  <2> QED
    BY <1>3, <1>5, <1>7, <2>1, <2>2, RecvHolds, RP!AssembleWithin
<1>9. RP!Within(high)'
  <2>1. high' = h
    BY <1>1, <1>7 DEF sVars
  <2> QED
    BY <1>8, <2>1, Zenon DEF RP!Within
<1>10. RP!SeqPos <= RP!SeqPos'
  <2>1. Len(got') \in Nat /\ Len(buf') \in Nat
    BY <1>6 DEF RP!DataInv, RP!StreamInv
  <2>2. PICK p \in Nat : p = RP!SeqPos'
    BY <2>1 DEF RP!SeqPos
  <2>3. p >= RP!SeqPos
    BY <1>6, <2>2, Zenon
  <2>4. RP!SeqPos <= p
    BY <2>2, <2>3, Facts
  <2> QED
    BY <2>2, <2>4
<1>11. TInv'
  BY <1>1, <1>4, <1>5, <1>9, <1>10, ReceivingStep
<1>12. Len(buf) <= Len(buf')
  <2>1. PICK l \in Nat : l = Len(buf')
    BY <1>6 DEF RP!DataInv, RP!StreamInv
  <2>2. BufSize - l <= BufSize - Len(buf)
    BY <1>6, <2>1, Zenon DEF RP!Window
  <2>3. Len(buf) <= l
    BY <2>1, <2>2, Facts, RecvHolds
  <2> QED
    BY <2>1, <2>3
<1>13. hitEOF => UNCHANGED <<buf, hitEOF>>
  <2>1. hitEOF => fin = -1
    BY <1>5 DEF RP!DataInv, RP!FinInv
  <2> QED
    BY <1>5, <2>1 DEF RP!Assemble
<1> QED
  BY <1>1, <1>5, <1>11, <1>12, <1>13

\* The loop acknowledges what it has, which is less than was sent.
LEMMA AckingStep ==
  ASSUME TInv, SendAck \/ WindowOpens
  PROVE  TInv' /\ UNCHANGED sVars /\ UNCHANGED <<got, buf, hitEOF, end>>
<1>1. /\ RP!SendAck \/ RP!TakeWindowOpen
      /\ UNCHANGED <<sVars, data>>
      /\ acks' = acks \/ (RP!SendAck /\ acks' \in After(acks, announced'))
  BY RecvNames DEF SendAck, WindowOpens, net
<1>2. RP!IInv' /\ RP!SeqPos' = RP!SeqPos
  BY <1>1, RecvHolds, RP!LoopStep, Zenon DEF TInv
<1>3. UNCHANGED <<asm, fin, got, buf, hitEOF, end>>
  BY <1>1 DEF RP!SendAck, RP!TakeWindowOpen, RP!asmVars, RP!bufferVars
<1>4. high' = high
  BY <1>1 DEF sVars
<1>5. RP!Within(high)'
  BY <1>2, <1>3, <1>4, Zenon DEF TInv, ChainInv, RP!Within
<1>6. ASSUME NEW a \in acks' PROVE a \in acks \/ AckOK(a)'
  <2>1. CASE acks' = acks
    BY <2>1
  <2>2. CASE RP!SendAck /\ acks' \in After(acks, announced')
    <3>1. a \in acks \/ a = announced'
      BY <2>2, <1>6 DEF After
    <3>2. announced' = [pos |-> RP!SeqPos, window |-> RP!Window]
      BY <2>2 DEF RP!SendAck, RP!Announce
    <3>3. a = announced' => a.pos = RP!SeqPos /\ a.window = RP!Window
      BY <3>2
    <3>4. RP!SeqPos \in Nat /\ RP!Window \in Windows /\ RP!SeqPos <= RP!SeqPos
      BY Facts
    <3> QED
      BY <1>2, <3>1, <3>3, <3>4, Zenon DEF AckOK, Windows
  <2> QED
    BY <1>1, <2>1, <2>2
<1>7. RP!SeqPos <= RP!SeqPos'
  <2>1. RP!SeqPos <= RP!SeqPos
    BY Facts
  <2> QED
    BY <1>2, <2>1
<1> QED
  BY <1>1, <1>2, <1>3, <1>5, <1>6, <1>7, ReceivingStep

\* The reader takes bytes from the front of what has arrived.
LEMMA AppReadStep ==
  ASSUME TInv, AppRead
  PROVE  /\ TInv' /\ UNCHANGED sVars /\ UNCHANGED <<hitEOF, end>>
         /\ \/ UNCHANGED <<got, buf>>
            \/ /\ Len(got) <= Len(got')
               /\ Len(got') + Len(buf') = Len(got) + Len(buf)
<1>1. PICK r \in Readers : \/ \E n \in ReadSizes : RP!Read(r, n)
                           \/ RP!CheckDeadline(r)
                           \/ RP!Wake(r)
                           \/ RP!ReadLocked(r)
  BY RecvNames DEF AppRead
<1>2. UNCHANGED <<sVars, data, acks>> /\ high' = high
  BY DEF AppRead, net, sVars
<1>3. RP!IInv'
  BY <1>1, RecvHolds, RP!ReaderStep, RP!ReadStep, Zenon DEF TInv
<1>4. UNCHANGED <<asm, fin, hitEOF, end>>
  BY <1>1 DEF RP!Read, RP!CheckDeadline, RP!Wake, RP!ReadLocked, RP!asmVars, RP!bufferVars
<1>5. /\ RP!SeqPos' = RP!SeqPos
      /\ \/ UNCHANGED <<got, buf>>
         \/ /\ Len(got) <= Len(got')
            /\ Len(got') + Len(buf') = Len(got) + Len(buf)
  <2>1. CASE \/ \E n \in ReadSizes : RP!Read(r, n)
             \/ RP!CheckDeadline(r)
             \/ RP!Wake(r)
    <3>1. UNCHANGED <<got, buf>>
      BY <2>1 DEF RP!Read, RP!CheckDeadline, RP!Wake, RP!bufferVars
    <3> QED
      BY <1>4, <3>1 DEF RP!SeqPos
  <2>2. CASE RP!ReadLocked(r)
    <3>1. PICK n : n = RP!Readable(r)
      OBVIOUS
    <3>2. /\ RP!DataInv /\ RP!ReaderType
      BY DEF TInv, RP!IInv
    <3>3. RP!SeqPos' = RP!SeqPos /\ Len(buf') = Len(buf) - n
      BY <2>2, <3>1, <3>2, RecvHolds, RP!ReadData, Zenon
    <3>4. n \in 0 .. Len(buf)
      BY <3>1, <3>2, RecvHolds, RP!HowMuch, Zenon DEF RP!DataInv
    <3>5. PICK g \in Nat, b \in Nat, x \in Nat :
            /\ g = Len(got') /\ b = Len(buf')
            /\ x = IF fin = -1 THEN 1 ELSE 0
      BY <1>3 DEF RP!IInv, RP!DataInv, RP!StreamInv
    <3>6. g + b + x = Len(got) + Len(buf) + x
      BY <1>4, <3>3, <3>5, Zenon DEF RP!SeqPos
    <3>7. b = Len(buf) - n
      BY <3>3, <3>5
    <3>8. Len(got) <= g /\ g + b = Len(got) + Len(buf)
      BY <3>4, <3>5, <3>6, <3>7, Facts
    <3> QED
      BY <3>3, <3>5, <3>8, Zenon
  <2> QED
    BY <1>1, <2>1, <2>2
<1>6. RP!Within(high)'
  BY <1>2, <1>4, <1>5, Zenon DEF TInv, ChainInv, RP!Within
<1>7. RP!SeqPos <= RP!SeqPos'
  <2>1. RP!SeqPos <= RP!SeqPos
    BY Facts
  <2> QED
    BY <1>5, <2>1
<1>8. TInv'
  BY <1>2, <1>3, <1>4, <1>6, <1>7, ReceivingStep
<1> QED
  BY <1>2, <1>4, <1>5, <1>8

\* The network loses, and a side that rests keeps what it has.
LEMMA NetStep ==
  ASSUME TInv, UNCHANGED <<sVars, rVars>>, data' \subseteq data, acks' \subseteq acks
  PROVE  TInv'
<1>1. RP!IInv' /\ RP!SeqPos' = RP!SeqPos /\ RP!SeqPos <= RP!SeqPos
  BY RecvStays, Facts DEF TInv
<1>2. UNCHANGED <<asm, fin, end, high>>
  BY DEF rVars, sVars
<1>3. RP!Within(high)'
  BY <1>1, <1>2, Zenon DEF TInv, ChainInv, RP!Within
<1> QED
  BY <1>1, <1>2, <1>3, ReceivingStep

LEMMA SafeStep == TInv /\ [Next]_vars => TInv'
<1> SUFFICES ASSUME TInv, [Next]_vars PROVE TInv'
  OBVIOUS
<1>1. CASE AppWrite \/ AppClose \/ AppReturn \/ Timer
  BY <1>1, AppStep
<1>2. CASE SendData
  BY <1>2, SendDataStep
<1>3. ASSUME NEW a \in acks, DeliverAck(a) PROVE TInv'
  BY <1>3, AckStep
<1>4. ASSUME NEW s \in data, Deliver(s) PROVE TInv'
  BY <1>4, ArriveStep
<1>5. CASE SendAck \/ WindowOpens
  BY <1>5, AckingStep
<1>6. CASE AppRead
  BY <1>6, AppReadStep
<1>7. CASE Lose \/ UNCHANGED vars
  <2>1. UNCHANGED <<sVars, rVars>> /\ data' \subseteq data /\ acks' \subseteq acks
    BY <1>7 DEF Lose, vars, net
  <2> QED
    BY <2>1, NetStep
<1> QED
  BY <1>1, <1>2, <1>3, <1>4, <1>5, <1>6, <1>7 DEF Next

LEMMA Safe == Spec => []TInv
<1> QED
  BY InitSafe, SafeStep, PTL DEF Spec

----------------------------------------------------------------------------
(* The theorems *)

\* Each side of a connection is the peer that the other was proved safe with,
\* whatever the network does with the packets between them.
THEOREM PeersStayConforming == Spec => []PeersConform
<1>1. TInv => PeersConform
  <2> SUFFICES ASSUME TInv PROVE PeersConform
    OBVIOUS
  <2>1. ASSUME NEW s \in data
        PROVE  /\ s = R!PeerSegment(s.pos, s.len, s.fin)
               /\ s.pos + s.len <= end
               /\ s.fin => s.pos + s.len = end
               /\ s.pos + s.len - R!SeqPos <= Ahead
    BY NeverFarAhead, RecvNames, Zenon DEF TInv, DataOK
  <2>2. ASSUME NEW a \in acks
        PROVE  a.pos <= high /\ a.window \in Windows
    BY Facts DEF TInv, AckOK, ChainInv, RP!Within
  <2> QED
    BY <2>1, <2>2 DEF PeersConform
<1> QED
  BY <1>1, Safe, PTL

\* The two ends of the chain: what has arrived was written, and what was confirmed
\* has arrived.
EndsInv ==
  /\ base <= Len(got) + Len(buf)
  /\ Len(got) + Len(buf) <= base + bufLen
  /\ hitEOF => sendEOF /\ Len(got) + Len(buf) = base + bufLen

LEMMA Ends == TInv => EndsInv
<1> SUFFICES ASSUME TInv PROVE EndsInv
  OBVIOUS
<1>1. PICK q \in Nat, r \in Nat : q = SP!SeqPos /\ r = SP!Remaining
  BY Facts DEF SP!SeqPos, SP!Remaining
<1>2. PICK p \in Nat, m \in Nat : p = RP!SeqPos /\ m = Len(got) + Len(buf)
  BY Facts
<1>3. /\ base \in Nat /\ bufLen \in Nat /\ end \in Nat /\ high \in Nat /\ heard \in Nat
      /\ sendEOF \in BOOLEAN /\ sentEOF \in BOOLEAN
      /\ base + bufLen <= end /\ (sendEOF => base + bufLen = end)
      /\ (sentEOF => sendEOF) /\ (sendEOF => bufLen = 0)
  BY Facts DEF TInv, AppInv, SP!IInv, SP!EOFInv
<1>4. base <= q /\ (~sendEOF => q + r = base + bufLen) /\ q + r <= base + bufLen + 1
  BY <1>1, <1>3 DEF SP!SeqPos, SP!Remaining
<1>5. q <= heard /\ heard <= p /\ p <= high /\ high <= q + r
  BY <1>1, <1>2, Zenon
  DEF TInv, SP!IInv, SP!DropsOnlyAcked, SP!PeerInv, ChainInv, RP!Within
<1>6. /\ m <= end
      /\ p = IF fin = -1 THEN m + 1 ELSE m
      /\ fin = -1 => m = end
      /\ hitEOF <=> fin = -1
  <2>1. RP!StreamInv /\ RP!FinInv
    BY DEF TInv, RP!IInv, RP!DataInv
  <2>2. m <= end /\ (fin = -1 => m = end) /\ (hitEOF <=> fin = -1)
    BY <1>2, <2>1, Zenon DEF RP!StreamInv, RP!FinInv
  <2>3. p = m + (IF fin = -1 THEN 1 ELSE 0)
    BY <1>2, Zenon DEF RP!SeqPos
  <2> QED
    BY <1>2, <2>2, <2>3
<1>7. CASE fin = -1
  BY <1>2, <1>3, <1>4, <1>5, <1>6, <1>7 DEF EndsInv
<1>8. CASE fin # -1
  BY <1>2, <1>3, <1>4, <1>5, <1>6, <1>8 DEF EndsInv
<1> QED
  BY <1>7, <1>8

LEMMA StreamStep == TInv /\ [Next]_vars => [Stream!Next]_Stream!vars
<1> SUFFICES ASSUME TInv, [Next]_vars PROVE Stream!Next \/ UNCHANGED Stream!vars
  OBVIOUS
<1>1. TInv'
  BY SafeStep
<1>2. /\ base \in Nat /\ bufLen \in Nat /\ Len(got) \in Nat /\ Len(buf) \in Nat
      /\ base' \in Nat /\ bufLen' \in Nat /\ Len(got') \in Nat /\ Len(buf') \in Nat
      /\ hitEOF \in BOOLEAN /\ hitEOF' \in BOOLEAN
  <2>1. base' \in Nat /\ bufLen' \in Nat
    BY <1>1 DEF TInv, SP!IInv, SP!TypeOK
  <2>2. Len(got') \in Nat /\ Len(buf') \in Nat /\ hitEOF' \in BOOLEAN
    BY <1>1 DEF TInv, RP!IInv, RP!DataInv, RP!StreamInv, RP!FinInv
  <2> QED
    BY <2>1, <2>2, Facts
<1>3. (/\ base <= Len(got) + Len(buf)
       /\ Len(got) + Len(buf) <= base + bufLen
       /\ hitEOF => sendEOF /\ Len(got) + Len(buf) = base + bufLen)'
  <2>1. EndsInv'
    BY <1>1, Ends, PTL
  <2> QED
    BY <2>1 DEF EndsInv
<1> USE DEF Stream!vars
<1>4. CASE AppWrite \/ AppClose \/ AppReturn \/ Timer
  <2>1. UNCHANGED <<base, got, buf, hitEOF>>
    BY <1>4, AppStep DEF rVars
  <2>2. CASE UNCHANGED <<bufLen, sendEOF>>
    BY <2>1, <2>2
  <2>3. CASE ~sendEOF /\ sendEOF' = TRUE /\ bufLen' = bufLen
    BY <2>1, <2>3 DEF Stream!Next, Stream!Close
  <2>4. ASSUME NEW n \in Chunks, ~sendEOF, UNCHANGED sendEOF, bufLen = 0, bufLen' = n
        PROVE  Stream!Next
    <3>1. base' + bufLen' = (base + bufLen) + n
      <4>1. n \in Nat /\ base + n = (base + bufLen) + n
        BY <1>2, <2>4, SendHolds
      <4> QED
        BY <2>1, <2>4, <4>1, Zenon
    <3> QED
      BY <2>1, <2>4, <3>1, Zenon DEF Stream!Next, Stream!Write
  <2> QED
    BY <1>4, <2>2, <2>3, <2>4, AppStep
<1>5. CASE SendData
  BY <1>5, SendDataStep DEF rVars
<1>6. ASSUME NEW a \in acks, DeliverAck(a)
      PROVE  Stream!Next
  <2>1. /\ UNCHANGED <<got, buf, hitEOF, sendEOF>> /\ base' + bufLen' = base + bufLen
        /\ base <= base'
    BY <1>6, AckStep DEF rVars
  <2>2. PICK b \in Nat : b = base'
    BY <1>2
  <2>3. b <= Len(got) + Len(buf) /\ base <= b
    BY <1>3, <2>1, <2>2, Zenon
  <2>4. base' \in base .. (Len(got) + Len(buf))
    BY <1>2, <2>2, <2>3
  <2> QED
    BY <2>1, <2>4, Zenon DEF Stream!Next, Stream!Confirm
<1>7. ASSUME NEW s \in data, Deliver(s)
      PROVE  Stream!Next
  <2>1. /\ UNCHANGED <<base, bufLen, sendEOF, got>> /\ Len(buf) <= Len(buf')
        /\ hitEOF => UNCHANGED <<buf, hitEOF>>
    BY <1>7, ArriveStep DEF sVars
  <2>2. PICK l \in Nat : l = Len(buf')
    BY <1>2
  <2>3. Len(got) + l <= base + bufLen /\ Len(buf) <= l
    BY <1>3, <2>1, <2>2, Zenon
  <2>4. Len(got) + l \in (Len(got) + Len(buf)) .. (base + bufLen)
    BY <1>2, <2>3
  <2>5. hitEOF' => sendEOF /\ Len(got') + Len(buf') = base + bufLen
    BY <1>3, <2>1, Zenon
  <2>6. Len(got') + Len(buf') \in (Len(got) + Len(buf)) .. (base + bufLen)
    BY <2>1, <2>2, <2>4, Zenon
  <2>7. hitEOF => hitEOF' /\ Len(got') + Len(buf') = Len(got) + Len(buf)
    BY <2>1, Zenon
  <2> QED
    BY <1>2, <2>1, <2>5, <2>6, <2>7, Zenon DEF Stream!Next, Stream!Arrive
<1>8. CASE SendAck \/ WindowOpens
  BY <1>8, AckingStep DEF sVars
<1>9. CASE AppRead
  <2>1. UNCHANGED <<base, bufLen, sendEOF, hitEOF>>
    BY <1>9, AppReadStep DEF sVars
  <2>2. CASE UNCHANGED <<got, buf>>
    BY <2>1, <2>2
  <2>3. CASE Len(got) <= Len(got') /\ Len(got') + Len(buf') = Len(got) + Len(buf)
    <3>1. PICK g \in Nat, b \in Nat : g = Len(got') /\ b = Len(buf')
      BY <1>2
    <3>2. Len(got) <= g /\ g + b = Len(got) + Len(buf)
      BY <2>3, <3>1, Zenon
    <3>3. g \in Len(got) .. (Len(got) + Len(buf))
      BY <1>2, <3>1, <3>2
    <3> QED
      BY <2>1, <2>3, <3>1, <3>3, Zenon DEF Stream!Next, Stream!Read
  <2> QED
    BY <1>9, <2>2, <2>3, AppReadStep
<1>10. CASE Lose \/ UNCHANGED vars
  BY <1>10 DEF Lose, vars, sVars, rVars
<1> QED
  BY <1>4, <1>5, <1>6, <1>7, <1>8, <1>9, <1>10 DEF Next

\* A connection is a byte stream: what is read is what was written, in order and
\* once, the EOF comes after all of it, and a writer is told of success only when
\* the other side has its data.
THEOREM TransferImplementsByteStream == Spec => ImplementsByteStream
<1>1. Init => Stream!Init
  <2> SUFFICES ASSUME Init PROVE Stream!Init
    OBVIOUS
  <2>1. base = 0 /\ bufLen = 0 /\ sendEOF = FALSE
    BY SendNames DEF Init, SP!Init
  <2>2. got = << >> /\ buf = << >> /\ hitEOF = FALSE
    BY RecvNames DEF Init, RP!Init
  <2> QED
    BY <2>1, <2>2 DEF Stream!Init
<1> QED
  BY <1>1, Safe, StreamStep, PTL DEF Spec, ImplementsByteStream, Stream!Spec
============================================================================

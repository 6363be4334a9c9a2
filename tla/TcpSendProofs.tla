--------------------------- MODULE TcpSendProofs ---------------------------
(***************************************************************************)
(* The safety invariants of TcpSend, proved for every modulus, window set, *)
(* chunk size and number of pending timer callbacks.                       *)
(*                                                                         *)
(* The argument rests on three facts.  Arithmetic: an ack of this buffer is  *)
(* at circular distance at most Remaining from sequence, and an older one, *)
(* as long as it is at most MaxStale old, is not (AckOffset).  Ownership:  *)
(* a segment held by the timer, however old, describes accepted bytes that *)
(* no later step moves or renumbers (SendNextFaithful).  Reuse: a call is  *)
(* admitted only to an empty buffer, and its slice is out of its caller's  *)
(* reach until the call returns, or has timed out or failed (LeftoverInv). *)
(***************************************************************************)
EXTENDS TcpSend, TLAPS

----------------------------------------------------------------------------
(* The inductive invariant *)

\* sequence is the image of the stream position.
SequenceInv == sequence = (ISS + SeqPos) % M

\* The EOF follows the data, and the two share the buffer's one interval.
EOFInv ==
  /\ sentEOF => sendEOF
  /\ sendEOF => bufLen = 0

\* The typing that these need; TypeOK has it too.
BufferType ==
  /\ sequence \in 0 .. M - 1
  /\ sendEOF \in BOOLEAN
  /\ sentEOF \in BOOLEAN
  /\ base \in Nat
  /\ bufLen \in Nat
  /\ window \in Windows

BufferInv == BufferType /\ SequenceInv /\ EOFInv

\* The outstanding interval is too short for an old ack to wrap into it.
RoomInv == MaxStale + Remaining < M

\* What was acknowledged was sent, and what was sent was accepted.
PeerInv == heard <= high /\ high <= SeqPos + Remaining

\* The buffer is what is left of the blocked call's data.
CallInv ==
  phase = "select" =>
    /\ callStart + callLen = base + bufLen
    /\ bufLen <= callLen
    /\ callLen = 0 => sendEOF
    /\ woken /\ ~failed => Remaining = 0

IInv ==
  /\ TypeOK
  /\ SequenceInv
  /\ EOFInv
  /\ RoomInv
  /\ PeerInv
  /\ DropsOnlyAcked
  /\ SegmentsInPlace
  /\ RetransmissionAlive
  /\ NoLostWakeup
  /\ CallInv
  /\ CountIsAcked

----------------------------------------------------------------------------
(* Arithmetic modulo m *)

LEMMA ModOfSum ==
  ASSUME NEW m \in Nat \ {0}, NEW q \in Int, NEW x \in Int
  PROVE  (q * m + x) % m = x % m
<1> DEFINE r == x % m
           d == x \div m
<1>1. r \in 0 .. m - 1 /\ d \in Int /\ x = d * m + r
  OBVIOUS
<1> HIDE DEF r, d
<1>2. q * m + x = (q + d) * m + r
  BY <1>1
<1>3. ((q + d) * m + r) % m = r
  BY <1>1
<1> QED BY <1>2, <1>3 DEF r

LEMMA ModAdd ==
  ASSUME NEW m \in Nat \ {0}, NEW x \in Int, NEW k \in Int
  PROVE  ((x % m) + k) % m = (x + k) % m
<1> DEFINE r == x % m
           q == x \div m
<1>1. r \in Int /\ q \in Int /\ x = q * m + r
  OBVIOUS
<1> HIDE DEF r, q
<1>2. x + k = q * m + (r + k) /\ r + k \in Int
  BY <1>1
<1>3. (q * m + (r + k)) % m = (r + k) % m
  BY <1>1, <1>2, ModOfSum, Zenon
<1> QED BY <1>2, <1>3 DEF r

LEMMA ModSub ==
  ASSUME NEW m \in Nat \ {0}, NEW x \in Int, NEW y \in Int
  PROVE  ((x % m) - (y % m)) % m = (x - y) % m
<1> DEFINE r == y % m
           q == y \div m
<1>1. r \in Int /\ q \in Int /\ y = q * m + r
  OBVIOUS
<1>2. ((x % m) - r) % m = (x - r) % m
  <2>1. -r \in Int /\ x + (-r) = x - r /\ (x % m) + (-r) = (x % m) - r
    BY <1>1
  <2>2. ((x % m) + (-r)) % m = (x + (-r)) % m
    BY <2>1, ModAdd, Zenon
  <2> QED BY <2>1, <2>2
<1> HIDE DEF r, q
<1>3. x - r = q * m + (x - y) /\ x - y \in Int
  BY <1>1
<1>4. (q * m + (x - y)) % m = (x - y) % m
  BY <1>1, <1>3, ModOfSum, Zenon
<1> QED BY <1>2, <1>3, <1>4 DEF r

LEMMA ModSmall ==
  ASSUME NEW m \in Nat \ {0}, NEW x \in 0 .. m - 1
  PROVE  x % m = x
  OBVIOUS

LEMMA ModNegative ==
  ASSUME NEW m \in Nat \ {0}, NEW x \in Int, -m < x, x < 0
  PROVE  x % m = x + m
  OBVIOUS

----------------------------------------------------------------------------
(* The write buffer *)

LEMMA RemainingNat == TypeOK => Remaining \in Nat /\ SeqPos \in Nat
  BY DEF TypeOK, Remaining, SeqPos

\* What tcpWriteBuffer.Handle computes from an ack: its distance from the
\* start of the buffer if it is not older, and otherwise something beyond the
\* buffer.
LEMMA AckOffset ==
  ASSUME TypeOK, SequenceInv, RoomInv, PeerInv,
         NEW a \in Nat, PeerAck(a)
  PROVE  LET offset == (((ISS + a) % M) - sequence) % M IN
         /\ a >= SeqPos => offset = a - SeqPos /\ offset <= Remaining
         /\ a < SeqPos => offset \in Nat /\ offset > Remaining
<1>1. /\ M \in Nat \ {0} /\ ISS \in Int /\ MaxStale \in Nat
      /\ Remaining \in Nat /\ SeqPos \in Nat
  BY SendAssumption, RemainingNat
<1>2. /\ a <= SeqPos + Remaining
      /\ SeqPos - a <= MaxStale
      /\ MaxStale + Remaining < M
  BY <1>1 DEF PeerInv, PeerAck, RoomInv, TypeOK
<1> DEFINE d == a - SeqPos
<1>3. (((ISS + a) % M) - sequence) % M = d % M
  <2> DEFINE x == ISS + a
             y == ISS + SeqPos
  <2>1. x \in Int /\ y \in Int /\ x - y = d
    BY <1>1
  <2>2. sequence = y % M
    BY DEF SequenceInv
  <2> HIDE DEF x, y
  <2>3. ((x % M) - (y % M)) % M = (x - y) % M
    BY <1>1, <2>1, ModSub
  <2>4. ((x % M) - sequence) % M = d % M
    BY <2>1, <2>2, <2>3
  <2> QED BY <2>4 DEF x
<1>4. CASE a >= SeqPos
  <2>1. d \in 0 .. M - 1 /\ d <= Remaining
    BY <1>1, <1>2, <1>4
  <2>2. d % M = d
    BY <1>1, <2>1, ModSmall, Zenon
  <2> QED BY <1>1, <1>3, <1>4, <2>1, <2>2
<1>5. CASE a < SeqPos
  <2>1. d \in Int /\ -M < d /\ d < 0
    BY <1>1, <1>2, <1>5
  <2>2. d % M = d + M
    BY <1>1, <2>1, ModNegative
  <2>3. d + M \in Nat /\ d + M > Remaining
    BY <1>1, <1>2, <1>5
  <2> QED BY <1>1, <1>3, <1>5, <2>2, <2>3
<1> QED BY <1>1, <1>4, <1>5

\* tcpWriteBuffer.Handle drops a prefix of the buffer, one that the ack
\* covers, and keeps the end of the buffer where it was.
LEMMA HandleEffect ==
  ASSUME TypeOK, SequenceInv, EOFInv, RoomInv, PeerInv,
         NEW a \in Nat, PeerAck(a), BufferHandle((ISS + a) % M)
  PROVE  /\ sequence' \in 0 .. M - 1
         /\ sendEOF' = sendEOF
         /\ sentEOF' \in BOOLEAN
         /\ base' \in Nat
         /\ bufLen' \in Nat
         /\ SequenceInv'
         /\ EOFInv'
         /\ base' + bufLen' = base + bufLen
         /\ bufLen' <= bufLen
         /\ SeqPos' + Remaining' = SeqPos + Remaining
         /\ SeqPos <= SeqPos'
         /\ SeqPos' <= SeqPos \/ SeqPos' <= a
         /\ sentEOF => sentEOF'
         /\ sendEOF => base' = base
<1> DEFINE k == (((ISS + a) % M) - sequence) % M
<1>1. /\ a >= SeqPos => k = a - SeqPos /\ k <= Remaining
      /\ a < SeqPos => k \in Nat /\ k > Remaining
  BY AckOffset
<1>2. /\ M \in Nat \ {0} /\ ISS \in Int
      /\ Remaining \in Nat /\ SeqPos \in Nat
  BY SendAssumption, RemainingNat
<1>3. \/ k > Remaining /\ UNCHANGED bufVars
      \/ /\ k = Remaining
         /\ sequence' = (sequence + Remaining) % M
         /\ sentEOF' = sendEOF
         /\ base' = base + bufLen
         /\ bufLen' = 0
         /\ UNCHANGED sendEOF
      \/ /\ k < Remaining
         /\ sequence' = (sequence + k) % M
         /\ base' = base + k
         /\ bufLen' = bufLen - k
         /\ UNCHANGED <<sendEOF, sentEOF>>
  BY DEF BufferHandle
<1> HIDE DEF k
<1> k \in Nat
  BY <1>1, <1>2
<1>4. CASE k > Remaining /\ UNCHANGED bufVars
  BY <1>2, <1>4 DEF bufVars, TypeOK, SequenceInv, EOFInv, SeqPos, Remaining
<1>5. CASE k <= Remaining /\ ~(k > Remaining /\ UNCHANGED bufVars)
  <2>1. k \in Nat /\ k = a - SeqPos /\ sequence' = (sequence + k) % M
    BY <1>1, <1>2, <1>3, <1>5
  <2>2. /\ sendEOF' = sendEOF
        /\ sentEOF' \in BOOLEAN
        /\ base' \in Nat
        /\ bufLen' \in Nat
        /\ EOFInv'
        /\ base' + bufLen' = base + bufLen
        /\ bufLen' <= bufLen
        /\ SeqPos' = SeqPos + k
        /\ SeqPos' + Remaining' = SeqPos + Remaining
        /\ sentEOF => sentEOF'
        /\ sendEOF => base' = base
    BY <1>2, <1>3, <1>5, <2>1 DEF TypeOK, EOFInv, SeqPos, Remaining
  <2>3. sequence' \in 0 .. M - 1 /\ SequenceInv'
    <3> DEFINE x == ISS + SeqPos
    <3>1. x \in Int /\ sequence = x % M /\ ISS + SeqPos' = x + k
      BY <1>2, <2>1, <2>2 DEF SequenceInv
    <3> HIDE DEF x
    <3>2. ((x % M) + k) % M = (x + k) % M
      <4>1. k \in Int
        BY <2>1
      <4> QED BY <1>2, <3>1, <4>1, ModAdd, Zenon
    <3>3. x + k \in Int /\ (x + k) % M \in 0 .. M - 1
      BY <1>2, <2>1, <3>1
    <3> QED BY <2>1, <3>1, <3>2, <3>3 DEF SequenceInv
  <2> QED BY <1>2, <2>1, <2>2, <2>3
<1> QED BY <1>2, <1>3, <1>4, <1>5

----------------------------------------------------------------------------
(* The timer *)

SegmentOK(s) == s \in Segment /\ Faithful(s)

\* A segment cut from the buffer is faithful, whatever positive size it is
\* cut to, and sendNext cuts it to a positive size.
LEMMA NextSegmentFaithful ==
  BufferInv /\ Remaining > 0 =>
    /\ SegmentOK(NextSegment(1))
    /\ window > 0 => SegmentOK(NextSegment(MaxSize))
<1> SUFFICES ASSUME BufferInv, Remaining > 0
             PROVE  /\ SegmentOK(NextSegment(1))
                    /\ window > 0 => SegmentOK(NextSegment(MaxSize))
  OBVIOUS
<1>1. ~sentEOF /\ (sendEOF \/ bufLen > 0)
  BY DEF BufferInv, BufferType, EOFInv, Remaining
<1>2. SeqPos = base
  BY <1>1 DEF SeqPos, BufferInv, BufferType
<1>3. window > 0 => MaxSize \in Nat \ {0}
  BY SendAssumption DEF BufferInv, BufferType, MaxSize
<1>4. ASSUME NEW size \in Nat \ {0}
      PROVE  SegmentOK(NextSegment(size))
  BY <1>1, <1>2, <1>4
  DEF NextSegment, Segment, SegmentOK, Faithful, SequenceInv, EOFInv, BufferInv, BufferType
<1> QED
  BY <1>3, <1>4

\* sendNext leaves faithful segments in the timer, and a timer running if
\* there is anything to send.
LEMMA SendNextFaithful ==
  ASSUME BufferInv', SendNext, \A s \in Held : SegmentOK(s)'
  PROVE  /\ \A s \in Held' : SegmentOK(s)'
         /\ RetransmissionAlive'
<1>1. /\ Remaining' > 0 => SegmentOK(NextSegment(1))'
      /\ Remaining' > 0 /\ window' > 0 => SegmentOK(NextSegment(MaxSize))'
  <2>1. (BufferInv /\ Remaining > 0 =>
          /\ SegmentOK(NextSegment(1))
          /\ window > 0 => SegmentOK(NextSegment(MaxSize)))'
    BY NextSegmentFaithful, PTL
  <2> QED BY <2>1
<1>2. CASE Remaining' = 0 /\ Cancel /\ UNCHANGED <<next, fired>>
  BY <1>2 DEF Cancel, Held, RetransmissionAlive
<1>3. CASE /\ Remaining' > 0
           /\ Schedule(NextSegment(1)')
           /\ UNCHANGED <<next, fired>>
  <2>1. /\ \A s \in Held' : s \in Held \/ s = NextSegment(1)'
        /\ armed' # {}
    BY <1>3 DEF Schedule, Held
  <2>2. PICK seg : seg = NextSegment(1)'
    OBVIOUS
  <2>3. SegmentOK(seg)'
    BY <1>1, <1>3, <2>2 DEF SegmentOK, Faithful
  <2> QED BY <2>1, <2>2, <2>3 DEF RetransmissionAlive
<1>4. CASE /\ Remaining' > 0
           /\ window' > 0
           /\ Send(NextSegment(MaxSize)')
           /\ UNCHANGED fired
  <2>1. /\ \A s \in Held' : s \in Held \/ s = NextSegment(MaxSize)'
        /\ armed' # {}
    BY <1>4 DEF Send, Schedule, Held
  <2>2. PICK seg : seg = NextSegment(MaxSize)'
    OBVIOUS
  <2>3. SegmentOK(seg)'
    BY <1>1, <1>4, <2>2 DEF SegmentOK, Faithful
  <2> QED BY <2>1, <2>2, <2>3 DEF RetransmissionAlive
<1> QED BY <1>2, <1>3, <1>4 DEF SendNext

----------------------------------------------------------------------------
(* The steps *)

LEMMA InitInv == Init => IInv
<1> SUFFICES ASSUME Init PROVE IInv
  OBVIOUS
<1>1. TypeOK
  BY SendAssumption DEF Init, TypeOK, Phases, Errors
<1>2. SequenceInv /\ Remaining = 0 /\ SeqPos = 0
  BY SendAssumption DEF Init, SequenceInv, SeqPos, Remaining
<1>3. EOFInv /\ CallInv /\ NoLostWakeup /\ CountIsAcked /\ SegmentsInPlace
  BY DEF Init, EOFInv, CallInv, NoLostWakeup, CountIsAcked, SegmentsInPlace, Held
<1>4. RoomInv /\ PeerInv /\ DropsOnlyAcked /\ RetransmissionAlive
  BY <1>2, SendAssumption DEF Init, RoomInv, PeerInv, DropsOnlyAcked, RetransmissionAlive
<1> QED BY <1>1, <1>2, <1>3, <1>4 DEF IInv

\* What IInv says of the buffer and of the segments, in the form that the
\* lemmas on sendNext need.
LEMMA Parts ==
  ASSUME IInv
  PROVE  /\ BufferInv
         /\ \A s \in Held : SegmentOK(s)
         /\ Remaining \in Nat
         /\ SeqPos \in Nat
  BY RemainingNat
  DEF IInv, TypeOK, BufferInv, BufferType, SegmentsInPlace, SegmentOK, Held

\* The steps that leave the buffer alone keep what is said of it, and the
\* segments that the timer held before.
LEMMA SameBuffer ==
  ASSUME IInv, UNCHANGED <<bufVars, window, high, heard>>
  PROVE  /\ SequenceInv' /\ EOFInv' /\ RoomInv' /\ PeerInv' /\ DropsOnlyAcked'
         /\ Remaining' = Remaining
         /\ \A s \in Held : SegmentOK(s)'
<1>1. UNCHANGED <<SeqPos, Remaining>>
  BY DEF bufVars, SeqPos, Remaining
<1>2. \A s \in Held : SegmentOK(s)'
  BY Parts DEF SegmentOK, Faithful, bufVars
<1> QED
  BY <1>1, <1>2
  DEF IInv, bufVars, envVars, SequenceInv, EOFInv, RoomInv, PeerInv, DropsOnlyAcked

\* Refused calls, panics and deadlines.
LEMMA QuietStep ==
  ASSUME IInv,
         \/ WriteTooLate
         \/ \E close \in BOOLEAN : CallRefused(close) \/ CallPanics(close)
         \/ Expire
         \/ SetDeadline
  PROVE  IInv'
<1>1. /\ UNCHANGED <<bufVars, window, failed, timerVars, callStart, callLen, woken, envVars>>
      /\ phase' = phase \/ phase' = "panicked"
      /\ ret' = ret \/ (\E e \in {"timeout", "closed", "failed"} :
                          ret' = [start |-> base + bufLen, n |-> 0, err |-> e])
      /\ timedOut' \in BOOLEAN /\ expired' \in BOOLEAN
  BY DEF IInv, TypeOK, WriteTooLate, CallRefused, CallPanics, Expire, SetDeadline,
         Returns, callVars
<1>2. TypeOK'
  BY <1>1 DEF IInv, TypeOK, bufVars, timerVars, envVars, Phases, Errors
<1>3. CountIsAcked'
  BY <1>1 DEF IInv, CountIsAcked, bufVars, envVars
<1>4. SegmentsInPlace' /\ RetransmissionAlive' /\ NoLostWakeup' /\ CallInv'
  BY <1>1, SameBuffer
  DEF IInv, SegmentsInPlace, SegmentOK, Held, RetransmissionAlive, NoLostWakeup, CallInv,
      bufVars, timerVars, envVars
<1> QED BY <1>1, <1>2, <1>3, <1>4, SameBuffer DEF IInv, envVars

\* A caller that overwrites its slice changes nothing that the sender keeps.
LEMMA ReuseStep ==
  ASSUME IInv, Reuse
  PROVE  IInv'
<1>1. reused' \in Nat
  BY DEF IInv, TypeOK, Reuse
<1>2. TypeOK'
  BY <1>1 DEF IInv, TypeOK, Reuse, bufVars, timerVars, callVars
<1>3. /\ SegmentsInPlace' /\ RetransmissionAlive' /\ NoLostWakeup' /\ CallInv'
      /\ CountIsAcked'
  BY SameBuffer
  DEF IInv, Reuse, SegmentsInPlace, SegmentOK, Held, RetransmissionAlive, NoLostWakeup,
      CallInv, CountIsAcked, bufVars, timerVars, callVars
<1> QED BY <1>2, <1>3, SameBuffer DEF IInv, Reuse

\* Fail wakes the blocked call and leaves the rest alone.
LEMMA FailStep ==
  ASSUME IInv, Fail
  PROVE  IInv'
<1>1. TypeOK'
  BY DEF IInv, TypeOK, Fail, bufVars, timerVars, envVars
<1>2. /\ SegmentsInPlace' /\ RetransmissionAlive' /\ NoLostWakeup' /\ CallInv'
      /\ CountIsAcked'
  BY SameBuffer
  DEF IInv, Fail, SegmentsInPlace, SegmentOK, Held, RetransmissionAlive, NoLostWakeup,
      CallInv, CountIsAcked, bufVars, timerVars, envVars
<1> QED BY <1>1, <1>2, SameBuffer DEF IInv, Fail, envVars

\* A call returns: on success everything it wrote is acknowledged, on
\* failure everything before the buffer.
LEMMA ReturnStep ==
  ASSUME IInv, Return \/ ReturnTimeout
  PROVE  IInv'
<1>1. /\ UNCHANGED <<bufVars, window, failed, timerVars, callStart, callLen, woken,
                     timedOut, expired, envVars>>
      /\ phase = "select" /\ phase' = "idle"
      /\ \/ /\ failed
            /\ ret' = [start |-> callStart, n |-> callLen - bufLen, err |-> "failed"]
         \/ /\ ~failed
            /\ woken
            /\ ret' = [start |-> callStart, n |-> callLen, err |-> "nil"]
         \/ ret' = [start |-> callStart, n |-> 0, err |-> "timeout"]
  BY DEF Return, ReturnTimeout, Returns
<1>2. /\ callStart + callLen = base + bufLen
      /\ bufLen <= callLen
      /\ callLen = 0 => sendEOF
      /\ woken /\ ~failed => Remaining = 0
      /\ base \in Nat /\ bufLen \in Nat /\ callLen \in Nat /\ callStart \in Nat
      /\ heard \in Nat /\ base <= heard
  BY <1>1 DEF IInv, TypeOK, CallInv, DropsOnlyAcked, SeqPos
<1>3. callLen - bufLen \in Nat
  BY <1>2
<1>4. TypeOK'
  BY <1>1, <1>2, <1>3 DEF IInv, TypeOK, bufVars, timerVars, envVars, Phases, Errors
<1>5. Remaining = 0 => bufLen = 0 /\ (sendEOF => sentEOF /\ heard > base)
  BY <1>2 DEF Remaining, IInv, EOFInv, DropsOnlyAcked, SeqPos, TypeOK
<1>6. CountIsAcked'
  BY <1>1, <1>2, <1>3, <1>5 DEF CountIsAcked, bufVars, envVars
<1>7. SegmentsInPlace' /\ RetransmissionAlive' /\ NoLostWakeup' /\ CallInv'
  BY <1>1, SameBuffer
  DEF IInv, SegmentsInPlace, SegmentOK, Held, RetransmissionAlive, NoLostWakeup, CallInv,
      bufVars, timerVars, envVars
<1> QED BY <1>1, <1>4, <1>6, <1>7, SameBuffer DEF IInv, envVars

\* The loop takes a segment: it describes accepted bytes, so the peer is sent
\* nothing beyond the buffer.
LEMMA TakeStep ==
  ASSUME IInv, NEW s \in next, Take(s)
  PROVE  IInv'
<1>1. s \in Segment /\ Faithful(s)
  BY Parts DEF SegmentOK, Held
<1>2. SegEnd(s) \in Nat /\ SegEnd(s) <= SeqPos + Remaining
  BY <1>1 DEF Segment, Faithful, SegEnd, SeqPos, Remaining, IInv, TypeOK, EOFInv
<1>3. high' \in Nat /\ high <= high' /\ high' <= SeqPos + Remaining
  BY <1>2 DEF IInv, TypeOK, PeerInv, Take
<1>4. TypeOK'
  BY <1>3 DEF IInv, TypeOK, Take, bufVars, callVars
<1>5. UNCHANGED <<bufVars, SeqPos, Remaining>>
  BY DEF Take, bufVars, SeqPos, Remaining
<1>6. SequenceInv' /\ EOFInv' /\ RoomInv' /\ DropsOnlyAcked'
  BY <1>5 DEF Take, IInv, bufVars, SequenceInv, EOFInv, RoomInv, DropsOnlyAcked
<1>7. PeerInv'
  <2>1. heard \in Nat /\ high \in Nat /\ heard <= high /\ heard' = heard
    BY DEF IInv, TypeOK, PeerInv, Take
  <2> QED BY <1>3, <1>5, <2>1, Parts DEF PeerInv
<1>8. /\ SegmentsInPlace' /\ RetransmissionAlive' /\ NoLostWakeup' /\ CallInv'
      /\ CountIsAcked'
  BY <1>5
  DEF IInv, Take, SegmentsInPlace, Faithful, Held, RetransmissionAlive, NoLostWakeup,
      CallInv, CountIsAcked, bufVars, callVars
<1> QED BY <1>4, <1>6, <1>7, <1>8 DEF IInv

\* A timer that fires becomes a pending callback, and a callback that runs
\* leaves a running timer, whatever the two held before.
LEMMA TimerStep ==
  ASSUME IInv, NEW s,
         (s \in armed /\ TimerFires(s)) \/ (s \in fired /\ TimerSends(s))
  PROVE  IInv'
<1>1. /\ UNCHANGED <<bufVars, window, failed, callVars, expired, envVars>>
      /\ Held' \subseteq Held
      /\ armed' # {} \/ fired' # {}
  BY DEF TimerFires, TimerSends, Send, Schedule, Held
<1>2. Held \subseteq Segment
  BY DEF IInv, TypeOK, Held
<1>3. TypeOK'
  BY <1>1, <1>2 DEF IInv, TypeOK, Held, bufVars, callVars, envVars
<1>4. /\ SegmentsInPlace' /\ RetransmissionAlive' /\ NoLostWakeup' /\ CallInv'
      /\ CountIsAcked'
  BY <1>1, SameBuffer
  DEF IInv, SegmentsInPlace, SegmentOK, RetransmissionAlive, NoLostWakeup, CallInv,
      CountIsAcked, bufVars, callVars, envVars
<1> QED BY <1>1, <1>3, <1>4, SameBuffer DEF IInv, envVars

\* A call enters an empty buffer, and so extends the stream.
LEMMA AdmittedStep ==
  ASSUME IInv, Close \/ \E n \in Chunks : Write(n)
  PROVE  IInv'
<1>1. PICK n \in Nat :
        /\ Admitted(n)
        /\ bufLen' = n
        /\ sendEOF' = (n = 0)
        /\ MaxStale + n < M
  <2>1. ASSUME Close
        PROVE  Admitted(0) /\ bufLen' = 0 /\ sendEOF' = (0 = 0) /\ MaxStale + 0 < M
    <3>1. Admitted(0) /\ sendEOF' = TRUE /\ bufLen' = bufLen /\ bufLen = 0
      BY <2>1 DEF Close, Admitted
    <3>2. MaxStale + 0 < M
      BY SendAssumption
    <3>3. (0 = 0) = TRUE
      OBVIOUS
    <3> QED BY <3>1, <3>2, <3>3
  <2>2. ASSUME NEW n \in Chunks, Write(n)
        PROVE  /\ n \in Nat /\ Admitted(n) /\ bufLen' = n /\ sendEOF' = (n = 0)
               /\ MaxStale + n < M
    <3>1. n \in Nat \ {0} /\ MaxStale + n < M
      BY SendAssumption
    <3>2. sendEOF' = sendEOF /\ ~sendEOF /\ Admitted(n) /\ bufLen' = n
      BY <2>2 DEF Write, Admitted
    <3>3. sendEOF' = FALSE
      BY <3>2 DEF IInv, TypeOK
    <3> QED BY <3>1, <3>2, <3>3
  <2> QED BY <2>1, <2>2
<1>2. /\ ~sendEOF /\ ~sentEOF /\ ~failed /\ bufLen = 0 /\ base \in Nat
      /\ Remaining = 0 /\ SeqPos = base
  BY <1>1 DEF Admitted, IInv, TypeOK, EOFInv, Remaining, SeqPos
<1>3. /\ UNCHANGED <<sequence, sentEOF, base, window, failed, ret, expired, envVars>>
      /\ phase' = "select" /\ callStart' = base /\ callLen' = n /\ woken' = FALSE
      /\ timedOut' = expired
      /\ SendNext
  BY <1>1 DEF Admitted
<1>4. /\ SeqPos' = base
      /\ Remaining' = IF n = 0 THEN 1 ELSE n
  BY <1>1, <1>2, <1>3 DEF SeqPos, Remaining
<1>5. BufferInv'
  BY <1>1, <1>2, <1>3, <1>4
  DEF IInv, TypeOK, BufferInv, BufferType, SequenceInv, EOFInv
<1>6. \A s \in Held : SegmentOK(s)'
  BY <1>1, <1>2, <1>3, Parts DEF SegmentOK, Segment, Faithful
<1>7. (\A s \in Held' : SegmentOK(s)') /\ RetransmissionAlive'
  BY <1>3, <1>5, <1>6, SendNextFaithful
<1>8. TypeOK'
  BY <1>1, <1>3, <1>5, <1>7
  DEF IInv, TypeOK, BufferInv, BufferType, SegmentOK, Held, Phases, envVars
<1>9. SegmentsInPlace'
  BY <1>7 DEF SegmentsInPlace, SegmentOK
<1>10. RoomInv' /\ PeerInv' /\ DropsOnlyAcked'
  BY <1>1, <1>2, <1>3, <1>4, SendAssumption
  DEF IInv, TypeOK, RoomInv, PeerInv, DropsOnlyAcked, envVars
<1>11. NoLostWakeup' /\ CallInv'
  <2>1. Remaining' > 0 /\ ~failed' /\ ~woken'
    BY <1>2, <1>3, <1>4
  <2>2. callStart' + callLen' = base' + bufLen' /\ bufLen' <= callLen'
    BY <1>1, <1>3
  <2>3. callLen' = 0 => sendEOF'
    BY <1>1, <1>3
  <2> QED BY <2>1, <2>2, <2>3 DEF NoLostWakeup, CallInv
<1>12. CountIsAcked'
  BY <1>2, <1>3 DEF IInv, CountIsAcked, envVars
<1> QED
  BY <1>5, <1>7, <1>8, <1>9, <1>10, <1>11, <1>12 DEF IInv, BufferInv

\* Handle moves the front of the buffer to the ack and wakes the call when
\* nothing is left.
LEMMA HandleStep ==
  ASSUME IInv, NEW a \in 0 .. high, NEW w \in Windows, PeerAck(a), Handle(a, w)
  PROVE  IInv'
<1>1. a \in Nat /\ a <= high
  BY DEF IInv, TypeOK
<1>2. /\ TypeOK /\ SequenceInv /\ EOFInv /\ RoomInv /\ PeerInv
      /\ BufferHandle((ISS + a) % M)
  BY DEF IInv, Handle
<1>3. /\ sequence' \in 0 .. M - 1
      /\ sendEOF' = sendEOF
      /\ sentEOF' \in BOOLEAN
      /\ base' \in Nat
      /\ bufLen' \in Nat
      /\ SequenceInv'
      /\ EOFInv'
      /\ base' + bufLen' = base + bufLen
      /\ bufLen' <= bufLen
      /\ SeqPos' + Remaining' = SeqPos + Remaining
      /\ SeqPos <= SeqPos'
      /\ SeqPos' <= SeqPos \/ SeqPos' <= a
      /\ sentEOF => sentEOF'
      /\ sendEOF => base' = base
  BY <1>1, <1>2, HandleEffect
<1>4. /\ window' = w
      /\ SendNext
      /\ woken' = (woken \/ (phase = "select" /\ Remaining' = 0))
      /\ heard' = IF a > heard THEN a ELSE heard
      /\ UNCHANGED <<failed, phase, callStart, callLen, timedOut, ret, expired, high, reused>>
  BY DEF Handle
<1>5. BufferInv'
  BY <1>2, <1>3, <1>4 DEF BufferInv, BufferType, TypeOK
<1>6. \A s \in Held : SegmentOK(s)'
  BY <1>3, Parts DEF SegmentOK, Faithful
<1>7. (\A s \in Held' : SegmentOK(s)') /\ RetransmissionAlive'
  BY <1>4, <1>5, <1>6, SendNextFaithful
<1>8. TypeOK'
  BY <1>1, <1>2, <1>4, <1>5, <1>7
  DEF TypeOK, BufferInv, BufferType, SegmentOK, Held
<1>9. SegmentsInPlace'
  BY <1>7 DEF SegmentsInPlace, SegmentOK
<1>10. PICK r \in Nat, q \in Nat :
         /\ r = Remaining' /\ q = SeqPos'
         /\ q + r = SeqPos + Remaining /\ SeqPos <= q
  <2>1. Remaining' \in Nat /\ SeqPos' \in Nat
    <3>1. (TypeOK => Remaining \in Nat /\ SeqPos \in Nat)'
      BY RemainingNat, PTL
    <3> QED BY <1>8, <3>1
  <2> QED BY <1>3, <2>1
<1>11. PICK h \in Nat : h = heard' /\ h >= heard /\ h >= a /\ (h = heard \/ h = a)
  BY <1>1, <1>2, <1>4 DEF TypeOK
<1>12. RoomInv'
  <2>1. r <= Remaining
    <3>1. q + r = SeqPos + Remaining /\ SeqPos <= q
      BY <1>10
    <3> QED BY <3>1, Parts
  <2>2. MaxStale + r < M
    BY <1>2, <2>1, Parts, SendAssumption DEF RoomInv
  <2> QED BY <1>10, <2>2 DEF RoomInv
<1>13. PeerInv'
  <2>1. h <= high /\ high <= q + r
    BY <1>1, <1>2, <1>10, <1>11, Parts DEF PeerInv, TypeOK
  <2> QED BY <1>4, <1>10, <1>11, <2>1 DEF PeerInv
<1>14. DropsOnlyAcked'
  <2>1. q <= h
    BY <1>1, <1>2, <1>3, <1>10, <1>11, Parts DEF IInv, DropsOnlyAcked, TypeOK
  <2> QED BY <1>10, <1>11, <2>1 DEF DropsOnlyAcked
<1>15. NoLostWakeup'
  <2>1. SUFFICES ASSUME phase = "select", ~woken'
                 PROVE  Remaining' > 0 /\ ~failed
    BY <1>4 DEF NoLostWakeup
  <2>2. ~woken /\ r # 0
    BY <1>4, <1>10, <2>1
  <2>3. r > 0
    BY <2>2
  <2> QED BY <1>10, <2>1, <2>2, <2>3 DEF IInv, NoLostWakeup
<1>16. CallInv'
  <2>1. PICK b \in Nat, l \in Nat : /\ b = base' /\ l = bufLen'
                                    /\ b + l = base + bufLen /\ l <= bufLen
    BY <1>3
  <2>2. SUFFICES ASSUME phase = "select"
                 PROVE  /\ callStart + callLen = b + l
                        /\ l <= callLen
                        /\ callLen = 0 => sendEOF
                        /\ woken' /\ ~failed => r = 0
    BY <1>3, <1>4, <1>10, <2>1 DEF CallInv
  <2>3. /\ callStart + callLen = b + l
        /\ l <= callLen
        /\ callLen = 0 => sendEOF
    <3>1. /\ callStart + callLen = base + bufLen /\ bufLen <= callLen
          /\ callLen = 0 => sendEOF
          /\ callLen \in Nat /\ bufLen \in Nat
      BY <1>2, <2>2 DEF IInv, CallInv, TypeOK
    <3>2. b + l = base + bufLen /\ l <= bufLen
      BY <2>1
    <3> QED BY <3>1, <3>2
  <2>4. woken /\ ~failed => r = 0
    BY <1>10, <2>2, Parts DEF IInv, CallInv
  <2>5. woken' => woken \/ r = 0
    BY <1>4, <1>10
  <2> QED BY <2>3, <2>4, <2>5
<1>17. CountIsAcked'
  <2>1. ret.n > 0 => ret.start + ret.n <= h
    BY <1>2, <1>11 DEF IInv, CountIsAcked, TypeOK
  <2>2. ret.err = "nil" /\ ret.n = 0 => sentEOF /\ heard > base /\ base' = base /\ sentEOF'
    BY <1>2, <1>3 DEF IInv, CountIsAcked, EOFInv
  <2>3. ret.err = "nil" /\ ret.n = 0 => h > base
    BY <1>2, <1>11, <2>2 DEF TypeOK
  <2> QED BY <1>4, <1>11, <2>1, <2>2, <2>3 DEF CountIsAcked
<1> QED
  BY <1>3, <1>7, <1>8, <1>9, <1>12, <1>13, <1>14, <1>15, <1>16, <1>17 DEF IInv

LEMMA NextInv == IInv /\ [Next]_vars => IInv'
<1> SUFFICES ASSUME IInv, [Next]_vars
             PROVE  IInv'
  OBVIOUS
<1>1. CASE \/ WriteTooLate
           \/ \E close \in BOOLEAN : CallRefused(close) \/ CallPanics(close)
           \/ Expire
           \/ SetDeadline
  BY <1>1, QuietStep
<1>2. CASE Close \/ \E n \in Chunks : Write(n)
  BY <1>2, AdmittedStep
<1>3. CASE Return \/ ReturnTimeout
  BY <1>3, ReturnStep
<1>4. CASE \E a \in 0 .. high, w \in Windows : PeerAck(a) /\ Handle(a, w)
  BY <1>4, HandleStep
<1>5. CASE Fail
  BY <1>5, FailStep
<1>10. CASE Reuse
  BY <1>10, ReuseStep
<1>6. CASE \E s \in next : Take(s)
  BY <1>6, TakeStep
<1>7. CASE (\E s \in armed : TimerFires(s)) \/ (\E s \in fired : TimerSends(s))
  <2>1. PICK s : (s \in armed /\ TimerFires(s)) \/ (s \in fired /\ TimerSends(s))
    BY <1>7
  <2> QED BY <2>1, TimerStep
<1>8. CASE UNCHANGED vars
  <2>1. TypeOK'
    BY <1>8 DEF vars, bufVars, timerVars, callVars, envVars, IInv, TypeOK
  <2>2. /\ SegmentsInPlace' /\ RetransmissionAlive' /\ NoLostWakeup' /\ CallInv'
        /\ CountIsAcked'
    BY <1>8, SameBuffer
    DEF vars, bufVars, timerVars, callVars, envVars, IInv, SegmentsInPlace, SegmentOK,
        Held, RetransmissionAlive, NoLostWakeup, CallInv, CountIsAcked
  <2> QED BY <1>8, <2>1, <2>2, SameBuffer DEF IInv, vars, envVars
<1>9. CASE Next
  BY <1>1, <1>2, <1>3, <1>4, <1>5, <1>6, <1>7, <1>9, <1>10, Zenon DEF Next
<1> QED
  BY <1>8, <1>9

----------------------------------------------------------------------------
(* The theorems *)

LEMMA Invariance == Spec => []IInv
  BY InitInv, NextInv, PTL DEF Spec

\* The state of simpleTcpSend, its buffer and its timer is well typed; in
\* particular the sequence number wraps and no count is negative.
THEOREM TypeCorrect == Spec => []TypeOK
  BY Invariance, PTL DEF IInv

\* tcpSendTimer never dies while something is unacknowledged.
THEOREM RetransmissionStaysAlive == Spec => []RetransmissionAlive
  BY Invariance, PTL DEF IInv

\* Handle and Fail wake the call in writeOrClose whenever they complete it.
THEOREM NoWakeupIsLost == Spec => []NoLostWakeup
  BY Invariance, PTL DEF IInv

\* The count of writeOrClose covers acknowledged bytes only.
THEOREM CountsAreAcked == Spec => []CountIsAcked
  BY Invariance, PTL DEF IInv

\* tcpWriteBuffer.Handle never drops a byte that was not acknowledged.
THEOREM OnlyAckedIsDropped == Spec => []DropsOnlyAcked
  BY Invariance, PTL DEF IInv

\* A Write leaves data behind only if it has timed out or the sender has failed,
\* and only then is a slice used again that the buffer still refers to: before a
\* call is admitted the buffer is empty, and its own slice stays out of reach
\* until it returns.
LeftoverInv ==
  /\ phase = "idle" /\ bufLen > 0 =>
       ret.err = "timeout" \/ (failed /\ ret.err = "failed")
  /\ PanicsOnlyAfterTimeout
  /\ reused <= base + bufLen
  /\ reused > base => phase # "select" /\ ret.err \in {"timeout", "failed"}

LEMMA LeftoverStep == IInv /\ LeftoverInv /\ [Next]_vars => LeftoverInv'
<1> SUFFICES ASSUME IInv, LeftoverInv, [Next]_vars PROVE LeftoverInv'
  OBVIOUS
<1> USE DEF LeftoverInv, PanicsOnlyAfterTimeout
<1>0. /\ base \in Nat /\ bufLen \in Nat /\ reused \in Nat
      /\ sendEOF => bufLen = 0
      /\ bufLen = 0 => reused <= base
  BY DEF IInv, TypeOK, EOFInv
<1>1. CASE \/ WriteTooLate
           \/ \E close \in BOOLEAN : CallRefused(close)
  <2>1. CASE WriteTooLate
    BY <2>1 DEF WriteTooLate, Returns, bufVars, envVars
  <2>2. CASE \E close \in BOOLEAN : CallRefused(close)
    BY <1>0, <2>2 DEF CallRefused, Returns, bufVars, envVars
  <2> QED BY <1>1, <2>1, <2>2
<1>2. CASE \E close \in BOOLEAN : CallPanics(close)
  BY <1>2 DEF CallPanics, bufVars, envVars
<1>3. CASE Close \/ (\E n \in Chunks : Write(n))
  <2>1. /\ UNCHANGED <<base, reused>> /\ phase' = "select" /\ bufLen = 0
        /\ bufLen' \in Nat
    BY <1>0, <1>3, SendAssumption DEF Write, Close, Admitted, envVars
  <2>2. reused <= base /\ base \in Nat
    BY <1>0, <2>1
  <2>3. reused' <= base' + bufLen' /\ ~(reused' > base')
    <3>1. PICK l \in Nat : l = bufLen'
      BY <2>1
    <3>2. reused <= base + l /\ ~(reused > base)
      BY <1>0, <2>2
    <3> QED BY <2>1, <3>1, <3>2
  <2> QED BY <2>1, <2>3
<1>4. CASE Return
  <2>1. woken /\ ~failed /\ phase = "select" => Remaining = 0
    BY DEF IInv, CallInv
  <2>2. ~failed /\ Remaining = 0 => bufLen = 0
    BY DEF IInv, EOFInv, TypeOK, Remaining
  <2>3. /\ UNCHANGED <<base, bufLen, reused, failed>>
        /\ phase = "select" /\ phase' = "idle" /\ woken
        /\ (failed /\ ret'.err = "failed") \/ ~failed
    BY <1>4 DEF Return, Returns, bufVars, envVars
  <2> QED BY <1>0, <2>1, <2>2, <2>3
<1>5. CASE ReturnTimeout
  BY <1>5 DEF ReturnTimeout, Returns, bufVars, envVars
<1>6. CASE Fail \/ Expire \/ SetDeadline \/ (\E s \in next : Take(s))
           \/ (\E s \in armed : TimerFires(s)) \/ (\E s \in fired : TimerSends(s))
           \/ UNCHANGED vars
  <2>1. UNCHANGED <<base, bufLen, reused, phase, ret>> /\ (failed => failed')
    BY <1>6
    DEF Fail, Expire, SetDeadline, Take, TimerFires, TimerSends, vars, bufVars, callVars,
        envVars
  <2> QED BY <2>1
<1>7. CASE \E a \in 0 .. high, w \in Windows : PeerAck(a) /\ Handle(a, w)
  <2> PICK a \in 0 .. high, w \in Windows : PeerAck(a) /\ Handle(a, w)
    BY <1>7
  <2>1. a \in Nat /\ BufferHandle((ISS + a) % M) /\ PeerAck(a)
    BY DEF Handle, IInv, TypeOK
  <2>2. PICK b \in Nat, l \in Nat :
          b = base' /\ l = bufLen' /\ b + l = base + bufLen /\ l <= bufLen
    BY <2>1, HandleEffect DEF IInv
  <2>3. (l > 0 => bufLen > 0) /\ base <= b
    <3>1. b + l = base + bufLen /\ l <= bufLen
      BY <2>2
    <3> QED BY <1>0, <3>1
  <2>4. UNCHANGED <<phase, ret, failed, reused>> /\ phase # "panicked"
    BY DEF Handle
  <2>5. reused <= b + l /\ (reused > b => reused > base)
    <3>1. b + l = base + bufLen
      BY <2>2
    <3> QED BY <1>0, <2>3, <3>1
  <2> QED BY <2>2, <2>3, <2>4, <2>5
<1>8. CASE Reuse
  <2>1. UNCHANGED <<bufVars, phase, ret, failed>> /\ phase # "panicked"
    BY <1>8 DEF Reuse, callVars
  <2>2. CASE phase = "select"
    <3>1. callStart <= base
      BY <1>0, <2>2 DEF IInv, TypeOK, CallInv
    <3> QED BY <1>0, <1>8, <2>1, <2>2, <3>1 DEF Reuse, bufVars, IInv, TypeOK
  <2>3. CASE phase = "idle"
    BY <1>0, <1>8, <2>1, <2>3 DEF Reuse, bufVars
  <2> QED BY <2>1, <2>2, <2>3 DEF IInv, TypeOK, Phases
<1> QED BY <1>1, <1>2, <1>3, <1>4, <1>5, <1>6, <1>7, <1>8 DEF Next

LEMMA Leftovers == Spec => []LeftoverInv
<1>1. Init => LeftoverInv
  BY DEF Init, LeftoverInv, PanicsOnlyAfterTimeout
<1> QED BY <1>1, LeftoverStep, Invariance, PTL DEF Spec

\* A panic of SetData or SetEOF comes after a Write that timed out, and never
\* otherwise.
THEOREM PanicsFollowTimeouts == Spec => []PanicsOnlyAfterTimeout
<1>1. LeftoverInv => PanicsOnlyAfterTimeout
  BY DEF LeftoverInv
<1> QED BY <1>1, Leftovers, PTL

\* Whatever races between Cancel, schedule, a fired callback and a caller that
\* fills its slice again, tcpSendTimer never sends other bytes than those written
\* under a number the peer still waits for, unless a Write timed out or failed.
THEOREM SegmentsStayFaithful == Spec => []SegmentsFaithful
<1>1. IInv /\ LeftoverInv => SegmentsFaithful
  <2> SUFFICES ASSUME IInv, LeftoverInv, NEW s \in Held
               PROVE  Faithful(s) /\ Intact(s)
    BY DEF SegmentsFaithful
  <2>1. Faithful(s) /\ s \in Segment
    BY Parts DEF SegmentOK
  <2>2. Intact(s)
    BY <2>1 DEF Intact, LeftoverInv, Segment, IInv, TypeOK
  <2> QED BY <2>1, <2>2
<1> QED BY <1>1, Invariance, Leftovers, PTL
=============================================================================

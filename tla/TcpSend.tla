------------------------------ MODULE TcpSend ------------------------------
(***************************************************************************)
(* The sending half of a TCP connection: simpleTcpSend, the tcpWriteBuffer *)
(* it drains and the tcpSendTimer that retransmits                         *)
(* (src/ipstack/tcp_send.go).                                              *)
(*                                                                         *)
(* Goroutines: any number of callers of Write, Close and SetDeadline; the  *)
(* connection loop, which receives from Next() and calls Handle; one timer *)
(* goroutine for every time.AfterFunc that has fired.  writeLock admits    *)
(* one caller at a time, and a caller queued on it has no effect, so the   *)
(* admitted call is the only one with state (phase, callStart, callLen).   *)
(*                                                                         *)
(* Bytes are named by their position in the stream of all bytes accepted   *)
(* by Write, so a buffer or a segment is a position and a length.          *)
(* Sequence numbers are the machine's, modulo M.  An ack is written by its *)
(* position too, and Handle receives its image modulo M.                   *)
(*                                                                         *)
(* The buffer and the segments are parts of the slice that Write was given *)
(* (SetData, Segment): once the call has returned, whoever made it may put *)
(* other bytes there, and a segment sent later carries those (Reuse).      *)
(***************************************************************************)
EXTENDS Integers, FiniteSets

CONSTANTS
  M,         \* number of sequence numbers, 2^32 in the code
  ISS,       \* startSeq given to newSimpleTcpSend
  MSS,       \* maxSegmentSize
  Windows,   \* windows the peer may advertise
  Chunks,    \* lengths of the slices passed to Write
  MaxStale,  \* no ack older than this many sequence numbers is still in flight
  MaxStream, \* bound: bytes accepted in a behavior
  MaxFired   \* bound: timer callbacks waiting for the timer's lock

ASSUME SendAssumption ==
  /\ M \in Nat \ {0}
  /\ ISS \in 0 .. M - 1
  /\ MSS \in Nat \ {0}
  /\ Windows \subseteq Nat
  /\ Chunks \subseteq Nat \ {0}
  /\ MaxStale \in Nat
  /\ MaxStale + 1 < M
  /\ \A n \in Chunks : MaxStale + n < M
  /\ MaxStream \in Nat
  /\ MaxFired \in Nat

VARIABLES
  sequence,  \* writeBuf.sequence
  sendEOF,   \* writeBuf.sendEOF
  sentEOF,   \* writeBuf.sentEOF
  base,      \* position of the first byte of writeBuf.buffer
  bufLen,    \* len(writeBuf.buffer)
  window,    \* the last window handled
  failed,    \* failErr # nil
  next,      \* contents of timer.next, a channel of capacity 1
  armed,     \* the segment of the running timer.timer, if any
  fired,     \* segments of AfterFunc callbacks that wait for timer.lock
  phase,     \* the admitted call: none, in its select, or crashed
  callStart, \* position of the first byte of the call's data
  callLen,   \* len(data) of the call; 0 for Close
  woken,     \* the notify channel the call selects on is closed
  timedOut,  \* the deadline channel the call selects on is closed
  expired,   \* the current deadline channel is closed
  ret,       \* result of the last call to return
  high,      \* history: first sequence position never handed to the loop
  heard,     \* history: the largest ack received
  reused     \* the callers have overwritten what they wrote before this position

bufVars   == <<sequence, sendEOF, sentEOF, base, bufLen>>
timerVars == <<next, armed, fired>>
callVars  == <<phase, callStart, callLen, woken, timedOut, ret>>
envVars   == <<high, heard, reused>>
vars == <<bufVars, window, failed, timerVars, callVars, expired, envVars>>

Segment ==
  [start : 0 .. M - 1, pos : Nat, len : Nat, fin : BOOLEAN]

Phases == {"idle", "select", "panicked"}
Errors == {"none", "nil", "timeout", "closed", "failed"}

----------------------------------------------------------------------------
(* tcpWriteBuffer *)

Remaining == IF sendEOF /\ ~sentEOF THEN 1 ELSE bufLen

\* The position of sequence in the sequence space counted from ISS: the EOF
\* takes one number after the last byte.
SeqPos == base + (IF sentEOF THEN 1 ELSE 0)

\* tcpWriteBuffer.Segment: the whole buffer cut to maxSize, or the EOF.
NextSegment(maxSize) ==
  [start |-> sequence, pos |-> base,
   len   |-> IF sendEOF THEN 0 ELSE IF bufLen > maxSize THEN maxSize ELSE bufLen,
   fin   |-> sendEOF]

MaxSize == IF window > MSS THEN MSS ELSE window

SegEnd(s) == s.pos + s.len + (IF s.fin THEN 1 ELSE 0)

\* Mutant of BufferHandle: a partial ack shortens the buffer but leaves the
\* sequence number where it was.
BufferHandleStuckSequence(ack) ==
  LET offset == (ack - sequence) % M IN
  IF offset > Remaining
  THEN UNCHANGED bufVars
  ELSE /\ sequence' = IF offset = Remaining THEN (sequence + offset) % M ELSE sequence
       /\ sentEOF' = (sentEOF \/ (sendEOF /\ offset = Remaining))
       /\ base' = IF sendEOF THEN base ELSE base + offset
       /\ bufLen' = IF sendEOF THEN bufLen ELSE bufLen - offset
       /\ UNCHANGED sendEOF

\* Mutant of BufferHandle: any ack that is not inside the buffer completes it.
BufferHandleNoRangeCheck(ack) ==
  LET offset == (ack - sequence) % M IN
  IF offset < Remaining
  THEN /\ sequence' = (sequence + offset) % M
       /\ base' = base + offset
       /\ bufLen' = bufLen - offset
       /\ UNCHANGED <<sendEOF, sentEOF>>
  ELSE /\ sequence' = (sequence + Remaining) % M
       /\ sentEOF' = sendEOF
       /\ base' = base + bufLen
       /\ bufLen' = 0
       /\ UNCHANGED sendEOF

\* tcpWriteBuffer.Handle: an ack outside the buffer, compared in circular
\* arithmetic, is ignored; one inside it drops the acknowledged prefix.
BufferHandle(ack) ==
  LET offset == (ack - sequence) % M IN
  \/ /\ offset > Remaining
     /\ UNCHANGED bufVars
  \/ /\ offset = Remaining
     /\ sequence' = (sequence + Remaining) % M
     /\ sentEOF' = sendEOF
     /\ base' = base + bufLen
     /\ bufLen' = 0
     /\ UNCHANGED sendEOF
  \/ /\ offset < Remaining
     /\ sequence' = (sequence + offset) % M
     /\ base' = base + offset
     /\ bufLen' = bufLen - offset
     /\ UNCHANGED <<sendEOF, sentEOF>>

----------------------------------------------------------------------------
(* tcpSendTimer *)

\* tcpSendTimer.Cancel stops a running timer.  A callback that has already
\* fired is beyond its reach.
Cancel == armed' = {}

\* tcpSendTimer.schedule replaces the running timer by one for segment s.
Schedule(s) == armed' = {s}

\* tcpSendTimer.Send: a non-blocking send to the channel, then schedule.
Send(s) ==
  /\ next' = IF next = {} THEN {s} ELSE next
  /\ Schedule(s)

\* Mutant of SendNext: no persist timer.
SendNextNoPersist ==
  /\ UNCHANGED fired
  /\ \/ /\ Remaining' = 0 \/ window' = 0
        /\ Cancel
        /\ UNCHANGED next
     \/ /\ Remaining' > 0
        /\ window' > 0
        /\ Send(NextSegment(MaxSize)')

\* simpleTcpSend.sendNext on the state left by the current step.
SendNext ==
  /\ UNCHANGED fired
  /\ \/ /\ Remaining' = 0
        /\ Cancel
        /\ UNCHANGED next
     \/ /\ Remaining' > 0
        /\ window' = 0
        /\ Schedule(NextSegment(1)')     \* persist timer
        /\ UNCHANGED next
     \/ /\ Remaining' > 0
        /\ window' > 0
        /\ Send(NextSegment(MaxSize)')

----------------------------------------------------------------------------
(* Write, Close, SetDeadline *)

Returns(start, n, err) == ret' = [start |-> start, n |-> n, err |-> err]

Init ==
  /\ sequence = ISS
  /\ sendEOF = FALSE
  /\ sentEOF = FALSE
  /\ base = 0
  /\ bufLen = 0
  /\ window \in Windows
  /\ failed = FALSE
  /\ next = {}
  /\ armed = {}
  /\ fired = {}
  /\ phase = "idle"
  /\ callStart = 0
  /\ callLen = 0
  /\ woken = FALSE
  /\ timedOut = FALSE
  /\ expired = FALSE
  /\ ret = [start |-> 0, n |-> 0, err |-> "none"]
  /\ high = 0
  /\ heard = 0
  /\ reused = 0

\* Write finds its deadline passed and returns before it looks at anything.
WriteTooLate ==
  /\ phase = "idle"
  /\ expired
  /\ Returns(base + bufLen, 0, "timeout")
  /\ UNCHANGED <<bufVars, window, failed, timerVars, phase, callStart, callLen,
                 woken, timedOut, expired, envVars>>

\* Write or Close on a sender that is closed or has failed.
CallRefused(close) ==
  /\ phase = "idle"
  /\ close \/ ~expired
  /\ \/ /\ sendEOF
        /\ Returns(base + bufLen, 0, "closed")
     \/ /\ ~sendEOF
        /\ failed
        /\ Returns(base + bufLen, 0, "failed")
  /\ UNCHANGED <<bufVars, window, failed, timerVars, phase, callStart, callLen,
                 woken, timedOut, expired, envVars>>

\* The call gets past the checks: SetData or SetEOF, then sendNext, then the
\* select on notify and on the deadline.
Admitted(n) ==
  /\ phase = "idle"
  /\ ~sendEOF
  /\ ~failed
  /\ bufLen = 0
  /\ phase' = "select"
  /\ callStart' = base
  /\ callLen' = n
  /\ woken' = FALSE
  /\ timedOut' = expired
  /\ UNCHANGED <<sequence, sentEOF, base, window, failed, ret, expired, envVars>>
  /\ SendNext

Write(n) ==
  /\ ~expired
  /\ base + n <= MaxStream
  /\ bufLen' = n
  /\ UNCHANGED sendEOF
  /\ Admitted(n)

Close ==
  /\ sendEOF' = TRUE
  /\ UNCHANGED bufLen
  /\ Admitted(0)

\* SetData and SetEOF panic on a buffer that is not empty, with both locks
\* held; nothing recovers, so the process ends.
CallPanics(close) ==
  /\ phase = "idle"
  /\ close \/ ~expired
  /\ ~sendEOF
  /\ ~failed
  /\ bufLen > 0
  /\ phase' = "panicked"
  /\ UNCHANGED <<bufVars, window, failed, timerVars, callStart, callLen, woken,
                 timedOut, ret, expired, envVars>>

\* The select takes notify; the call locks again and reads failErr.
Return ==
  /\ phase = "select"
  /\ woken
  /\ phase' = "idle"
  /\ \/ /\ failed
        /\ Returns(callStart, callLen - bufLen, "failed")
     \/ /\ ~failed
        /\ Returns(callStart, callLen, "nil")
  /\ UNCHANGED <<bufVars, window, failed, timerVars, callStart, callLen, woken,
                 timedOut, expired, envVars>>

\* The select takes the deadline; what was buffered stays buffered.
ReturnTimeout ==
  /\ phase = "select"
  /\ timedOut
  /\ phase' = "idle"
  /\ Returns(callStart, 0, "timeout")
  /\ UNCHANGED <<bufVars, window, failed, timerVars, callStart, callLen, woken,
                 timedOut, expired, envVars>>

\* A caller fills a slice that Write has returned to it, as a loop with one
\* buffer does.  Only the slice of a call that is blocked is still the buffer's.
Reuse ==
  /\ phase # "panicked"
  /\ reused' = IF phase = "select" THEN callStart ELSE base + bufLen
  /\ reused' > reused
  /\ UNCHANGED <<bufVars, window, failed, timerVars, callVars, expired, high, heard>>

\* A deadline passes: its channel is closed, under a blocked call too.
Expire ==
  /\ phase # "panicked"
  /\ ~expired
  /\ expired' = TRUE
  /\ timedOut' = (timedOut \/ phase = "select")
  /\ UNCHANGED <<bufVars, window, failed, timerVars, phase, callStart, callLen,
                 woken, ret, envVars>>

\* SetDeadline replaces a closed channel by an open one.
SetDeadline ==
  /\ phase # "panicked"
  /\ expired
  /\ expired' = FALSE
  /\ UNCHANGED <<bufVars, window, failed, timerVars, callVars, envVars>>

----------------------------------------------------------------------------
(* The connection loop *)

\* Mutant of Handle: every ack wakes the call.
HandleWakesEarly(a, w) ==
  /\ phase # "panicked"
  /\ BufferHandle((ISS + a) % M)
  /\ window' = w
  /\ SendNext
  /\ woken' = (woken \/ phase = "select")
  /\ heard' = IF a > heard THEN a ELSE heard
  /\ UNCHANGED <<failed, phase, callStart, callLen, timedOut, ret, expired, high,
                 reused>>

\* Handle(ack, window) for the ack that names position a.
Handle(a, w) ==
  /\ phase # "panicked"
  /\ BufferHandle((ISS + a) % M)
  /\ window' = w
  /\ SendNext
  /\ woken' = (woken \/ (phase = "select" /\ Remaining' = 0))
  /\ heard' = IF a > heard THEN a ELSE heard
  /\ UNCHANGED <<failed, phase, callStart, callLen, timedOut, ret, expired, high,
                 reused>>

\* Mutant of Fail: the notify channel is not closed.
FailSilently ==
  /\ phase # "panicked"
  /\ failed' = TRUE
  /\ UNCHANGED <<bufVars, window, timerVars, callVars, expired, envVars>>

\* Fail(err): every later call fails, and a blocked one is woken.
Fail ==
  /\ phase # "panicked"
  /\ failed' = TRUE
  /\ woken' = (woken \/ phase = "select")
  /\ UNCHANGED <<bufVars, window, timerVars, phase, callStart, callLen, timedOut,
                 ret, expired, envVars>>

\* The loop receives segment s from Next().
Take(s) ==
  /\ phase # "panicked"
  /\ next = {s}
  /\ next' = {}
  /\ high' = IF SegEnd(s) > high THEN SegEnd(s) ELSE high
  /\ UNCHANGED <<bufVars, window, failed, armed, fired, callVars, expired, heard,
                 reused>>

----------------------------------------------------------------------------
(* Timer goroutines *)

\* A second has passed: the callback's goroutine starts and waits for t.lock.
TimerFires(s) ==
  /\ phase # "panicked"
  /\ armed = {s}
  /\ armed' = {}
  /\ fired' = fired \union {s}
  /\ Cardinality(fired') <= MaxFired
  /\ UNCHANGED <<bufVars, window, failed, next, callVars, expired, envVars>>

\* Mutant of TimerSends: the segment is not scheduled again.
TimerSendsOnce(s) ==
  /\ phase # "panicked"
  /\ s \in fired
  /\ fired' = fired \ {s}
  /\ next' = IF next = {} THEN {s} ELSE next
  /\ UNCHANGED <<bufVars, window, failed, armed, callVars, expired, envVars>>

\* The callback runs t.Send(seg): it queues its segment if there is room, stops
\* whatever timer runs now and schedules its own segment again.
TimerSends(s) ==
  /\ phase # "panicked"
  /\ s \in fired
  /\ fired' = fired \ {s}
  /\ Send(s)
  /\ UNCHANGED <<bufVars, window, failed, callVars, expired, envVars>>

----------------------------------------------------------------------------

\* What a peer may acknowledge: nothing it was not sent, and nothing so old
\* that its number has come round again.
PeerAck(a) == a <= high /\ SeqPos - a <= MaxStale

Next ==
  \/ WriteTooLate
  \/ \E close \in BOOLEAN : CallRefused(close) \/ CallPanics(close)
  \/ \E n \in Chunks : Write(n)
  \/ Close
  \/ Return
  \/ ReturnTimeout
  \/ Reuse
  \/ Expire
  \/ SetDeadline
  \/ \E a \in 0 .. high, w \in Windows : PeerAck(a) /\ Handle(a, w)
  \/ Fail
  \/ \E s \in next : Take(s)
  \/ \E s \in armed : TimerFires(s)
  \/ \E s \in fired : TimerSends(s)

Spec == Init /\ [][Next]_vars

----------------------------------------------------------------------------
(* Properties *)

TypeOK ==
  /\ sequence \in 0 .. M - 1
  /\ sendEOF \in BOOLEAN
  /\ sentEOF \in BOOLEAN
  /\ base \in Nat
  /\ bufLen \in Nat
  /\ window \in Windows
  /\ failed \in BOOLEAN
  /\ next \subseteq Segment
  /\ armed \subseteq Segment
  /\ fired \subseteq Segment
  /\ phase \in Phases
  /\ callStart \in Nat
  /\ callLen \in Nat
  /\ woken \in BOOLEAN
  /\ timedOut \in BOOLEAN
  /\ expired \in BOOLEAN
  /\ ret \in [start : Nat, n : Nat, err : Errors]
  /\ high \in Nat
  /\ heard \in Nat
  /\ reused \in Nat

Held == next \union armed \union fired

Faithful(s) ==
  /\ s.start = (ISS + s.pos) % M
  /\ s.len > 0 \/ s.fin
  /\ s.pos + s.len <= base + bufLen
  /\ s.fin => sendEOF /\ s.pos = base /\ s.len = 0

SegmentsInPlace == \A s \in Held : Faithful(s)

\* A byte of a segment that its caller has overwritten since is one that the peer
\* has acknowledged, and will pass over, or of a Write that did not succeed.
Intact(s) ==
  \A p \in s.pos .. s.pos + s.len - 1 :
    p < reused => p < base \/ ret.err \in {"timeout", "failed"}

\* Every segment the timer holds, however stale, is a piece of what was accepted,
\* with its own number and with the FIN only at the end; and although it is a part
\* of its caller's slice, which the caller may use again when Write returns, what
\* the peer has not acknowledged leaves as it was written, unless the Write
\* timed out or failed.
SegmentsFaithful == \A s \in Held : Faithful(s) /\ Intact(s)

\* As long as something is unacknowledged, some timer is running or some
\* callback is about to run: the persist and retransmission timers never all
\* die, whatever races between Cancel, Handle and a fired callback.
RetransmissionAlive == Remaining > 0 => armed # {} \/ fired # {}

\* A call blocked in its select with an open notify channel has something to
\* wait for: Handle and Fail never complete a call without waking it.
NoLostWakeup == phase = "select" /\ ~woken => Remaining > 0 /\ ~failed

\* The count that Write returns is a count of bytes the peer has acknowledged,
\* on success and on failure, and Close returns nil only once its EOF is.
CountIsAcked ==
  /\ ret.n > 0 => ret.start + ret.n <= heard
  /\ ret.err = "nil" /\ ret.n = 0 => sentEOF /\ heard > base

\* The buffer never drops a byte that the peer has not acknowledged: the
\* circular comparison takes no old or foreign ack for a new one.
DropsOnlyAcked == SeqPos <= heard

\* SetData and SetEOF panic with "already sending something" (tcp_send.go:216
\* and 224) in one case alone: the last call to return was a Write that timed
\* out.  No order of Handle, Fail and callbacks lets a Write return otherwise
\* while its data is still buffered and the sender in use.
PanicsOnlyAfterTimeout == phase = "panicked" => ret.err = "timeout"
============================================================================

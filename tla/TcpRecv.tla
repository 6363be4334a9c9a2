------------------------------ MODULE TcpRecv ------------------------------
(***************************************************************************)
(* The receiving half of a TCP connection: simpleTcpRecv, the tcpAssembler *)
(* that puts segments in order and the tcpRecvBuffer that applications     *)
(* read from (src/ipstack/tcp_recv.go), with what the connection loop does *)
(* to it (tcp4Conn.loop in src/ipstack/net_tcp.go).                        *)
(*                                                                         *)
(* Goroutines: the readers, each in a Read of its own, and the loop, the   *)
(* only caller of Handle, Ack and Window.                                  *)
(*                                                                         *)
(* A byte is named by its position in the peer's stream, which ends at     *)
(* position end; the FIN follows it.  Sequence numbers are modulo M.       *)
(***************************************************************************)
EXTENDS Integers, Sequences, FiniteSets

CONSTANTS
  M,          \* number of sequence numbers, 2^32 in the code
  IRS,        \* startSeq given to newSimpleTcpRecv
  AsmSize,    \* len(assembler.buffer), 65536 in the code
  BufSize,    \* bufSize given to newSimpleTcpRecv
  Readers,    \* goroutines that call Read
  ReadSizes,  \* lengths of the slices they pass
  MaxLen,     \* bound: data bytes in a segment
  MaxStale,   \* no segment that starts further behind sequence is in flight
  MaxAhead,   \* the peer never sends further ahead of sequence
  MaxStream   \* bound: length of the peer's stream

ASSUME RecvAssumption ==
  /\ M \in Nat \ {0}
  /\ IRS \in 0 .. M - 1
  /\ AsmSize \in Nat
  /\ BufSize \in 1 .. AsmSize
  /\ ReadSizes \subseteq Nat
  /\ MaxLen \in 0 .. M - 1
  /\ MaxStale \in Nat
  /\ MaxAhead \in 0 .. M - 1
  /\ AsmSize + MaxStale <= M
  /\ MaxStream \in Nat

VARIABLES
  sequence,   \* assembler.sequence
  asm,        \* assembler.buffer where assembler.mask is set, by offset
  fin,        \* assembler.fin; NoFin for every value below -1
  buf,        \* buffer.buffer[:buffer.size]
  hitEOF,     \* buffer.hitEOF
  failed,     \* failErr # nil
  windowOpen, \* the windowOpen channel holds its token
  loop,       \* the connection loop: in its select, or about to sendAck
  phase,      \* what each reader is doing
  want,       \* len(b) of each reader's call
  woken,      \* the notify channel each reader selects on is closed
  timedOut,   \* the deadline channel each reader selects on is closed
  expired,    \* the current deadline channel is closed
  ret,        \* result of the last call to return
  got,        \* history: all bytes returned to readers, in order
  end,        \* length of the peer's stream
  announced   \* history: the position and window last sent to the peer

asmVars    == <<sequence, asm, fin>>
bufferVars == <<buf, hitEOF, got>>
readerVars == <<phase, want, woken, timedOut, ret>>
vars == <<asmVars, bufferVars, failed, windowOpen, loop, readerVars, expired, end,
          announced>>

NoFin == -2

\* Position of the byte that sequence numbers: the EOF counts for one.
SeqPos == Len(got) + Len(buf) + (IF fin = -1 THEN 1 ELSE 0)

Window == BufSize - Len(buf)

----------------------------------------------------------------------------
(* tcpAssembler *)

\* Index in segment s of the byte that lands at offset o.
Index(s, o) == (o + sequence - s.start) % M

Covered(s) == {o \in 0 .. AsmSize - 1 : Index(s, o) < s.len}

\* The buffer after AddSegment: a byte that arrives again overwrites its copy.
Placed(s) ==
  [o \in DOMAIN asm \union Covered(s) |->
     IF o \in Covered(s) THEN s.pos + Index(s, o) ELSE asm[o]]

FinPlaced(s) ==
  LET finOffset == (s.start + s.len - sequence) % M IN
  IF s.fin /\ finOffset <= AsmSize THEN finOffset ELSE fin

\* Where Skim stops: at the FIN, at maxBytes, or at a byte that has not come.
SkimLength(held, f, maxBytes) ==
  CHOOSE n \in 0 .. AsmSize :
    /\ n \in {f, maxBytes, AsmSize} \/ n \notin held
    /\ 0 .. n - 1 \subseteq held \ {f, maxBytes}

\* Mutant of Shift: the front stays where it is.
NoShift(bytes, n) == bytes

\* Moves the front of the buffer by n.
Shift(bytes, n) ==
  [o \in {p - n : p \in {q \in DOMAIN bytes : q >= n}} |-> bytes[o + n]]

\* AddSegment, Skim(buffer.Window()), Put and PutEOF.
Assemble(s) ==
  IF fin = -1
  THEN UNCHANGED <<asmVars, buf, hitEOF>>
  ELSE LET placed == IF fin = 0 THEN asm ELSE Placed(s)
           f      == IF fin = 0 THEN fin ELSE FinPlaced(s)
           n      == SkimLength(DOMAIN placed, f, Window)
           eof    == n = f /\ n < AsmSize
           size   == IF eof THEN n + 1 ELSE n
       IN /\ sequence' = (sequence + size) % M
          /\ asm' = Shift(placed, size)
          /\ fin' = IF f = NoFin THEN NoFin ELSE f - size
          /\ buf' = buf \o [i \in 1 .. n |-> placed[i - 1]]
          /\ hitEOF' = (hitEOF \/ eof)

----------------------------------------------------------------------------
(* The connection loop *)

Init ==
  /\ sequence = IRS
  /\ asm = << >>
  /\ fin = NoFin
  /\ buf = << >>
  /\ hitEOF = FALSE
  /\ failed = FALSE
  /\ windowOpen = FALSE
  /\ loop = "select"
  /\ phase = [r \in Readers |-> "idle"]
  /\ want = [r \in Readers |-> 0]
  /\ woken = [r \in Readers |-> FALSE]
  /\ timedOut = [r \in Readers |-> FALSE]
  /\ expired = FALSE
  /\ ret = [n |-> 0, want |-> 0, err |-> "none"]
  /\ got = << >>
  /\ end \in 0 .. MaxStream
  /\ announced = [pos |-> 0, window |-> BufSize]

\* Closing notify wakes every reader that selects on it.
WakeReaders == woken' = [r \in Readers |-> woken[r] \/ phase[r] = "select"]

\* A packet arrives.  The loop acknowledges it only if it carries data.
Handle(s) ==
  /\ loop = "select"
  /\ Assemble(s)
  /\ WakeReaders
  /\ loop' = IF s.len > 0 THEN "ack" ELSE "select"
  /\ UNCHANGED <<got, failed, windowOpen, phase, want, timedOut, ret, expired, end,
                 announced>>

\* Mutant of Fail: the notify channel is not closed.
FailSilently ==
  /\ loop = "select"
  /\ failed' = TRUE
  /\ UNCHANGED <<asmVars, bufferVars, windowOpen, loop, readerVars, expired, end,
                 announced>>

Fail ==
  /\ loop = "select"
  /\ failed' = TRUE
  /\ WakeReaders
  /\ UNCHANGED <<asmVars, bufferVars, windowOpen, loop, phase, want, timedOut, ret,
                 expired, end, announced>>

\* The loop receives from WindowOpen().
TakeWindowOpen ==
  /\ loop = "select"
  /\ windowOpen
  /\ windowOpen' = FALSE
  /\ loop' = "ack"
  /\ UNCHANGED <<asmVars, bufferVars, failed, readerVars, expired, end, announced>>

\* Mutant of Announce: the window is the number of bytes that wait.
AnnounceSize == announced' = [pos |-> SeqPos, window |-> Len(buf)]

Announce == announced' = [pos |-> SeqPos, window |-> Window]

\* sendAck reads Ack() and Window() and sends them.
SendAck ==
  /\ loop = "ack"
  /\ loop' = "select"
  /\ Announce
  /\ UNCHANGED <<asmVars, bufferVars, failed, windowOpen, readerVars, expired, end>>

\* The loop takes a segment of its own sender, and sends the two with it.
SendSegment ==
  /\ loop = "select"
  /\ Announce
  /\ UNCHANGED <<asmVars, bufferVars, failed, windowOpen, loop, readerVars, expired, end>>

----------------------------------------------------------------------------
(* Read, SetDeadline *)

\* The call ends, and its variables with it.
Returns(r, n, err) ==
  /\ ret' = [n |-> n, want |-> want[r], err |-> err]
  /\ phase' = [phase EXCEPT ![r] = "idle"]
  /\ want' = [want EXCEPT ![r] = 0]

\* Channels that are selected on are not yet closed, or have been closed
\* since; outside a select nobody looks at them.
LeavesSelect(r) ==
  /\ woken' = [woken EXCEPT ![r] = FALSE]
  /\ timedOut' = [timedOut EXCEPT ![r] = FALSE]

Read(r, n) ==
  /\ phase[r] = "idle"
  /\ phase' = [phase EXCEPT ![r] = "start"]
  /\ want' = [want EXCEPT ![r] = n]
  /\ UNCHANGED <<asmVars, bufferVars, failed, windowOpen, loop, woken, timedOut, ret,
                 expired, end, announced>>

\* Read looks at the deadline before it takes the lock.
CheckDeadline(r) ==
  /\ phase[r] = "start"
  /\ \/ /\ expired
        /\ Returns(r, 0, "timeout")
     \/ /\ ~expired
        /\ phase' = [phase EXCEPT ![r] = "lock"]
        /\ UNCHANGED <<want, ret>>
  /\ UNCHANGED <<asmVars, bufferVars, failed, windowOpen, loop, woken, timedOut, expired,
                 end, announced>>

\* The select takes notify, and Read starts over.
Wake(r) ==
  /\ phase[r] = "select"
  /\ woken[r]
  /\ LeavesSelect(r)
  /\ phase' = [phase EXCEPT ![r] = "start"]
  /\ UNCHANGED <<asmVars, bufferVars, failed, windowOpen, loop, want, ret, expired, end,
                 announced>>

\* The select takes the deadline.
ReadTimeout(r) ==
  /\ phase[r] = "select"
  /\ timedOut[r]
  /\ LeavesSelect(r)
  /\ Returns(r, 0, "timeout")
  /\ UNCHANGED <<asmVars, bufferVars, failed, windowOpen, loop, expired, end, announced>>

\* Mutant of Readable: an error that is pending goes first.
ReadableUnlessFailed(r) ==
  IF failed THEN 0 ELSE IF Len(buf) > want[r] THEN want[r] ELSE Len(buf)

\* tcpRecvBuffer.Get: how many bytes a call gets.
Readable(r) == IF Len(buf) > want[r] THEN want[r] ELSE Len(buf)

\* Mutant of OpensWindow: the window counts as closed one byte early.
OpensWindowLate(n) == Window = 1 /\ n > 0

OpensWindow(n) == Window = 0 /\ n > 0

\* Read under the lock: Get, the window token, and then what to return or
\* whether to wait.
ReadLocked(r) ==
  LET n   == Readable(r)
      eof == n = Len(buf) /\ hitEOF
  IN /\ phase[r] = "lock"
     /\ buf' = SubSeq(buf, n + 1, Len(buf))
     /\ got' = got \o SubSeq(buf, 1, n)
     /\ windowOpen' = (windowOpen \/ OpensWindow(n))
     /\ \/ /\ n > 0 \/ eof
           /\ Returns(r, n, IF eof THEN "EOF" ELSE "nil")
           /\ UNCHANGED timedOut
        \/ /\ n = 0 /\ ~eof
           /\ failed
           /\ Returns(r, 0, "failed")
           /\ UNCHANGED timedOut
        \/ /\ n = 0 /\ ~eof
           /\ ~failed
           /\ phase' = [phase EXCEPT ![r] = "select"]
           /\ timedOut' = [timedOut EXCEPT ![r] = expired]
           /\ UNCHANGED <<want, ret>>
     /\ UNCHANGED <<asmVars, hitEOF, failed, loop, woken, expired, end, announced>>

\* A deadline passes: its channel is closed, under blocked readers too.
Expire ==
  /\ ~expired
  /\ expired' = TRUE
  /\ timedOut' = [r \in Readers |-> timedOut[r] \/ phase[r] = "select"]
  /\ UNCHANGED <<asmVars, bufferVars, failed, windowOpen, loop, phase, want, woken, ret,
                 end, announced>>

\* SetDeadline replaces a closed channel by an open one.
SetDeadline ==
  /\ expired
  /\ expired' = FALSE
  /\ UNCHANGED <<asmVars, bufferVars, failed, windowOpen, loop, readerVars, end,
                 announced>>

----------------------------------------------------------------------------
(* The peer *)

\* A segment of the peer's stream, in the peer's numbering.
PeerSegment(pos, len, last) ==
  [start |-> (IRS + pos) % M, pos |-> pos, len |-> len, fin |-> last]

\* What the peer may have in flight: any piece of its stream, sent or sent
\* again, that is not too old for its number to be told apart.  The window is
\* no limit: probes overrun it, and a sender may use an old one.
InFlight(pos, len, last) ==
  /\ pos + len <= end
  /\ last => pos + len = end
  /\ SeqPos - pos <= MaxStale
  /\ pos + len - SeqPos <= MaxAhead

Next ==
  \/ \E pos \in 0 .. end, len \in 0 .. MaxLen, last \in BOOLEAN :
       InFlight(pos, len, last) /\ Handle(PeerSegment(pos, len, last))
  \/ Fail
  \/ TakeWindowOpen
  \/ SendAck
  \/ SendSegment
  \/ \E r \in Readers :
       \/ \E n \in ReadSizes : Read(r, n)
       \/ CheckDeadline(r)
       \/ Wake(r)
       \/ ReadTimeout(r)
       \/ ReadLocked(r)
  \/ Expire
  \/ SetDeadline

Spec == Init /\ [][Next]_vars

----------------------------------------------------------------------------
(* Properties *)

\* Readers get the peer's stream: what was read and what is buffered is a
\* prefix of it and fits the buffer, so that Put never panics; a byte that waits
\* for earlier ones waits at its place; and the EOF is put exactly when the
\* whole stream is in order, whatever order its FIN came in.
ReadsTheStream ==
  /\ \A i \in 1 .. Len(got \o buf) : (got \o buf)[i] = i - 1
  /\ Len(buf) <= BufSize
  /\ \A o \in DOMAIN asm : asm[o] = SeqPos + o
  /\ hitEOF <=> fin = -1
  /\ hitEOF => Len(got) + Len(buf) = end

\* A reader that waits with an open notify channel has no reason to go
\* on: no Handle, Fail or other reader leaves it asleep over data, EOF or an
\* error.
NoLostWakeup ==
  \A r \in Readers :
    phase[r] = "select" /\ ~woken[r] =>
      /\ want[r] > 0 => buf = << >> /\ ~hitEOF
      /\ ~failed

\* Once the peer has been told of a closed window, the news that it has
\* opened is never lost: the token waits, or the loop is about to send it.
ReopenIsAnnounced ==
  announced.window = 0 /\ Window > 0 => windowOpen \/ loop = "ack"

\* The peer is never told to take back what it was allowed to send: the right
\* edge of the window never moves left, nor does the acknowledged position.
WindowNeverShrinks ==
  [][/\ announced'.pos >= announced.pos
     /\ announced'.pos + announced'.window >= announced.pos + announced.window]_vars

\* "Errors are processed after all buffered data has been read"
\* (tcp_recv.go:28), for every Read that could take a byte.
ErrorsComeLast ==
  [][ret' # ret /\ ret'.err \in {"failed", "EOF"} /\ ret'.want > 0 => buf' = << >>]_vars
============================================================================

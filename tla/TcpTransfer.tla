----------------------------- MODULE TcpTransfer -----------------------------
(***************************************************************************)
(* One direction of a TCP connection: a sender (TcpSend), a receiver       *)
(* (TcpRecv), the loops that drive them (tcp4Conn.loop in                  *)
(* src/ipstack/net_tcp.go) and a network between them that loses,          *)
(* reorders and duplicates packets.  The other direction is idle, as in a  *)
(* connection whose receiving application only reads.                      *)
(*                                                                         *)
(* A packet may stay in the network after it arrives, so it may arrive any *)
(* number of times and in any order.  One that a full Outgoing() drops is  *)
(* one lost at once.                                                       *)
(***************************************************************************)
EXTENDS Integers, Sequences, FiniteSets

CONSTANTS
  M, ISS, MSS, Chunks, MaxFired,          \* see TcpSend
  AsmSize, BufSize, Readers, ReadSizes,   \* see TcpRecv
  MaxStale,   \* lifetime of a packet, in sequence numbers
  MaxStream,  \* bound: length of the stream
  MaxPackets  \* bound: packets in the network, in each direction

ASSUME TransferAssumption ==
  /\ M \in Nat \ {0}
  /\ ISS \in 0 .. M - 1
  /\ MSS \in 1 .. M - 1
  /\ Chunks \subseteq Nat \ {0}
  /\ MaxStale \in Nat
  /\ MaxStale + 1 < M
  /\ \A n \in Chunks : MaxStale + n < M
  /\ AsmSize \in Nat
  /\ AsmSize + MaxStale <= M
  /\ BufSize \in 1 .. AsmSize
  /\ ReadSizes \subseteq Nat
  /\ MaxStream \in Nat
  /\ MaxFired \in Nat

VARIABLES
  \* the sender
  sequence, sendEOF, sentEOF, base, bufLen, window, failed, next, armed, fired,
  phase, callStart, callLen, woken, timedOut, expired, ret, high, heard,
  \* the receiver
  rSequence, asm, fin, buf, hitEOF, rFailed, windowOpen, loop, rPhase, want, rWoken,
  rTimedOut, rExpired, rRet, got, end, announced,
  \* the network
  data, acks

sVars == <<sequence, sendEOF, sentEOF, base, bufLen, window, failed, next, armed, fired,
           phase, callStart, callLen, woken, timedOut, expired, ret, high, heard>>
rVars == <<rSequence, asm, fin, buf, hitEOF, rFailed, windowOpen, loop, rPhase, want,
           rWoken, rTimedOut, rExpired, rRet, got, end, announced>>
net  == <<data, acks>>
vars == <<sVars, rVars, net>>

Windows == 0 .. BufSize

\* Nothing times out or fails here, so all that a caller overwrites has been
\* acknowledged (SegmentsFaithful of TcpSend) and the receiver passes over it.
S == INSTANCE TcpSend WITH reused <- 0

\* The numbers that are not for old packets are for those ahead.
Ahead == M - MaxStale - 1

R == INSTANCE TcpRecv WITH
       IRS <- ISS, MaxLen <- MSS, MaxAhead <- Ahead,
       sequence <- rSequence, failed <- rFailed, phase <- rPhase, woken <- rWoken,
       timedOut <- rTimedOut, expired <- rExpired, ret <- rRet

\* The handshake has told the sender of an empty buffer.
Init ==
  /\ S!Init
  /\ R!Init
  /\ window = BufSize
  /\ data = {}
  /\ acks = {}

\* The network after packet p is sent: the older ones that are still there.
After(packets, p) ==
  {old \union {p} : old \in {o \in SUBSET packets : Cardinality(o \union {p}) <= MaxPackets}}

----------------------------------------------------------------------------
(* The sending side *)

\* The application writes its stream and closes.  It sets no deadline.
AppWrite ==
  /\ \E n \in Chunks : base + n <= end /\ S!Write(n)
  /\ UNCHANGED <<rVars, net>>

AppClose ==
  /\ base = end
  /\ S!Close
  /\ UNCHANGED <<rVars, net>>

AppReturn == S!Return /\ UNCHANGED <<rVars, net>>

\* The loop sends a segment from Next().
SendData ==
  \E s \in next :
    /\ S!Take(s)
    /\ data' \in After(data, s)
    /\ UNCHANGED <<rVars, acks>>

\* A pure ACK arrives at the loop.
DeliverAck(a) ==
  /\ S!SeqPos - a.pos <= MaxStale
  /\ S!Handle(a.pos, a.window)
  /\ acks' \in {acks, acks \ {a}}
  /\ UNCHANGED <<rVars, data>>

Timer ==
  /\ (\E s \in armed : S!TimerFires(s)) \/ (\E s \in fired : S!TimerSends(s))
  /\ UNCHANGED <<rVars, net>>

----------------------------------------------------------------------------
(* The receiving side *)

\* A data packet arrives at the loop.
Deliver(s) ==
  /\ R!SeqPos - s.pos <= MaxStale
  /\ R!Handle(s)
  /\ data' \in {data, data \ {s}}
  /\ UNCHANGED <<sVars, acks>>

SendAck ==
  /\ R!SendAck
  /\ acks' \in After(acks, announced')
  /\ UNCHANGED <<sVars, data>>

WindowOpens == R!TakeWindowOpen /\ UNCHANGED <<sVars, net>>

AppRead ==
  /\ \E r \in Readers :
       \/ \E n \in ReadSizes : R!Read(r, n)
       \/ R!CheckDeadline(r)
       \/ R!Wake(r)
       \/ R!ReadLocked(r)
  /\ UNCHANGED <<sVars, net>>

----------------------------------------------------------------------------

Lose ==
  /\ \/ \E s \in data : data' = data \ {s} /\ UNCHANGED acks
     \/ \E a \in acks : acks' = acks \ {a} /\ UNCHANGED data
  /\ UNCHANGED <<sVars, rVars>>

Next ==
  \/ AppWrite
  \/ AppClose
  \/ AppReturn
  \/ SendData
  \/ \E a \in acks : DeliverAck(a)
  \/ Timer
  \/ \E s \in data : Deliver(s)
  \/ SendAck
  \/ WindowOpens
  \/ AppRead
  \/ Lose

Spec == Init /\ [][Next]_vars

\* Goroutines and timers run, and the reader keeps reading.  Of packets that
\* are in the network again and again some arrive, even if the loop is often
\* busy when they could: this holds of those that bring something new and of
\* those that do not, whose acks make the sender try again.  And of the acks that
\* arrive again and again some do while no fired callback is waiting for the
\* timer's lock.  Without this the rest is not enough: a callback that Cancel came
\* too late for sends its old segment, and if every ack met such a callback the
\* new segment would find Next() full for ever.
New(s) == s.pos <= R!SeqPos /\ R!SeqPos < S!SegEnd(s)
NewAck(a) == a.pos > S!SeqPos
DeliverSome(new) == \E s \in data : New(s) = new /\ Deliver(s) /\ s \notin data'
DeliverSomeAck(new) ==
  /\ fired = {}
  /\ \E a \in acks : NewAck(a) = new /\ DeliverAck(a) /\ a \notin acks'

Fairness ==
  /\ WF_vars(AppReturn)
  /\ WF_vars(SendData)
  /\ WF_vars(Timer)
  /\ WF_vars(SendAck)
  /\ WF_vars(WindowOpens)
  /\ WF_vars(AppRead)
  /\ \A new \in BOOLEAN :
       /\ []<>(\E s \in data : New(s) = new) => []<><<DeliverSome(new)>>_vars
       /\ []<>(\E a \in acks : NewAck(a) = new) => []<><<DeliverSomeAck(new)>>_vars

FairSpec == Spec /\ Fairness

----------------------------------------------------------------------------
(* Properties *)

Stream == INSTANCE ByteStream WITH
  Lengths   <- Chunks,
  written   <- base + bufLen,
  closed    <- sendEOF,
  arrived   <- Len(got) + Len(buf),
  complete  <- hitEOF,
  confirmed <- base,
  received  <- Len(got)

\* The whole, for every loss, repetition and order of packets, is a byte
\* stream whose writer is told the truth.
ImplementsByteStream == Stream!Spec

\* Each side is the peer that the other was modelled with (InFlight of
\* TcpRecv, PeerAck of TcpSend): a segment is a piece of one stream, in its
\* place and never far ahead, and an ack names nothing that was not sent.
PeersConform ==
  /\ \A s \in data :
       /\ s = R!PeerSegment(s.pos, s.len, s.fin)
       /\ s.pos + s.len <= end
       /\ s.fin => s.pos + s.len = end
       /\ s.pos + s.len - R!SeqPos <= Ahead
  /\ \A a \in acks : a.pos <= high /\ a.window \in Windows

\* Handle, the timers and the window updates bring every Write to its end,
\* from whatever window it starts with.
WritesComplete == phase = "select" /\ ~sendEOF ~> phase = "idle"

\* What is written is read, and after a Close the reader gets to EOF.
EverythingArrives ==
  /\ \A n \in 1 .. MaxStream : base + bufLen >= n ~> Len(got) >= n
  /\ sendEOF ~> rRet.err = "EOF"

\* "Close triggers an EOF sequence" (tcp_send.go:19), and waits for its end.
\* The code breaks it: the other loop acknowledges no FIN that comes alone.
ClosesComplete == phase = "select" /\ sendEOF ~> phase = "idle"
============================================================================

------------------------------ MODULE StreamConn ------------------------------
(***************************************************************************)
(* A packet connection over a filtered stream (src/ipstack/net_helpers.go, *)
(* filters.go): the callers of Read and Write, the goroutine of the        *)
(* filter, and the two deadlines with the callbacks of their timers.       *)
(*                                                                         *)
(* The stream is a child of a multiplexer, which closes Done() and         *)
(* Incoming() together.  Packets are numbered in the order they arrive.    *)
(***************************************************************************)
EXTENDS Integers, Sequences, SequencesExt

CONSTANTS
  Readers,     \* goroutines that call ReadPacket
  Writers,     \* goroutines that call WritePacket
  Room,        \* room in the stream's Incoming()
  Wanted,      \* the packets that the filter lets through
  MaxPackets,  \* bound: packets that arrive
  MaxSets,     \* bound: calls of SetDeadline
  MaxLate      \* bound: callbacks of one deadline that wait for the lock

ASSUME ConnAssumption ==
  /\ Readers \intersect Writers = {}
  /\ Wanted \subseteq 1 .. MaxPackets
  /\ {Room, MaxPackets, MaxSets, MaxLate} \subseteq Nat

VARIABLES
  closed,     \* the stream is closed
  incoming,   \* packets in Incoming()
  arrived,    \* number of packets that have arrived
  kept,       \* history: those that found room in Incoming()
  filter,     \* what filterChan does
  held,       \* the packet it sends, as a sequence
  outClosed,  \* the channel it sends to is closed
  read,       \* history: the packets that were read
  op,         \* what each caller does
  expired,    \* deadlines whose curChan is closed
  armed,      \* deadlines whose timer runs
  late,       \* number of callbacks that have fired and wait for the lock
  sets        \* number of calls of SetDeadline

streamVars == <<closed, incoming, arrived, kept>>
filterVars == <<filter, held, outClosed, read>>
deadlineVars == <<expired, armed, late, sets>>
allConnVars == <<streamVars, filterVars, op, deadlineVars>>

Callers == Readers \union Writers
Sides == {"read", "write"}
Side(g) == IF g \in Readers THEN "read" ELSE "write"

ConnInit ==
  /\ closed = FALSE
  /\ incoming = << >>
  /\ arrived = 0
  /\ kept = << >>
  /\ filter = "receive"
  /\ held = << >>
  /\ outClosed = FALSE
  /\ read = << >>
  /\ op = [g \in Callers |-> "idle"]
  /\ expired = {}
  /\ armed = {}
  /\ late = [s \in Sides |-> 0]
  /\ sets = 0

----------------------------------------------------------------------------
(* The stream *)

\* A packet that finds no room is dropped.
Arrive ==
  /\ ~closed
  /\ arrived < MaxPackets
  /\ arrived' = arrived + 1
  /\ IF Len(incoming) < Room
     THEN incoming' = Append(incoming, arrived') /\ kept' = Append(kept, arrived')
     ELSE UNCHANGED <<incoming, kept>>
  /\ UNCHANGED <<closed, filterVars, op, deadlineVars>>

\* Close of the connection, or of the network it belongs to.
CloseConn ==
  /\ ~closed
  /\ closed' = TRUE
  /\ UNCHANGED <<incoming, arrived, kept, filterVars, op, deadlineVars>>

----------------------------------------------------------------------------
(* filterChan *)

\* Mutant of FilterReceive: while it sends a packet it takes the next.
FilterReceiveEager ==
  /\ filter # "stopped"
  /\ incoming # << >>
  /\ incoming' = Tail(incoming)
  /\ IF Head(incoming) \in Wanted
     THEN filter' = "send" /\ held' = <<Head(incoming)>>
     ELSE UNCHANGED <<filter, held>>
  /\ UNCHANGED <<closed, arrived, kept, outClosed, read, op, deadlineVars>>

\* A packet for which the filter returns nil is dropped.
FilterReceive ==
  /\ filter = "receive"
  /\ incoming # << >>
  /\ incoming' = Tail(incoming)
  /\ IF Head(incoming) \in Wanted
     THEN filter' = "send" /\ held' = <<Head(incoming)>>
     ELSE UNCHANGED <<filter, held>>
  /\ UNCHANGED <<closed, arrived, kept, outClosed, read, op, deadlineVars>>

\* A caller of ReadPacket receives it, even if its deadline has passed.
FilterSend(g) ==
  /\ filter = "send"
  /\ op[g] # "idle"
  /\ filter' = "receive"
  /\ held' = << >>
  /\ read' = read \o held
  /\ op' = [op EXCEPT ![g] = "idle"]
  /\ UNCHANGED <<streamVars, outClosed, deadlineVars>>

\* Mutant of FilterStop: no deferred close of the channel.
FilterStopOpen ==
  /\ filter # "stopped"
  /\ closed
  /\ filter' = "stopped"
  /\ held' = << >>
  /\ UNCHANGED <<outClosed, streamVars, read, op, deadlineVars>>

\* Either select takes done, or the first a closed Incoming().
FilterStop ==
  /\ filter # "stopped"
  /\ closed
  /\ filter' = "stopped"
  /\ held' = << >>
  /\ outClosed' = TRUE
  /\ UNCHANGED <<streamVars, read, op, deadlineVars>>

----------------------------------------------------------------------------
(* ReadPacket and WritePacket *)

\* The caller takes the deadline's channel and, unless it is closed, waits.
Call(g) ==
  /\ op[g] = "idle"
  /\ Side(g) \notin expired
  /\ op' = [op EXCEPT ![g] = "waits"]
  /\ UNCHANGED <<streamVars, filterVars, deadlineVars>>

\* What is waited for is closed: the deadline's channel, the filter's channel,
\* or Done().
CallEnds(g) ==
  /\ op[g] # "idle"
  /\ \/ op[g] = "cut"
     \/ g \in Readers /\ outClosed
     \/ g \in Writers /\ closed
  /\ op' = [op EXCEPT ![g] = "idle"]
  /\ UNCHANGED <<streamVars, filterVars, deadlineVars>>

\* The stream receives the packet; it may still do so, and drop it, when it has
\* just been closed.
WriteSends(g) ==
  /\ op[g] # "idle"
  /\ op' = [op EXCEPT ![g] = "idle"]
  /\ UNCHANGED <<streamVars, filterVars, deadlineVars>>

----------------------------------------------------------------------------
(* deadlineManager *)

\* Mutant of SetDeadline: the channel is always a new one.
SetDeadlineRenews(s, zero) ==
  /\ sets < MaxSets
  /\ sets' = sets + 1
  /\ armed' = IF zero THEN armed \ {s} ELSE armed \union {s}
  /\ expired' = expired \ {s}
  /\ op' = [g \in Callers |->
       IF Side(g) = s /\ op[g] = "waits" THEN "abandoned" ELSE op[g]]
  /\ UNCHANGED <<late, streamVars, filterVars>>

\* SetDeadline stops the timer and renews the channel if it is closed, so that
\* a caller holds the current channel or one that is closed.
SetDeadline(s, zero) ==
  /\ sets < MaxSets
  /\ sets' = sets + 1
  /\ armed' = IF zero THEN armed \ {s} ELSE armed \union {s}
  /\ expired' = expired \ {s}
  /\ UNCHANGED <<late, op, streamVars, filterVars>>

\* The timer fires: Stop comes too late for its callback.
TimerFires(s) ==
  /\ s \in armed
  /\ late[s] < MaxLate
  /\ armed' = armed \ {s}
  /\ late' = [late EXCEPT ![s] = @ + 1]
  /\ UNCHANGED <<expired, sets, op, streamVars, filterVars>>

\* The callback closes curChan, whichever that is by now.
Callback(s) ==
  /\ late[s] > 0
  /\ late' = [late EXCEPT ![s] = @ - 1]
  /\ expired' = expired \union {s}
  /\ op' = [g \in Callers |->
       IF s \notin expired /\ Side(g) = s /\ op[g] = "waits" THEN "cut" ELSE op[g]]
  /\ UNCHANGED <<armed, sets, streamVars, filterVars>>

----------------------------------------------------------------------------

ConnNext ==
  \/ Arrive
  \/ CloseConn
  \/ FilterReceive
  \/ FilterStop
  \/ \E g \in Readers : FilterSend(g)
  \/ \E g \in Writers : WriteSends(g)
  \/ \E g \in Callers : Call(g) \/ CallEnds(g)
  \/ \E s \in Sides :
       \/ \E zero \in BOOLEAN : SetDeadline(s, zero)
       \/ TimerFires(s)
       \/ Callback(s)

ConnSpec == ConnInit /\ [][ConnNext]_allConnVars

\* The goroutines run and timers fire.  Nobody has to call, and the stream
\* does not have to take what is written.
ConnFairness ==
  /\ WF_allConnVars(FilterReceive)
  /\ WF_allConnVars(FilterStop)
  /\ \A g \in Callers : WF_allConnVars(CallEnds(g))
  /\ \A s \in Sides : WF_allConnVars(TimerFires(s)) /\ WF_allConnVars(Callback(s))

ConnFairSpec == ConnSpec /\ ConnFairness

----------------------------------------------------------------------------
(* Properties *)

\* What the filter makes of packet n, as a sequence, and of the packets of s.
Pass(n) == IF n \in Wanted THEN <<n>> ELSE << >>

Passed(s) ==
  LET passed[i \in 0 .. Len(s)] ==
        IF i = 0 THEN << >> ELSE passed[i - 1] \o Pass(s[i])
  IN passed[Len(s)]

\* Readers get the packets that the filter lets through in the order they came,
\* each once.  None is lost between the goroutine of the filter and calls that
\* time out, until the connection is closed.
NothingLost ==
  LET known == read \o held \o Passed(incoming) IN
  /\ IsPrefix(read, Passed(kept))
  /\ ~closed => known = Passed(kept)

\* A call under a deadline ends, unless the deadline is lifted, although
\* SetDeadline may have replaced timer and channel since the call took its own.
DeadlinesEnd ==
  \A g \in Callers :
    LET s == Side(g) IN
    op[g] # "idle" /\ (s \in armed \/ late[s] > 0) ~>
      op[g] = "idle" \/ (s \notin armed \union expired /\ late[s] = 0)

\* Close ends the calls that wait, without a deadline too, and the filter's
\* goroutine does not outlive the connection, even if nobody ever takes the
\* packet it holds.
CloseEndsAll ==
  /\ closed ~> filter = "stopped"
  /\ \A g \in Callers : closed /\ op[g] # "idle" ~> op[g] = "idle"
============================================================================

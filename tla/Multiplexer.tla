----------------------------- MODULE Multiplexer -----------------------------
(***************************************************************************)
(* A multiplexer over a Stream, its children and the goroutines that serve *)
(* them (src/ipstack/stream.go, src/ipstack/chan_util.go).                 *)
(*                                                                         *)
(* Goroutines: readLoop; for each child one forwardPackets and the         *)
(* goroutines of its mergeDones; and callers of Fork, Close and the        *)
(* children's Close.  m.lock makes what they do under it one step, except  *)
(* for multiplexer.Close, whose effects others see one by one.             *)
(*                                                                         *)
(* Packets of the underlying stream are numbered in the order they arrive; *)
(* Nil is what a receive from a closed channel gives.                      *)
(***************************************************************************)
EXTENDS Integers, Sequences, FiniteSets

CONSTANTS
  Children,    \* the streams that Fork may make
  ReadBuffer,  \* readBuffer given to Fork
  MaxPackets,  \* bound: packets that arrive at the underlying stream
  MaxSent      \* bound: packets sent on a child

ASSUME MultiplexerAssumption ==
  /\ IsFiniteSet(Children)
  /\ ReadBuffer \in Nat
  /\ MaxPackets \in Nat
  /\ MaxSent \in Nat

VARIABLES
  \* the underlying stream
  upDone,      \* Done() is closed
  upIncoming,  \* packets in Incoming()
  upClosed,    \* Incoming() is closed
  upOutgoing,  \* history: the packets sent to Outgoing(), as <<child, number>>
  arrived,     \* history: packets that have arrived
  \* the multiplexer
  closeChan,   \* closeChan is closed
  children,    \* the members of m.children
  readLoop,    \* what readLoop does
  packet,      \* the packet it handles
  close,       \* the multiplexer.Close that holds the lock: how far it is
  closer,      \* who called it
  \* the children
  forked,      \* children that Fork has made and returned
  done,        \* child.done is closed
  incoming,    \* packets in child.incoming
  inClosed,    \* child.incoming is closed
  \* forwardPackets
  forward,     \* what it does
  cancel,      \* the channel that mergeDones made is closed
  sent,        \* number of packets received from child.outgoing so far
  late,        \* history: those received after done or closeChan was closed
  panic        \* what ended the process, if anything did

upVars     == <<upDone, upIncoming, upClosed, upOutgoing, arrived>>
muxVars    == <<closeChan, children, readLoop, packet, close, closer>>
childVars  == <<forked, done, incoming, inClosed>>
fwdVars    == <<forward, cancel, sent, late>>
allVars == <<upVars, muxVars, childVars, fwdVars, panic>>

Nil == 0

MuxInit ==
  /\ upDone = FALSE
  /\ upIncoming = << >>
  /\ upClosed = FALSE
  /\ upOutgoing = {}
  /\ arrived = 0
  /\ closeChan = FALSE
  /\ children = {}
  /\ readLoop = "select"
  /\ packet = Nil
  /\ close = "none"
  /\ closer = "none"
  /\ forked = {}
  /\ done = [c \in Children |-> FALSE]
  /\ incoming = [c \in Children |-> << >>]
  /\ inClosed = [c \in Children |-> FALSE]
  /\ forward = [c \in Children |-> "none"]
  /\ cancel = [c \in Children |-> FALSE]
  /\ sent = [c \in Children |-> 0]
  /\ late = [c \in Children |-> {}]
  /\ panic = "none"

Alive == panic = "none"
Unlocked == Alive /\ close = "none"

----------------------------------------------------------------------------
(* The underlying stream *)

Arrive ==
  /\ Alive
  /\ ~upClosed
  /\ arrived < MaxPackets
  /\ arrived' = arrived + 1
  /\ upIncoming' = Append(upIncoming, arrived')
  /\ UNCHANGED <<upDone, upClosed, upOutgoing, muxVars, childVars, fwdVars, panic>>

\* The stream is disconnected, or comes to the end of a Close: tunnelStream
\* closes Incoming() first, childStream closes Done() first.
UpDisconnects ==
  /\ Alive
  /\ \/ ~upDone /\ upDone' = TRUE /\ UNCHANGED upClosed
     \/ ~upClosed /\ upClosed' = TRUE /\ UNCHANGED upDone
  /\ UNCHANGED <<upIncoming, upOutgoing, arrived, muxVars, childVars, fwdVars, panic>>

----------------------------------------------------------------------------
(* readLoop *)

\* A packet from Incoming(), or nil if it is closed and empty.
Receive ==
  /\ Alive
  /\ readLoop = "select"
  /\ \/ /\ upIncoming # << >>
        /\ packet' = Head(upIncoming)
        /\ upIncoming' = Tail(upIncoming)
     \/ /\ upIncoming = << >>
        /\ upClosed
        /\ packet' = Nil
        /\ UNCHANGED upIncoming
  /\ readLoop' = "handle"
  /\ UNCHANGED <<upDone, upClosed, upOutgoing, arrived, closeChan, children, close, closer,
                 childVars, fwdVars, panic>>

\* Done() or closeChan is closed, and the deferred Close is next.
Leave ==
  /\ Alive
  /\ readLoop = "select"
  /\ upDone \/ closeChan
  /\ readLoop' = "close"
  /\ UNCHANGED <<upVars, closeChan, children, packet, close, closer, childVars, fwdVars,
                 panic>>

\* Mutant of HandleIncoming: it does not look whether it was closed meanwhile.
HandleIncomingUnchecked ==
  /\ Unlocked
  /\ readLoop = "handle"
  /\ readLoop' = "select"
  /\ packet' = Nil
  /\ IF \E c \in children : inClosed[c]
     THEN panic' = "send" /\ UNCHANGED incoming
     ELSE /\ incoming' = [c \in Children |->
                IF c \in children /\ Len(incoming[c]) < ReadBuffer
                THEN Append(incoming[c], packet) ELSE incoming[c]]
          /\ UNCHANGED panic
  /\ UNCHANGED <<upVars, closeChan, children, close, closer, forked, done, inClosed,
                 fwdVars>>

\* Mutant of HandleIncoming: it waits until every child has room.
HandleIncomingBlocks ==
  /\ Unlocked
  /\ readLoop = "handle"
  /\ closeChan \/ \A c \in children : Len(incoming[c]) < ReadBuffer
  /\ packet' = Nil
  /\ readLoop' = IF closeChan THEN "close" ELSE "select"
  /\ incoming' = [c \in Children |->
        IF c \in children /\ ~closeChan THEN Append(incoming[c], packet) ELSE incoming[c]]
  /\ UNCHANGED <<upVars, closeChan, children, close, closer, forked, done, inClosed, fwdVars,
                 panic>>

\* handleIncoming: every child that has room gets the packet.  To send to a
\* closed channel is to panic.
HandleIncoming ==
  /\ Unlocked
  /\ readLoop = "handle"
  /\ packet' = Nil
  /\ \/ /\ closeChan
        /\ readLoop' = "close"
        /\ UNCHANGED <<incoming, panic>>
     \/ /\ ~closeChan
        /\ readLoop' = "select"
        /\ IF \E c \in children : inClosed[c]
           THEN panic' = "send" /\ UNCHANGED incoming
           ELSE /\ incoming' = [c \in Children |->
                      IF c \in children /\ Len(incoming[c]) < ReadBuffer
                      THEN Append(incoming[c], packet) ELSE incoming[c]]
                /\ UNCHANGED panic
  /\ UNCHANGED <<upVars, closeChan, children, close, closer, forked, done, inClosed,
                 fwdVars>>

----------------------------------------------------------------------------
(* multiplexer.Close, step by step under the lock *)

\* Called by readLoop on its way out, or by anyone.
CloseBegin(who) ==
  /\ Unlocked
  /\ who = "readLoop" => readLoop = "close"
  /\ ~closeChan
  /\ closer' = who
  /\ closeChan' = TRUE
  /\ close' = "stream"
  /\ UNCHANGED <<upVars, children, readLoop, packet, childVars, fwdVars, panic>>

\* On a closed multiplexer there is nothing to do.
AlreadyClosed ==
  /\ Unlocked
  /\ readLoop = "close"
  /\ closeChan
  /\ readLoop' = "stopped"
  /\ UNCHANGED <<upVars, closeChan, children, packet, close, closer, childVars, fwdVars,
                 panic>>

\* m.stream.Close() closes Done(), and sooner or later Incoming().  The stream may
\* itself be the child of a multiplexer: of one that was closed first, its childClose
\* panics (see ChildClose).
CloseUpstream ==
  /\ Alive
  /\ close = "stream"
  /\ \/ /\ close' = "children"
        /\ upDone' = TRUE
        /\ upClosed' \in {upClosed, TRUE}
        /\ UNCHANGED panic
     \/ /\ upDone /\ upClosed
        /\ panic' = "upstream"
        /\ UNCHANGED <<upDone, upClosed, close>>
  /\ UNCHANGED <<upIncoming, upOutgoing, arrived, closeChan, children, readLoop, packet,
                 closer, childVars, fwdVars>>

\* The loop over m.children, which stay where they are.
CloseChildren ==
  /\ Alive
  /\ close = "children"
  /\ close' = "end"
  /\ done' = [c \in Children |-> done[c] \/ c \in children]
  /\ inClosed' = [c \in Children |-> inClosed[c] \/ c \in children]
  /\ UNCHANGED <<upVars, closeChan, children, readLoop, packet, closer, forked, incoming, fwdVars, panic>>

CloseEnd ==
  /\ Alive
  /\ close = "end"
  /\ close' = "none"
  /\ closer' = "none"
  /\ readLoop' = IF closer = "readLoop" THEN "stopped" ELSE readLoop
  /\ UNCHANGED <<upVars, closeChan, children, packet, childVars, fwdVars, panic>>

----------------------------------------------------------------------------
(* Fork, and what is done with a child *)

\* Fork starts forwardPackets before it looks whether m is closed.
StartForward(c) ==
  /\ Alive
  /\ forward[c] = "none"
  /\ forward' = [forward EXCEPT ![c] = "receive"]
  /\ UNCHANGED <<upVars, muxVars, childVars, cancel, sent, late, panic>>

Fork(c) ==
  /\ Unlocked
  /\ forward[c] # "none"
  /\ c \notin forked
  /\ ~closeChan
  /\ children' = children \union {c}
  /\ forked' = forked \union {c}
  /\ UNCHANGED <<upVars, closeChan, readLoop, packet, close, closer, done, incoming, inClosed, fwdVars, panic>>

\* childClose: a child that is listed is deleted from the list and closed,
\* even if multiplexer.Close has closed it: to close a channel twice is to
\* panic.  One that is not listed is closed already.
ChildClose(c) ==
  /\ Unlocked
  /\ c \in children
  /\ children' = children \ {c}
  /\ IF done[c]
     THEN panic' = "close" /\ UNCHANGED <<done, inClosed>>
     ELSE /\ done' = [done EXCEPT ![c] = TRUE]
          /\ inClosed' = [inClosed EXCEPT ![c] = TRUE]
          /\ UNCHANGED panic
  /\ UNCHANGED <<upVars, closeChan, readLoop, packet, close, closer, forked, incoming,
                 fwdVars>>

\* Somebody receives from child.incoming.
Take(c) ==
  /\ Alive
  /\ incoming[c] # << >>
  /\ incoming' = [incoming EXCEPT ![c] = Tail(@)]
  /\ UNCHANGED <<upVars, muxVars, forked, done, inClosed, fwdVars, panic>>

----------------------------------------------------------------------------
(* forwardPackets(m.stream.Outgoing(), child.outgoing, false, child.done,  *)
(* m.closeChan)                                                            *)

Cancelled(c) == done[c] \/ closeChan

\* A goroutine of mergeDones.
MergeDones(c) ==
  /\ Alive
  /\ forward[c] # "none"
  /\ Cancelled(c)
  /\ ~cancel[c]
  /\ cancel' = [cancel EXCEPT ![c] = TRUE]
  /\ UNCHANGED <<upVars, muxVars, childVars, forward, sent, late, panic>>

\* Somebody sends to child.outgoing, and forwardPackets receives.
SendOutgoing(c) ==
  /\ Alive
  /\ c \in forked
  /\ forward[c] = "receive"
  /\ sent[c] < MaxSent
  /\ forward' = [forward EXCEPT ![c] = "check"]
  /\ sent' = [sent EXCEPT ![c] = @ + 1]
  /\ late' = [late EXCEPT ![c] = IF Cancelled(c) THEN @ \union {sent[c] + 1} ELSE @]
  /\ UNCHANGED <<upVars, muxVars, childVars, cancel, panic>>

\* Mutant of CheckCancels: only the merged channel is looked at.
CheckMerged(c) ==
  /\ Alive
  /\ forward[c] = "check"
  /\ forward' = [forward EXCEPT ![c] = IF cancel[c] THEN "stopped" ELSE "send"]
  /\ UNCHANGED <<upVars, muxVars, childVars, cancel, sent, late, panic>>

\* Before a packet goes on, each of the channels that were merged is looked at.
CheckCancels(c) ==
  /\ Alive
  /\ forward[c] = "check"
  /\ forward' = [forward EXCEPT ![c] = IF Cancelled(c) THEN "stopped" ELSE "send"]
  /\ UNCHANGED <<upVars, muxVars, childVars, cancel, sent, late, panic>>

\* The underlying stream receives the packet.
ForwardSends(c) ==
  /\ Alive
  /\ forward[c] = "send"
  /\ upOutgoing' = upOutgoing \union {<<c, sent[c]>>}
  /\ forward' = [forward EXCEPT ![c] = "receive"]
  /\ UNCHANGED <<upDone, upIncoming, upClosed, arrived, muxVars, childVars, cancel, sent, late,
                 panic>>

\* Mutant of ForwardCancelled: a send that blocks is not cancelled.
ReceiveCancelled(c) ==
  /\ Alive
  /\ forward[c] = "receive"
  /\ cancel[c]
  /\ forward' = [forward EXCEPT ![c] = "stopped"]
  /\ UNCHANGED <<upVars, muxVars, childVars, cancel, sent, late, panic>>

\* Either select takes cancel.
ForwardCancelled(c) ==
  /\ Alive
  /\ forward[c] \in {"receive", "send"}
  /\ cancel[c]
  /\ forward' = [forward EXCEPT ![c] = "stopped"]
  /\ UNCHANGED <<upVars, muxVars, childVars, cancel, sent, late, panic>>

----------------------------------------------------------------------------

CloseSteps ==
  \/ CloseUpstream
  \/ CloseChildren
  \/ CloseEnd

MuxNext ==
  \/ Arrive
  \/ UpDisconnects
  \/ Receive
  \/ Leave
  \/ HandleIncoming
  \/ \E who \in {"readLoop", "caller"} : CloseBegin(who)
  \/ AlreadyClosed
  \/ CloseSteps
  \/ \E c \in Children :
       \/ StartForward(c)
       \/ Fork(c)
       \/ ChildClose(c)
       \/ Take(c)
       \/ MergeDones(c)
       \/ SendOutgoing(c)
       \/ CheckCancels(c)
       \/ ForwardSends(c)
       \/ ForwardCancelled(c)

MuxSpec == MuxInit /\ [][MuxNext]_allVars

\* The goroutines run.  readLoop's select is random among the channels that
\* are ready, so it does not take Incoming() for ever while Done() is closed.
\* Nobody has to send, to receive, or to take what is sent to Outgoing().
MuxFairness ==
  /\ WF_allVars(Receive \/ HandleIncoming)
  /\ SF_allVars(Leave)
  /\ SF_allVars(CloseBegin("readLoop") \/ AlreadyClosed)
  /\ WF_allVars(CloseSteps)
  /\ \A c \in Children :
       /\ WF_allVars(MergeDones(c))
       /\ WF_allVars(CheckCancels(c))
       /\ WF_allVars(ForwardCancelled(c))

MuxFairSpec == MuxSpec /\ MuxFairness

----------------------------------------------------------------------------
(* Properties *)

\* The panics are those of a child closed after its multiplexer, which has closed
\* the child's channels and still lists it: a child of this one, or the stream that
\* this one closes.  handleIncoming never sends to a child that is closed, whatever
\* Close and childClose do between the packet's arrival and the lock, and as long as
\* the multiplexer is open, no child is closed twice.
OnlyLateClosePanics ==
  panic # "none" => closeChan /\ panic \in {"close", "upstream"}

\* "It is guaranteed to drop packets that were sent to the channel after
\* cancel was closed" (chan_util.go:39), although the merged channel that
\* forwardPackets selects on is closed later than those it was made of.
LateIsDropped ==
  \A c \in Children : \A n \in late[c] : <<c, n>> \notin upOutgoing

\* Streams "can never apply backpressure to a source" (stream.go:19): a child
\* that nobody reads from does not keep packets from the others.
NoBackpressure ==
  upIncoming # << >> ~> upIncoming = << >> \/ readLoop \in {"close", "stopped"} \/ ~Alive

\* "When a stream closes (either due to a Close() or a disconnect), the
\* Incoming() and Done() channels are closed" (stream.go:24), and no goroutine of
\* a child outlives it, even if the underlying stream never takes the packet it
\* holds, or Fork fails after it has started.
CloseEndsChildren ==
  \A c \in Children :
    /\ c \in forked /\ (upDone \/ closeChan) ~> (done[c] /\ inClosed[c]) \/ ~Alive
    /\ forward[c] # "none" /\ Cancelled(c) ~> forward[c] = "stopped" \/ ~Alive
============================================================================

----------------------------- MODULE TcpListener -----------------------------
(***************************************************************************)
(* The listeners of a TCP network on one port, from ListenTCP to Close,    *)
(* with the server's side of the handshake (src/ipstack/net_tcp.go,        *)
(* src/ipstack/tcp_negotiate.go, src/ipstack/ports.go).                    *)
(*                                                                         *)
(* A listener is a multiplexer whose children are the stream of SYNs that  *)
(* its loop ranges over and one stream for each handshake, which becomes   *)
(* that of the connection.  Handshakes are numbered, and the number stands *)
(* for localSeq: rand.Uint32() is taken to give a new one every time.      *)
(* Attempts are the connections that remote hosts try to open; the network *)
(* may repeat, reorder and lose what they send.                            *)
(***************************************************************************)
EXTENDS Integers, Sequences, FiniteSets

CONSTANTS
  Listens,    \* number of calls of ListenTCP
  Attempts,   \* connections that remote hosts try to open
  Source,     \* the remote address of each
  Retries,    \* tcpNumRetries
  SynBuffer,  \* SYNs that wait for the loop
  MaxShakes   \* bound: handshakes

Listeners == 1 .. Listens
Shakes == 1 .. MaxShakes

ASSUME ListenerAssumption ==
  /\ Listens \in Nat
  /\ Source \in [Attempts -> Attempts]
  /\ Retries \in Nat \ {0}
  /\ SynBuffer \in Nat \ {0}
  /\ MaxShakes \in Nat

VARIABLES
  netClosed,  \* the multiplexer of the network is closed
  used,       \* the allocator has given the port away
  mux,        \* the multiplexer of each listener
  freeing,    \* listeners whose Close has yet to free the port
  loop,       \* what the listener's loop does
  syns,       \* attempts whose SYN waits for it
  shake,      \* its handshake
  try,        \* how often that has timed out
  heard,      \* the ack numbers, less one, that wait in the handshake's stream
  conns,      \* the channel of connections
  accept,     \* whether Accept has returned an error
  shakes,     \* number of handshakes so far
  host,       \* the listener that a handshake belongs to
  attempt,    \* the attempt it answers
  stream,     \* its stream: whether it is in the list of children
  conn,       \* the loop of the connection that came of it
  offered,    \* handshakes that have sent a SYN-ACK
  peer,       \* the handshake whose SYN-ACK an attempt has answered
  panicked    \* a channel was closed twice

netVars == <<netClosed, used, mux, freeing>>
loopVars == <<loop, syns, shake, try, heard, conns, accept>>
connVars == <<shakes, host, attempt, stream, conn>>
peerVars == <<offered, peer>>
vars == <<netVars, loopVars, connVars, peerVars, panicked>>

None == 0

Init ==
  /\ netClosed = FALSE
  /\ used = FALSE
  /\ mux = [l \in Listeners |-> "none"]
  /\ freeing = {}
  /\ loop = [l \in Listeners |-> "none"]
  /\ syns = [l \in Listeners |-> << >>]
  /\ shake = [l \in Listeners |-> None]
  /\ try = [l \in Listeners |-> 0]
  /\ heard = [l \in Listeners |-> {}]
  /\ conns = [l \in Listeners |-> << >>]
  /\ accept = [l \in Listeners |-> "waiting"]
  /\ shakes = 0
  /\ host = [n \in Shakes |-> None]
  /\ attempt = [n \in Shakes |-> None]
  /\ stream = [n \in Shakes |-> "none"]
  /\ conn = [n \in Shakes |-> "none"]
  /\ offered = {}
  /\ peer = [a \in Attempts |-> None]
  /\ panicked = FALSE

Running == ~panicked
Closed(l) == mux[l] = "closed"

\* childClose of the stream of n: once the multiplexer is closed, so are the
\* channels of its children, which it still lists.
CloseStream(n) ==
  IF Closed(host[n])
  THEN panicked' = TRUE /\ UNCHANGED stream
  ELSE stream' = [stream EXCEPT ![n] = "deleted"] /\ UNCHANGED panicked

----------------------------------------------------------------------------
(* The network and the port *)

\* The stream that was forked for a listener stays in the network's list of
\* children, unread, if the port is in use.
ListenTCP(l) ==
  /\ Running
  /\ mux[l] = "none"
  /\ \A k \in 1 .. l - 1 : mux[k] # "none"
  /\ ~netClosed
  /\ \/ /\ used
        /\ mux' = [mux EXCEPT ![l] = "failed"]
        /\ UNCHANGED <<used, loop>>
     \/ /\ ~used
        /\ used' = TRUE
        /\ mux' = [mux EXCEPT ![l] = "open"]
        /\ loop' = [loop EXCEPT ![l] = "start"]
  /\ UNCHANGED <<netClosed, freeing, syns, shake, try, heard, conns, accept, connVars, peerVars,
                 panicked>>

\* multiplexer.Close of the listener closes its stream, a child of the network's
\* multiplexer.  Once that is closed, so are the channels of the child, which it
\* still lists, and to close them again is to panic.
CloseMux(l) ==
  IF netClosed
  THEN panicked' = TRUE /\ UNCHANGED mux
  ELSE mux' = [mux EXCEPT ![l] = "closed"] /\ UNCHANGED panicked

\* Mutant of Close: the error of stream.Close is not looked at.
CloseAnyway(l) ==
  /\ Running
  /\ mux[l] \in {"open", "closed"}
  /\ CloseMux(l)
  /\ freeing' = IF netClosed THEN freeing ELSE freeing \union {l}
  /\ UNCHANGED <<netClosed, used, loopVars, connVars, peerVars>>

\* The streams of the loop, of its handshake and of every connection that was
\* accepted are children, and closed too.  A Close that finds the multiplexer
\* closed returns its error and frees nothing.
Close(l) ==
  /\ Running
  /\ mux[l] = "open"
  /\ CloseMux(l)
  /\ freeing' = IF netClosed THEN freeing ELSE freeing \union {l}
  /\ UNCHANGED <<netClosed, used, loopVars, connVars, peerVars>>

Free(l) ==
  /\ Running
  /\ l \in freeing
  /\ used' = FALSE
  /\ freeing' = freeing \ {l}
  /\ UNCHANGED <<netClosed, mux, loopVars, connVars, peerVars, panicked>>

\* The stream that the network's own multiplexer closes with it is taken not to
\* panic (see CloseUpstream of Multiplexer).
NetClose ==
  /\ Running
  /\ ~netClosed
  /\ netClosed' = TRUE
  /\ UNCHANGED <<used, mux, freeing, loopVars, connVars, peerVars, panicked>>

\* readLoop of the listener's multiplexer finds its stream closed by the network,
\* and its deferred Close closes the stream again.
Disconnect(l) ==
  /\ Running
  /\ netClosed
  /\ mux[l] = "open"
  /\ CloseMux(l)
  /\ UNCHANGED <<netClosed, used, freeing, loopVars, connVars, peerVars>>

----------------------------------------------------------------------------
(* The listener's loop *)

\* What tcp4ServerHandshake keeps ends with it.
EndShake(l) ==
  /\ try' = [try EXCEPT ![l] = 0]
  /\ heard' = [heard EXCEPT ![l] = {}]

\* The Fork for the stream of SYNs.
LoopStart(l) ==
  /\ Running
  /\ loop[l] = "start"
  /\ loop' = [loop EXCEPT ![l] = IF Closed(l) THEN "stopped" ELSE "range"]
  /\ UNCHANGED <<netVars, syns, shake, try, heard, conns, accept, connVars, peerVars, panicked>>

\* Mutant of LoopEnds: conns is left open.
LoopEndsOnly(l) ==
  /\ Running
  /\ loop[l] = "range"
  /\ Closed(l)
  /\ loop' = [loop EXCEPT ![l] = "none"]
  /\ UNCHANGED <<netVars, syns, shake, try, heard, conns, accept, connVars, peerVars, panicked>>

\* The SYNs come to an end, or the Fork for the next one fails; conns is closed.
LoopEnds(l) ==
  /\ Running
  /\ loop[l] = "range"
  /\ Closed(l)
  /\ loop' = [loop EXCEPT ![l] = "stopped"]
  /\ syns' = [syns EXCEPT ![l] = << >>]
  /\ UNCHANGED <<netVars, shake, try, heard, conns, accept, connVars, peerVars, panicked>>

TakeSyn(l) ==
  LET n == shakes + 1 IN
  /\ Running
  /\ loop[l] = "range"
  /\ ~Closed(l)
  /\ syns[l] # << >>
  /\ n \in Shakes
  /\ syns' = [syns EXCEPT ![l] = Tail(@)]
  /\ shakes' = n
  /\ host' = [host EXCEPT ![n] = l]
  /\ attempt' = [attempt EXCEPT ![n] = Head(syns[l])]
  /\ stream' = [stream EXCEPT ![n] = "listed"]
  /\ shake' = [shake EXCEPT ![l] = n]
  /\ loop' = [loop EXCEPT ![l] = "check"]
  /\ UNCHANGED <<netVars, try, heard, conns, accept, conn, peerVars, panicked>>

\* tcp4ServerHandshake sends the SYN-ACK, or gives up.
SendSynAck(l) ==
  /\ Running
  /\ loop[l] = "check"
  /\ ~Closed(l)
  /\ try[l] < Retries
  /\ offered' = offered \union {shake[l]}
  /\ loop' = [loop EXCEPT ![l] = "wait"]
  /\ UNCHANGED <<netVars, syns, shake, try, heard, conns, accept, connVars, peer,
                 panicked>>

\* Mutant of Timeout: the attempts are not counted.
TimeoutUncounted(l) ==
  /\ Running
  /\ loop[l] = "wait"
  /\ loop' = [loop EXCEPT ![l] = "check"]
  /\ UNCHANGED <<netVars, syns, shake, try, heard, conns, accept, connVars, peerVars, panicked>>

\* A second passes.
Timeout(l) ==
  /\ Running
  /\ loop[l] = "wait"
  /\ try' = [try EXCEPT ![l] = @ + 1]
  /\ loop' = [loop EXCEPT ![l] = "check"]
  /\ UNCHANGED <<netVars, syns, shake, heard, conns, accept, connVars, peerVars, panicked>>

\* Mutant of Establish: any ACK will do.
EstablishAny(l) ==
  /\ Running
  /\ loop[l] = "wait"
  /\ heard[l] # {}
  /\ conn' = [conn EXCEPT ![shake[l]] = "pending"]
  /\ loop' = [loop EXCEPT ![l] = "push"]
  /\ EndShake(l)
  /\ UNCHANGED <<netVars, syns, shake, conns, accept, shakes, host, attempt, stream,
                 peerVars, panicked>>

\* The ACK of localSeq + 1 has come, and go conn.loop().  Other packets are
\* passed over.
Establish(l) ==
  /\ Running
  /\ loop[l] = "wait"
  /\ shake[l] \in heard[l]
  /\ conn' = [conn EXCEPT ![shake[l]] = "pending"]
  /\ loop' = [loop EXCEPT ![l] = "push"]
  /\ EndShake(l)
  /\ UNCHANGED <<netVars, syns, shake, conns, accept, shakes, host, attempt, stream,
                 peerVars, panicked>>

\* Mutant of HandshakeFails: the stream is not closed.
HandshakeForgotten(l) ==
  /\ Running
  /\ \/ loop[l] = "check" /\ (Closed(l) \/ try[l] = Retries)
     \/ loop[l] = "wait" /\ Closed(l)
  /\ loop' = [loop EXCEPT ![l] = "range"]
  /\ EndShake(l)
  /\ UNCHANGED <<netVars, syns, shake, conns, accept, connVars, peerVars, panicked>>

HandshakeFails(l) ==
  /\ Running
  /\ \/ loop[l] = "check" /\ (Closed(l) \/ try[l] = Retries)
     \/ loop[l] = "wait" /\ Closed(l)
  /\ loop' = [loop EXCEPT ![l] = "failed"]
  /\ EndShake(l)
  /\ UNCHANGED <<netVars, syns, shake, conns, accept, connVars, peerVars, panicked>>

DropStream(l) ==
  /\ Running
  /\ loop[l] = "failed"
  /\ loop' = [loop EXCEPT ![l] = "range"]
  /\ CloseStream(shake[l])
  /\ UNCHANGED <<netVars, syns, shake, try, heard, conns, accept, shakes, host, attempt, conn,
                 peerVars>>

\* t.conns has room for one connection.
Push(l) ==
  /\ Running
  /\ loop[l] = "push"
  /\ conns[l] = << >>
  /\ conns' = [conns EXCEPT ![l] = <<shake[l]>>]
  /\ loop' = [loop EXCEPT ![l] = "range"]
  /\ UNCHANGED <<netVars, syns, shake, try, heard, accept, connVars, peerVars, panicked>>

----------------------------------------------------------------------------
(* Accept, and the end of a connection *)

\* The application calls Accept until it returns an error: it gets a connection,
\* or nil once conns is closed and empty.
Accept(l) ==
  /\ Running
  /\ accept[l] = "waiting"
  /\ \/ /\ conns[l] # << >>
        /\ conn' = [conn EXCEPT ![Head(conns[l])] = IF @ = "pending" THEN "accepted" ELSE @]
        /\ conns' = [conns EXCEPT ![l] = << >>]
        /\ UNCHANGED accept
     \/ /\ conns[l] = << >>
        /\ loop[l] = "stopped"
        /\ accept' = [accept EXCEPT ![l] = "ended"]
        /\ UNCHANGED <<conn, conns>>
  /\ UNCHANGED <<netVars, loop, syns, shake, try, heard, shakes, host, attempt, stream, peerVars,
                 panicked>>

\* conn.loop finds both halves done, which takes a Close of the connection.
ConnDone(n) ==
  /\ Running
  /\ conn[n] = "accepted"
  /\ conn' = [conn EXCEPT ![n] = "done"]
  /\ UNCHANGED <<netVars, loopVars, shakes, host, attempt, stream, peerVars, panicked>>

\* Its last step.
ConnEnds(n) ==
  /\ Running
  /\ conn[n] = "done"
  /\ conn' = [conn EXCEPT ![n] = "ended"]
  /\ CloseStream(n)
  /\ UNCHANGED <<netVars, loopVars, shakes, host, attempt, peerVars>>

\* It receives nil and returns; neither half is told.
ConnCut(n) ==
  /\ Running
  /\ conn[n] \in {"pending", "accepted"}
  /\ Closed(host[n])
  /\ conn' = [conn EXCEPT ![n] = "cut"]
  /\ UNCHANGED <<netVars, loopVars, shakes, host, attempt, stream, peerVars, panicked>>

----------------------------------------------------------------------------
(* Remote hosts, and what arrives from them *)

\* The first SYN-ACK is the one that counts; what the attempt sends in answer to
\* others acknowledges the first.
PeerAck(n) ==
  /\ Running
  /\ n \in offered
  /\ peer[attempt[n]] = None
  /\ peer' = [peer EXCEPT ![attempt[n]] = n]
  /\ UNCHANGED <<netVars, loopVars, connVars, offered, panicked>>

\* The stream of SYNs, which drops what it has no room for.  A SYN may be a
\* copy of one that came before.
ArriveSyn(l, a) ==
  /\ Running
  /\ mux[l] = "open"
  /\ loop[l] \notin {"none", "start", "stopped"}
  /\ Len(syns[l]) < SynBuffer
  /\ shakes + Len(syns[l]) < MaxShakes
  /\ syns' = [syns EXCEPT ![l] = Append(@, a)]
  /\ UNCHANGED <<netVars, loop, shake, try, heard, conns, accept, connVars, peerVars, panicked>>

\* Packets from the address that the handshake is with, whatever attempt they
\* belong to.
ArriveAck(l, a) ==
  /\ Running
  /\ mux[l] = "open"
  /\ loop[l] \in {"check", "wait"}
  /\ peer[a] # None
  /\ Source[a] = Source[attempt[shake[l]]]
  /\ heard' = [heard EXCEPT ![l] = @ \union {peer[a]}]
  /\ UNCHANGED <<netVars, loop, syns, shake, try, conns, accept, connVars, peerVars, panicked>>

----------------------------------------------------------------------------

LoopStep(l) ==
  \/ LoopStart(l)
  \/ LoopEnds(l)
  \/ TakeSyn(l)
  \/ SendSynAck(l)
  \/ Timeout(l)
  \/ Establish(l)
  \/ HandshakeFails(l)
  \/ DropStream(l)
  \/ Push(l)

Next ==
  \/ NetClose
  \/ \E l \in Listeners :
       \/ ListenTCP(l)
       \/ Close(l)
       \/ Free(l)
       \/ Disconnect(l)
       \/ LoopStep(l)
       \/ Accept(l)
       \/ \E a \in Attempts : ArriveSyn(l, a) \/ ArriveAck(l, a)
  \/ \E n \in Shakes : ConnDone(n) \/ ConnEnds(n) \/ ConnCut(n) \/ PeerAck(n)

Spec == Init /\ [][Next]_vars

\* The loop runs and its timers fire, and the application goes on accepting.
\* Nothing that arrives has to arrive.
Fairness ==
  \A l \in Listeners :
    /\ WF_vars(LoopStep(l))
    /\ WF_vars(Accept(l))

FairSpec == Spec /\ Fairness

----------------------------------------------------------------------------
(* Properties *)

\* Both ends agree: a connection that Accept hands out is one that the remote
\* host has, with the initial numbers it has, and so there is never a second
\* one for an attempt, however often its SYN arrives and whatever ACKs of
\* earlier connections from the same address reach the handshake.
ConnsAgree == \A n \in Shakes : conn[n] # "none" => peer[attempt[n]] = n

\* As long as a listener is open, the children of its multiplexer are streams
\* that somebody reads: those of its handshake and of connections whose loop
\* runs, and those loops have theirs.
StreamsAreRead ==
  \A n \in Shakes : host[n] # None /\ ~Closed(host[n]) =>
    (stream[n] = "listed" <=>
       \/ shake[host[n]] = n /\ loop[host[n]] \in {"check", "wait", "failed"}
       \/ conn[n] \in {"pending", "accepted", "done"})

\* "Exclusive use of a port" (ports.go:11): a listener has the port to itself
\* from ListenTCP until its own Close has freed it, even if others close theirs
\* twice.
PortIsExclusive ==
  LET holders == {l \in Listeners : mux[l] = "open"} \union freeing IN
  /\ holders # {} => used
  /\ \A k, l \in holders : k = l

\* Once a Close of the listener has closed its multiplexer, Accept returns an error,
\* although the loop may be in a handshake or hold a connection that nobody takes.
\* A Close that comes after that of the network has no such end: it panics.
AcceptReturns ==
  \A l \in Listeners :
    Closed(l) ~> accept[l] = "ended" \/ panicked

\* A SYN that waits is not kept waiting for ever by a handshake that is never
\* completed or by connections that wait for Accept.
SynsAreServed ==
  \A l \in Listeners : syns[l] # << >> ~> syns[l] = << >> \/ Closed(l) \/ panicked
============================================================================

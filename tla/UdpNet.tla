-------------------------------- MODULE UdpNet --------------------------------
(***************************************************************************)
(* A UDPNet and its port allocator (src/ipstack/net_udp.go, ports.go):     *)
(* connections that are dialled, listened on and closed by any goroutine,  *)
(* the goroutines that give ports back, and the packets that the           *)
(* multiplexer hands to all of them.                                       *)
(*                                                                         *)
(* A connection is a child of the multiplexer from its Fork on; DialUDP    *)
(* and ListenUDP give it an address in a later step.  The name of a        *)
(* connection that is gone is used again.                                  *)
(***************************************************************************)
EXTENDS Integers, Sequences, FiniteSets

CONSTANTS
  Conns,       \* names of connections
  Ports,       \* the ports that can be allocated
  Remotes,     \* addresses of peers
  ReadBuffer   \* readBuffer of the network

ASSUME UdpAssumption == Ports \subseteq Nat /\ ReadBuffer \in Nat

VARIABLES
  used,       \* Used of the allocator
  taken,      \* ports held by other networks that share the allocator
  netClosed,  \* the multiplexer is closed
  listed,     \* children that the multiplexer lists
  done,       \* connections whose stream is done
  phase,      \* what has become of the DialUDP or ListenUDP
  local,      \* port of the local address
  remote,     \* the remote address, or AnyRemote
  holds,      \* connections whose goroutine waits to give their port back
  inbox,      \* packets in the child's incoming
  got,        \* history: the packet last read, as a set
  panicked    \* a channel was closed twice

portVars == <<used, taken, holds>>
muxVars == <<netClosed, listed, done, panicked>>
connVars == <<phase, local, remote>>
vars == <<portVars, muxVars, connVars, inbox, got>>

AnyRemote == "any"
NoPort == -1
Nil == [ip |-> "nil", port |-> NoPort]
IPs == {"own", "unspecified", "other"}
Packets == [src : Remotes, dst : Ports]

\* What laddr can be: nil, or an address that the caller has filled in.
LocalAddrs == {Nil} \union [ip : IPs, port : Ports]

Init ==
  /\ taken \in SUBSET Ports
  /\ used = taken
  /\ netClosed = FALSE
  /\ listed = {}
  /\ done = {}
  /\ phase = [c \in Conns |-> "none"]
  /\ local = [c \in Conns |-> NoPort]
  /\ remote = [c \in Conns |-> AnyRemote]
  /\ holds = {}
  /\ inbox = [c \in Conns |-> << >>]
  /\ got = [c \in Conns |-> {}]
  /\ panicked = FALSE

----------------------------------------------------------------------------
(* The multiplexer, as connections use it *)

Gone(c) == c \in done /\ c \notin listed /\ c \notin holds

\* multi.Fork for DialUDP or ListenUDP.
Fork(c) ==
  /\ ~panicked
  /\ ~netClosed
  /\ phase[c] = "none" \/ Gone(c)
  /\ phase' = [phase EXCEPT ![c] = "forked"]
  /\ listed' = listed \union {c}
  /\ done' = done \ {c}
  /\ local' = [local EXCEPT ![c] = NoPort]
  /\ remote' = [remote EXCEPT ![c] = AnyRemote]
  /\ inbox' = [inbox EXCEPT ![c] = << >>]
  /\ got' = [got EXCEPT ![c] = {}]
  /\ UNCHANGED <<portVars, netClosed, panicked>>

\* stream.Close(): see ChildClose of Multiplexer.
ChildClose(c) ==
  /\ listed' = listed \ {c}
  /\ panicked' = (c \in listed /\ c \in done)
  /\ done' = IF c \in listed THEN done \union {c} ELSE done
  /\ UNCHANGED netClosed

\* handleIncoming of the multiplexer: every child with room gets a copy.
Deliver(p) ==
  /\ ~panicked
  /\ ~netClosed
  /\ inbox' = [c \in Conns |->
       IF c \in listed /\ Len(inbox[c]) < ReadBuffer THEN Append(inbox[c], p) ELSE inbox[c]]
  /\ UNCHANGED <<portVars, muxVars, connVars, got>>

----------------------------------------------------------------------------
(* The port allocator *)

\* Mutant of AllocAny: a port that is taken is given out again.
AllocAnyShared(c, p) ==
  /\ p \in Ports
  /\ \A q \in Ports : q <= p
  /\ used' = used \union {p}
  /\ holds' = holds \union {c}
  /\ local' = [local EXCEPT ![c] = p]

\* AllocAny takes the highest free port p; a goroutine for c will free it.
AllocAny(c, p) ==
  /\ p \in Ports \ used
  /\ \A q \in Ports \ used : q <= p
  /\ used' = used \union {p}
  /\ holds' = holds \union {c}
  /\ local' = [local EXCEPT ![c] = p]

\* The goroutine sees stream.Done() and calls Free or FreeRemote.
Release(c) ==
  /\ ~panicked
  /\ c \in holds \intersect done
  /\ used' = used \ {local[c]}
  /\ holds' = holds \ {c}
  /\ UNCHANGED <<taken, muxVars, connVars, inbox, got>>

----------------------------------------------------------------------------
(* DialUDP and ListenUDP after the Fork *)

\* An error closes the stream.
Refuse(c) ==
  /\ phase' = [phase EXCEPT ![c] = "failed"]
  /\ ChildClose(c)
  /\ UNCHANGED <<portVars, local, remote>>

\* Connection c with remote address r.  A port that the caller names is not
\* looked up in the allocator.
Open(c, r, l, ips) ==
  /\ ~panicked
  /\ phase[c] = "forked"
  /\ \/ /\ \/ l = Nil /\ \E p \in Ports : AllocAny(c, p)
           \/ /\ l # Nil /\ l.ip \in ips
              /\ local' = [local EXCEPT ![c] = l.port]
              /\ UNCHANGED <<used, holds>>
        /\ phase' = [phase EXCEPT ![c] = "open"]
        /\ remote' = [remote EXCEPT ![c] = r]
        /\ UNCHANGED <<muxVars, taken>>
     \/ /\ \/ l = Nil /\ Ports \subseteq used
           \/ l # Nil /\ l.ip \notin ips
        /\ Refuse(c)
  /\ UNCHANGED <<inbox, got>>

DialUDP(c, r, l) == Open(c, r, l, {"own"})
ListenUDP(c, l) == Open(c, AnyRemote, l, {"own", "unspecified"})

----------------------------------------------------------------------------
(* What is done with a connection *)

\* The filter of a connection.
Filtered(c, p) ==
  /\ p.dst = local[c]
  /\ remote[c] = AnyRemote \/ p.src = remote[c]

\* Read or ReadFrom, with the goroutine of the filter.  What was in the inbox
\* before the connection had its port is read like the rest: a packet for the
\* port's last holder, from a peer that both have, is taken for this one's.
Read(c) ==
  /\ ~panicked
  /\ phase[c] = "open"
  /\ inbox[c] # << >>
  /\ inbox' = [inbox EXCEPT ![c] = Tail(@)]
  /\ got' = IF Filtered(c, Head(inbox[c]))
            THEN [got EXCEPT ![c] = {Head(inbox[c])}] ELSE got
  /\ UNCHANGED <<portVars, muxVars, connVars>>

Close(c) ==
  /\ ~panicked
  /\ phase[c] = "open"
  /\ c \in listed
  /\ ChildClose(c)
  /\ UNCHANGED <<portVars, connVars, inbox, got>>

\* Mutant of NetClose: the children are forgotten.
NetCloseOnly ==
  /\ ~panicked
  /\ ~netClosed
  /\ netClosed' = TRUE
  /\ UNCHANGED <<done, portVars, listed, panicked, connVars, inbox, got>>

\* Close of the network closes the multiplexer, which closes the children.  That
\* the stream under it may panic is in Multiplexer (CloseUpstream).
NetClose ==
  /\ ~panicked
  /\ ~netClosed
  /\ netClosed' = TRUE
  /\ done' = done \union listed
  /\ UNCHANGED <<portVars, listed, panicked, connVars, inbox, got>>

----------------------------------------------------------------------------

Next ==
  \/ \E c \in Conns :
       \/ Fork(c)
       \/ \E l \in LocalAddrs : ListenUDP(c, l) \/ \E r \in Remotes : DialUDP(c, r, l)
       \/ Read(c)
       \/ Close(c)
       \/ Release(c)
  \/ \E p \in Packets : Deliver(p)
  \/ NetClose

Spec == Init /\ [][Next]_vars

\* The goroutines that give ports back run.
FairSpec == Spec /\ \A c \in Conns : WF_vars(Release(c))

----------------------------------------------------------------------------
(* Properties *)

TypeOK ==
  /\ used \subseteq Ports /\ taken \subseteq Ports
  /\ {netClosed, panicked} \subseteq BOOLEAN
  /\ listed \subseteq Conns
  /\ done \subseteq Conns
  /\ holds \subseteq Conns
  /\ phase \in [Conns -> {"none", "forked", "open", "failed"}]
  /\ local \in [Conns -> Ports \union {NoPort}]
  /\ remote \in [Conns -> Remotes \union {AnyRemote}]
  /\ inbox \in [Conns -> Seq(Packets)]
  /\ \A c \in Conns : Len(inbox[c]) <= ReadBuffer
  /\ got \in [Conns -> SUBSET Packets]

\* "Exclusive use of a port" (ports.go:11): no two connections hold the same
\* allocated port, from the allocation to the late call of Free, and a port is
\* in use only as long as one holds it; a DialUDP or ListenUDP that fails leaves
\* no port, and no child in the multiplexer that nobody would ever close.
PortsAreOwned ==
  /\ used = taken \union {local[c] : c \in holds}
  /\ \A c \in holds : local[c] \notin taken
  /\ \A c, d \in holds : local[c] = local[d] => c = d
  /\ \A c \in Conns : phase[c] = "failed" => c \notin listed \union holds

\* Once the network is closed all its ports come back and stay free, that of a
\* DialUDP or ListenUDP that Close has overtaken too.
PortsComeBack == <>[](netClosed => used = taken \/ panicked)
============================================================================

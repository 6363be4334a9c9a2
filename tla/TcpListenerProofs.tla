------------------------- MODULE TcpListenerProofs -------------------------
(***************************************************************************)
(* Proofs about TcpListener, for any number of listeners, attempts and     *)
(* handshakes and any number of retries, and about the multiplexer that a  *)
(* listener is, Multiplexer, for any set of children.                      *)
(***************************************************************************)
EXTENDS TcpListener, Multiplexer, TLAPS

Loops == {"none", "start", "range", "check", "wait", "failed", "push", "stopped"}
InShake == {"check", "wait", "failed"}
Conns == {"none", "pending", "accepted", "done", "ended", "cut"}

\* The typing that the proofs need.
Types ==
  /\ used \in BOOLEAN
  /\ mux \in [Listeners -> {"none", "failed", "open", "closed"}]
  /\ freeing \subseteq Listeners
  /\ loop \in [Listeners -> Loops]
  /\ syns \in [Listeners -> Seq(Attempts)]
  /\ shake \in [Listeners -> Nat]
  /\ heard \in [Listeners -> SUBSET Shakes]
  /\ shakes \in 0 .. MaxShakes
  /\ host \in [Shakes -> {None} \union Listeners]
  /\ attempt \in [Shakes -> {None} \union Attempts]
  /\ stream \in [Shakes -> {"none", "listed", "deleted"}]
  /\ conn \in [Shakes -> Conns]
  /\ offered \subseteq Shakes
  /\ peer \in [Attempts -> {None} \union Shakes]

\* A listener frees the port after its Close.
PortInv == PortIsExclusive /\ \A l \in freeing : mux[l] = "closed"

\* Numbers that no handshake has had yet mean nothing, the others have an attempt.
FreshInv ==
  \A n \in Shakes :
    /\ n <= shakes => host[n] \in Listeners /\ attempt[n] \in Attempts
    /\ n > shakes => host[n] = None /\ conn[n] = "none"

\* The handshake that a loop is in is its own, and is no connection yet.
ShakeInv ==
  \A l \in Listeners : loop[l] \in InShake =>
    /\ shake[l] \in Shakes
    /\ shake[l] <= shakes
    /\ host[shake[l]] = l
    /\ conn[shake[l]] = "none"

\* What a remote host has answered is a SYN-ACK to its own attempt, and what a
\* handshake hears is such an answer.
PeerInv ==
  /\ \A n \in offered : n <= shakes
  /\ \A a \in Attempts : peer[a] # None => peer[a] <= shakes /\ attempt[peer[a]] = a
  /\ \A l \in Listeners : \A n \in heard[l] : n <= shakes /\ peer[attempt[n]] = n

\* The loop starts with ListenTCP.
IdleInv == \A l \in Listeners : mux[l] = "none" => loop[l] = "none"

IInv ==
  Types /\ PortInv /\ IdleInv /\ FreshInv /\ ShakeInv /\ PeerInv /\ ConnsAgree /\ StreamsAreRead

----------------------------------------------------------------------------

LEMMA InitInv == Init => IInv
<1> SUFFICES ASSUME Init PROVE IInv
  OBVIOUS
<1> USE ListenerAssumption
<1>1. Types
  <2>1. /\ mux \in [Listeners -> {"none", "failed", "open", "closed"}]
        /\ loop \in [Listeners -> Loops]
        /\ stream \in [Shakes -> {"none", "listed", "deleted"}]
        /\ conn \in [Shakes -> Conns]
    BY DEF Init, Loops, Conns
  <2>2. syns \in [Listeners -> Seq(Attempts)]
    BY DEF Init
  <2>3. /\ used \in BOOLEAN
        /\ freeing \subseteq Listeners
        /\ heard \in [Listeners -> SUBSET Shakes]
        /\ offered \subseteq Shakes
    BY Zenon DEF Init
  <2>4. /\ host \in [Shakes -> {None} \union Listeners]
        /\ attempt \in [Shakes -> {None} \union Attempts]
        /\ peer \in [Attempts -> {None} \union Shakes]
    BY DEF Init
  <2>5. shake \in [Listeners -> Nat] /\ shakes \in 0 .. MaxShakes
    BY DEF Init, None
  <2> QED BY <2>1, <2>2, <2>3, <2>4, <2>5 DEF Types
<1>2. PortInv /\ IdleInv
  BY DEF Init, PortInv, PortIsExclusive, IdleInv
<1>3. FreshInv /\ ShakeInv
  BY DEF Init, FreshInv, ShakeInv, Shakes, InShake
<1>4. PeerInv
  BY DEF Init, PeerInv
<1>5. ConnsAgree /\ StreamsAreRead
  BY DEF Init, ConnsAgree, StreamsAreRead
<1> QED BY <1>1, <1>2, <1>3, <1>4, <1>5 DEF IInv

\* A step after which every loop is in the handshake it was in, if it was in one,
\* and that closes listeners at most.
LEMMA QuietStep ==
  ASSUME IInv, Types', PortInv', IdleInv', PeerInv',
         UNCHANGED <<shakes, host, attempt, stream, conn, shake>>,
         \A l \in Listeners : loop'[l] \in InShake <=> loop[l] \in InShake,
         \A l \in Listeners : Closed(l) => Closed(l)',
         \A a \in Attempts : peer[a] # None => peer'[a] = peer[a]
  PROVE  IInv'
<1>1. FreshInv' /\ ShakeInv'
  BY DEF IInv, FreshInv, ShakeInv
<1>2. ConnsAgree'
  <2> SUFFICES ASSUME NEW n \in Shakes, conn[n] # "none" PROVE peer'[attempt[n]] = n
    BY DEF ConnsAgree
  <2>1. attempt[n] \in Attempts /\ peer[attempt[n]] = n
    BY DEF IInv, FreshInv, ConnsAgree, Types, Shakes
  <2>2. n # None
    BY DEF Shakes, None
  <2> QED BY <2>1, <2>2
<1>3. StreamsAreRead'
  <2> SUFFICES ASSUME NEW n \in Shakes, host[n] # None, ~Closed(host[n])'
               PROVE  stream[n] = "listed" <=>
                        \/ shake[host[n]] = n /\ loop'[host[n]] \in InShake
                        \/ conn[n] \in {"pending", "accepted", "done"}
    BY DEF StreamsAreRead, InShake, Closed
  <2>1. host[n] \in Listeners
    BY DEF IInv, Types
  <2>2. ~Closed(host[n])
    BY <2>1 DEF Closed
  <2> QED BY <2>1, <2>2 DEF IInv, StreamsAreRead, InShake
<1> QED BY <1>1, <1>2, <1>3 DEF IInv

\* Nothing of the ports changes.
LEMMA SamePort == PortInv /\ UNCHANGED <<used, mux, freeing>> => PortInv'
BY DEF PortInv, PortIsExclusive

\* Nothing of the remote hosts changes, and a handshake forgets at most.
LEMMA SamePeers ==
  ASSUME IInv, UNCHANGED <<shakes, attempt, peerVars>>,
         \A l \in Listeners : heard'[l] \subseteq heard[l]
  PROVE  PeerInv'
BY DEF IInv, PeerInv, peerVars

----------------------------------------------------------------------------
(* The network and the port *)

LEMMA PortStep ==
  ASSUME IInv, NEW l \in Listeners,
         ListenTCP(l) \/ Close(l) \/ Free(l) \/ NetClose \/ Disconnect(l)
  PROVE  IInv'
<1>1. UNCHANGED <<syns, shake, heard, connVars, peerVars>>
  BY DEF ListenTCP, Close, Free, NetClose, Disconnect, loopVars
<1>0. Close(l) \/ Disconnect(l) =>
        /\ mux[l] = "open"
        /\ UNCHANGED <<used, loop>>
        /\ \/ UNCHANGED <<mux, freeing>>
           \/ /\ mux' = [mux EXCEPT ![l] = "closed"] /\ freeing' = freeing \union {l}
  BY DEF Close, Disconnect, CloseMux, loopVars
<1>2. \/ UNCHANGED loop
      \/ loop' = [loop EXCEPT ![l] = "start"] /\ mux[l] = "none"
  BY <1>0 DEF ListenTCP, Free, NetClose, loopVars
<1>3. /\ used' \in BOOLEAN
      /\ mux' \in [Listeners -> {"none", "failed", "open", "closed"}]
      /\ freeing' \subseteq Listeners
      /\ \A k \in Listeners : Closed(k) => Closed(k)'
  BY <1>0 DEF ListenTCP, Free, NetClose, IInv, Types, Closed
<1>4. loop' \in [Listeners -> Loops]
  BY <1>2 DEF IInv, Types, Loops
<1>5. Types'
  BY <1>1, <1>3, <1>4 DEF IInv, Types, connVars, peerVars
<1>6. PortInv'
  <2> DEFINE H == {k \in Listeners : mux[k] = "open"} \union freeing
  <2>1. /\ H # {} => used
        /\ \A j, k \in H : j = k
        /\ \A k \in freeing : mux[k] = "closed"
    BY DEF IInv, PortInv, PortIsExclusive
  <2>2. mux \in [Listeners -> {"none", "failed", "open", "closed"}] /\ freeing \subseteq Listeners
    BY DEF IInv, Types
  <2>3. SUFFICES /\ H' # {} => used'
                 /\ \A j, k \in H' : j = k
                 /\ \A k \in freeing' : mux'[k] = "closed"
    BY DEF PortInv, PortIsExclusive
  <2>4. CASE ListenTCP(l) /\ used
    <3>1. H' = H /\ used' = used /\ freeing' = freeing
      BY <2>2, <2>4 DEF ListenTCP
    <3> QED BY <2>1, <2>2, <2>4, <3>1 DEF ListenTCP
  <2>5. CASE ListenTCP(l) /\ ~used
    <3>1. H = {} /\ freeing = {}
      BY <2>1, <2>5
    <3>2. H' \subseteq {l} /\ used' /\ freeing' = {}
      BY <2>2, <2>5, <3>1 DEF ListenTCP
    <3> QED BY <3>2
  <2>6. CASE Close(l)
    <3>1. l \in H /\ H' \subseteq H /\ used' = used
      BY <1>0, <2>2, <2>6
    <3>2. \A k \in freeing' : mux'[k] = "closed"
      BY <1>0, <2>1, <2>2, <2>6
    <3> QED BY <2>1, <3>1, <3>2
  <2>7. CASE Free(l)
    <3>1. l \in H /\ H' = H \ {l} /\ freeing' \subseteq freeing /\ mux' = mux
      BY <2>1, <2>2, <2>7 DEF Free
    <3>2. H' = {}
      BY <2>1, <3>1
    <3> QED BY <2>1, <3>1, <3>2
  <2>8. CASE Disconnect(l) \/ NetClose
    <3>1. UNCHANGED <<used, mux, freeing>>
      BY <2>8 DEF Disconnect, CloseMux, NetClose
    <3> QED BY <2>1, <3>1
  <2> QED BY <2>4, <2>5, <2>6, <2>7, <2>8
<1>8. \/ UNCHANGED loop /\ \A k \in Listeners : mux'[k] = "none" => mux[k] = "none"
      \/ /\ loop' = [loop EXCEPT ![l] = "start"] /\ mux[l] = "none"
         /\ mux' = [mux EXCEPT ![l] = "open"]
  BY <1>0 DEF ListenTCP, Free, NetClose, loopVars, IInv, Types
<1>9. IdleInv'
  BY <1>8 DEF IInv, IdleInv, Types
<1>10. \A k \in Listeners : loop'[k] \in InShake <=> loop[k] \in InShake
  BY <1>2 DEF IInv, IdleInv, Types, InShake
<1>7. PeerInv'
  BY <1>1, SamePeers DEF connVars
<1> QED BY <1>1, <1>3, <1>5, <1>6, <1>7, <1>9, <1>10, QuietStep DEF connVars, peerVars

----------------------------------------------------------------------------
(* The listener's loop *)

\* Steps that neither begin nor end a handshake.
LEMMA LoopQuietStep ==
  ASSUME IInv, NEW l \in Listeners,
         \/ LoopStart(l) \/ LoopEnds(l) \/ SendSynAck(l) \/ Timeout(l) \/ HandshakeFails(l)
         \/ Push(l)
  PROVE  IInv'
<1>1. /\ UNCHANGED <<used, mux, freeing, shake, shakes, host, attempt, stream, conn, peer>>
      /\ syns' = syns \/ syns' = [syns EXCEPT ![l] = << >>]
      /\ heard' = heard \/ heard' = [heard EXCEPT ![l] = {}]
  BY DEF LoopStart, LoopEnds, SendSynAck, Timeout, HandshakeFails, Push, EndShake, netVars,
         connVars, peerVars
<1>2. /\ loop[l] \notin InShake \union {"none"}
      /\ loop' = [loop EXCEPT ![l] = "range"] \/ loop' = [loop EXCEPT ![l] = "stopped"]
   \/ /\ loop[l] \in InShake
      /\ \/ loop' = [loop EXCEPT ![l] = "check"]
         \/ loop' = [loop EXCEPT ![l] = "wait"]
         \/ loop' = [loop EXCEPT ![l] = "failed"]
  BY DEF LoopStart, LoopEnds, SendSynAck, Timeout, HandshakeFails, Push, InShake
<1>3. offered' = offered \/ (loop[l] \in InShake /\ offered' = offered \union {shake[l]})
  BY DEF LoopStart, LoopEnds, SendSynAck, Timeout, HandshakeFails, Push, peerVars, InShake
<1>4. /\ loop' \in [Listeners -> Loops]
      /\ \A k \in Listeners : loop'[k] \in InShake <=> loop[k] \in InShake
  BY <1>2 DEF IInv, Types, Loops, InShake
<1>5. syns' \in [Listeners -> Seq(Attempts)] /\ heard' \in [Listeners -> SUBSET Shakes]
  <2>1. syns' \in [Listeners -> Seq(Attempts)]
    <3>1. << >> \in Seq(Attempts) /\ syns \in [Listeners -> Seq(Attempts)]
      BY DEF IInv, Types
    <3> QED BY <1>1, <3>1, Zenon
  <2>2. heard' \in [Listeners -> SUBSET Shakes]
    BY <1>1 DEF IInv, Types
  <2> QED BY <2>1, <2>2
<1>6. offered' \subseteq Shakes /\ \A n \in offered' : n <= shakes
  BY <1>3 DEF IInv, Types, ShakeInv, PeerInv
<1>7. Types'
  BY <1>1, <1>4, <1>5, <1>6 DEF IInv, Types
<1>8. PortInv'
  BY <1>1, SamePort DEF IInv
<1>9. IdleInv'
  BY <1>1, <1>2 DEF IInv, Types, IdleInv, InShake
<1>10. PeerInv'
  <2>1. \A k \in Listeners : heard'[k] \subseteq heard[k]
    BY <1>1 DEF IInv, Types
  <2> QED BY <1>1, <1>6, <2>1 DEF IInv, PeerInv
<1> QED BY <1>1, <1>4, <1>7, <1>8, <1>9, <1>10, QuietStep DEF Closed

LEMMA TakeSynStep ==
  ASSUME IInv, NEW l \in Listeners, TakeSyn(l)
  PROVE  IInv'
<1> DEFINE n == shakes + 1
<1>1. /\ loop[l] = "range" /\ n \in Shakes /\ syns[l] # << >>
      /\ syns' = [syns EXCEPT ![l] = Tail(@)]
      /\ shakes' = n
      /\ host' = [host EXCEPT ![n] = l]
      /\ attempt' = [attempt EXCEPT ![n] = Head(syns[l])]
      /\ stream' = [stream EXCEPT ![n] = "listed"]
      /\ shake' = [shake EXCEPT ![l] = n]
      /\ loop' = [loop EXCEPT ![l] = "check"]
      /\ UNCHANGED <<used, mux, freeing, heard, conn, offered, peer>>
  BY DEF TakeSyn, netVars, peerVars
<1>2. syns[l] \in Seq(Attempts) /\ Head(syns[l]) \in Attempts /\ Tail(syns[l]) \in Seq(Attempts)
  BY <1>1 DEF IInv, Types
<1>3. shakes \in Nat /\ MaxShakes \in Nat /\ n \in Nat /\ n <= MaxShakes /\ n > shakes /\ n # None
  BY <1>1, ListenerAssumption DEF IInv, Types, Shakes, None
<1>4. host[n] = None /\ conn[n] = "none"
  BY <1>1, <1>3 DEF IInv, FreshInv
<1> HIDE DEF n
<1>5. Types'
  <2>1. /\ loop' \in [Listeners -> Loops]
        /\ stream' \in [Shakes -> {"none", "listed", "deleted"}]
    BY <1>1 DEF IInv, Types, Loops
  <2>2. /\ syns' \in [Listeners -> Seq(Attempts)]
        /\ attempt' \in [Shakes -> {None} \union Attempts]
        /\ host' \in [Shakes -> {None} \union Listeners]
    BY <1>1, <1>2 DEF IInv, Types
  <2>3. shake' \in [Listeners -> Nat] /\ shakes' \in 0 .. MaxShakes
    BY <1>1, <1>3 DEF IInv, Types
  <2> QED BY <1>1, <2>1, <2>2, <2>3 DEF IInv, Types
<1>6. PortInv' /\ IdleInv'
  BY <1>1, SamePort DEF IInv, Types, IdleInv
<1>7. \A m \in Shakes : (m <= n <=> m <= shakes \/ m = n) /\ (m > n => m > shakes)
  BY <1>3 DEF Shakes, n
<1>8. FreshInv'
  BY <1>1, <1>2, <1>3, <1>4, <1>7 DEF IInv, Types, FreshInv
<1>9. ShakeInv'
  <2> SUFFICES ASSUME NEW k \in Listeners, loop'[k] \in InShake
               PROVE  /\ shake'[k] \in Shakes /\ shake'[k] <= shakes'
                      /\ host'[shake'[k]] = k /\ conn'[shake'[k]] = "none"
    BY DEF ShakeInv
  <2>1. CASE k = l
    BY <1>1, <1>3, <1>4, <2>1 DEF IInv, Types
  <2>2. CASE k # l
    <3>1. /\ shake'[k] = shake[k] /\ shake[k] \in Shakes /\ shake[k] <= shakes
          /\ host[shake[k]] = k /\ conn[shake[k]] = "none"
      BY <1>1, <2>2 DEF IInv, Types, ShakeInv
    <3>2. shake[k] # n
      BY <1>3, <3>1 DEF Shakes
    <3> QED BY <1>1, <1>7, <3>1, <3>2 DEF IInv, Types
  <2> QED BY <2>1, <2>2
<1>10. PeerInv'
  <2>1. \A m \in Shakes : m <= shakes => m # n /\ m <= shakes' /\ attempt'[m] = attempt[m]
    BY <1>1, <1>3, <1>7 DEF IInv, Types
  <2>2. \A m \in offered : m <= shakes'
    BY <2>1 DEF IInv, Types, PeerInv
  <2>3. \A a \in Attempts : peer[a] # None => peer[a] <= shakes' /\ attempt'[peer[a]] = a
    BY <2>1 DEF IInv, Types, PeerInv
  <2>4. \A k \in Listeners : \A m \in heard[k] : m <= shakes' /\ peer[attempt'[m]] = m
    BY <2>1 DEF IInv, Types, PeerInv
  <2> QED BY <1>1, <2>2, <2>3, <2>4 DEF PeerInv
<1>11. ConnsAgree'
  BY <1>1, <1>4 DEF IInv, Types, ConnsAgree
<1>12. StreamsAreRead'
  <2> SUFFICES ASSUME NEW m \in Shakes, host'[m] # None, mux'[host'[m]] # "closed"
               PROVE  stream'[m] = "listed" <=>
                        \/ shake'[host'[m]] = m /\ loop'[host'[m]] \in InShake
                        \/ conn'[m] \in {"pending", "accepted", "done"}
    BY DEF StreamsAreRead, InShake, Closed
  <2>1. CASE m = n
    BY <1>1, <1>4, <2>1 DEF IInv, Types, InShake
  <2>2. CASE m # n
    <3>1. /\ host'[m] = host[m] /\ stream'[m] = stream[m] /\ conn'[m] = conn[m]
          /\ host[m] \in Listeners /\ host[m] # None /\ ~Closed(host[m])
      BY <1>1, <2>2 DEF IInv, Types, Closed
    <3>2. (shake'[host[m]] = m /\ loop'[host[m]] \in InShake) <=>
            (shake[host[m]] = m /\ loop[host[m]] \in InShake)
      BY <1>1, <2>2, <3>1 DEF IInv, Types, InShake
    <3> QED BY <3>1, <3>2 DEF IInv, StreamsAreRead, InShake
  <2> QED BY <2>1, <2>2
<1> QED BY <1>5, <1>6, <1>8, <1>9, <1>10, <1>11, <1>12 DEF IInv

\* A step that leaves handshakes and remote hosts alone, except that a loop leaves
\* the handshake it was in: what is left to show is what connections and streams
\* become.
LEMMA LeavingStep ==
  ASSUME IInv,
         UNCHANGED <<used, mux, freeing, syns, shake, shakes, host, attempt, peerVars>>,
         loop' \in [Listeners -> Loops],
         heard' \in [Listeners -> SUBSET Shakes],
         \A l \in Listeners :
           /\ heard'[l] \subseteq heard[l]
           /\ loop'[l] # "none" => loop[l] # "none"
           /\ loop'[l] \in InShake => loop[l] \in InShake /\ conn'[shake[l]] = conn[shake[l]],
         stream' \in [Shakes -> {"none", "listed", "deleted"}],
         conn' \in [Shakes -> Conns],
         \A n \in Shakes : n > shakes => conn'[n] = conn[n],
         ConnsAgree', StreamsAreRead'
  PROVE  IInv'
<1>1. Types'
  BY DEF IInv, Types, peerVars
<1>2. PortInv' /\ IdleInv'
  BY SamePort DEF IInv, Types, IdleInv
<1>3. FreshInv'
  BY DEF IInv, FreshInv
<1>4. ShakeInv'
  BY DEF IInv, ShakeInv
<1>5. PeerInv'
  BY SamePeers DEF IInv
<1> QED BY <1>1, <1>2, <1>3, <1>4, <1>5 DEF IInv

LEMMA EstablishStep ==
  ASSUME IInv, NEW l \in Listeners, Establish(l)
  PROVE  IInv'
<1> DEFINE n == shake[l]
<1>1. /\ loop[l] = "wait" /\ n \in heard[l]
      /\ conn' = [conn EXCEPT ![n] = "pending"]
      /\ loop' = [loop EXCEPT ![l] = "push"]
      /\ heard' = [heard EXCEPT ![l] = {}]
      /\ UNCHANGED <<used, mux, freeing, syns, shake, shakes, host, attempt, stream, peerVars>>
  BY DEF Establish, EndShake, netVars
<1>2. /\ n \in Shakes /\ n <= shakes /\ host[n] = l /\ conn[n] = "none"
      /\ peer[attempt[n]] = n
  BY <1>1 DEF IInv, ShakeInv, PeerInv, InShake
<1>3. \A k \in Listeners : loop[k] \in InShake /\ k # l => shake[k] # n
  BY <1>2 DEF IInv, ShakeInv
<1> HIDE DEF n
<1>4. /\ loop' \in [Listeners -> Loops]
      /\ heard' \in [Listeners -> SUBSET Shakes]
      /\ stream' \in [Shakes -> {"none", "listed", "deleted"}]
      /\ conn' \in [Shakes -> Conns]
  BY <1>1 DEF IInv, Types, Loops, Conns
<1>5. \A m \in Shakes : /\ m # n => conn'[m] = conn[m]
                        /\ m = n => conn'[m] = "pending"
  BY <1>1 DEF IInv, Types
<1>6. \A k \in Listeners :
        /\ heard'[k] \subseteq heard[k]
        /\ loop'[k] # "none" => loop[k] # "none"
        /\ loop'[k] \in InShake <=> loop[k] \in InShake /\ k # l
  BY <1>1 DEF IInv, Types, InShake
<1>7. \A k \in Listeners : loop'[k] \in InShake => conn'[shake[k]] = conn[shake[k]]
  BY <1>3, <1>5, <1>6 DEF IInv, ShakeInv
<1>8. ConnsAgree'
  BY <1>1, <1>2, <1>5 DEF IInv, ConnsAgree, peerVars
<1>9. StreamsAreRead'
  <2> SUFFICES ASSUME NEW m \in Shakes, host[m] # None, ~Closed(host[m])
               PROVE  stream[m] = "listed" <=>
                        \/ shake[host[m]] = m /\ loop'[host[m]] \in InShake
                        \/ conn'[m] \in {"pending", "accepted", "done"}
    BY <1>1 DEF StreamsAreRead, InShake, Closed
  <2>1. host[m] \in Listeners
    BY DEF IInv, Types
  <2>2. stream[m] = "listed" <=> \/ shake[host[m]] = m /\ loop[host[m]] \in InShake
                                 \/ conn[m] \in {"pending", "accepted", "done"}
    BY DEF IInv, StreamsAreRead, InShake
  <2>3. CASE m = n
    BY <1>1, <1>2, <1>5, <2>2, <2>3 DEF InShake, n
  <2>4. CASE m # n
    <3>1. host[m] = l => shake[host[m]] # m
      BY <2>4 DEF n
    <3> QED BY <1>5, <1>6, <2>1, <2>2, <2>4, <3>1
  <2> QED BY <2>3, <2>4
<1>10. \A m \in Shakes : m > shakes => conn'[m] = conn[m]
  <2>1. \A m \in Shakes : m > shakes => m # n
    BY <1>2 DEF IInv, Types, Shakes
  <2> QED BY <1>5, <2>1
<1> QED BY <1>1, <1>4, <1>6, <1>7, <1>8, <1>9, <1>10, LeavingStep

LEMMA DropStreamStep ==
  ASSUME IInv, NEW l \in Listeners, DropStream(l)
  PROVE  IInv'
<1> DEFINE n == shake[l]
<1>1. /\ loop[l] = "failed"
      /\ loop' = [loop EXCEPT ![l] = "range"]
      /\ UNCHANGED <<used, mux, freeing, syns, shake, heard, shakes, host, attempt, conn, peerVars>>
  BY DEF DropStream, netVars
<1>2. n \in Shakes /\ host[n] = l /\ conn[n] = "none"
  BY <1>1 DEF IInv, ShakeInv, InShake
<1>3. \/ Closed(l) /\ stream' = stream
      \/ stream' = [stream EXCEPT ![n] = "deleted"]
  BY <1>2 DEF DropStream, CloseStream
<1> HIDE DEF n
<1>4. /\ loop' \in [Listeners -> Loops]
      /\ stream' \in [Shakes -> {"none", "listed", "deleted"}]
      /\ heard' \in [Listeners -> SUBSET Shakes]
      /\ conn' \in [Shakes -> Conns]
  BY <1>1, <1>3 DEF IInv, Types, Loops
<1>5. \A k \in Listeners :
        /\ heard'[k] \subseteq heard[k]
        /\ loop'[k] # "none" => loop[k] # "none"
        /\ loop'[k] \in InShake <=> loop[k] \in InShake /\ k # l
  BY <1>1 DEF IInv, Types, InShake
<1>6. ConnsAgree'
  BY <1>1 DEF IInv, ConnsAgree, peerVars
<1>7. StreamsAreRead'
  <2> SUFFICES ASSUME NEW m \in Shakes, host[m] # None, ~Closed(host[m])
               PROVE  stream'[m] = "listed" <=>
                        \/ shake[host[m]] = m /\ loop'[host[m]] \in InShake
                        \/ conn[m] \in {"pending", "accepted", "done"}
    BY <1>1 DEF StreamsAreRead, InShake, Closed
  <2>1. host[m] \in Listeners
    BY DEF IInv, Types
  <2>2. stream[m] = "listed" <=> \/ shake[host[m]] = m /\ loop[host[m]] \in InShake
                                 \/ conn[m] \in {"pending", "accepted", "done"}
    BY DEF IInv, StreamsAreRead, InShake
  <2>3. CASE m = n
    <3>1. stream'[m] = "deleted"
      BY <1>2, <1>3, <2>3 DEF IInv, Types
    <3>2. loop'[host[m]] \notin InShake
      BY <1>2, <1>5, <2>3
    <3> QED BY <1>2, <2>3, <3>1, <3>2
  <2>4. CASE m # n
    <3>1. host[m] = l => shake[host[m]] # m
      BY <2>4 DEF n
    <3>2. stream'[m] = stream[m]
      BY <1>3, <2>4 DEF IInv, Types
    <3> QED BY <1>5, <2>1, <2>2, <2>4, <3>1, <3>2
  <2> QED BY <2>3, <2>4
<1> QED BY <1>1, <1>4, <1>5, <1>6, <1>7, LeavingStep

----------------------------------------------------------------------------
(* Connections *)

\* A step of a connection n that is one already.
LEMMA ConnStep ==
  ASSUME IInv, NEW n, NEW v,
         conn' = [conn EXCEPT ![n] = v] \/ UNCHANGED conn,
         n \in Shakes => conn[n] # "none" /\ v \in Conns \ {"none"},
         UNCHANGED <<used, mux, freeing, loop, syns, shake, heard, shakes, host, attempt, peerVars>>,
         stream' \in [Shakes -> {"none", "listed", "deleted"}],
         StreamsAreRead'
  PROVE  IInv'
<1>1. conn' \in [Shakes -> Conns] /\ \A m \in Shakes : conn'[m] = "none" <=> conn[m] = "none"
  <2>1. conn \in [Shakes -> Conns]
    BY DEF IInv, Types
  <2>2. CASE UNCHANGED conn
    BY <2>1, <2>2
  <2>3. CASE conn' = [conn EXCEPT ![n] = v]
    <3>1. \A m \in Shakes : conn'[m] = IF m = n THEN v ELSE conn[m]
      BY <2>1, <2>3
    <3>2. \A m \in Shakes : conn'[m] \in Conns
      BY <2>1, <3>1
    <3>3. conn' = [m \in Shakes |-> conn'[m]]
      BY <2>1, <2>3
    <3> QED BY <3>1, <3>2, <3>3
  <2> QED BY <2>2, <2>3
<1>2. ConnsAgree'
  BY <1>1 DEF IInv, ConnsAgree, peerVars
<1>3. \A m \in Shakes : conn[m] = "none" => conn'[m] = conn[m]
  BY <1>1
<1>4. \A m \in Shakes : m > shakes => conn'[m] = conn[m]
  BY <1>3 DEF IInv, FreshInv
<1>5. \A l \in Listeners : loop'[l] \in InShake => conn'[shake[l]] = conn[shake[l]]
  BY <1>3 DEF IInv, ShakeInv
<1>6. loop' \in [Listeners -> Loops] /\ heard' \in [Listeners -> SUBSET Shakes]
  BY DEF IInv, Types
<1> QED BY <1>1, <1>2, <1>4, <1>5, <1>6, LeavingStep

LEMMA AcceptStep ==
  ASSUME IInv, NEW l \in Listeners, Accept(l)
  PROVE  IInv'
<1> DEFINE n == Head(conns[l])
           v == IF conn[n] = "pending" THEN "accepted" ELSE conn[n]
<1>1. /\ conn' = [conn EXCEPT ![n] = v] \/ UNCHANGED conn
      /\ UNCHANGED <<used, mux, freeing, loop, syns, shake, heard, shakes, host, attempt, stream,
                     peerVars>>
  BY DEF Accept, netVars
<1> HIDE DEF n
<1>2. \A m \in Shakes :
        /\ conn'[m] = "none" <=> conn[m] = "none"
        /\ conn'[m] \in {"pending", "accepted", "done"} <=> conn[m] \in {"pending", "accepted", "done"}
  BY <1>1 DEF IInv, Types
<1>3. StreamsAreRead'
  BY <1>1, <1>2 DEF IInv, StreamsAreRead, Closed
<1>4. conn' \in [Shakes -> Conns]
  <2>1. conn \in [Shakes -> Conns]
    BY DEF IInv, Types
  <2>2. \A m \in Shakes : conn'[m] = conn[m] \/ conn'[m] = "accepted"
    BY <1>1, <2>1
  <2>3. conn' = [m \in Shakes |-> conn'[m]]
    BY <1>1, <2>1
  <2>4. \A m \in Shakes : conn'[m] \in Conns
    BY <2>1, <2>2 DEF Conns
  <2> QED BY <2>3, <2>4
<1>5. ConnsAgree'
  BY <1>1, <1>2 DEF IInv, ConnsAgree, peerVars
<1>6. \A m \in Shakes : conn[m] = "none" => conn'[m] = conn[m]
  BY <1>2
<1>7. \A m \in Shakes : m > shakes => conn'[m] = conn[m]
  BY <1>6 DEF IInv, FreshInv
<1>8. \A k \in Listeners : loop'[k] \in InShake => conn'[shake[k]] = conn[shake[k]]
  BY <1>1, <1>6 DEF IInv, ShakeInv
<1>9. /\ loop' \in [Listeners -> Loops] /\ heard' \in [Listeners -> SUBSET Shakes]
      /\ stream' \in [Shakes -> {"none", "listed", "deleted"}]
  BY <1>1 DEF IInv, Types
<1> QED BY <1>1, <1>3, <1>4, <1>5, <1>7, <1>8, <1>9, LeavingStep

LEMMA ConnEndStep ==
  ASSUME IInv, NEW n \in Shakes, ConnDone(n) \/ ConnEnds(n) \/ ConnCut(n)
  PROVE  IInv'
<1>1. UNCHANGED <<used, mux, freeing, loop, syns, shake, heard, shakes, host, attempt, peerVars>>
  BY DEF ConnDone, ConnEnds, ConnCut, netVars, loopVars
<1>2. CASE ConnDone(n)
  <2>1. conn[n] = "accepted" /\ conn' = [conn EXCEPT ![n] = "done"] /\ UNCHANGED stream
    BY <1>2 DEF ConnDone
  <2>2. StreamsAreRead'
    BY <1>1, <2>1 DEF IInv, Types, StreamsAreRead, Closed
  <2>3. stream' \in [Shakes -> {"none", "listed", "deleted"}]
    BY <2>1 DEF IInv, Types
  <2> QED BY <1>1, <2>1, <2>2, <2>3, ConnStep DEF Conns
<1>3. CASE ConnCut(n)
  <2>1. /\ conn[n] \in {"pending", "accepted"} /\ Closed(host[n])
        /\ conn' = [conn EXCEPT ![n] = "cut"] /\ UNCHANGED stream
    BY <1>3 DEF ConnCut
  <2>2. StreamsAreRead'
    BY <1>1, <2>1 DEF IInv, Types, StreamsAreRead, Closed
  <2>3. stream' \in [Shakes -> {"none", "listed", "deleted"}]
    BY <2>1 DEF IInv, Types
  <2> QED BY <1>1, <2>1, <2>2, <2>3, ConnStep DEF Conns
<1>4. CASE ConnEnds(n)
  <2>1. /\ conn[n] = "done" /\ conn' = [conn EXCEPT ![n] = "ended"]
        /\ \/ Closed(host[n]) /\ UNCHANGED stream
           \/ stream' = [stream EXCEPT ![n] = "deleted"]
    BY <1>4 DEF ConnEnds, CloseStream
  <2>2. ~(shake[host[n]] = n /\ loop[host[n]] \in InShake /\ host[n] \in Listeners)
    BY <2>1 DEF IInv, ShakeInv
  <2>3. StreamsAreRead'
    <3> SUFFICES ASSUME NEW m \in Shakes, host[m] # None, ~Closed(host[m])
                 PROVE  stream'[m] = "listed" <=>
                          \/ shake[host[m]] = m /\ loop[host[m]] \in InShake
                          \/ conn'[m] \in {"pending", "accepted", "done"}
      BY <1>1 DEF StreamsAreRead, InShake, Closed
    <3>1. host[m] \in Listeners
      BY DEF IInv, Types
    <3>2. CASE m = n
      BY <2>1, <2>2, <3>1, <3>2 DEF IInv, Types
    <3>3. CASE m # n
      BY <2>1, <3>3 DEF IInv, Types, StreamsAreRead, InShake
    <3> QED BY <3>2, <3>3
  <2>4. stream' \in [Shakes -> {"none", "listed", "deleted"}]
    BY <2>1 DEF IInv, Types
  <2> QED BY <1>1, <2>1, <2>3, <2>4, ConnStep DEF Conns
<1> QED BY <1>2, <1>3, <1>4

----------------------------------------------------------------------------
(* Remote hosts *)

LEMMA ArriveStep ==
  ASSUME IInv, NEW l \in Listeners, NEW a \in Attempts, ArriveSyn(l, a) \/ ArriveAck(l, a)
  PROVE  IInv'
<1>1. UNCHANGED <<used, mux, freeing, loop, shake, shakes, host, attempt, stream, conn, peerVars>>
  BY DEF ArriveSyn, ArriveAck, netVars, connVars
<1>2. syns' \in [Listeners -> Seq(Attempts)]
  <2>1. syns \in [Listeners -> Seq(Attempts)]
    BY DEF IInv, Types
  <2>2. Append(syns[l], a) \in Seq(Attempts)
    BY <2>1
  <2>3. syns' = syns \/ syns' = [syns EXCEPT ![l] = Append(syns[l], a)]
    BY DEF ArriveSyn, ArriveAck
  <2> QED BY <2>1, <2>2, <2>3, Zenon
<1>3. \/ heard' = heard
      \/ peer[a] # None /\ heard' = [heard EXCEPT ![l] = @ \union {peer[a]}]
  BY DEF ArriveSyn, ArriveAck
<1>4. peer[a] # None => peer[a] \in Shakes /\ peer[a] <= shakes /\ peer[attempt[peer[a]]] = peer[a]
  BY DEF IInv, Types, PeerInv
<1>5. heard' \in [Listeners -> SUBSET Shakes]
  <2>1. heard \in [Listeners -> SUBSET Shakes]
    BY DEF IInv, Types
  <2>2. peer[a] # None => heard[l] \union {peer[a]} \in SUBSET Shakes
    BY <1>4, <2>1
  <2> QED BY <1>3, <2>1, <2>2
<1>6. Types'
  BY <1>1, <1>2, <1>5 DEF IInv, Types, peerVars
<1>7. PeerInv'
  <2>1. \A k \in Listeners : \A n \in heard'[k] :
          n \in heard[k] \/ (peer[a] # None /\ n = peer[a])
    <3> TAKE k \in Listeners
    <3>1. heard'[k] = heard[k] \/ (peer[a] # None /\ heard'[k] = heard[k] \union {peer[a]})
      <4>1. heard \in [Listeners -> SUBSET Shakes]
        BY DEF IInv, Types
      <4> QED BY <1>3, <4>1
    <3> QED BY <3>1
  <2>2. \A k \in Listeners : \A n \in heard'[k] : n <= shakes /\ peer[attempt[n]] = n
    BY <1>4, <2>1 DEF IInv, PeerInv
  <2> QED BY <1>1, <2>2 DEF IInv, PeerInv, peerVars
<1>8. PortInv' /\ IdleInv'
  BY <1>1, SamePort DEF IInv, IdleInv
<1> QED BY <1>1, <1>6, <1>7, <1>8, QuietStep DEF Closed, peerVars

LEMMA PeerAckStep ==
  ASSUME IInv, NEW n \in Shakes, PeerAck(n)
  PROVE  IInv'
<1> DEFINE a == attempt[n]
<1>1. /\ n \in offered /\ peer[a] = None /\ peer' = [peer EXCEPT ![a] = n]
      /\ UNCHANGED <<used, mux, freeing, loop, syns, shake, heard, shakes, host, attempt, stream, conn,
                     offered>>
  BY DEF PeerAck, netVars, loopVars, connVars
<1>2. n <= shakes /\ a \in Attempts
  BY <1>1 DEF IInv, PeerInv, FreshInv
<1>3. Types'
  BY <1>1 DEF IInv, Types
<1>4. PortInv' /\ IdleInv'
  BY <1>1, SamePort DEF IInv, IdleInv
<1>5. \A b \in Attempts : peer[b] # None => peer'[b] = peer[b]
  BY <1>1 DEF IInv, Types
<1>6. PeerInv'
  <2>1. \A b \in Attempts : peer'[b] # None => peer'[b] <= shakes /\ attempt[peer'[b]] = b
    BY <1>1, <1>2 DEF IInv, Types, PeerInv
  <2>2. \A l \in Listeners : \A m \in heard[l] : m <= shakes /\ peer'[attempt[m]] = m
    <3> TAKE l \in Listeners
    <3> TAKE m \in heard[l]
    <3>1. m \in Shakes /\ m <= shakes /\ peer[attempt[m]] = m /\ m # None
      BY DEF IInv, Types, PeerInv, Shakes, None
    <3>2. attempt[m] \in Attempts
      BY <3>1 DEF IInv, FreshInv
    <3> QED BY <1>5, <3>1, <3>2
  <2> QED BY <1>1, <2>1, <2>2 DEF IInv, PeerInv
<1> QED BY <1>1, <1>3, <1>4, <1>5, <1>6, QuietStep DEF Closed

----------------------------------------------------------------------------

LEMMA NextInv == IInv /\ [Next]_vars => IInv'
<1> SUFFICES ASSUME IInv, [Next]_vars PROVE IInv'
  OBVIOUS
<1>1. CASE UNCHANGED vars
  <2>1. UNCHANGED <<used, mux, freeing, loop, syns, shake, heard, shakes, host, attempt, stream, conn,
                    peerVars>>
    BY <1>1 DEF vars, netVars, loopVars, connVars
  <2>2. Types'
    BY <2>1 DEF IInv, Types, peerVars
  <2>3. PortInv' /\ IdleInv'
    BY <2>1, SamePort DEF IInv, IdleInv
  <2>4. PeerInv'
    BY <2>1, SamePeers
  <2> QED BY <2>1, <2>2, <2>3, <2>4, QuietStep DEF Closed, peerVars
<1>2. CASE NetClose
  <2>1. Types' /\ PortInv' /\ IdleInv' /\ PeerInv'
    BY <1>2, SamePort, SamePeers
       DEF NetClose, IInv, Types, IdleInv, loopVars, connVars, peerVars
  <2> QED BY <1>2, <2>1, QuietStep DEF NetClose, Closed, loopVars, connVars, peerVars
<1>3. ASSUME NEW l \in Listeners,
             ListenTCP(l) \/ Close(l) \/ Free(l) \/ Disconnect(l)
      PROVE  IInv'
  BY <1>3, PortStep
<1>4. ASSUME NEW l \in Listeners, LoopStep(l) PROVE IInv'
  BY <1>4, LoopQuietStep, TakeSynStep, EstablishStep, DropStreamStep DEF LoopStep
<1>5. ASSUME NEW l \in Listeners, Accept(l) \/ \E a \in Attempts : ArriveSyn(l, a) \/ ArriveAck(l, a)
      PROVE  IInv'
  BY <1>5, AcceptStep, ArriveStep
<1>6. ASSUME NEW n \in Shakes, ConnDone(n) \/ ConnEnds(n) \/ ConnCut(n) \/ PeerAck(n)
      PROVE  IInv'
  BY <1>6, ConnEndStep, PeerAckStep
<1> QED BY <1>1, <1>2, <1>3, <1>4, <1>5, <1>6 DEF Next

LEMMA Invariance == Spec => []IInv
BY InitInv, NextInv, PTL DEF Spec

\* A connection that Accept hands out is one that the remote host has with the same
\* numbers, however many SYNs and stale ACKs the handshakes see.
THEOREM ConnectionsAgree == Spec => []ConnsAgree
<1>1. IInv => ConnsAgree
  BY DEF IInv
<1> QED BY <1>1, Invariance, PTL

\* The streams that an open listener's multiplexer lists are read by somebody.
THEOREM StreamsStayRead == Spec => []StreamsAreRead
<1>1. IInv => StreamsAreRead
  BY DEF IInv
<1> QED BY <1>1, Invariance, PTL

\* The port is one listener's from ListenTCP until its Close has freed it.
THEOREM PortStaysExclusive == Spec => []PortIsExclusive
<1>1. IInv => PortIsExclusive
  BY DEF IInv, PortInv
<1> QED BY <1>1, Invariance, PTL

-----------------------------------------------------------------------------
(* The multiplexer, for any set of children *)

\* The typing that the proofs need.
MuxTypes ==
  /\ closeChan \in BOOLEAN
  /\ children \subseteq forked
  /\ forked \subseteq Children
  /\ close \in {"none", "stream", "children", "end"}
  /\ done \in [Children -> BOOLEAN]
  /\ inClosed \in [Children -> BOOLEAN]
  /\ forward \in [Children -> {"none", "receive", "check", "send", "stopped"}]
  /\ sent \in [Children -> Nat]
  /\ late \in [Children -> SUBSET Nat]
  /\ upOutgoing \subseteq Children \X Nat

\* The channels of a child are closed together.  A child that is closed and still
\* listed was closed by the multiplexer's Close, which closes closeChan first.
ClosedInv ==
  /\ close # "none" => closeChan
  /\ \A c \in Children :
       /\ done[c] = inClosed[c]
       /\ c \in children /\ done[c] => closeChan
       /\ c \notin forked => ~done[c]

\* A packet was late if its channels were closed when it came: they still are.
\* forwardPackets gets to its send only with a packet that was not.
LateInv ==
  \A c \in Children :
    /\ \A n \in late[c] : n <= sent[c] /\ Cancelled(c) /\ <<c, n>> \notin upOutgoing
    /\ forward[c] = "send" => sent[c] \notin late[c]
    /\ \A n \in Nat : <<c, n>> \in upOutgoing => n <= sent[c]

MuxInv == MuxTypes /\ ClosedInv /\ OnlyLateClosePanics /\ LateInv

LEMMA MuxInitInv == MuxInit => MuxInv
<1> SUFFICES ASSUME MuxInit PROVE MuxInv
  OBVIOUS
<1>1. MuxTypes
  BY DEF MuxInit, MuxTypes
<1>2. ClosedInv /\ OnlyLateClosePanics
  BY DEF MuxInit, ClosedInv, OnlyLateClosePanics
<1>3. LateInv
  BY DEF MuxInit, LateInv
<1> QED BY <1>1, <1>2, <1>3 DEF MuxInv

\* A step that closes channels at most, and leaves the forwarders alone.
LEMMA ClosingStep ==
  ASSUME MuxInv, closeChan => closeChan', \A c \in Children : done[c] => done'[c],
         UNCHANGED <<upOutgoing, fwdVars>>
  PROVE  LateInv'
BY DEF MuxInv, LateInv, Cancelled, fwdVars

\* A step of the forwarder of c that neither receives nor sends a packet.
LEMMA ForwardStep ==
  ASSUME MuxInv, NEW c \in Children, NEW v \in {"none", "receive", "check", "send", "stopped"},
         forward' = [forward EXCEPT ![c] = v],
         v = "send" => ~Cancelled(c),
         UNCHANGED <<upOutgoing, muxVars, childVars, sent, late, panic>>
  PROVE  MuxInv'
<1>1. MuxTypes'
  BY DEF MuxInv, MuxTypes, muxVars, childVars
<1>2. ClosedInv' /\ OnlyLateClosePanics'
  BY DEF MuxInv, ClosedInv, OnlyLateClosePanics, muxVars, childVars
<1>3. LateInv'
  BY DEF MuxInv, MuxTypes, LateInv, Cancelled, muxVars, childVars
<1> QED BY <1>1, <1>2, <1>3 DEF MuxInv

LEMMA MuxNextInv == MuxInv /\ [MuxNext]_allVars => MuxInv'
<1> SUFFICES ASSUME MuxInv, [MuxNext]_allVars PROVE MuxInv'
  OBVIOUS
<1>1. CASE Arrive \/ UpDisconnects \/ Receive \/ Leave \/ AlreadyClosed \/ CloseEnd \/ UNCHANGED allVars
  <2>1. /\ UNCHANGED <<upOutgoing, closeChan, children, childVars, panic>> \/ UNCHANGED <<upOutgoing, closeChan, children, forked, done, inClosed, panic>>
        /\ UNCHANGED fwdVars
        /\ close' = close \/ close' = "none"
    BY <1>1 DEF Arrive, UpDisconnects, Receive, Leave, AlreadyClosed, CloseEnd, allVars, upVars,
                muxVars, childVars
  <2>2. MuxTypes'
    BY <2>1 DEF MuxInv, MuxTypes, childVars, fwdVars
  <2>3. ClosedInv' /\ OnlyLateClosePanics'
    BY <2>1 DEF MuxInv, ClosedInv, OnlyLateClosePanics, childVars
  <2>4. LateInv'
    BY <2>1 DEF MuxInv, LateInv, Cancelled, childVars, fwdVars
  <2> QED BY <2>2, <2>3, <2>4 DEF MuxInv
<1>2. CASE HandleIncoming
  <2>1. ~closeChan => \A c \in children : ~inClosed[c]
    BY DEF MuxInv, MuxTypes, ClosedInv
  <2>2. UNCHANGED <<upOutgoing, closeChan, children, close, forked, done, inClosed, fwdVars, panic>>
    BY <1>2, <2>1 DEF HandleIncoming, upVars
  <2>3. MuxTypes' /\ ClosedInv' /\ OnlyLateClosePanics'
    BY <2>2 DEF MuxInv, MuxTypes, ClosedInv, OnlyLateClosePanics, fwdVars
  <2>4. LateInv'
    BY <2>2, ClosingStep
  <2> QED BY <2>3, <2>4 DEF MuxInv
<1>3. CASE \E who \in {"readLoop", "caller"} : CloseBegin(who)
  <2>1. /\ closeChan' = TRUE /\ close' = "stream" /\ panic = "none"
        /\ UNCHANGED <<upOutgoing, children, forked, done, inClosed, fwdVars, panic>>
    BY <1>3 DEF CloseBegin, Unlocked, Alive, upVars, childVars
  <2>2. MuxTypes' /\ ClosedInv' /\ OnlyLateClosePanics'
    BY <2>1 DEF MuxInv, MuxTypes, ClosedInv, OnlyLateClosePanics, fwdVars
  <2>3. LateInv'
    BY <2>1, ClosingStep
  <2> QED BY <2>2, <2>3 DEF MuxInv
<1>4. CASE CloseUpstream
  <2>1. /\ close # "none" /\ close' \in {close, "children"}
        /\ panic' \in {panic, "upstream"}
        /\ UNCHANGED <<upOutgoing, closeChan, children, forked, done, inClosed, fwdVars>>
    BY <1>4 DEF CloseUpstream, childVars
  <2>2. MuxTypes' /\ ClosedInv' /\ OnlyLateClosePanics'
    BY <2>1 DEF MuxInv, MuxTypes, ClosedInv, OnlyLateClosePanics, fwdVars
  <2>3. LateInv'
    BY <2>1, ClosingStep
  <2> QED BY <2>2, <2>3 DEF MuxInv
<1>5. CASE CloseChildren
  <2>1. /\ close # "none" /\ close' = "end"
        /\ done' = [c \in Children |-> done[c] \/ c \in children]
        /\ inClosed' = [c \in Children |-> inClosed[c] \/ c \in children]
        /\ UNCHANGED <<upOutgoing, closeChan, children, forked, fwdVars, panic>>
    BY <1>5 DEF CloseChildren, upVars
  <2>2. \A c \in Children : /\ done'[c] = (done[c] \/ c \in children)
                            /\ inClosed'[c] = (inClosed[c] \/ c \in children)
    BY <2>1
  <2>3. MuxTypes'
    BY <2>1 DEF MuxInv, MuxTypes, fwdVars
  <2>4. ClosedInv' /\ OnlyLateClosePanics'
    BY <2>1, <2>2 DEF MuxInv, MuxTypes, ClosedInv, OnlyLateClosePanics
  <2>5. LateInv'
    BY <2>1, <2>2, ClosingStep
  <2> QED BY <2>3, <2>4, <2>5 DEF MuxInv
<1>6. ASSUME NEW c \in Children, Fork(c) PROVE MuxInv'
  <2>1. /\ ~closeChan /\ c \notin forked
        /\ children' = children \union {c}
        /\ forked' = forked \union {c}
        /\ UNCHANGED <<upOutgoing, closeChan, close, done, inClosed, fwdVars, panic>>
    BY <1>6 DEF Fork, upVars
  <2>2. MuxTypes' /\ ClosedInv' /\ OnlyLateClosePanics'
    BY <2>1 DEF MuxInv, MuxTypes, ClosedInv, OnlyLateClosePanics, fwdVars
  <2>3. LateInv'
    BY <2>1, ClosingStep
  <2> QED BY <2>2, <2>3 DEF MuxInv
<1>7. ASSUME NEW c \in Children, ChildClose(c) PROVE MuxInv'
  <2>1. /\ c \in children /\ panic = "none"
        /\ children' = children \ {c}
        /\ UNCHANGED <<upOutgoing, closeChan, close, forked, fwdVars>>
    BY <1>7 DEF ChildClose, Unlocked, Alive, upVars
  <2>2. CASE done[c]
    <3>1. closeChan /\ panic' = "close" /\ UNCHANGED <<done, inClosed>>
      BY <1>7, <2>1, <2>2 DEF ChildClose, MuxInv, ClosedInv
    <3>2. MuxTypes' /\ ClosedInv' /\ OnlyLateClosePanics'
      BY <2>1, <3>1 DEF MuxInv, MuxTypes, ClosedInv, OnlyLateClosePanics, fwdVars
    <3>3. LateInv'
      BY <2>1, <3>1, ClosingStep
    <3> QED BY <3>2, <3>3 DEF MuxInv
  <2>3. CASE ~done[c]
    <3>1. /\ done' = [done EXCEPT ![c] = TRUE]
          /\ inClosed' = [inClosed EXCEPT ![c] = TRUE]
          /\ UNCHANGED panic
      BY <1>7, <2>3 DEF ChildClose
    <3>2. MuxTypes'
      BY <2>1, <3>1 DEF MuxInv, MuxTypes, fwdVars
    <3>3. ClosedInv' /\ OnlyLateClosePanics'
      BY <2>1, <3>1 DEF MuxInv, MuxTypes, ClosedInv, OnlyLateClosePanics
    <3>4. \A d \in Children : done[d] => done'[d]
      BY <3>1 DEF MuxInv, MuxTypes
    <3>5. LateInv'
      BY <2>1, <3>4, ClosingStep
    <3> QED BY <3>2, <3>3, <3>5 DEF MuxInv
  <2> QED BY <2>2, <2>3
<1>8. ASSUME NEW c \in Children, Take(c) \/ MergeDones(c) PROVE MuxInv'
  <2>1. UNCHANGED <<upOutgoing, closeChan, children, close, forked, done, inClosed, forward, sent,
                    late, panic>>
    BY <1>8 DEF Take, MergeDones, upVars, muxVars, childVars, fwdVars
  <2>2. MuxTypes' /\ ClosedInv' /\ OnlyLateClosePanics'
    BY <2>1 DEF MuxInv, MuxTypes, ClosedInv, OnlyLateClosePanics
  <2>3. LateInv'
    BY <2>1 DEF MuxInv, LateInv, Cancelled
  <2> QED BY <2>2, <2>3 DEF MuxInv
<1>9. ASSUME NEW c \in Children, StartForward(c) \/ ForwardCancelled(c) PROVE MuxInv'
  <2>1. \E v \in {"receive", "stopped"} : forward' = [forward EXCEPT ![c] = v]
    BY <1>9 DEF StartForward, ForwardCancelled
  <2>2. UNCHANGED <<upOutgoing, muxVars, childVars, sent, late, panic>>
    BY <1>9 DEF StartForward, ForwardCancelled, upVars
  <2> QED BY <2>1, <2>2, ForwardStep
<1>10. ASSUME NEW c \in Children, CheckCancels(c) PROVE MuxInv'
  <2>1. UNCHANGED <<upOutgoing, muxVars, childVars, sent, late, panic>>
    BY <1>10 DEF CheckCancels, upVars
  <2>2. CASE Cancelled(c)
    BY <1>10, <2>1, <2>2, ForwardStep DEF CheckCancels
  <2>3. CASE ~Cancelled(c)
    BY <1>10, <2>1, <2>3, ForwardStep DEF CheckCancels
  <2> QED BY <2>2, <2>3
<1>11. ASSUME NEW c \in Children, SendOutgoing(c) PROVE MuxInv'
  <2>1. /\ forward' = [forward EXCEPT ![c] = "check"]
        /\ sent' = [sent EXCEPT ![c] = @ + 1]
        /\ late' = [late EXCEPT ![c] = IF Cancelled(c) THEN @ \union {sent[c] + 1} ELSE @]
        /\ UNCHANGED <<upOutgoing, closeChan, children, close, forked, done, inClosed, panic>>
    BY <1>11 DEF SendOutgoing, upVars, muxVars, childVars
  <2>2. MuxTypes'
    BY <2>1 DEF MuxInv, MuxTypes
  <2>3. ClosedInv' /\ OnlyLateClosePanics'
    BY <2>1 DEF MuxInv, ClosedInv, OnlyLateClosePanics
  <2>4. LateInv'
    BY <2>1 DEF MuxInv, MuxTypes, LateInv, Cancelled
  <2> QED BY <2>2, <2>3, <2>4 DEF MuxInv
<1>12. ASSUME NEW c \in Children, ForwardSends(c) PROVE MuxInv'
  <2>1. /\ forward[c] = "send"
        /\ forward' = [forward EXCEPT ![c] = "receive"]
        /\ upOutgoing' = upOutgoing \union {<<c, sent[c]>>}
        /\ UNCHANGED <<closeChan, children, close, forked, done, inClosed, sent, late, panic>>
    BY <1>12 DEF ForwardSends, muxVars, childVars
  <2>2. MuxTypes'
    BY <2>1 DEF MuxInv, MuxTypes
  <2>3. ClosedInv' /\ OnlyLateClosePanics'
    BY <2>1 DEF MuxInv, ClosedInv, OnlyLateClosePanics
  <2>4. LateInv'
    BY <2>1 DEF MuxInv, MuxTypes, LateInv, Cancelled
  <2> QED BY <2>2, <2>3, <2>4 DEF MuxInv
<1> QED BY <1>1, <1>2, <1>3, <1>4, <1>5, <1>6, <1>7, <1>8, <1>9, <1>10, <1>11, <1>12
        DEF MuxNext, CloseSteps

LEMMA MuxInvariance == MuxSpec => []MuxInv
BY MuxInitInv, MuxNextInv, PTL DEF MuxSpec

\* Whatever the children and the callers do, the code panics only when a child is
\* closed after its multiplexer: handleIncoming never sends to a closed channel.
THEOREM PanicsComeLate == MuxSpec => []OnlyLateClosePanics
<1>1. MuxInv => OnlyLateClosePanics
  BY DEF MuxInv
<1> QED BY <1>1, MuxInvariance, PTL

\* forwardPackets passes on no packet that was sent after a channel it was given
\* to watch was closed.
THEOREM LateStaysDropped == MuxSpec => []LateIsDropped
<1>1. MuxInv => LateIsDropped
  BY DEF MuxInv, LateInv, LateIsDropped
<1> QED BY <1>1, MuxInvariance, PTL
=============================================================================

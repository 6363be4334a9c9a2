----------------------------- MODULE UdpNetProofs -----------------------------
(***************************************************************************)
(* Ports have one owner, for any number of connections and ports, and a    *)
(* connection loses nothing that its filter lets through.                  *)
(*                                                                         *)
(* PortsAreOwned is inductive only together with where the holders are: a  *)
(* connection that holds a port is open, so that neither a Fork that takes *)
(* its name nor a DialUDP under way changes its local port.                *)
(***************************************************************************)
EXTENDS UdpNet, StreamConn, WellFoundedInduction, TLAPS

\* The two parts of PortsAreOwned.
OneHolder ==
  /\ used = taken \union {local[c] : c \in holds}
  /\ \A c \in holds : local[c] \notin taken
  /\ \A c, d \in holds : local[c] = local[d] => c = d

FailureLeavesNothing ==
  \A c \in Conns : phase[c] = "failed" => c \notin listed \union holds

HoldersOpen == holds \subseteq {c \in Conns : phase[c] = "open"}

FunctionsOK == local \in [Conns -> Ports \union {NoPort}] /\ DOMAIN phase = Conns

IInv == FunctionsOK /\ HoldersOpen /\ OneHolder /\ FailureLeavesNothing

LEMMA InitIInv == Init => IInv
BY DEF Init, IInv, FunctionsOK, HoldersOpen, OneHolder, FailureLeavesNothing

\* Steps that change no port and give a connection that holds none a new state.
LEMMA PortsAside ==
  ASSUME IInv, FunctionsOK', NEW c \in Conns, c \notin holds,
         UNCHANGED <<used, taken, holds>>,
         \A d \in Conns : d # c => local'[d] = local[d] /\ phase'[d] = phase[d]
  PROVE  HoldersOpen' /\ OneHolder'
<1>1. \A d \in holds : d # c /\ d \in Conns
  BY DEF IInv, HoldersOpen
<1>2. \A d \in holds : local'[d] = local[d] /\ phase'[d] = phase[d]
  BY <1>1
<1>3. HoldersOpen'
  BY <1>1, <1>2 DEF IInv, HoldersOpen
<1>4. {local'[d] : d \in holds} = {local[d] : d \in holds}
  BY <1>2
<1>5. OneHolder'
  BY <1>2, <1>4 DEF IInv, OneHolder
<1> QED
  BY <1>3, <1>5

LEMMA ForkStep ==
  ASSUME IInv, NEW c \in Conns, Fork(c)
  PROVE  IInv'
<1>1. c \notin holds
  BY DEF Fork, Gone, IInv, HoldersOpen
<1>2. UNCHANGED <<used, taken, holds>>
  BY DEF Fork, portVars
<1>3. /\ FunctionsOK'
      /\ \A d \in Conns : d # c => local'[d] = local[d] /\ phase'[d] = phase[d]
      /\ phase'[c] = "forked" /\ listed' = listed \union {c}
  BY DEF Fork, IInv, FunctionsOK
<1>4. HoldersOpen' /\ OneHolder'
  BY <1>1, <1>2, <1>3, PortsAside
<1>5. FailureLeavesNothing'
  BY <1>2, <1>3 DEF IInv, FailureLeavesNothing
<1> QED
  BY <1>3, <1>4, <1>5 DEF IInv

\* An error: the connection, which holds no port, leaves the multiplexer.
LEMMA RefuseStep ==
  ASSUME IInv, NEW c \in Conns, phase[c] = "forked", Refuse(c)
  PROVE  IInv'
<1>1. c \notin holds
  BY DEF IInv, HoldersOpen
<1>2. UNCHANGED <<used, taken, holds>>
  BY DEF Refuse, portVars
<1>3. /\ FunctionsOK'
      /\ \A d \in Conns : d # c => local'[d] = local[d] /\ phase'[d] = phase[d]
      /\ listed' = listed \ {c}
  BY DEF Refuse, ChildClose, IInv, FunctionsOK
<1>4. HoldersOpen' /\ OneHolder'
  BY <1>1, <1>2, <1>3, PortsAside
<1>5. FailureLeavesNothing'
  BY <1>1, <1>2, <1>3 DEF IInv, FailureLeavesNothing
<1> QED
  BY <1>3, <1>4, <1>5 DEF IInv

\* An allocation: the port is in nobody's use, and c joins the holders.
LEMMA AllocStep ==
  ASSUME IInv, NEW c \in Conns, NEW p \in Ports, phase[c] = "forked",
         AllocAny(c, p), phase' = [phase EXCEPT ![c] = "open"],
         UNCHANGED <<taken, listed>>
  PROVE  IInv'
<1>1. c \notin holds /\ p \notin used
  BY DEF IInv, HoldersOpen, AllocAny
<1>2. /\ used' = used \union {p} /\ holds' = holds \union {c}
      /\ local'[c] = p /\ phase'[c] = "open"
      /\ \A d \in Conns : d # c => local'[d] = local[d] /\ phase'[d] = phase[d]
      /\ FunctionsOK'
  BY DEF AllocAny, IInv, FunctionsOK
<1>3. \A d \in holds : d \in Conns /\ d # c /\ local'[d] = local[d] /\ local[d] \in used
  BY <1>1, <1>2 DEF IInv, HoldersOpen, OneHolder
<1>4. HoldersOpen'
  BY <1>2, <1>3 DEF IInv, HoldersOpen
<1>5. {local'[d] : d \in holds'} = {local[d] : d \in holds} \union {p}
  BY <1>2, <1>3
<1>6. used' = taken \union {local'[d] : d \in holds'}
  BY <1>2, <1>5 DEF IInv, OneHolder
<1>7. \A d \in holds' : local'[d] \notin taken
  BY <1>1, <1>2, <1>3 DEF IInv, OneHolder
<1>8. \A d, e \in holds' : local'[d] = local'[e] => d = e
  BY <1>1, <1>2, <1>3 DEF IInv, OneHolder
<1>9. FailureLeavesNothing'
  BY <1>2, <1>3 DEF IInv, FailureLeavesNothing
<1> QED
  BY <1>2, <1>4, <1>6, <1>7, <1>8, <1>9 DEF IInv, OneHolder

LEMMA OpenStep ==
  ASSUME IInv, NEW c \in Conns, NEW r, NEW l \in LocalAddrs, NEW ips, Open(c, r, l, ips)
  PROVE  IInv'
<1>1. CASE Refuse(c)
  BY <1>1, RefuseStep DEF Open
<1>2. CASE \E p \in Ports : AllocAny(c, p) /\ phase' = [phase EXCEPT ![c] = "open"]
                            /\ UNCHANGED <<muxVars, taken>>
  BY <1>2, AllocStep DEF Open, muxVars
<1>3. CASE /\ l # Nil /\ local' = [local EXCEPT ![c] = l.port]
           /\ UNCHANGED <<used, holds, taken, muxVars>>
           /\ phase' = [phase EXCEPT ![c] = "open"]
  <2>1. l.port \in Ports
    BY <1>3 DEF LocalAddrs
  <2>2. c \notin holds
    BY DEF Open, IInv, HoldersOpen
  <2>3. /\ FunctionsOK'
        /\ \A d \in Conns : d # c => local'[d] = local[d] /\ phase'[d] = phase[d]
        /\ phase'[c] = "open"
    BY <1>3, <2>1 DEF IInv, FunctionsOK
  <2>4. HoldersOpen' /\ OneHolder'
    BY <1>3, <2>2, <2>3, PortsAside
  <2>5. FailureLeavesNothing'
    BY <1>3, <2>3 DEF IInv, FailureLeavesNothing, muxVars
  <2> QED
    BY <2>3, <2>4, <2>5 DEF IInv
<1> QED
  BY <1>1, <1>2, <1>3 DEF Open

\* A port is given back: it was the port of c and of nobody else.
LEMMA ReleaseStep ==
  ASSUME IInv, NEW c \in Conns, Release(c)
  PROVE  IInv'
<1>1. /\ c \in holds /\ used' = used \ {local[c]} /\ holds' = holds \ {c}
      /\ UNCHANGED <<taken, local, phase, listed>>
  BY DEF Release, muxVars, connVars
<1>2. {local[d] : d \in holds'} = {local[d] : d \in holds} \ {local[c]}
  BY <1>1 DEF IInv, OneHolder
<1>3. used' = taken' \union {local'[d] : d \in holds'}
  BY <1>1, <1>2 DEF IInv, OneHolder
<1>4. OneHolder'
  BY <1>1, <1>3 DEF IInv, OneHolder
<1> QED
  BY <1>1, <1>4 DEF IInv, FunctionsOK, HoldersOpen, FailureLeavesNothing

\* The steps that leave ports, addresses and phases alone.
LEMMA OtherStep ==
  ASSUME IInv, UNCHANGED <<portVars, connVars>>, listed' \subseteq listed
  PROVE  IInv'
BY DEF IInv, FunctionsOK, HoldersOpen, OneHolder, FailureLeavesNothing, portVars, connVars

LEMMA NextIInv == IInv /\ [Next]_vars => IInv'
<1> SUFFICES ASSUME IInv, [Next]_vars PROVE IInv'
  OBVIOUS
<1>1. ASSUME NEW c \in Conns, Fork(c) PROVE IInv'
  BY <1>1, ForkStep
<1>2. ASSUME NEW c \in Conns, NEW l \in LocalAddrs,
             ListenUDP(c, l) \/ \E r \in Remotes : DialUDP(c, r, l)
      PROVE  IInv'
  BY <1>2, OpenStep DEF ListenUDP, DialUDP
<1>3. ASSUME NEW c \in Conns, Read(c) PROVE IInv'
  BY <1>3, OtherStep DEF Read, muxVars
<1>4. ASSUME NEW c \in Conns, Close(c) PROVE IInv'
  BY <1>4, OtherStep DEF Close, ChildClose
<1>5. ASSUME NEW c \in Conns, Release(c) PROVE IInv'
  BY <1>5, ReleaseStep
<1>6. ASSUME NEW p \in Packets, Deliver(p) PROVE IInv'
  BY <1>6, OtherStep DEF Deliver, muxVars
<1>7. CASE NetClose
  BY <1>7, OtherStep DEF NetClose
<1>8. CASE UNCHANGED vars
  BY <1>8, OtherStep DEF vars, muxVars
<1> QED
  BY <1>1, <1>2, <1>3, <1>4, <1>5, <1>6, <1>7, <1>8 DEF Next

LEMMA Invariance == Spec => []IInv
BY InitIInv, NextIInv, PTL DEF Spec

\* No two connections hold one allocated port, none stays in use that nobody
\* holds, and a DialUDP or ListenUDP that fails leaves neither a stream nor a
\* port, for any number of connections, ports and other networks.
THEOREM PortsStayOwned == Spec => []PortsAreOwned
<1>1. IInv => PortsAreOwned
  BY DEF IInv, OneHolder, FailureLeavesNothing, PortsAreOwned
<1> QED
  BY <1>1, Invariance, PTL

----------------------------------------------------------------------------
(* Types *)

InboxOK == inbox \in [Conns -> Seq(Packets)] /\ \A c \in Conns : Len(inbox[c]) <= ReadBuffer

LEMMA DeliverInbox ==
  ASSUME InboxOK, NEW p \in Packets, Deliver(p)
  PROVE  InboxOK'
<1> DEFINE new(c) == IF c \in listed /\ Len(inbox[c]) < ReadBuffer
                     THEN Append(inbox[c], p) ELSE inbox[c]
<1>1. inbox' = [c \in Conns |-> new(c)]
  BY DEF Deliver
<1>2. ASSUME NEW c \in Conns PROVE new(c) \in Seq(Packets) /\ Len(new(c)) <= ReadBuffer
  <2>1. inbox[c] \in Seq(Packets) /\ Len(inbox[c]) <= ReadBuffer
    BY DEF InboxOK
  <2>2. /\ Append(inbox[c], p) \in Seq(Packets)
        /\ Len(Append(inbox[c], p)) = Len(inbox[c]) + 1
        /\ Len(inbox[c]) \in Nat
    BY <2>1
  <2> QED
    BY <2>1, <2>2, UdpAssumption
<1> QED
  BY <1>1, <1>2 DEF InboxOK

LEMMA ReadInbox ==
  ASSUME InboxOK, NEW c \in Conns, Read(c)
  PROVE  InboxOK' /\ Head(inbox[c]) \in Packets
<1>1. inbox[c] \in Seq(Packets) /\ inbox[c] # << >> /\ Len(inbox[c]) <= ReadBuffer
  BY DEF InboxOK, Read
<1>2. /\ Tail(inbox[c]) \in Seq(Packets)
      /\ Len(Tail(inbox[c])) = Len(inbox[c]) - 1
      /\ Len(inbox[c]) \in Nat
      /\ Head(inbox[c]) \in Packets
  BY <1>1
<1>3. Len(Tail(inbox[c])) <= ReadBuffer
  BY <1>1, <1>2, UdpAssumption
<1>4. inbox' = [inbox EXCEPT ![c] = Tail(inbox[c])]
  BY DEF Read
<1> QED
  BY <1>2, <1>3, <1>4 DEF InboxOK

LEMMA EmptyInbox == << >> \in Seq(Packets) /\ Len(<< >>) <= ReadBuffer
BY UdpAssumption

LEMMA ForkInbox ==
  ASSUME InboxOK, NEW c \in Conns, Fork(c)
  PROVE  InboxOK'
BY EmptyInbox DEF InboxOK, Fork

LEMMA OpenTypes ==
  ASSUME TypeOK, NEW c \in Conns, NEW r \in Remotes \union {AnyRemote}, NEW l \in LocalAddrs,
         NEW ips, Open(c, r, l, ips)
  PROVE  TypeOK'
<1>1. UNCHANGED <<inbox, got>>
  BY DEF Open
<1>2. CASE Refuse(c)
  BY <1>1, <1>2 DEF TypeOK, Refuse, ChildClose, portVars
<1>3. CASE /\ phase' = [phase EXCEPT ![c] = "open"]
           /\ remote' = [remote EXCEPT ![c] = r]
           /\ UNCHANGED <<muxVars, taken>>
           /\ \E p \in Ports : local' = [local EXCEPT ![c] = p]
           /\ used' \subseteq Ports /\ holds' \subseteq Conns
  BY <1>1, <1>3 DEF TypeOK, muxVars
<1>4. l # Nil => l.port \in Ports
  BY DEF LocalAddrs
<1> QED
  BY <1>2, <1>3, <1>4 DEF Open, AllocAny, TypeOK

LEMMA TypeStep == TypeOK /\ [Next]_vars => TypeOK'
<1> SUFFICES ASSUME TypeOK, [Next]_vars PROVE TypeOK'
  OBVIOUS
<1> InboxOK
  BY DEF TypeOK, InboxOK
<1>1. ASSUME NEW c \in Conns, Fork(c) PROVE TypeOK'
  BY <1>1, ForkInbox DEF TypeOK, InboxOK, Fork, portVars
<1>2. ASSUME NEW c \in Conns, NEW l \in LocalAddrs,
             ListenUDP(c, l) \/ \E r \in Remotes : DialUDP(c, r, l)
      PROVE  TypeOK'
  BY <1>2, OpenTypes DEF ListenUDP, DialUDP
<1>3. ASSUME NEW c \in Conns, Read(c) PROVE TypeOK'
  <2>1. InboxOK' /\ Head(inbox[c]) \in Packets
    BY <1>3, ReadInbox
  <2>2. got' \in [Conns -> SUBSET Packets]
    BY <1>3, <2>1 DEF Read, TypeOK
  <2> QED
    BY <1>3, <2>1, <2>2 DEF TypeOK, InboxOK, Read, portVars, muxVars, connVars
<1>4. ASSUME NEW c \in Conns, Close(c) PROVE TypeOK'
  BY <1>4 DEF TypeOK, Close, ChildClose, portVars, connVars
<1>5. ASSUME NEW c \in Conns, Release(c) PROVE TypeOK'
  BY <1>5 DEF TypeOK, Release, muxVars, connVars
<1>6. ASSUME NEW p \in Packets, Deliver(p) PROVE TypeOK'
  BY <1>6, DeliverInbox DEF TypeOK, InboxOK, Deliver, portVars, muxVars, connVars
<1>7. CASE NetClose
  BY <1>7 DEF TypeOK, NetClose, portVars, connVars
<1>8. CASE UNCHANGED vars
  BY <1>8 DEF TypeOK, vars, portVars, muxVars, connVars
<1> QED
  BY <1>1, <1>2, <1>3, <1>4, <1>5, <1>6, <1>7, <1>8 DEF Next

\* No child's buffer overflows, and no port outside the allocator's is used.
THEOREM TypeCorrect == Spec => []TypeOK
<1>1. Init => TypeOK
  BY EmptyInbox DEF Init, TypeOK
<1> QED
  BY <1>1, TypeStep, PTL DEF Spec

-----------------------------------------------------------------------------
(***************************************************************************)
(* The connections of the network are those of StreamConn: a goroutine     *)
(* filters what the child of the multiplexer receives.  NothingLost is     *)
(* about the sequence that a recursive function computes, so that its      *)
(* equations come first: that such a function exists, and what it gives    *)
(* when a packet comes at the end and when one is taken from the front.    *)
(***************************************************************************)

\* A set of natural numbers has a least one.
LEMMA LeastNumber ==
  ASSUME NEW T, T \subseteq Nat, T # {}
  PROVE  \E n \in T : \A m \in T : n <= m
<1> DEFINE Less == {p \in Nat \X Nat : p[1] < p[2]}
<1>1. IsWellFoundedOn(Less, Nat)
  <2>1. IsWellFoundedOn(OpToRel(<, Nat), Nat)
    BY NatLessThanWellFounded
  <2>2. Less = OpToRel(<, Nat)
    BY Zenon DEF OpToRel
  <2> QED
    BY <2>1, <2>2
<1>2. PICK n \in T : \A m \in T : ~(<<m, n>> \in Less)
  BY <1>1, WFMin
<1>3. \A m \in T : ~(m < n)
  BY <1>2
<1> QED
  BY <1>3

\* Induction up to n, about the members of a set.
LEMMA UpTo ==
  ASSUME NEW n \in Nat, NEW S, 0 \in S, \A i \in 1 .. n : i - 1 \in S => i \in S
  PROVE  0 .. n \subseteq S
<1> DEFINE T == {i \in 0 .. n : i \notin S}
<1>1. ASSUME T # {} PROVE FALSE
  <2>1. T \subseteq Nat
    OBVIOUS
  <2>2. PICK i \in T : \A j \in T : i <= j
    BY ONLY <1>1, <2>1, LeastNumber, Zenon
  <2>3. i \in 0 .. n /\ i \notin S
    BY <2>2
  <2>4. i \in 1 .. n /\ i - 1 \in 0 .. n /\ ~(i <= i - 1)
    BY <2>3
  <2>5. i - 1 \in S
    BY <2>2, <2>4
  <2> QED
    BY <2>3, <2>4, <2>5
<1> QED
  BY <1>1

\* f[i] is what the filter makes of the first i packets of s, for i up to n.
Filters(f, s, n) ==
  f = [i \in 0 .. n |-> IF i = 0 THEN << >> ELSE f[i - 1] \o Pass(s[i])]

LEMMA FiltersExists ==
  ASSUME NEW s, NEW n \in Nat
  PROVE  \E f : Filters(f, s, n)
<1> DEFINE S == {i \in 0 .. n : \E f : Filters(f, s, i)}
<1>1. 0 \in S
  <2> DEFINE f == [i \in 0 .. 0 |-> << >>]
  <2>1. f = [i \in 0 .. 0 |-> IF i = 0 THEN << >> ELSE f[i - 1] \o Pass(s[i])]
    OBVIOUS
  <2>2. Filters(f, s, 0)
    BY <2>1 DEF Filters
  <2> QED
    BY <2>2
<1>2. ASSUME NEW i \in 1 .. n, i - 1 \in S PROVE i \in S
  <2>1. PICK f : Filters(f, s, i - 1)
    BY <1>2
  <2>2. \A j \in 0 .. i - 1 : f[j] = IF j = 0 THEN << >> ELSE f[j - 1] \o Pass(s[j])
    BY <2>1, Zenon DEF Filters
  <2> DEFINE g == [j \in 0 .. i |-> IF j = i THEN f[i - 1] \o Pass(s[i]) ELSE f[j]]
  <2>3. ASSUME NEW j \in 0 .. i
        PROVE  g[j] = IF j = 0 THEN << >> ELSE g[j - 1] \o Pass(s[j])
    <3>1. CASE j = i
      <4>1. g[i] = f[i - 1] \o Pass(s[i]) /\ i # 0
        OBVIOUS
      <4>2. g[i - 1] = f[i - 1]
        OBVIOUS
      <4> QED
        BY <3>1, <4>1, <4>2, Zenon
    <3>2. CASE j # i /\ j # 0
      <4>1. g[j] = f[j] /\ g[j - 1] = f[j - 1]
        BY <3>2
      <4>2. j \in 0 .. i - 1
        BY <3>2
      <4> QED
        BY <2>2, <3>2, <4>1, <4>2, Zenon
    <3>3. CASE j = 0
      <4>1. g[0] = f[0] /\ 0 \in 0 .. i - 1
        OBVIOUS
      <4> QED
        BY <2>2, <3>3, <4>1, Zenon
    <3> QED
      BY <3>1, <3>2, <3>3
  <2>4. g = [j \in 0 .. i |-> g[j]]
    BY Zenon
  <2> HIDE DEF g
  <2>5. Filters(g, s, i)
    BY <2>3, <2>4, Zenon DEF Filters
  <2> QED
    BY <2>5
<1> HIDE DEF S
<1>3. 0 .. n \subseteq S
  BY ONLY n \in Nat, <1>1, <1>2, UpTo, Zenon
<1> QED
  BY <1>3 DEF S

LEMMA PassedIs ==
  ASSUME NEW s, Len(s) \in Nat
  PROVE  \E f : Filters(f, s, Len(s)) /\ Passed(s) = f[Len(s)]
<1> DEFINE p == CHOOSE f : Filters(f, s, Len(s))
<1>1. Filters(p, s, Len(s))
  BY FiltersExists, Zenon
<1>2. Passed(s) = p[Len(s)]
  BY Zenon DEF Passed, Filters
<1> QED
  BY <1>1, <1>2, Zenon

Follows(f, s, n) == \A i \in 1 .. n : f[i] = f[i - 1] \o Pass(s[i])

LEMMA FiltersAt ==
  ASSUME NEW f, NEW s, NEW n \in Nat, Filters(f, s, n)
  PROVE  f[0] = << >> /\ Follows(f, s, n)
<1>1. \A i \in 0 .. n : f[i] = IF i = 0 THEN << >> ELSE f[i - 1] \o Pass(s[i])
  BY Zenon DEF Filters
<1>2. 0 \in 0 .. n /\ \A i \in 1 .. n : i \in 0 .. n /\ i # 0
  OBVIOUS
<1> QED
  BY <1>1, <1>2, Zenon DEF Follows

\* What the filter makes of the first packets does not depend on the others.
LEMMA FiltersAgree ==
  ASSUME NEW f, NEW s, NEW m \in Nat, Filters(f, s, m),
         NEW g, NEW t, NEW n \in Nat, Filters(g, t, n),
         m <= n, \A i \in 1 .. m : s[i] = t[i]
  PROVE  f[m] = g[m]
<1> DEFINE S == {i \in 0 .. m : f[i] = g[i]}
<1>1. 0 \in S
  <2>1. 0 \in 0 .. m
    OBVIOUS
  <2>2. f[0] = g[0]
    BY FiltersAt, Zenon
  <2> QED
    BY <2>1, <2>2
<1>2. ASSUME NEW i \in 1 .. m, i - 1 \in S PROVE i \in S
  <2>1. i \in 1 .. n /\ i \in 0 .. m
    OBVIOUS
  <2>2. f[i] = f[i - 1] \o Pass(s[i]) /\ g[i] = g[i - 1] \o Pass(t[i])
    <3>1. Follows(f, s, m) /\ Follows(g, t, n)
      BY FiltersAt, Zenon
    <3> QED
      BY ONLY <2>1, <3>1, i \in 1 .. m, Zenon DEF Follows
  <2>3. f[i - 1] = g[i - 1] /\ s[i] = t[i]
    BY <1>2
  <2> QED
    BY <2>1, <2>2, <2>3, Zenon
<1> HIDE DEF S
<1>3. 0 .. m \subseteq S
  BY ONLY m \in Nat, <1>1, <1>2, UpTo, Zenon
<1>4. m \in S
  BY <1>3
<1> QED
  BY <1>4 DEF S

LEMMA PassType == ASSUME NEW n \in Nat PROVE Pass(n) \in Seq(Nat)
  BY DEF Pass

LEMMA PassedType ==
  ASSUME NEW s \in Seq(Nat)
  PROVE  Passed(s) \in Seq(Nat)
<1>1. PICK n \in Nat : n = Len(s)
  OBVIOUS
<1>2. PICK f : Filters(f, s, n) /\ Passed(s) = f[n]
  BY <1>1, PassedIs, Zenon
<1> DEFINE S == {i \in 0 .. n : f[i] \in Seq(Nat)}
<1>3. 0 \in S
  <2>1. << >> \in Seq(Nat) /\ 0 \in 0 .. n
    OBVIOUS
  <2>2. f[0] = << >>
    BY <1>2, FiltersAt, Zenon
  <2> QED
    BY <2>1, <2>2
<1>4. ASSUME NEW i \in 1 .. n, i - 1 \in S PROVE i \in S
  <2>1. f[i] = f[i - 1] \o Pass(s[i])
    BY <1>2, FiltersAt, Zenon DEF Follows
  <2>2. s[i] \in Nat
    BY <1>1
  <2>3. Pass(s[i]) \in Seq(Nat) /\ f[i - 1] \in Seq(Nat)
    BY <1>4, <2>2, PassType
  <2>4. f[i - 1] \o Pass(s[i]) \in Seq(Nat)
    BY ONLY <2>3, SMT
  <2>5. f[i] \in Seq(Nat) /\ i \in 0 .. n
    BY <2>1, <2>4
  <2> QED
    BY <2>5
<1> HIDE DEF S
<1>5. 0 .. n \subseteq S
  BY ONLY n \in Nat, <1>3, <1>4, UpTo, Zenon
<1>6. n \in S
  BY <1>5
<1> QED
  BY <1>2, <1>6 DEF S

LEMMA PassedEmpty == Passed(<< >>) = << >>
<1>1. Len(<< >>) = 0 /\ 0 \in Nat
  OBVIOUS
<1>2. PICK f : Filters(f, << >>, 0) /\ Passed(<< >>) = f[0]
  BY <1>1, PassedIs, Zenon
<1> QED
  BY <1>1, <1>2, FiltersAt, Zenon

\* A packet that comes at the end.
LEMMA PassedAppend ==
  ASSUME NEW s \in Seq(Nat), NEW e \in Nat
  PROVE  Passed(Append(s, e)) = Passed(s) \o Pass(e)
<1>0. PICK n \in Nat : n = Len(s)
  OBVIOUS
<1>1. PICK t : n = Len(s) /\ t = Append(s, e)
  BY <1>0
<1>2. Len(t) = n + 1 /\ n + 1 \in Nat /\ t[n + 1] = e /\ \A i \in 1 .. n : s[i] = t[i]
  BY <1>1
<1>3. PICK f : Filters(f, s, n) /\ Passed(s) = f[n]
  BY <1>1, PassedIs, Zenon
<1>4. PICK g : Filters(g, t, n + 1) /\ Passed(t) = g[n + 1]
  BY <1>2, PassedIs, Zenon
<1>5. f[n] = g[n]
  <2>1. n <= n + 1
    OBVIOUS
  <2>2. \A i \in 1 .. n : s[i] = t[i]
    BY <1>2
  <2> QED
    BY ONLY n \in Nat, n + 1 \in Nat, <1>2, <1>3, <1>4, <2>1, <2>2, FiltersAgree
<1>6. g[n + 1] = g[n] \o Pass(t[n + 1])
  <2>1. n + 1 \in 1 .. n + 1 /\ (n + 1) - 1 = n
    OBVIOUS
  <2>2. \A i \in 1 .. n + 1 : g[i] = g[i - 1] \o Pass(t[i])
    <3>1. Follows(g, t, n + 1)
      BY ONLY <1>2, <1>4, FiltersAt, Zenon
    <3> QED
      BY <3>1, Zenon DEF Follows
  <2>3. g[n + 1] = g[(n + 1) - 1] \o Pass(t[n + 1])
    BY ONLY <2>1, <2>2, Zenon
  <2> QED
    BY <2>1, <2>3, Zenon
<1> QED
  BY <1>1, <1>2, <1>3, <1>4, <1>5, <1>6, Zenon

LEMMA ConcatAssociates ==
  ASSUME NEW p \in Seq(Nat), NEW q \in Seq(Nat), NEW r \in Seq(Nat)
  PROVE  /\ p \o q \in Seq(Nat)
         /\ (p \o q) \o r = p \o (q \o r)
  OBVIOUS

LEMMA EmptyOnly ==
  ASSUME NEW t \in Seq(Nat), Len(t) = 0
  PROVE  t = << >>
  OBVIOUS

\* A sequence of more than one packet, without its last.
LEMMA WithoutLast ==
  ASSUME NEW u \in Seq(Nat), NEW k \in Nat \ {0}, Len(u) = k + 1
  PROVE  \E v \in Seq(Nat), e \in Nat :
           /\ u = Append(v, e)
           /\ Len(v) = k
           /\ v # << >>
           /\ Head(u) = Head(v)
           /\ Tail(v) \in Seq(Nat)
           /\ Tail(u) = Append(Tail(v), e)
<1>1. PICK v : v = [i \in 1 .. k |-> u[i]]
  OBVIOUS
<1>2. PICK e \in Nat : e = u[k + 1]
  OBVIOUS
<1>3. \A i \in 1 .. k : u[i] \in Nat
  OBVIOUS
<1>4. v \in Seq(Nat) /\ Len(v) = k
  BY <1>1, <1>3
<1>5. u = Append(v, e)
  <2>1. Append(v, e) \in Seq(Nat) /\ Len(Append(v, e)) = k + 1
    BY <1>4
  <2>2. \A i \in 1 .. k + 1 : Append(v, e)[i] = u[i]
    BY <1>1, <1>2, <1>4
  <2> QED
    BY <2>1, <2>2
<1>6. v # << >> /\ Tail(v) \in Seq(Nat) /\ Head(u) = Head(v)
  <2>1. v # << >>
    BY ONLY <1>4, k \in Nat \ {0}
  <2>2. Tail(v) \in Seq(Nat) /\ Head(v) = v[1]
    BY ONLY <1>4, <2>1
  <2>3. v[1] = u[1]
    BY ONLY <1>1, k \in Nat \ {0}
  <2>4. Head(u) = u[1]
    BY ONLY u \in Seq(Nat), Len(u) = k + 1, k \in Nat \ {0}
  <2> QED
    BY <2>1, <2>2, <2>3, <2>4
<1>7. Tail(Append(v, e)) = Append(Tail(v), e)
  BY ONLY <1>4, e \in Nat, k \in Nat \ {0}
<1> QED
  BY <1>4, <1>5, <1>6, <1>7, Zenon

Splits(u) == Passed(u) = Pass(Head(u)) \o Passed(Tail(u))

\* The packet that is taken from the front.
LEMMA PassedFirst ==
  ASSUME NEW s \in Seq(Nat), s # << >>
  PROVE  Passed(s) = Pass(Head(s)) \o Passed(Tail(s))
<1>1. PICK n \in Nat : Len(s) = n + 1
  <2>1. Len(s) \in Nat /\ Len(s) # 0
    OBVIOUS
  <2>2. Len(s) - 1 \in Nat /\ Len(s) = (Len(s) - 1) + 1
    BY <2>1
  <2> QED
    BY <2>2
<1> DEFINE S == {k \in 0 .. n : \A u \in Seq(Nat) : Len(u) = k + 1 => Splits(u)}
<1>2. ASSUME NEW u \in Seq(Nat), Len(u) = 1 PROVE Splits(u)
  <2>0. Len(u) = 1
    BY <1>2
  <2>1. PICK e \in Nat : e = u[1]
    <3>1. 1 \in DOMAIN u
      BY ONLY u \in Seq(Nat), <2>0
    <3>2. u[1] \in Nat
      BY ONLY u \in Seq(Nat), <3>1
    <3> QED
      BY <3>2
  <2>2. u = Append(<< >>, e) /\ Head(u) = e /\ Tail(u) = << >> /\ << >> \in Seq(Nat)
    <3>1. Head(u) = e
      BY ONLY u \in Seq(Nat), <2>0, <2>1
    <3>2. << >> \in Seq(Nat)
      OBVIOUS
    <3>3. Tail(u) = << >>
      <4>1. u # << >>
        <5>1. Len(<< >>) = 0 /\ 0 # 1
          OBVIOUS
        <5> QED
          BY ONLY <2>0, <5>1, Zenon
      <4>2. Tail(u) \in Seq(Nat) /\ Len(Tail(u)) = Len(u) - 1
        BY ONLY u \in Seq(Nat), <4>1
      <4>3. PICK t \in Seq(Nat) : t = Tail(u) /\ Len(t) = 0
        <5>1. Len(u) - 1 = 0
          BY ONLY <2>0
        <5> QED
          BY ONLY <4>2, <5>1, Zenon
      <4>4. t = << >>
        BY <4>3, EmptyOnly, Zenon
      <4> QED
        BY <4>3, <4>4
    <3>4. u = <<e>>
      BY ONLY u \in Seq(Nat), <2>0, <2>1
    <3>5. Append(<< >>, e) = <<e>>
      BY ONLY e \in Nat
    <3> QED
      BY <3>1, <3>2, <3>3, <3>4, <3>5
  <2>3. Passed(u) = << >> \o Pass(e)
    BY <2>2, PassedAppend, PassedEmpty, Zenon
  <2>4. << >> \o Pass(e) = Pass(e) \o << >>
    <3>1. Pass(e) \in Seq(Nat)
      BY PassType
    <3> QED
      BY ONLY <3>1
  <2> QED
    BY <2>2, <2>3, <2>4, PassedEmpty, Zenon DEF Splits
<1>3. 0 \in S
  BY <1>2
<1>4. ASSUME NEW i \in 1 .. n, i - 1 \in S PROVE i \in S
  <2>1. ASSUME NEW u \in Seq(Nat), Len(u) = i + 1 PROVE Splits(u)
    <3>0. i \in Nat \ {0}
      OBVIOUS
    <3>1. PICK v \in Seq(Nat), e \in Nat :
            /\ u = Append(v, e)
            /\ Len(v) = i
            /\ v # << >>
            /\ Head(u) = Head(v)
            /\ Tail(v) \in Seq(Nat)
            /\ Tail(u) = Append(Tail(v), e)
      BY <2>1, <3>0, WithoutLast, Zenon
    <3>2. Len(v) = (i - 1) + 1
      BY <3>1
    <3>3. Splits(v)
      BY <1>4, <3>2, Zenon
    <3>4. Passed(u) = (Pass(Head(v)) \o Passed(Tail(v))) \o Pass(e)
      BY <3>1, <3>3, PassedAppend, Zenon DEF Splits
    <3>5. Passed(Tail(u)) = Passed(Tail(v)) \o Pass(e)
      BY <3>1, PassedAppend, Zenon
    <3>6. Head(v) \in Nat
      BY <3>1
    <3>7. Pass(Head(v)) \in Seq(Nat) /\ Passed(Tail(v)) \in Seq(Nat) /\ Pass(e) \in Seq(Nat)
      BY <3>1, <3>6, PassType, PassedType, Zenon
    <3>8. Passed(u) = Pass(Head(v)) \o (Passed(Tail(v)) \o Pass(e))
      <4>1. PICK p \in Seq(Nat), q \in Seq(Nat), r \in Seq(Nat) :
              p = Pass(Head(v)) /\ q = Passed(Tail(v)) /\ r = Pass(e)
        BY ONLY <3>7, Zenon
      <4>2. (p \o q) \o r = p \o (q \o r)
        BY ONLY p \in Seq(Nat), q \in Seq(Nat), r \in Seq(Nat), SMTT(30)
      <4> QED
        BY ONLY <3>4, <4>1, <4>2, Zenon
    <3>9. Passed(u) = Pass(Head(u)) \o Passed(Tail(u))
      BY ONLY <3>1, <3>5, <3>8, Zenon
    <3> QED
      BY ONLY <3>9, Zenon DEF Splits
  <2>2. i \in 0 .. n
    OBVIOUS
  <2> QED
    BY <2>1, <2>2
<1> HIDE DEF S
<1>5. 0 .. n \subseteq S
  BY ONLY n \in Nat, <1>3, <1>4, UpTo, Zenon
<1>6. n \in S
  BY <1>5
<1>7. Splits(s)
  BY <1>1, <1>6, Zenon DEF S
<1> QED
  BY <1>7, Zenon DEF Splits

LEMMA PrefixOf ==
  ASSUME NEW p \in Seq(Nat), NEW q \in Seq(Nat)
  PROVE  IsPrefix(p, p \o q)
  BY DEF IsPrefix

\* As long as the filter runs, what was read, what it holds and what it will make of
\* the packets that wait is what it makes of all the packets that found room.  When
\* it stops it may drop packets, but what was read stays what it is.
ConnInv ==
  /\ arrived \in Nat
  /\ incoming \in Seq(Nat) /\ kept \in Seq(Nat) /\ held \in Seq(Nat) /\ read \in Seq(Nat)
  /\ filter # "send" => held = << >>
  /\ filter # "stopped" => (read \o held) \o Passed(incoming) = Passed(kept)
  /\ filter = "stopped" => closed /\ IsPrefix(read, Passed(kept))

LEMMA ConnBegins == ConnInit => ConnInv
<1> SUFFICES ASSUME ConnInit PROVE ConnInv
  OBVIOUS
<1>1. << >> \in Seq(Nat) /\ (<< >> \o << >>) \o << >> = << >>
  OBVIOUS
<1> QED
  BY <1>1, PassedEmpty, Zenon DEF ConnInit, ConnInv

\* A packet that arrives waits at the end.
LEMMA ConnArrive ==
  ASSUME ConnInv, Arrive
  PROVE  ConnInv'
<1>1. CASE Len(incoming) < Room
  <2>1. PICK e \in Nat : e = arrived + 1
    BY DEF ConnInv
  <2>2. /\ arrived' = e
        /\ incoming' = Append(incoming, e)
        /\ kept' = Append(kept, e)
        /\ UNCHANGED <<closed, filter, held, read>>
        /\ ~closed
    BY <1>1, <2>1, Zenon DEF Arrive, filterVars
  <2>3. incoming' \in Seq(Nat) /\ kept' \in Seq(Nat)
    BY <2>2 DEF ConnInv
  <2>4. Passed(incoming') = Passed(incoming) \o Pass(e)
        /\ Passed(kept') = Passed(kept) \o Pass(e)
    BY <2>2, PassedAppend, Zenon DEF ConnInv
  <2>5. filter # "stopped"
    BY <2>2, Zenon DEF ConnInv
  <2>6. (read \o held) \o Passed(incoming') = Passed(kept')
    <3>1. PICK p \in Seq(Nat), q \in Seq(Nat), r \in Seq(Nat) :
            p = read \o held /\ q = Passed(incoming) /\ r = Pass(e)
      <4>1. read \o held \in Seq(Nat)
        BY ConcatAssociates DEF ConnInv
      <4>2. Passed(incoming) \in Seq(Nat) /\ Pass(e) \in Seq(Nat)
        BY PassType, PassedType, Zenon DEF ConnInv
      <4> QED
        BY ONLY <4>1, <4>2, Zenon
    <3>2. (p \o q) \o r = p \o (q \o r)
      BY ONLY p \in Seq(Nat), q \in Seq(Nat), r \in Seq(Nat)
    <3>3. p \o q = Passed(kept)
      BY <2>5, <3>1, Zenon DEF ConnInv
    <3> QED
      BY ONLY <2>4, <3>1, <3>2, <3>3, Zenon
  <2>7. Passed(incoming)' = Passed(incoming') /\ Passed(kept)' = Passed(kept')
    BY Zenon DEF Passed, Pass
  <2> QED
    BY <2>2, <2>3, <2>5, <2>6, <2>7, Zenon DEF ConnInv
<1>2. CASE ~(Len(incoming) < Room)
  <2>1. arrived' \in Nat
    BY DEF ConnInv, Arrive
  <2>2. UNCHANGED <<closed, incoming, kept, filter, held, read>>
    BY <1>2, Zenon DEF Arrive, filterVars
  <2>3. UNCHANGED <<Passed(incoming), Passed(kept)>>
    BY <2>2, Zenon DEF Passed, Pass
  <2> QED
    BY <2>1, <2>2, <2>3, Zenon DEF ConnInv, IsPrefix
<1> QED
  BY <1>1, <1>2

\* Steps that leave the packets alone, of which one may close the connection.
LEMMA ConnAside ==
  ASSUME ConnInv, UNCHANGED <<incoming, arrived, kept, filter, held, read>>, closed => closed'
  PROVE  ConnInv'
<1>1. UNCHANGED <<Passed(incoming), Passed(kept)>>
  BY Zenon DEF Passed, Pass
<1> QED
  BY <1>1, Zenon DEF ConnInv, IsPrefix

\* The goroutine of the filter takes the packet at the front.
LEMMA ConnReceive ==
  ASSUME ConnInv, FilterReceive
  PROVE  ConnInv'
<1>1. /\ filter = "receive" /\ incoming # << >>
      /\ incoming' = Tail(incoming)
      /\ IF Head(incoming) \in Wanted
         THEN filter' = "send" /\ held' = <<Head(incoming)>>
         ELSE UNCHANGED <<filter, held>>
      /\ UNCHANGED <<closed, arrived, kept, read>>
  BY Zenon DEF FilterReceive
<1>2. PICK h \in Nat, t \in Seq(Nat) : h = Head(incoming) /\ t = Tail(incoming)
  <2>1. incoming \in Seq(Nat) /\ incoming # << >>
    BY <1>1 DEF ConnInv
  <2>2. Head(incoming) \in Nat /\ Tail(incoming) \in Seq(Nat)
    BY ONLY <2>1
  <2> QED
    BY <2>2, Zenon
<1>3. held = << >> /\ held' = Pass(h)
  <2>1. held = << >>
    BY <1>1, Zenon DEF ConnInv
  <2> QED
    BY <1>1, <1>2, <2>1, Zenon DEF Pass
<1>4. (read \o held) \o (Pass(h) \o Passed(t)) = Passed(kept)
  <2>1. Passed(incoming) = Pass(h) \o Passed(t)
    BY <1>1, <1>2, PassedFirst, Zenon DEF ConnInv
  <2>2. (read \o held) \o Passed(incoming) = Passed(kept)
    BY <1>1, Zenon DEF ConnInv
  <2> QED
    BY <2>1, <2>2, Zenon
<1>5. (read \o held') \o Passed(t) = Passed(kept)
  <2>1. PICK p \in Seq(Nat), q \in Seq(Nat), r \in Seq(Nat) :
          p = read /\ q = Pass(h) /\ r = Passed(t)
    BY PassType, PassedType, Zenon DEF ConnInv
  <2>2. p \o << >> = p /\ p \o (q \o r) = (p \o q) \o r
    BY ONLY p \in Seq(Nat), q \in Seq(Nat), r \in Seq(Nat)
  <2> QED
    BY ONLY <1>3, <1>4, <2>1, <2>2, Zenon
<1>6. Passed(incoming)' = Passed(t) /\ Passed(kept)' = Passed(kept)
  BY <1>1, <1>2, Zenon DEF Passed, Pass
<1>7. held' \in Seq(Nat) /\ (filter' # "send" => held' = << >>) /\ filter' # "stopped"
  <2>1. held' \in Seq(Nat)
    BY <1>3, PassType, Zenon
  <2>2. filter' # "send" => held' = << >>
    BY <1>1, <1>3, Zenon
  <2>3. filter' = "send" \/ filter' = "receive"
    BY <1>1, Zenon
  <2>4. filter' # "stopped"
    BY <2>3
  <2> QED
    BY <2>1, <2>2, <2>4
<1> QED
  BY <1>1, <1>2, <1>5, <1>6, <1>7, Zenon DEF ConnInv

LEMMA ConnSend ==
  ASSUME ConnInv, NEW g, FilterSend(g)
  PROVE  ConnInv'
<1>1. /\ filter = "send" /\ filter' = "receive"
      /\ held' = << >>
      /\ read' = read \o held
      /\ UNCHANGED <<closed, incoming, arrived, kept>>
  BY Zenon DEF FilterSend, streamVars
<1>2. read' \in Seq(Nat) /\ << >> \in Seq(Nat)
  BY <1>1 DEF ConnInv
<1>3. read' \o << >> = read \o held
  <2>1. read' \o << >> = read'
    BY ONLY <1>2
  <2> QED
    BY <1>1, <2>1
<1>4. filter # "stopped" /\ filter' # "stopped" /\ filter' # "send"
  BY <1>1
<1>5. UNCHANGED <<Passed(incoming), Passed(kept)>>
  BY <1>1, Zenon DEF Passed, Pass
<1> QED
  BY <1>1, <1>2, <1>3, <1>4, <1>5, Zenon DEF ConnInv

\* What is read is a prefix as long as the filter runs.
LEMMA ReadIsPrefix ==
  ASSUME ConnInv
  PROVE  IsPrefix(read, Passed(kept))
<1>1. CASE filter # "stopped"
  <2>1. PICK p \in Seq(Nat), q \in Seq(Nat), r \in Seq(Nat) :
          p = read /\ q = held /\ r = Passed(incoming)
    BY PassedType, Zenon DEF ConnInv
  <2>2. (p \o q) \o r = p \o (q \o r) /\ q \o r \in Seq(Nat)
    BY ONLY p \in Seq(Nat), q \in Seq(Nat), r \in Seq(Nat)
  <2>3. IsPrefix(p, p \o (q \o r))
    BY <2>2, PrefixOf, Zenon
  <2>4. (p \o q) \o r = Passed(kept)
    BY <1>1, <2>1, Zenon DEF ConnInv
  <2> QED
    BY <2>1, <2>2, <2>3, <2>4, Zenon
<1>2. CASE filter = "stopped"
  BY <1>2, Zenon DEF ConnInv
<1> QED
  BY <1>1, <1>2

LEMMA ConnStop ==
  ASSUME ConnInv, FilterStop
  PROVE  ConnInv'
<1>1. /\ closed /\ filter' = "stopped" /\ held' = << >>
      /\ UNCHANGED <<closed, incoming, arrived, kept, read>>
  BY Zenon DEF FilterStop, streamVars
<1>2. << >> \in Seq(Nat)
  OBVIOUS
<1>3. IsPrefix(read, Passed(kept))'
  <2>1. Passed(kept)' = Passed(kept)
    BY <1>1, Zenon DEF Passed, Pass
  <2>2. IsPrefix(read, Passed(kept))
    BY ReadIsPrefix
  <2> QED
    BY <1>1, <2>1, <2>2, Zenon DEF IsPrefix
<1> QED
  BY <1>1, <1>2, <1>3, Zenon DEF ConnInv

LEMMA ConnStep ==
  ASSUME ConnInv, [ConnNext]_allConnVars
  PROVE  ConnInv'
<1>1. CASE Arrive
  BY <1>1, ConnArrive
<1>2. CASE CloseConn
  BY <1>2, ConnAside, Zenon DEF CloseConn, filterVars
<1>3. CASE FilterReceive
  BY <1>3, ConnReceive
<1>4. CASE FilterStop
  BY <1>4, ConnStop
<1>5. ASSUME NEW g, FilterSend(g) PROVE ConnInv'
  BY <1>5, ConnSend, Zenon
<1>6. ASSUME NEW g, WriteSends(g) \/ Call(g) \/ CallEnds(g) PROVE ConnInv'
  <2>1. WriteSends(g) => UNCHANGED <<streamVars, filterVars>>
    BY Zenon DEF WriteSends
  <2>2. Call(g) => UNCHANGED <<streamVars, filterVars>>
    BY Zenon DEF Call
  <2>3. CallEnds(g) => UNCHANGED <<streamVars, filterVars>>
    BY Zenon DEF CallEnds
  <2>4. UNCHANGED <<streamVars, filterVars>>
    BY <1>6, <2>1, <2>2, <2>3, Zenon
  <2> QED
    BY <2>4, ConnAside, Zenon DEF filterVars, streamVars
<1>7. ASSUME NEW s, NEW zero, SetDeadline(s, zero) \/ TimerFires(s) \/ Callback(s)
      PROVE  ConnInv'
  <2>1. SetDeadline(s, zero) => UNCHANGED <<streamVars, filterVars>>
    BY Zenon DEF SetDeadline
  <2>2. TimerFires(s) => UNCHANGED <<streamVars, filterVars>>
    BY Zenon DEF TimerFires
  <2>3. Callback(s) => UNCHANGED <<streamVars, filterVars>>
    BY Zenon DEF Callback
  <2>4. UNCHANGED <<streamVars, filterVars>>
    BY <1>7, <2>1, <2>2, <2>3, Zenon
  <2> QED
    BY <2>4, ConnAside, Zenon DEF filterVars, streamVars
<1>8. CASE UNCHANGED allConnVars
  BY <1>8, ConnAside, Zenon DEF allConnVars, filterVars, streamVars
<1> QED
  BY <1>1, <1>2, <1>3, <1>4, <1>5, <1>6, <1>7, <1>8, Zenon DEF ConnNext

\* Readers of a connection get the packets that the filter lets through in the order
\* they came, each once, and none is lost between filterChan and the calls of
\* ReadPacket that time out (net_helpers.go), until the connection is closed.
THEOREM NoPacketIsLost == ConnSpec => []NothingLost
<1>1. ConnInit => ConnInv
  BY ConnBegins
<1>2. ConnInv /\ [ConnNext]_allConnVars => ConnInv'
  BY ConnStep
<1>3. ConnInv => NothingLost
  <2> SUFFICES ASSUME ConnInv PROVE NothingLost
    OBVIOUS
  <2>1. IsPrefix(read, Passed(kept))
    BY ReadIsPrefix
  <2>2. ~closed => (read \o held) \o Passed(incoming) = Passed(kept)
    BY Zenon DEF ConnInv
  <2> QED
    BY <2>1, <2>2, Zenon DEF NothingLost
<1> QED
  BY <1>1, <1>2, <1>3, PTL DEF ConnSpec
============================================================================

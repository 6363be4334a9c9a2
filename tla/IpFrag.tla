-------------------------------- MODULE IpFrag --------------------------------
(***************************************************************************)
(* Identifiers, fragmentation and reassembly of IPv4 packets               *)
(* (AddIPv4Identifiers in src/ipstack/ip.go, src/ipstack/ip_frag.go):      *)
(* hosts that send packets through an ipv4Fragmenter, a network that       *)
(* loses, repeats and reorders fragments, and one ipv4Defragmenter.        *)
(*                                                                         *)
(* Packets of a source are numbered in the order they are sent.  Of a      *)
(* fragment the model keeps the fields the code looks at, and the packet   *)
(* it was cut from.  A packet with room for all of it is its own fragment. *)
(***************************************************************************)
EXTENDS Integers, Sequences, FiniteSets, SequencesExt

CONSTANTS
  Sources,       \* source addresses
  Unit,          \* unit of fragment offsets, 8 in the code
  Header,        \* length of a header
  MTUs,          \* values of the mtu argument
  Lengths,       \* lengths of payloads
  Ids,           \* number of identifiers, 2^16 in the code
  MaxSent,       \* bound: packets of all sources
  MaxInNetwork,  \* bound: fragments in the network
  MaxFragments   \* bound: fragments in a reconstruction

ASSUME FragAssumption ==
  /\ Unit \in Nat \ {0}
  /\ Header \in Nat
  /\ MTUs \subseteq {n \in Nat : n > Header}
  /\ Lengths \subseteq Nat \ {0}
  /\ Ids \in Nat \ {0}
  /\ {MaxSent, MaxInNetwork, MaxFragments} \subseteq Nat

VARIABLES
  mtu,     \* the fragmenters' mtu
  sent,    \* history: the packets of each source
  net,     \* fragments in the network
  recons,  \* i.reconstructions, oldest first
  got      \* history: the fragments of the packet delivered last

vars == <<mtu, sent, net, recons, got>>

----------------------------------------------------------------------------
(* AddIPv4Identifiers and ipv4Fragmenter *)

\* The identifiers of a source, from a counter that wraps.
Id(pkt) == (pkt - 1) % Ids

MaxPayload == ((mtu - Header) \div Unit) * Unit

\* Mutant of Cut: the last piece counts as full.
CutWithFullPieces(s, n, len) ==
  [i \in 1 .. (len + MaxPayload - 1) \div MaxPayload |->
     [src |-> s, pkt |-> n, id |-> Id(n), off |-> ((i - 1) * MaxPayload) \div Unit,
      len |-> MaxPayload, more |-> i * MaxPayload < len]]

\* The loop of fragments: pieces of MaxPayload bytes, and the rest.
Cut(s, n, len) ==
  [i \in 1 .. (len + MaxPayload - 1) \div MaxPayload |->
     LET offset == (i - 1) * MaxPayload
         chunk  == IF len - offset < MaxPayload THEN len - offset ELSE MaxPayload
     IN [src |-> s, pkt |-> n, id |-> Id(n), off |-> offset \div Unit, len |-> chunk,
         more |-> offset + chunk < len]]

\* What becomes of p, packet n of s.
FragmentsOf(s, n, p) ==
  IF Header + p.len < mtu
  THEN <<[src |-> s, pkt |-> n, id |-> Id(n), off |-> 0, len |-> p.len, more |-> FALSE]>>
  ELSE IF p.dontFrag \/ MaxPayload = 0 THEN << >> ELSE Cut(s, n, p.len)

Fragments(s, n) == FragmentsOf(s, n, sent[s][n])

Init ==
  /\ mtu \in MTUs
  /\ sent = [s \in Sources |-> << >>]
  /\ net = {}
  /\ recons = << >>
  /\ got = << >>

\* A packet is sent.  When its identifier was used before, no fragment of the
\* earlier packet is in the network any more.
Send(s, len, dontFrag) ==
  LET n == Len(sent[s]) + 1
      p == [len |-> len, dontFrag |-> dontFrag]
  IN /\ MapThenSumSet(LAMBDA t : Len(sent[t]), Sources) < MaxSent
     /\ \A f \in net : ~(f.src = s /\ f.id = Id(n))
     /\ sent' = [sent EXCEPT ![s] = Append(@, p)]
     /\ net' = net \union ToSet(FragmentsOf(s, n, p))
     /\ Cardinality(net') <= MaxInNetwork
     /\ UNCHANGED <<mtu, recons, got>>

----------------------------------------------------------------------------
(* ipv4Reconstruction *)

\* Mutant of AddFragment: fragments are kept in the order they arrive.
AppendFragment(frags, f) == Append(frags, f)

\* Where sort.Search puts f, and whether the fragment that is there is the
\* same one.
AddFragment(frags, f) ==
  LET idx == Cardinality({i \in DOMAIN frags : ~(f.off < frags[i].off)}) + 1 IN
  IF idx <= Len(frags) /\ frags[idx].off = f.off
  THEN frags
  ELSE InsertAt(frags, idx, f)

\* The last fragment is the end of the packet, and there are no gaps.
Ready(frags) ==
  /\ ~frags[Len(frags)].more
  /\ frags[1].off = 0
  /\ \A i \in 1 .. Len(frags) - 1 :
       frags[i + 1].off * Unit = frags[i].off * Unit + frags[i].len

----------------------------------------------------------------------------
(* ipv4Defragmenter *)

\* A reconstruction that has been there so long that its identifier was used
\* again: the timeout is shorter than that.
Stale(r) == r.frags[1].pkt + Ids <= Len(sent[r.src])

\* dropOld: reconstructions are kept in the order of their DropTime, so the
\* ones it drops come first.
DropOld(k) ==
  /\ \A j \in DOMAIN recons : Stale(recons[j]) => j <= k
  /\ k \in 0 .. Len(recons)

\* Mutant of Matches: the source is not looked at.
MatchesId(r, f) == r.id = f.id

Matches(r, f) == r.id = f.id /\ r.src = f.src

AddPacket(f) ==
  \E k \in 0 .. Len(recons) :
    /\ DropOld(k)
    /\ LET live == SubSeq(recons, k + 1, Len(recons))
           hits == {j \in DOMAIN live : Matches(live[j], f)}
       IN \/ /\ hits = {}
             /\ recons' = Append(live, [src |-> f.src, id |-> f.id, frags |-> <<f>>])
             /\ UNCHANGED got
          \/ /\ hits # {}
             /\ LET j == CHOOSE i \in hits : \A h \in hits : i <= h
                    frags == AddFragment(live[j].frags, f)
                IN /\ Len(frags) <= MaxFragments
                   /\ \/ /\ Ready(frags)
                         /\ recons' = RemoveAt(live, j)
                         /\ got' = frags
                      \/ /\ ~Ready(frags)
                         /\ recons' = [live EXCEPT ![j].frags = frags]
                         /\ UNCHANGED got

\* A fragment arrives, and may arrive again.
Deliver(f) ==
  /\ f \in net
  /\ \/ /\ f.more \/ f.off # 0
        /\ AddPacket(f)
     \/ /\ ~f.more /\ f.off = 0
        /\ got' = <<f>>
        /\ UNCHANGED recons
  /\ net' \in {net, net \ {f}}
  /\ UNCHANGED <<mtu, sent>>

Lose(f) ==
  /\ f \in net
  /\ net' = net \ {f}
  /\ UNCHANGED <<mtu, sent, recons, got>>

Next ==
  \/ \E s \in Sources, len \in Lengths, dontFrag \in BOOLEAN : Send(s, len, dontFrag)
  \/ \E f \in net : Deliver(f) \/ Lose(f)

Spec == Init /\ [][Next]_vars

----------------------------------------------------------------------------
(* Properties *)

\* No packet in the network is longer than the mtu, and the fragments of a
\* packet hold each byte of it once.
FragmentsFitAndCover ==
  /\ \A f \in net : Header + f.len <= mtu
  /\ \A s \in Sources : \A n \in DOMAIN sent[s] :
       LET frags == Fragments(s, n) IN
       frags # << >> =>
         \A b \in 0 .. sent[s][n].len + MaxPayload :
           Cardinality({i \in DOMAIN frags :
                          /\ frags[i].off * Unit <= b
                          /\ b < frags[i].off * Unit + frags[i].len})
             = IF b < sent[s][n].len THEN 1 ELSE 0

\* What is delivered is a packet that was sent: the fragments of one packet of
\* one source, all of them, in order, whatever the network did and although
\* identifiers are used again.
OnlyWholePackets ==
  got # << >> =>
    got[1].pkt \in DOMAIN sent[got[1].src] /\ got = Fragments(got[1].src, got[1].pkt)

Complete(r) == ToSet(r.frags) = ToSet(Fragments(r.src, r.frags[1].pkt))

\* A packet whose fragments have all arrived, each once and in whatever order,
\* is delivered and not kept.
CompleteIsDelivered ==
  \A j \in DOMAIN recons : IsInjective(recons[j].frags) => ~Complete(recons[j])
============================================================================

------------------------------ MODULE Formats ------------------------------
(***************************************************************************)
(* What is encoded, what may happen to it on the way, and what is made of  *)
(* it at the other end: a UDP datagram, a TCP segment, a ping, a DNS       *)
(* message, or bytes from which a domain name is read.                     *)
(***************************************************************************)
EXTENDS PacketFormats, DnsMessages, FiniteSets

CONSTANTS
  Endpoints,  \* addresses with ports
  Payloads,   \* what packets carry
  Numbers,    \* identifiers, sequence numbers and windows
  Messages,   \* DNS messages
  NameBytes   \* bytes that names are read from

\* Bytes, 16-bit numbers, and payloads that fit into a packet: its total length has
\* 16 bits, and the code does not check that what it sends can be said in them.
ASSUME FormatsAssumption ==
  /\ Endpoints \subseteq [ip : [1 .. 4 -> 0 .. 255], port : {n \in Nat : n < 65536}]
  /\ Numbers \subseteq {n \in Nat : n < 65536}
  /\ \A data \in Payloads : data \in Seq(0 .. 255) /\ 20 + 20 + Len(data) <= 65535
  /\ \A data \in NameBytes : data \in Seq(0 .. 255)

VARIABLES
  sent,       \* what was encoded; its kind
  wire,       \* the bytes
  changed,    \* whether a byte is not what it was
  got         \* what was made of them

formatsVars == <<sent, wire, changed, got>>

Nothing == [kind |-> "nothing"]
Dropped == [kind |-> "dropped"]

FormatsInit ==
  /\ sent = Nothing
  /\ wire = << >>
  /\ changed = FALSE
  /\ got = Nothing

----------------------------------------------------------------------------
(* Encoding *)

Put(what, bytes) ==
  /\ sent' = what
  /\ wire' = bytes
  /\ UNCHANGED <<changed, got>>

\* A UDP connection writes data, and the packet gets an identifier.
SendUDP(source, dest, data, id) ==
  Put([kind |-> "udp", source |-> source, dest |-> dest, data |-> data],
      AddIdentifier(NewUDP4Packet(64, source, dest, data), id))

\* sendSegment of a TCP connection, which sets FIN in the packet it has built.
SendTCP(source, dest, n, data, fin) ==
  LET packet == NewTCP4Packet(64, source, dest, <<n, 1>>, <<1, n>>, n, data, {"ACK"})
      at     == IPHeaderSize(packet)
      final  == SetTCPChecksum(SubSeq(packet, 1, at) \o SetFlag(IPPayload(packet), "FIN", TRUE))
  IN Put([kind |-> "tcp", source |-> source, dest |-> dest, seqNum |-> <<n, 1>>,
          ackNum |-> <<1, n>>, windowSize |-> n, data |-> data,
          flags |-> {"ACK"} \union (IF fin THEN {"FIN"} ELSE {})],
         IF fin THEN final ELSE packet)

\* The ping of a remote host.
Ping(source, dest, type, data) ==
  NewIPv4Packet(64, 1, source, dest, SetICMPChecksum(<<type>> \o Zeros(7) \o data))

SendPing(source, dest, data) ==
  Put([kind |-> "ping", source |-> source, dest |-> dest, data |-> data],
      Ping(source.ip, dest.ip, EchoRequest, data))

SendMessage(m) ==
  /\ Encodable(m)
  /\ Put([kind |-> "dns", message |-> AutoFill(m)], Encode(AutoFill(m)))

SendName(data) == Put([kind |-> "name"], data)

----------------------------------------------------------------------------
(* On the way *)

\* A byte of a packet is changed: not the first, which says how long the header
\* is, so that the wrong bytes could be summed up and by chance be right.
Corrupt(i, b) ==
  /\ sent.kind \in {"udp", "tcp", "ping"}
  /\ got = Nothing
  /\ ~changed
  /\ wire[i] # b
  /\ wire' = [wire EXCEPT ![i] = b]
  /\ changed' = TRUE
  /\ UNCHANGED <<sent, got>>

----------------------------------------------------------------------------
(* Decoding *)

Get(what) ==
  /\ got' = what
  /\ UNCHANGED <<sent, wire, changed>>

\* Past the filters of the stream and of the network, a connection reads it.
ReceiveUDP ==
  /\ sent.kind = "udp"
  /\ Get(IF IPFilters(wire, 17, sent.dest.ip) /\ UDPAccepts(wire)
         THEN [kind |-> "udp", source |-> UDPSource(wire), dest |-> UDPDest(wire),
               data |-> UDPPayload(wire)]
         ELSE Dropped)

ReceiveTCP ==
  /\ sent.kind = "tcp"
  /\ Get(IF IPFilters(wire, 6, sent.dest.ip) /\ TCPAccepts(wire)
         THEN LET h == TCPHeader(wire) IN
              [kind |-> "tcp", source |-> TCPSource(wire), dest |-> TCPDest(wire),
               seqNum |-> SeqNum(h), ackNum |-> AckNum(h), windowSize |-> WindowSize(h),
               data |-> TCPPayload(wire), flags |-> Flags(h)]
         ELSE Dropped)

Respond ==
  /\ sent.kind = "ping"
  /\ Get(IF IPFilters(wire, 1, sent.dest.ip) /\ RespondToPing(wire) # << >>
         THEN [kind |-> "reply", packet |-> RespondToPing(wire)]
         ELSE Dropped)

\* Of a message, the first k bytes arrive, or one more than there were.
ReceiveMessage(k) ==
  /\ sent.kind = "dns"
  /\ Get([kind |-> "dns", k |-> k, result |-> DecodeMessage(SubSeq(wire \o <<0>>, 1, k))])

ReceiveName(off) ==
  /\ sent.kind = "name"
  /\ Get([kind |-> "name", start |-> off, result |-> readDomain(wire, off)])

----------------------------------------------------------------------------

Send ==
  \/ \E source, dest \in Endpoints, data \in Payloads :
       \/ \E n \in Numbers : SendUDP(source, dest, data, n)
       \/ \E n \in Numbers, fin \in BOOLEAN : SendTCP(source, dest, n, data, fin)
       \/ SendPing(source, dest, data)
  \/ \E m \in Messages : SendMessage(m)
  \/ \E data \in NameBytes : SendName(data)

Receive ==
  \/ ReceiveUDP
  \/ ReceiveTCP
  \/ Respond
  \/ \E k \in 0 .. Len(wire) + 1 : ReceiveMessage(k)
  \/ \E off \in 0 .. Len(wire) : ReceiveName(off)

FormatsNext ==
  \/ sent = Nothing /\ Send
  \/ got = Nothing /\ Receive
  \/ \E i \in 2 .. Len(wire) : \E b \in {0, 255, (wire[i] + 1) % 256} : Corrupt(i, b)

FormatsSpec == FormatsInit /\ [][FormatsNext]_formatsVars

----------------------------------------------------------------------------
(* Properties *)

\* What a connection reads is what was written, to the last field, and everything
\* that was not changed on the way is read: no packet of NewUDP4Packet or
\* NewTCP4Packet is refused by the filters, whatever its length and its sums
\* (a UDP checksum that comes out as 0 too), and one in which a byte was changed
\* is never taken for another.
ArrivesOrIsDropped ==
  sent.kind \in {"udp", "tcp"} /\ got # Nothing => got = sent \/ (changed /\ got = Dropped)

\* A ping is answered with its data, from where it went, in a packet that is in
\* order; never if a byte of it was changed; and the answer is not answered again,
\* so that two responders are quiet.
RepliesAreFinal ==
  sent.kind = "ping" /\ got # Nothing =>
    \/ changed /\ got = Dropped
    \/ /\ ~changed
       /\ got = [kind |-> "reply",
                 packet |-> Ping(sent.dest.ip, sent.source.ip, EchoReply, sent.data)]
       /\ IPFilters(got.packet, 1, sent.source.ip)
       /\ RespondToPing(got.packet) = << >>

\* The names that RFC 1035 finds at an offset: labels are read one after the other
\* in the whole of the data, a pointer goes on at an earlier place, and no place is
\* visited twice.  RFC 1035 does not say that pointers may not overlap; here one may
\* not end with the first byte of another that led to it.
WalkName(data, start) ==
  LET walk[place \in (0 .. Len(data)) \X SUBSET (0 .. Len(data))] ==
        LET off      == place[1]
            visited  == place[2]
            length   == data[off + 1]
            ptr      == 256 * (length - 192) + data[off + 2]
            again    == visited \union {off}
            overlaps == off + 1 \in visited /\ data[off + 2] >= 192
        IN IF off >= Len(data) \/ off \in visited THEN {}
           ELSE IF length = 0 THEN {<< >>}
           ELSE IF length >= 192
           THEN IF off + 1 < Len(data) /\ ptr < off /\ ~overlaps THEN walk[<<ptr, again>>] ELSE {}
           ELSE IF length > 63 \/ off + 1 + length > Len(data) THEN {}
           ELSE {<<SubSeq(data, off + 2, off + 1 + length)>> \o name :
                    name \in walk[<<off + 1 + length, again>>]}
  IN {name \in walk[<<start, {}>>] : Validate(name)}

\* readDomain, which gives every pointer a reader of its own for the bytes before
\* it, finds exactly the names that WalkName does, and goes on behind the name in
\* the message and not where its pointers led.  The text of a name, with a dot at
\* its end or not, is parsed back to it; the root's, which is empty, is not.
NamesAgree ==
  got.kind = "name" =>
    LET r == got.result IN
    /\ WalkName(wire, got.start) = IF Failed(r) THEN {} ELSE {r.value}
    /\ ~Failed(r) =>
         LET last == Min({off \in got.start + 1 .. Len(wire) : wire[off] = 0 \/ wire[off] >= 192})
         IN r.off = IF wire[last] = 0 THEN last ELSE last + 1
    /\ ~Failed(r) /\ r.value # << >> =>
         \A text \in {String(r.value), Append(String(r.value), Dot)} :
           ParseDomainName(text) = Read(r.value, Len(text))

\* How many items of a message end within its first k bytes; a record without data
\* needs another byte behind it.
Kept(m, k) ==
  LET items == FlattenSeq([s \in 1 .. 4 |-> [i \in DOMAIN m.sections[s] |-> <<s, m.sections[s][i]>>]])
      End(n) == 12 + Len(FlattenSeq([i \in 1 .. n |-> EncodeItem(items[i][1], items[i][2])]))
      Empty(n) == items[n][1] # 1 /\ End(n) = End(n - 1) + Len(writeDomain(items[n][2].name)) + 10
  IN Cardinality({n \in DOMAIN items : End(n) < k \/ (End(n) = k /\ ~Empty(n))})

\* The first n items of a message.
FirstItems(m, n) ==
  LET Before(s) == FoldLeft(LAMBDA sum, t : sum + Len(t), 0, SubSeq(m.sections, 1, s - 1)) IN
  [s \in 1 .. 4 |-> [i \in {i \in DOMAIN m.sections[s] : i <= n - Before(s)} |-> m.sections[s][i]]]

\* A message that arrives whole decodes to what was encoded.  One that is cut off
\* decodes only if it says that it is truncated, and then to its header and every
\* item before the cut, at whatever byte that is; bytes behind the end are an error.
CutsDecode ==
  got.kind = "dns" =>
    LET m == sent.message
        r == got.result
        n == Kept(m, got.k)
        total == Len(FlattenSeq(m.sections))
    IN CASE got.k < 12                       -> Failed(r)
         [] got.k > Len(wire)                -> r.err = "excess"
         [] got.k \in 12 .. Len(wire)        ->
              IF n = total \/ m.header.truncated
              THEN r.err = "none" /\ r.value = [m EXCEPT !.sections = FirstItems(m, n)]
              ELSE r.err = "underflow"
=============================================================================

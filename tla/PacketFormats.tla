---------------------------- MODULE PacketFormats ----------------------------
(***************************************************************************)
(* IPv4, TCP, UDP and ICMP packets as bytes, their checksums, the filters  *)
(* that look at them and the answer to a ping (ip.go, tcp.go, udp.go,      *)
(* icmp.go and checksum.go in src/ipstack).  A packet is a sequence of     *)
(* bytes; offsets count from zero as in the code.  A 32-bit number is its  *)
(* two 16-bit words.                                                       *)
(***************************************************************************)
EXTENDS Integers, Sequences, FiniteSetsExt, SequencesExt

Bit(b) == IF b THEN 1 ELSE 0
\* As a tuple, which TLC's EXCEPT does not share between uses.
Zeros(n) == [i \in 1 .. n |-> 0] \o << >>
Drop(s, n) == SubSeq(s, n + 1, Len(s))

U16(s, off) == 256 * s[off + 1] + s[off + 2]
PutU16(s, off, v) == [s EXCEPT ![off + 1] = (v \div 256) % 256, ![off + 2] = v % 256]
U32(s, off) == <<U16(s, off), U16(s, off + 2)>>
PutU32(s, off, v) == PutU16(PutU16(s, off, v[1]), off + 2, v[2])

\* Bits are numbered from the lowest.
HasBit(byte, k) == (byte \div 2 ^ k) % 2 = 1
PutBit(byte, k, b) == byte + (Bit(b) - Bit(HasBit(byte, k))) * 2 ^ k

----------------------------------------------------------------------------
(* checksum.go *)

\* The folding of carries until the sum has 16 bits.
Carry[sum \in Nat] == IF sum < 65536 THEN sum ELSE Carry[(sum % 65536) + (sum \div 65536)]

\* Bytes in odd places, counted from one, are the high ones of their words.
WordSum(data) ==
  LET upTo[i \in 0 .. Len(data)] ==
        IF i = 0 THEN 0 ELSE upTo[i - 1] + (IF i % 2 = 1 THEN 256 * data[i] ELSE data[i])
  IN upTo[Len(data)]

InternetChecksum(data) == 65535 - Carry[WordSum(data)]

----------------------------------------------------------------------------
(* ip.go *)

IPHeaderSize(p) == 4 * (p[1] % 16)
IPPayload(p) == Drop(p, IPHeaderSize(p))
IPSource(p) == SubSeq(p, 13, 16)
IPDest(p) == SubSeq(p, 17, 20)
Proto(p) == p[10]

IPValid(p) ==
  /\ Len(p) >= 20
  /\ p[1] \div 16 = 4
  /\ IPHeaderSize(p) \in 20 .. Len(p)
  /\ U16(p, 2) = Len(p)

SetTotalLength(p) == PutU16(p, 2, Len(p))

IPChecksum(p) == InternetChecksum(SubSeq(p, 1, IPHeaderSize(p)))

SetIPChecksum(p) ==
  LET zeroed == PutU16(p, 10, 0) IN PutU16(zeroed, 10, IPChecksum(zeroed))

SetIPAddrs(p, source, dest) == SubSeq(p, 1, 12) \o source \o dest \o Drop(p, 20)

\* The checksum is that of the header: it is set before the payload is there.
NewIPv4Packet(ttl, proto, source, dest, payload) ==
  LET blank == SetTotalLength(<<69>> \o Zeros(19 + Len(payload)))
      named == SetIPAddrs([blank EXCEPT ![9] = ttl % 256, ![10] = proto % 256], source, dest)
  IN SubSeq(SetIPChecksum(named), 1, 20) \o payload

SetIdentification(p, id) == PutU16(p, 4, id)

MoreFrags(p) == HasBit(p[7], 5)
FragOffset(p) == U16(p, 6) % 8192

\* What AddIPv4Identifiers makes of a packet, << >> for nothing.
AddIdentifier(p, id) ==
  IF MoreFrags(p) \/ FragOffset(p) # 0 THEN << >> ELSE SetIPChecksum(SetIdentification(p, id))

\* FilterIPv4Valid, FilterIPv4Checksums, FilterIPv4Proto and FilterIPv4Dest.
IPFilters(p, proto, dest) ==
  IPValid(p) /\ IPChecksum(p) = 0 /\ Proto(p) = proto /\ IPDest(p) = dest

----------------------------------------------------------------------------
(* tcp.go *)

FlagNames == <<"NS", "CWR", "ECE", "URG", "ACK", "PSH", "RST", "SYN", "FIN">>
FlagIndex(f) == (CHOOSE i \in DOMAIN FlagNames : FlagNames[i] = f) - 1

HasFlag(h, f) == IF f = "NS" THEN HasBit(h[13], 0) ELSE HasBit(h[14], 8 - FlagIndex(f))
SetFlag(h, f, b) ==
  IF f = "NS" THEN [h EXCEPT ![13] = PutBit(@, 0, b)]
              ELSE [h EXCEPT ![14] = PutBit(@, 8 - FlagIndex(f), b)]
Flags(h) == {f \in ToSet(FlagNames) : HasFlag(h, f)}

DataOffset(h) == h[13] \div 16

SetDataOffset(h, off) == [h EXCEPT ![13] = (@ % 16) + 16 * (off % 16)]

SeqNum(h) == U32(h, 4)
AckNum(h) == U32(h, 8)
WindowSize(h) == U16(h, 14)

TCPHeader(p) == LET h == IPPayload(p) IN SubSeq(h, 1, 4 * DataOffset(h))
TCPSource(p) == [ip |-> IPSource(p), port |-> U16(TCPHeader(p), 0)]
TCPDest(p) == [ip |-> IPDest(p), port |-> U16(TCPHeader(p), 2)]
TCPPayload(p) == Drop(IPPayload(p), Len(TCPHeader(p)))

TCPValid(p) ==
  /\ IPValid(p)
  /\ Len(IPPayload(p)) >= 20
  /\ 4 * DataOffset(IPPayload(p)) <= Len(IPPayload(p))

\* The packet with a pseudo header in front, for TCP (6) and UDP (17).
PseudoChecksum(p, proto) ==
  LET body == IPPayload(p) IN
  InternetChecksum(IPSource(p) \o IPDest(p) \o <<0, proto>>
                     \o PutU16(Zeros(2), 0, Len(body)) \o body)

TCPChecksum(p) == PseudoChecksum(p, 6)

\* The filter of NewTCP4Net.
TCPAccepts(p) == TCPValid(p) /\ TCPChecksum(p) = 0

SetTCPChecksum(p) ==
  LET zeroed == PutU16(p, IPHeaderSize(p) + 16, 0) IN
  PutU16(zeroed, IPHeaderSize(p) + 16, TCPChecksum(zeroed))

NewTCP4Packet(ttl, source, dest, seqNum, ackNum, window, payload, flags) ==
  LET numbers == PutU32(PutU32(PutU16(PutU16(Zeros(20), 0, source.port), 2, dest.port),
                               4, seqNum), 8, ackNum)
      header  == SetDataOffset(PutU16(numbers, 14, window), 5)
      flagged == FoldSet(LAMBDA f, h : SetFlag(h, f, TRUE), header, flags)
  IN SetTCPChecksum(NewIPv4Packet(ttl, 6, source.ip, dest.ip, flagged \o payload))

----------------------------------------------------------------------------
(* udp.go *)

UDPHeader(p) == SubSeq(IPPayload(p), 1, 8)
UDPSource(p) == [ip |-> IPSource(p), port |-> U16(UDPHeader(p), 0)]
UDPDest(p) == [ip |-> IPDest(p), port |-> U16(UDPHeader(p), 2)]
UDPPayload(p) == Drop(IPPayload(p), 8)
UDPValid(p) ==
  /\ IPValid(p)
  /\ Len(IPPayload(p)) >= 8
  /\ U16(UDPHeader(p), 4) = 8 + Len(UDPPayload(p))
UseChecksum(p) == U16(UDPHeader(p), 6) # 0
UDPChecksum(p) == PseudoChecksum(p, 17)

\* The filter of NewUDP4Net.
UDPAccepts(p) == UDPValid(p) /\ (~UseChecksum(p) \/ UDPChecksum(p) = 0)

\* Mutant of SetUDPChecksum: a checksum of 0 is left, which means none.
SetUDPChecksumPlain(p) ==
  LET at     == IPHeaderSize(p) + 6
      zeroed == PutU16(p, at, 0)
  IN PutU16(zeroed, at, UDPChecksum(zeroed))

\* A checksum of 0 would say that there is none.
SetUDPChecksum(p) ==
  LET at     == IPHeaderSize(p) + 6
      zeroed == PutU16(p, at, 0)
      sum    == UDPChecksum(zeroed)
  IN PutU16(zeroed, at, IF sum = 0 THEN 65535 ELSE sum)

NewUDP4Packet(ttl, source, dest, payload) ==
  LET header == PutU16(PutU16(PutU16(Zeros(8), 0, source.port), 2, dest.port), 4,
                       8 + Len(payload))
  IN SetUDPChecksum(NewIPv4Packet(ttl, 17, source.ip, dest.ip, header \o payload))

----------------------------------------------------------------------------
(* icmp.go *)

ICMPChecksum(m) == InternetChecksum(m)
SetICMPChecksum(m) == LET zeroed == PutU16(m, 2, 0) IN PutU16(zeroed, 2, ICMPChecksum(zeroed))

EchoReply == 0
EchoRequest == 8

\* Mutant of RespondToPing: replies are answered like requests.
RespondToAny(p) ==
  LET m == IPPayload(p) IN
  IF ~(Len(m) >= 8 /\ ICMPChecksum(m) = 0) THEN << >>
  ELSE SetIPChecksum(SetIPAddrs(p, IPDest(p), IPSource(p)))

\* What RespondToPingsIPv4 sends for a packet, << >> for nothing.
RespondToPing(p) ==
  LET m     == IPPayload(p)
      reply == SetICMPChecksum([m EXCEPT ![1] = EchoReply])
  IN IF ~(Len(m) >= 8 /\ ICMPChecksum(m) = 0 /\ m[1] = EchoRequest) THEN << >>
     ELSE SetIPChecksum(SetIPAddrs(SubSeq(p, 1, IPHeaderSize(p)) \o reply, IPDest(p), IPSource(p)))
=============================================================================

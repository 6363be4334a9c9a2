---------------------------- MODULE DnsMessages ----------------------------
(***************************************************************************)
(* DNS messages as bytes (src/dnsproto).  A name is a sequence of labels,  *)
(* a label a sequence of bytes, a 32-bit number its two 16-bit words.      *)
(*                                                                         *)
(* A record has data, names and numbers, of which only those that its Go   *)
(* type has are not empty: an ARecord and a GenericRecord have data, a     *)
(* DomainRecord a name, an SOARecord two names and five numbers.  The Go   *)
(* type is taken to be the one that decodeRecord gives to the record's     *)
(* Type(); the raw copy of the data that the last two also keep is left    *)
(* out, as nothing is ever encoded from it.                                *)
(***************************************************************************)
EXTENDS Integers, Sequences, SequencesExt

Word16(n) == <<(n \div 256) % 256, n % 256>>
Words(ns) == FlattenSeq([i \in DOMAIN ns |-> Word16(ns[i])])
Get16(data, off) == 256 * data[off + 1] + data[off + 2]

\* What is read from an offset and where that ends, or an error.
Read(value, off) == [err |-> "none", value |-> value, off |-> off]
Fail(err) == [err |-> err, value |-> << >>, off |-> 0]
Failed(r) == r.err # "none"

----------------------------------------------------------------------------
(* domain_name.go *)

Letter == (65 .. 90) \union (97 .. 122)
LetterOrDigit == Letter \union (48 .. 57)
Dot == 46

\* domainLabelRegexp
LabelMatches(label) ==
  /\ Head(label) \in Letter
  /\ Last(label) \in LetterOrDigit
  /\ ToSet(label) \subseteq LetterOrDigit \union {45}

Validate(name) ==
  /\ \A i \in DOMAIN name : Len(name[i]) \in 1 .. 63 /\ LabelMatches(name[i])
  /\ 1 + Len(name) + Len(FlattenSeq(name)) <= 255

\* Labels with dots between them, and back; a dot at the end is ignored.
String(name) ==
  IF name = << >> THEN << >>
  ELSE Front(FlattenSeq([i \in DOMAIN name |-> Append(name[i], Dot)]))

ParseDomainName(text) ==
  LET body == IF text # << >> /\ Last(text) = Dot THEN Front(text) ELSE text
      split[i \in 0 .. Len(body)] ==
        LET parts == split[i - 1] IN
        IF i = 0 THEN <<<< >>>>
        ELSE IF body[i] = Dot THEN Append(parts, << >>)
        ELSE Append(Front(parts), Append(Last(parts), body[i]))
      name == split[Len(body)]
  IN IF Validate(name) THEN Read(name, Len(text)) ELSE Fail("name")

----------------------------------------------------------------------------
(* transcoding.go *)

\* n 16-bit fields
ReadWords(data, n, off) ==
  IF off + 2 * n > Len(data) THEN Fail("underflow")
  ELSE Read([i \in 1 .. n |-> Get16(data, off + 2 * (i - 1))], off + 2 * n)

\* Mutant of ReadN: a short read is filled up with zeros.
ReadNShort(data, n, off) ==
  IF off >= Len(data) THEN Fail("underflow")
  ELSE Read([i \in 1 .. n |-> IF off + i <= Len(data) THEN data[off + i] ELSE 0],
            IF off + n <= Len(data) THEN off + n ELSE Len(data))

\* At the end of the data there is nothing to read, not even no bytes.
ReadN(data, n, off) ==
  IF off + n > Len(data) \/ off = Len(data) THEN Fail("underflow")
  ELSE Read(SubSeq(data, off + 1, off + n), off + n)

\* Mutant of AfterPointer: what follows is read after the end of the target.
AfterTarget(at, target) == target.off

\* Where the reader is after a name that ends in a pointer at the offset at.
AfterPointer(at, target) == at + 2

\* from[<<end, off>>] is the name at off that a reader of the first end bytes finds.
\* The name at ptr is read by a reader of its own that has the data up to the
\* pointer, so that every pointer leads further back.
readDomain(data, start) ==
  LET Valid(r) == IF ~Failed(r) /\ ~Validate(r.value) THEN Fail("name") ELSE r
      from[place \in (0 .. Len(data)) \X (0 .. Len(data))] ==
        LET end    == place[1]
            off    == place[2]
            length == data[off + 1]
            ptr    == 256 * (length - 192) + data[off + 2]
            target == Valid(from[<<off, ptr>>])
            label  == ReadN(SubSeq(data, 1, end), length, off + 1)
            rest   == from[<<end, label.off>>]
        IN CASE off >= end                        -> Fail("underflow")
             [] off < end /\ length >= 192        ->
                  IF off + 1 >= end THEN Fail("underflow")
                  ELSE IF ptr >= off \/ Failed(target) THEN Fail("pointer")
                  ELSE Read(target.value, AfterPointer(off, target))
             [] off < end /\ length \in 64 .. 191 -> Fail("label")
             [] off < end /\ length = 0           -> Read(<< >>, off + 1)
             [] off < end /\ length \in 1 .. 63   ->
                  IF Failed(label) THEN label
                  ELSE IF Failed(rest) THEN rest
                  ELSE Read(<<label.value>> \o rest.value, rest.off)
  IN Valid(from[<<Len(data), start>>])

writeDomain(name) ==
  FlattenSeq([i \in DOMAIN name |-> <<Len(name[i])>> \o name[i]]) \o <<0>>

----------------------------------------------------------------------------
(* header.go *)

Flag(b, k) == IF b THEN 2 ^ k ELSE 0
HasBitOf(n, k) == (n \div 2 ^ k) % 2 = 1

encodeHeader(h) ==
  Words(<<h.identifier,
          Flag(h.isResponse, 15) + 2048 * (h.opcode % 16) + Flag(h.authoritative, 10)
            + Flag(h.truncated, 9) + Flag(h.recursionDesired, 8)
            + Flag(h.recursionAvailable, 7) + (h.responseCode % 16)>>
        \o h.counts)

decodeHeader(data) ==
  LET words == ReadWords(data, 6, 0)
      flags == words.value[2]
  IN IF Failed(words) THEN words
     ELSE Read([identifier |-> words.value[1], isResponse |-> HasBitOf(flags, 15),
                opcode |-> (flags \div 2048) % 16, authoritative |-> HasBitOf(flags, 10),
                truncated |-> HasBitOf(flags, 9), recursionDesired |-> HasBitOf(flags, 8),
                recursionAvailable |-> HasBitOf(flags, 7), responseCode |-> flags % 16,
                counts |-> SubSeq(words.value, 3, 6)], words.off)

----------------------------------------------------------------------------
(* question.go and record.go *)

\* So many names and then so many 16-bit words, in a row from off on.
ReadFields(data, names, words, off) ==
  LET Then(before, name) ==
        IF Failed(name) THEN name ELSE Read(Append(before.value, name.value), name.off)
      upTo[k \in 0 .. names] ==
        IF k = 0 THEN Read(<< >>, off)
        ELSE IF Failed(upTo[k - 1]) THEN upTo[k - 1]
        ELSE Then(upTo[k - 1], readDomain(data, upTo[k - 1].off))
      Both(ns, ws) ==
        IF Failed(ns) THEN ns
        ELSE IF Failed(ws) THEN ws
        ELSE Read([names |-> ns.value, words |-> ws.value], ws.off)
  IN Both(upTo[names], ReadWords(data, words, upTo[names].off))

encodeQuestion(q) == writeDomain(q.name) \o Words(<<q.type, q.class>>)

decodeQuestion(data, off) ==
  LET Question(r) ==
        IF Failed(r) THEN r
        ELSE Read([name  |-> r.value.names[1], type |-> r.value.words[1],
                   class |-> r.value.words[2]], r.off)
  IN Question(ReadFields(data, 1, 2, off))

RecordTypeA == 1
DomainTypes == {2, 5, 12}  \* RecordTypeNS, RecordTypeCNAME, RecordTypePTR
RecordTypeSOA == 6

\* The reader goes back over the data for the types that have names in it, and
\* must end where it was.
decodeRecord(data, off) ==
  LET Record(head, raw, bytes, names, numbers) ==
        LET w == head.value.words IN
        Read([name |-> head.value.names[1], type |-> w[1], class |-> w[2],
              ttl |-> <<w[3], w[4]>>, data |-> bytes, names |-> names, numbers |-> numbers],
             raw.off)
      Typed(head, raw, fields) ==
        IF Failed(fields) \/ fields.off # raw.off THEN Fail("record")
        ELSE Record(head, raw, << >>, fields.value.names, fields.value.words)
      WithData(head, raw) ==
        LET type == head.value.words[1]
            back == raw.off - Len(raw.value)
        IN IF Failed(raw) THEN raw
           ELSE IF type = RecordTypeSOA THEN Typed(head, raw, ReadFields(data, 2, 10, back))
           ELSE IF type \in DomainTypes THEN Typed(head, raw, ReadFields(data, 1, 0, back))
           ELSE IF type = RecordTypeA /\ Len(raw.value) # 4 THEN Fail("record")
           ELSE Record(head, raw, raw.value, << >>, << >>)
      WithHead(head) ==
        IF Failed(head) THEN head
        ELSE WithData(head, ReadN(data, head.value.words[5], head.off))
  IN WithHead(ReadFields(data, 1, 5, off))

WriteWithLength(body) == Word16(Len(body)) \o body

encodeRecord(r) ==
  LET body == r.data \o FlattenSeq([i \in DOMAIN r.names |-> writeDomain(r.names[i])])
                     \o Words(r.numbers)
  IN writeDomain(r.name) \o Words(<<r.type, r.class>> \o r.ttl) \o WriteWithLength(body)

----------------------------------------------------------------------------
(* message.go: a message is a header and four sections, questions first *)

QueryMessage(domain, type, recursive) ==
  [header   |-> [identifier |-> 0, isResponse |-> FALSE, opcode |-> 0, authoritative |-> FALSE,
                 truncated |-> FALSE, recursionDesired |-> recursive,
                 recursionAvailable |-> FALSE, responseCode |-> 0, counts |-> <<1, 0, 0, 0>>],
   sections |-> <<<<[name |-> domain, type |-> type, class |-> 1]>>, << >>, << >>, << >>>>]

AutoFill(m) == [m EXCEPT !.header.counts = [i \in 1 .. 4 |-> Len(m.sections[i])]]

\* The names that are written, each of which may be refused.
Names(m) ==
  UNION {UNION {{i.name} \union (IF s = 1 THEN {} ELSE ToSet(i.names)) : i \in ToSet(m.sections[s])}
           : s \in 1 .. 4}
Encodable(m) == \A name \in Names(m) : Validate(name)

EncodeItem(s, item) == IF s = 1 THEN encodeQuestion(item) ELSE encodeRecord(item)

Encode(m) ==
  encodeHeader(m.header)
    \o FlattenSeq([s \in 1 .. 4 |-> FlattenSeq([i \in DOMAIN m.sections[s] |->
                                                  EncodeItem(s, m.sections[s][i])])])

DecodeItem(data, s, off) == IF s = 1 THEN decodeQuestion(data, off) ELSE decodeRecord(data, off)

\* Decodes up to n items of section s in a row from off on: those it could, and the
\* error that stopped it.
DecodeItems(data, s, n, off) ==
  LET Then(done, one) ==
        IF Failed(one) THEN [done EXCEPT !.err = one.err]
        ELSE Read(Append(done.value, one.value), one.off)
      upTo[k \in 0 .. n] ==
        IF k = 0 THEN Read(<< >>, off)
        ELSE IF Failed(upTo[k - 1]) THEN upTo[k - 1]
        ELSE Then(upTo[k - 1], DecodeItem(data, s, upTo[k - 1].off))
  IN upTo[n]

\* Whether decoding ends without an error although it could not go on.
Excuses(err, header) == err = "underflow" /\ header.truncated

\* The four sections behind the header, in the same way.
DecodeSections(data, counts, start) ==
  LET Then(done, items) == [items EXCEPT !.value = Append(done.value, items.value)]
      upTo[s \in 0 .. 4] ==
        IF s = 0 THEN Read(<< >>, start)
        ELSE IF Failed(upTo[s - 1]) THEN [upTo[s - 1] EXCEPT !.value = Append(@, << >>)]
        ELSE Then(upTo[s - 1], DecodeItems(data, s, counts[s], upTo[s - 1].off))
  IN upTo[4]

\* The message, and "none" or the error.
DecodeMessage(data) ==
  LET Message(header, all) == Read([header |-> header.value, sections |-> all.value], all.off)
      WithSections(header, all) ==
        IF Failed(all) /\ ~Excuses(all.err, header.value) THEN Fail(all.err)
        ELSE IF ~Failed(all) /\ all.off # Len(data) THEN Fail("excess")
        ELSE Message(header, all)
      WithHeader(header) ==
        IF Failed(header) THEN header
        ELSE WithSections(header, DecodeSections(data, header.value.counts, header.off))
  IN WithHeader(decodeHeader(data))
=============================================================================

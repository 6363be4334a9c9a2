----------------------------- MODULE MCFormats -----------------------------
EXTENDS Formats

Here == [ip |-> <<10, 0, 0, 1>>, port |-> 53]
There == [ip |-> <<255, 255, 255, 254>>, port |-> 65535]
MCEndpoints == {Here, There}

\* With this payload, a datagram from Here to Here has the checksum 0.
ZeroSum == SubSeq(UDPHeader(NewUDP4Packet(64, Here, Here, <<0, 0>>)), 7, 8)
MCPayloads == {<< >>, <<1>>, <<255, 255>>, <<200, 3, 7>>, ZeroSum}
MCNumbers == {0, 65535}

\* The second byte of a pointer, at 200, is the first of one to it.
Overlap == [i \in 1 .. 203 |-> IF i = 203 THEN 200 ELSE IF i > 200 THEN 192 ELSE 0]

\* Labels, the end of a name and pointers to every place that matters.
MCNameBytes == UNION {[1 .. n -> {0, 1, 2, 97, 192}] : n \in 1 .. 6} \union {Overlap}

Root == << >>
Name == <<<<97, 48>>, <<98>>>>
Header(response, truncated) ==
  [identifier |-> 65535, isResponse |-> response, opcode |-> 5, authoritative |-> ~response,
   truncated |-> truncated, recursionDesired |-> response, recursionAvailable |-> ~truncated,
   responseCode |-> 9, counts |-> <<0, 0, 0, 0>>]
Question(name) == [name |-> name, type |-> 1, class |-> 1]
Record(name, type, data, names, numbers) ==
  [name |-> name, type |-> type, class |-> 1, ttl |-> <<1, 65535>>, data |-> data,
   names |-> names, numbers |-> numbers]
A == Record(Name, 1, <<10, 0, 0, 1>>, << >>, << >>)
CNAME == Record(Name, 5, << >>, <<Name>>, << >>)
SOA == Record(Root, 6, << >>, <<Root, Name>>, [i \in 1 .. 10 |-> i])
Empty == Record(Root, 16, << >>, << >>, << >>)
MCMessages ==
  {QueryMessage(Name, 1, TRUE)} \union
  {[header |-> Header(response, truncated), sections |-> sections] :
     response \in BOOLEAN, truncated \in BOOLEAN,
     sections \in {<<<< >>, << >>, << >>, << >>>>,
                   <<<<Question(Name)>>, << >>, << >>, << >>>>,
                   <<<<Question(Root), Question(Name)>>, <<A, CNAME>>, <<SOA>>, <<A>>>>,
                   <<<< >>, <<CNAME>>, << >>, <<Empty, SOA>>>>,
                   <<<< >>, <<SOA, A>>, << >>, <<Empty>>>>,
                   <<<<Question(<<<<45>>>>)>>, << >>, << >>, << >>>>}}
=============================================================================

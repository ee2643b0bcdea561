------------------------------ MODULE Packets -------------------------------
(***************************************************************************)
(* The packets of streaming_rpc: AppendTo and Unmarshal of the handshake,  *)
(* service request, service response and data packet, as operators on      *)
(* sequences of bytes.                                                     *)
(*                                                                         *)
(* A byte is a number below Base, so that a length of one byte overflows   *)
(* at Base and one of two bytes at Base^2.  A kademlia id and a signature, *)
(* whose encodings are external and of fixed size, are one number >= Base  *)
(* each, which is some byte modulo Base when it is read as one.            *)
(* Headers are a function from names to values (a nil map and an empty one *)
(* have the same encoding); the code iterates over the map in any order.   *)
(***************************************************************************)
EXTENDS Naturals, Sequences, FiniteSets, SequencesExt

CONSTANTS
    Base,     \* values of a byte: 256 in the code
    NoId      \* a nil KadId

ASSUME PacketsAssumption == Base \in Nat \ {0, 1}

Byte == 0 .. Base - 1
Char == 1 .. Base - 1   \* the bytes of valid UTF-8, to utf8.ValidString

-----------------------------------------------------------------------------
Base2 == Base * Base    \* values of a uint16
Base4 == Base2 * Base2  \* values of a uint32

\* bytesutil: the low w bytes of n, most significant first, and back (w is 1, 2
\* or 4).  The conversions uint8(len) and uint16(len) keep the low one and two.
Uint16BE(n) == <<(n \div Base) % Base, n % Base>>
BE(n, w) ==
    CASE w = 1 -> <<n % Base>>
      [] w = 2 -> Uint16BE(n)
      [] w = 4 -> Uint16BE(n \div Base2) \o Uint16BE(n)

FromUint16BE(hi, lo) == (hi % Base) * Base + (lo % Base)
FromBE_LittleEndian(b) ==
    CASE Len(b) = 1 -> b[1] % Base
      [] Len(b) = 2 -> FromUint16BE(b[2], b[1])
      [] Len(b) = 4 -> FromUint16BE(b[4], b[3]) * Base2 + FromUint16BE(b[2], b[1])
FromBE(b) ==
    CASE Len(b) = 1 -> b[1] % Base
      [] Len(b) = 2 -> FromUint16BE(b[1], b[2])
      [] Len(b) = 4 -> FromUint16BE(b[1], b[2]) * Base2 + FromUint16BE(b[3], b[4])

\* A length in w bytes, and the bytes.
Sized(s, w) == BE(Len(s), w) \o s

SizedStrings(ss) == [i \in 1 .. Len(ss) |-> Sized(ss[i], 1)]
AppendStrings(ss) == BE(Len(ss), 1) \o FlattenSeq(SizedStrings(ss))

\* The encodings of headers, one for each order of iteration.
SizedHeaders(order, h) ==
    [i \in 1 .. Len(order) |-> Sized(order[i], 1) \o Sized(h[order[i]], 2)]
AppendHeaders(h) ==
    { BE(Len(order), 2) \o FlattenSeq(SizedHeaders(order, h)) : order \in SetToSeqs(DOMAIN h) }

\* kademlia's signature (external), injective, of what AppendPayloadTo collects:
\* its bytes as the digits of a number behind the id.
Digits(id, bytes) ==
    LET n[k \in 0 .. Len(bytes)] == IF k = 0 THEN id ELSE n[k - 1] * Base + bytes[k]
    IN  n[Len(bytes)]
Sign(id, services) == Base * Digits(id, FlattenSeq(services))

-----------------------------------------------------------------------------
\* AppendTo: the possible encodings of packet p.
AppendHandshake(p) ==
    (IF p.kadId = NoId THEN <<0>> ELSE <<1, p.kadId>>) \o AppendStrings(p.services)
        \o (IF p.kadId = NoId THEN <<>> ELSE <<p.signature>>)
AppendRequest(p) ==
    { BE(p.id, 4) \o AppendStrings(p.services) \o h : h \in AppendHeaders(p.headers) }
AppendResponse(p) ==
    { BE(p.id, 4) \o <<IF p.handled THEN 1 ELSE 0>> \o h : h \in AppendHeaders(p.headers) }
AppendData(p) == BE(p.id, 4) \o Sized(p.data, 2)

AppendTo(p) ==
    CASE p.type = "handshake" -> {AppendHandshake(p)}
      [] p.type = "request"   -> AppendRequest(p)
      [] p.type = "response"  -> AppendResponse(p)
      [] p.type = "data"      -> {AppendData(p)}

-----------------------------------------------------------------------------
\* Unmarshal.  A parser state is what is left of the buffer, the value read
\* last, and how it went: "ok", "ErrUnexpectedEOF", or "panic" for an index out
\* of range.
Start(buf) == [res |-> "ok", buf |-> buf, val |-> <<>>]

Enough(buf, n) == n <= Len(buf)

Short(res) == [res |-> res, buf |-> <<>>, val |-> <<>>]

\* n bytes; onShort is what happens if they are not there.
Take_ZeroFilled(s, n, onShort) ==
    [s EXCEPT !.val = [i \in 1 .. n |-> IF i <= Len(s.buf) THEN s.buf[i] ELSE 0],
              !.buf = SubSeq(s.buf, n + 1, Len(s.buf))]
Take(s, n, onShort) ==
    IF s.res # "ok" THEN s
    ELSE IF ~Enough(s.buf, n) THEN Short(onShort)
    ELSE [s EXCEPT !.val = SubSeq(s.buf, 1, n), !.buf = SubSeq(s.buf, n + 1, Len(s.buf))]

TakeSized(s, w) ==
    LET t == Take(s, w, "ErrUnexpectedEOF")
    IN  IF t.res # "ok" THEN t ELSE Take(t, FromBE(t.val), "ErrUnexpectedEOF")

\* n turns of the loop that reads strings; acc[k] is the state after k turns.
TakeString(acc) ==
    LET t == TakeSized(acc, 1)
    IN  IF t.res # "ok" THEN t ELSE [t EXCEPT !.val = Append(acc.val, t.val)]

TakeStrings(s, n) ==
    LET acc[k \in 0 .. n] == IF k = 0 THEN [s EXCEPT !.val = <<>>] ELSE TakeString(acc[k - 1])
    IN  acc[n]

\* The same for header fields, where a repeated name overwrites.
TakeHeader(acc) ==
    LET t == TakeSized(acc, 1)
        u == TakeSized(t, 2)
    IN  IF u.res # "ok" THEN u
        ELSE [u EXCEPT !.val = [name \in DOMAIN acc.val \cup {t.val} |->
                                  IF name = t.val THEN u.val ELSE acc.val[name]]]

TakeHeaders(s, n) ==
    LET acc[k \in 0 .. n] == IF k = 0 THEN [s EXCEPT !.val = <<>>] ELSE TakeHeader(acc[k - 1])
    IN  acc[n]

Failed(s) == [res |-> s.res]
Parsed(pkt) == [res |-> "ok", pkt |-> pkt]

UnmarshalHandshakePacket(buf) ==
    LET flag == Take(Start(buf), 1, "ErrUnexpectedEOF")
        hasId == flag.val = <<1>>
        id   == IF hasId THEN Take(flag, 1, "ErrUnexpectedEOF") ELSE flag
        size == Take(id, 1, "ErrUnexpectedEOF")
        services == IF size.res # "ok" THEN size
                    ELSE IF ~Enough(size.buf, FromBE(size.val))
                         THEN Short("ErrUnexpectedEOF")
                         ELSE TakeStrings(size, FromBE(size.val))
        sig  == IF hasId THEN Take(services, 1, "ErrUnexpectedEOF") ELSE services
    IN  IF sig.res # "ok" THEN Failed(sig)
        ELSE Parsed([type |-> "handshake", services |-> services.val,
                     kadId |-> IF hasId THEN id.val[1] ELSE NoId,
                     signature |-> IF hasId THEN sig.val[1] ELSE NoId])

\* The count of the services is read without a test of the length.
UnmarshalServiceRequestPacket(buf) ==
    LET id    == Take(Start(buf), 4, "ErrUnexpectedEOF")
        size  == Take(id, 1, "panic")
        services == IF size.res # "ok" THEN size ELSE TakeStrings(size, FromBE(size.val))
        count == Take(services, 2, "ErrUnexpectedEOF")
        headers == IF count.res # "ok" THEN count ELSE TakeHeaders(count, FromBE(count.val))
    IN  IF headers.res # "ok" THEN Failed(headers)
        ELSE Parsed([type |-> "request", id |-> FromBE(id.val), services |-> services.val,
                     headers |-> headers.val])

UnmarshalServiceResponsePacket(buf) ==
    LET head  == Take(Start(buf), 5, "ErrUnexpectedEOF")
        count == Take(head, 2, "ErrUnexpectedEOF")
        headers == IF count.res # "ok" THEN count ELSE TakeHeaders(count, FromBE(count.val))
    IN  IF headers.res # "ok" THEN Failed(headers)
        ELSE Parsed([type |-> "response", id |-> FromBE(SubSeq(head.val, 1, 4)),
                     handled |-> head.val[5] = 1, headers |-> headers.val])

\* The comparison uint16(len(buf)) < size takes the length modulo 2^16.
UnmarshalDataPacket(buf) ==
    LET head == Take(Start(buf), 6, "ErrUnexpectedEOF")
        size == FromBE(SubSeq(head.val, 5, 6))
    IN  IF head.res # "ok" THEN Failed(head)
        ELSE IF Len(head.buf) % Base2 < size THEN [res |-> "ErrUnexpectedEOF"]
        ELSE Parsed([type |-> "data", id |-> FromBE(SubSeq(head.val, 1, 4)),
                     data |-> SubSeq(head.buf, 1, size)])

Unmarshal(type, buf) ==
    CASE type = "handshake" -> UnmarshalHandshakePacket(buf)
      [] type = "request"   -> UnmarshalServiceRequestPacket(buf)
      [] type = "response"  -> UnmarshalServiceResponsePacket(buf)
      [] type = "data"      -> UnmarshalDataPacket(buf)

\* HandshakePacket.Validate: names in UTF-8, and the signature of an id.
Validate_Unsigned(p) ==
    \A i \in DOMAIN p.services : \A j \in DOMAIN p.services[i] : p.services[i][j] \in Char
Validate(p) ==
    /\ \A i \in DOMAIN p.services : \A j \in DOMAIN p.services[i] : p.services[i][j] \in Char
    /\ p.kadId # NoId => p.signature = Sign(p.kadId, p.services)

-----------------------------------------------------------------------------
\* The packets that the program makes: names, values and data of any length, and
\* a handshake with an id is signed.
IsHandshake(p) ==
    /\ p \in [type : {"handshake"}, kadId : Nat \cup {NoId}, services : Seq(Seq(Byte)),
              signature : Nat \cup {NoId}]
    /\ p.kadId = NoId => p.signature = NoId
    /\ p.kadId # NoId => p.kadId >= Base /\ p.signature = Sign(p.kadId, p.services)

IsHeaders(h) ==
    IsFiniteSet(DOMAIN h) /\ DOMAIN h \subseteq Seq(Byte) /\ h \in [DOMAIN h -> Seq(Byte)]

IsPacket(p) ==
    \/ p.type = "handshake" /\ IsHandshake(p)
    \/ /\ p.type = "request" /\ IsHeaders(p.headers)
       /\ p \in [type : {"request"}, id : 0 .. Base4 - 1, services : Seq(Seq(Byte)),
                 headers : {p.headers}]
    \/ /\ p.type = "response" /\ IsHeaders(p.headers)
       /\ p \in [type : {"response"}, id : 0 .. Base4 - 1, handled : BOOLEAN,
                 headers : {p.headers}]
    \/ p.type = "data" /\ p \in [type : {"data"}, id : 0 .. Base4 - 1, data : Seq(Byte)]

\* Which packets the lengths of the format can express.
FitsStrings(ss) == Len(ss) < Base /\ \A i \in DOMAIN ss : Len(ss[i]) < Base
FitsHeaders(h) ==
    /\ Cardinality(DOMAIN h) < Base2
    /\ \A name \in DOMAIN h : Len(name) < Base /\ Len(h[name]) < Base2

Fits(p) ==
    CASE p.type = "handshake" -> FitsStrings(p.services)
      [] p.type = "request"   -> FitsStrings(p.services) /\ FitsHeaders(p.headers)
      [] p.type = "response"  -> FitsHeaders(p.headers)
      [] p.type = "data"      -> Len(p.data) < Base2

=============================================================================

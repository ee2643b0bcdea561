----------------------------- MODULE WireProofs -----------------------------
(***************************************************************************)
(* Theorems about Session and Wire, for any packets, any overhead of the   *)
(* cipher and any size of the read buffer.                                 *)
(*                                                                         *)
(* A side sends its key and then, for each message, a length and the       *)
(* sealed bytes: unit 1, and units 2 * i and 2 * i + 1 of message i.  What *)
(* is in the socket and in the bufio.Writer of a side is the part of that  *)
(* list behind what the other side has taken (PipeOf), whatever the writer *)
(* spilled and wherever the socket was cut; so a length is never taken for *)
(* sealed bytes, and nonces stay in step.                                  *)
(*                                                                         *)
(* The packets: Agrees, At and UpTo follow a parser through a buffer that is *)
(* an encoding or the beginning of one, so that one lemma per packet says  *)
(* that Unmarshal undoes AppendTo and refuses what has lost its end        *)
(* (Decodes).  For Validate no length is assumed to fit: Encoded and Eaten *)
(* compare the bytes that were appended with those that any parse takes.   *)
(***************************************************************************)
EXTENDS Wire, SeqProofs

Encodings == UNION {AppendTo(p) : p \in Inputs \cup {Marker}}

Count(s) == IF s = "client" THEN 2 ELSE 1

\* The handshake: has s yet to send its key; has it taken the other's?
KeyUnsent(s) == hs[s] = "write" \/ (s = "server" /\ hs[s] = "read")
KeyTaken(s)  == hs[s] \in {"establish", "done"} \/ (s = "server" /\ hs[s] = "write")

HandshakeOf(s) ==
    /\ hs[s] = "failed" => cut
    /\ KeyTaken(s) => theirPub[s] = Peer(s)
    /\ hs[s] = "done" => suite[s] = Sides
    /\ hs[s] # "done" => /\ written[s] = <<>> /\ bw[s] = <<>>
                         /\ rn[s] = 0 /\ failed[s] = "none"
    /\ KeyUnsent(s) => sock[s] = <<>> /\ ~KeyTaken(Peer(s))

\* The packets that s writes.
WriterOf(s) ==
    /\ wn[s] = Len(written[s]) /\ Len(written[s]) + Len(todo[s]) = Count(s)
    /\ \A i \in 1 .. Len(written[s]) : written[s][i] \in AppendTo(SentBy(s, i))
    /\ \A i \in 1 .. Len(todo[s]) : todo[s][i] \in AppendTo(SentBy(s, Len(written[s]) + i))

\* What s has read, and why it stopped.
ReaderOf(s) ==
    /\ rn[s] = Len(received[s]) /\ rn[s] <= Len(written[Peer(s)])
    /\ \A i \in 1 .. rn[s] : received[s][i] = written[Peer(s)][i]
    /\ failed[s] # "open" /\ (failed[s] = "EOF" => cut)
    /\ failed[s] = "max" =>
         /\ rn[s] < Len(written[Peer(s)])
         /\ Len(written[Peer(s)][rn[s] + 1]) + Overhead > ReadBuffer

\* u is unit j of what s sends when its messages are w.
IsUnit(s, u, j, w) ==
    /\ j = 1 => u = KeyUnit(s)
    /\ \A i \in 1 .. Len(w) :
         /\ j = 2 * i => u = LenUnit(Len(w[i]) + Overhead)
         /\ j = 2 * i + 1 => u = SealUnit(Sides, i - 1, w[i])

\* q is what s sends behind its first n units.
Follows(s, q, n, w) ==
    /\ n + Len(q) <= 1 + 2 * Len(w)
    /\ \A k \in 1 .. Len(q) : IsUnit(s, q[k], n + k, w)

\* The units of s that the other side has taken.
Taken(s) == (IF KeyTaken(Peer(s)) THEN 1 ELSE 0) + 2 * rn[Peer(s)]

PipeOf(s) ==
    /\ Len(sock[s]) + Len(bw[s]) <= 1 + 2 * Len(written[s])
    /\ Len(bw[s]) <= 2 * Len(written[s])
    /\ hs[Peer(s)] # "failed" => Follows(s, sock[s], Taken(s), written[s])
    /\ ~cut => /\ KeyUnsent(s) \/ Taken(s) + Len(sock[s]) + Len(bw[s]) = 1 + 2 * Len(written[s])
               /\ Follows(s, bw[s], Taken(s) + Len(sock[s]), written[s])

Units ==
    [t : {"key"}, of : Sides] \cup [t : {"len"}, n : {Len(b) + Overhead : b \in Encodings}]
    \cup [t : {"sealed"}, suite : {Sides}, nonce : Nat, plain : Encodings]

Types ==
    /\ pkt \in Inputs /\ cut \in BOOLEAN
    /\ hs \in [Sides -> {"write", "read", "establish", "done", "failed"}]
    /\ theirPub \in [Sides -> Sides \cup {Nil}] /\ suite \in [Sides -> {Sides, Nil}]
    /\ wn \in [Sides -> Nat] /\ rn \in [Sides -> Nat]
    /\ failed \in [Sides -> {"none", "open", "max", "EOF"}]
    /\ bw \in [Sides -> Seq(Units)] /\ sock \in [Sides -> Seq(Units)]
    /\ todo \in [Sides -> Seq(Encodings)] /\ written \in [Sides -> Seq(Encodings)]
    /\ received \in [Sides -> Seq(Encodings)]

SideOf(s) == HandshakeOf(s) /\ WriterOf(s) /\ ReaderOf(s) /\ PipeOf(s)

IInv == Types /\ \A s \in Sides : SideOf(s)

-----------------------------------------------------------------------------
\* What is sent, unit by unit.

\* Some of what is buffered moves into the socket, in order.
LEMMA SpillEntries ==
    ASSUME NEW S, NEW q \in Seq(S), NEW b \in Seq(S), NEW k \in 0 .. Len(b)
    PROVE  LET q2 == q \o SubSeq(b, 1, k)
               b2 == SubSeq(b, k + 1, Len(b))
           IN  /\ q2 \in Seq(S) /\ Len(q2) = Len(q) + k
               /\ b2 \in Seq(S) /\ Len(b2) = Len(b) - k
               /\ \A j \in 1 .. Len(q) + k : q2[j] = IF j <= Len(q) THEN q[j] ELSE b[j - Len(q)]
               /\ \A j \in 1 .. Len(b) - k : b2[j] = b[k + j]
<1>1. PICK f : f = SubSeq(b, 1, k)
  OBVIOUS
<1>2. f \in Seq(S) /\ Len(f) = k /\ \A j \in 1 .. k : f[j] = b[j]
  BY <1>1
<1>3. PICK q2 : q2 = q \o f
  OBVIOUS
<1>4. /\ q2 \in Seq(S) /\ Len(q2) = Len(q) + k /\ Len(q) \in Nat
      /\ \A j \in 1 .. Len(q) + k : q2[j] = IF j <= Len(q) THEN q[j] ELSE f[j - Len(q)]
  <2>1. Len(q) \in Nat
    OBVIOUS
  <2>2. /\ q \o f \in Seq(S) /\ Len(q \o f) = Len(q) + Len(f)
        /\ \A j \in 1 .. Len(q) + Len(f) :
              (q \o f)[j] = IF j <= Len(q) THEN q[j] ELSE f[j - Len(q)]
    BY <1>2, ConcatEntries
  <2>3. QED
    BY <1>2, <1>3, <2>1, <2>2, Zenon
<1>5. ASSUME NEW j \in 1 .. Len(q) + k
      PROVE  q2[j] = IF j <= Len(q) THEN q[j] ELSE b[j - Len(q)]
  BY <1>2, <1>4
<1>6. PICK b2 : b2 = SubSeq(b, k + 1, Len(b))
  OBVIOUS
<1>7. b2 \in Seq(S) /\ Len(b2) = Len(b) - k /\ \A j \in 1 .. Len(b) - k : b2[j] = b[k + j]
  BY <1>6
<1>8. QED
  BY <1>1, <1>3, <1>4, <1>5, <1>6, <1>7

\* Nothing is spilled.
LEMMA SpillNothing ==
    ASSUME NEW S, NEW q \in Seq(S), NEW b \in Seq(S)
    PROVE  q \o SubSeq(b, 1, 0) = q
<1>1. SubSeq(b, 1, 0) = <<>>
  OBVIOUS
<1>2. QED
  BY <1>1

-----------------------------------------------------------------------------
\* Stretches of what a side sends.

\* Without its first m units.
LEMMA DropFollows ==
    ASSUME NEW S, NEW q \in Seq(S), NEW s, NEW n \in Nat, NEW w \in Seq(Encodings),
           Follows(s, q, n, w), NEW m \in 0 .. Len(q)
    PROVE  /\ Follows(s, SubSeq(q, m + 1, Len(q)), n + m, w)
           /\ SubSeq(q, m + 1, Len(q)) \in Seq(S)
           /\ Len(SubSeq(q, m + 1, Len(q))) = Len(q) - m
<1>1. PICK r : r = SubSeq(q, m + 1, Len(q))
  OBVIOUS
<1>2. r \in Seq(S) /\ Len(r) = Len(q) - m /\ \A k \in 1 .. Len(q) - m : r[k] = q[m + k]
  BY <1>1
<1>3. ASSUME NEW k \in 1 .. Len(r)
      PROVE  IsUnit(s, r[k], (n + m) + k, w)
  <2>1. m + k \in 1 .. Len(q) /\ r[k] = q[m + k] /\ n + (m + k) = (n + m) + k
    BY <1>2, SMTT(30)
  <2>2. IsUnit(s, q[m + k], n + (m + k), w)
    BY <2>1 DEF Follows
  <2>3. QED
    BY <2>1, <2>2
<1>4. (n + m) + Len(r) <= 1 + 2 * Len(w)
  <2>1. Len(w) \in Nat /\ n + Len(q) <= 1 + 2 * Len(w)
    BY DEF Follows
  <2>2. QED
    BY <1>2, <2>1
<1>5. Follows(s, r, n + m, w)
  BY <1>3, <1>4 DEF Follows
<1>6. QED
  BY <1>1, <1>2, <1>5

\* Cut off behind its first c units.
LEMMA CutFollows ==
    ASSUME NEW S, NEW q \in Seq(S), NEW s, NEW n \in Nat, NEW w \in Seq(Encodings),
           NEW c \in 0 .. Len(q)
    PROVE  /\ Follows(s, q, n, w) => Follows(s, SubSeq(q, 1, c), n, w)
           /\ SubSeq(q, 1, c) \in Seq(S) /\ Len(SubSeq(q, 1, c)) = c
<1>1. PICK r : r = SubSeq(q, 1, c)
  OBVIOUS
<1>2. r \in Seq(S) /\ Len(r) = c /\ \A k \in 1 .. c : r[k] = q[k]
  BY <1>1
<1>3. ASSUME Follows(s, q, n, w)
      PROVE  Follows(s, r, n, w)
  <2>1. ASSUME NEW k \in 1 .. Len(r)
        PROVE  IsUnit(s, r[k], n + k, w)
    <3>1. k \in 1 .. Len(q) /\ r[k] = q[k]
      BY <1>2
    <3>2. IsUnit(s, q[k], n + k, w)
      BY <1>3, <3>1 DEF Follows
    <3>3. QED
      BY <3>1, <3>2
  <2>2. n + Len(r) <= 1 + 2 * Len(w)
    BY <1>2, <1>3 DEF Follows
  <2>3. QED
    BY <2>1, <2>2 DEF Follows
<1>4. QED
  BY <1>1, <1>2, <1>3

\* Another message is written behind it.
LEMMA GrowFollows ==
    ASSUME NEW S, NEW q \in Seq(S), NEW s, NEW n \in Nat, NEW w \in Seq(Encodings),
           Follows(s, q, n, w), NEW b \in Encodings
    PROVE  Follows(s, q, n, Append(w, b))
<1>1. PICK v : v = Append(w, b)
  OBVIOUS
<1>2. /\ Len(w) \in Nat /\ Len(v) = Len(w) + 1 /\ \A i \in 1 .. Len(w) : v[i] = w[i]
  BY <1>1
<1>3. ASSUME NEW k \in 1 .. Len(q)
      PROVE  IsUnit(s, q[k], n + k, v)
  <2>1. IsUnit(s, q[k], n + k, w) /\ n + k <= 1 + 2 * Len(w)
    BY DEF Follows
  <2>2. ASSUME NEW i \in 1 .. Len(v), n + k = 2 * i \/ n + k = 2 * i + 1
        PROVE  i \in 1 .. Len(w) /\ v[i] = w[i]
    BY <1>2, <2>1, <2>2
  <2>3. QED
    BY <2>1, <2>2 DEF IsUnit
<1>4. n + Len(q) <= 1 + 2 * Len(v)
  BY <1>2 DEF Follows
<1>5. QED
  BY <1>1, <1>3, <1>4 DEF Follows

\* Its length and its sealed bytes come next.
LEMMA NextFollows ==
    ASSUME NEW q \in Seq(Units), NEW s, NEW n \in Nat, NEW w \in Seq(Encodings),
           Follows(s, q, n, w), n + Len(q) = 1 + 2 * Len(w), NEW b \in Encodings
    PROVE  LET u == <<LenUnit(Len(b) + Overhead), SealUnit(Sides, Len(w), b)>>
           IN  Follows(s, q \o u, n, Append(w, b))
<1>1. PICK u : u = <<LenUnit(Len(b) + Overhead), SealUnit(Sides, Len(w), b)>>
  OBVIOUS
<1>2. Len(w) \in Nat /\ Len(q) \in Nat
  OBVIOUS
<1>3. /\ LenUnit(Len(b) + Overhead) \in Units /\ SealUnit(Sides, Len(w), b) \in Units
  BY <1>2 DEF LenUnit, SealUnit, Units
<1>4. /\ u \in Seq(Units) /\ Len(u) = 2
      /\ u[1] = LenUnit(Len(b) + Overhead) /\ u[2] = SealUnit(Sides, Len(w), b)
  BY <1>1, <1>3
<1>5. PICK r : r = q \o u
  OBVIOUS
<1>6. /\ Len(r) = Len(q) + 2 /\ \A k \in 1 .. Len(q) : r[k] = q[k]
      /\ r[Len(q) + 1] = u[1] /\ r[Len(q) + 2] = u[2]
  <2>1. /\ Len(q \o u) = Len(q) + Len(u)
        /\ \A k \in 1 .. Len(q) + Len(u) :
              (q \o u)[k] = IF k <= Len(q) THEN q[k] ELSE u[k - Len(q)]
    BY <1>4, ConcatEntries
  <2>2. \A k \in 1 .. Len(q) + 2 : r[k] = IF k <= Len(q) THEN q[k] ELSE u[k - Len(q)]
    BY <1>4, <1>5, <2>1
  <2>3. QED
    BY <1>2, <1>4, <1>5, <2>1, <2>2
<1>7. PICK v : v = Append(w, b)
  OBVIOUS
<1>8. Len(v) = Len(w) + 1 /\ v[Len(w) + 1] = b
  BY <1>7
<1>9. Follows(s, q, n, v)
  BY <1>7, GrowFollows
<1>10. ASSUME NEW k \in 1 .. Len(r)
       PROVE  IsUnit(s, r[k], n + k, v)
  <2>1. CASE k \in 1 .. Len(q)
    BY <1>6, <1>9, <2>1 DEF Follows
  <2>2. CASE k = Len(q) + 1
    <3>1. n + k = 2 * (Len(w) + 1)
      BY <1>2, <2>2
    <3>2. r[k] = LenUnit(Len(b) + Overhead)
      BY <1>4, <1>6, <2>2
    <3>3. \A i \in 1 .. Len(v) : /\ n + k = 2 * i => i = Len(w) + 1
                                 /\ n + k # 2 * i + 1 /\ n + k # 1
      BY <1>2, <1>8, <3>1
    <3>4. QED
      BY <1>2, <1>8, <3>1, <3>2, <3>3 DEF IsUnit
  <2>3. CASE k = Len(q) + 2
    <3>1. n + k = 2 * (Len(w) + 1) + 1
      BY <1>2, <2>3
    <3>2. r[k] = SealUnit(Sides, Len(w), b)
      BY <1>4, <1>6, <2>3
    <3>3. \A i \in 1 .. Len(v) : /\ n + k = 2 * i + 1 => i = Len(w) + 1 /\ i - 1 = Len(w)
                                 /\ n + k # 2 * i /\ n + k # 1
      BY <1>2, <1>8, <3>1
    <3>4. QED
      BY <1>2, <1>8, <3>1, <3>2, <3>3, SMTT(30) DEF IsUnit
  <2>4. QED
    BY <1>2, <1>6, <2>1, <2>2, <2>3
<1>11. n + Len(r) <= 1 + 2 * Len(v)
  BY <1>2, <1>6, <1>8
<1>12. Follows(s, r, n, v)
  BY <1>10, <1>11 DEF Follows
<1>13. QED
  BY <1>1, <1>5, <1>7, <1>12

\* Some of what is buffered moves into the socket.
LEMMA SpillFollows ==
    ASSUME NEW S, NEW q \in Seq(S), NEW b \in Seq(S), NEW s, NEW n \in Nat,
           NEW w \in Seq(Encodings), Follows(s, q, n, w), Follows(s, b, n + Len(q), w),
           NEW k \in 0 .. Len(b)
    PROVE  /\ Follows(s, q \o SubSeq(b, 1, k), n, w)
           /\ Follows(s, SubSeq(b, k + 1, Len(b)), n + Len(q) + k, w)
<1>1. PICK q2 : q2 = q \o SubSeq(b, 1, k)
  OBVIOUS
<1>2. Len(q) \in Nat /\ Len(b) \in Nat /\ Len(w) \in Nat
  OBVIOUS
<1>3. /\ Len(q2) = Len(q) + k
      /\ \A j \in 1 .. Len(q) + k : q2[j] = IF j <= Len(q) THEN q[j] ELSE b[j - Len(q)]
  BY <1>1, SpillEntries
<1>4. ASSUME NEW j \in 1 .. Len(q2)
      PROVE  IsUnit(s, q2[j], n + j, w)
  <2>1. CASE j <= Len(q)
    BY <1>2, <1>3, <2>1 DEF Follows
  <2>2. CASE ~(j <= Len(q))
    <3>1. PICK i \in 1 .. Len(b) : i = j - Len(q) /\ n + Len(q) + i = n + j /\ q2[j] = b[i]
      BY <1>2, <1>3, <2>2
    <3>2. IsUnit(s, b[i], n + Len(q) + i, w)
      BY DEF Follows
    <3>3. QED
      BY <3>1, <3>2
  <2>3. QED
    BY <2>1, <2>2
<1>5. n + Len(q2) <= 1 + 2 * Len(w)
  BY <1>2, <1>3 DEF Follows
<1>6. Follows(s, q2, n, w)
  BY <1>4, <1>5 DEF Follows
<1>7. Follows(s, SubSeq(b, k + 1, Len(b)), n + Len(q) + k, w)
  <2>1. n + Len(q) \in Nat
    BY <1>2
  <2>2. QED
    BY <2>1, DropFollows
<1>8. QED
  BY <1>1, <1>6, <1>7

-----------------------------------------------------------------------------
\* The two sides.

\* Each is the other's peer.
LEMMA TwoSides ==
    ASSUME NEW s \in Sides
    PROVE  Peer(s) \in Sides /\ Peer(Peer(s)) = s /\ Peer(s) # s /\ Sides = {s, Peer(s)}
BY DEF Sides, Peer

\* The key goes out, or the handshake fails.
LEMMA WriteKeyKeeps ==
    ASSUME IInv, NEW s \in Sides, WriteKey(s), UNCHANGED pkt
    PROVE  IInv'
<1>1. PICK p \in Sides : p = Peer(s) /\ Peer(p) = s /\ p # s /\ Sides = {s, p}
  BY TwoSides
<1>2. /\ Types /\ SideOf(s) /\ SideOf(p) /\ hs[s] = "write"
      /\ UNCHANGED <<theirPub, suite, cut, connVars>>
  BY DEF IInv, WriteKey
<1>3. /\ sock[s] = <<>> /\ bw[s] = <<>> /\ written[s] = <<>> /\ KeyUnsent(s) /\ ~KeyTaken(p)
      /\ hs[p] # "done" /\ rn[p] = 0
  BY <1>1, <1>2 DEF SideOf, HandshakeOf, KeyUnsent, KeyTaken
<1>4. CASE cut /\ hs' = [hs EXCEPT ![s] = "failed"] /\ UNCHANGED sock
  <2>1. Types' /\ hs'[s] = "failed" /\ hs'[p] = hs[p]
    BY <1>1, <1>2, <1>4 DEF Types, connVars
  <2>2. HandshakeOf(s)' /\ HandshakeOf(p)'
    BY <1>1, <1>2, <1>3, <1>4, <2>1 DEF SideOf, HandshakeOf, KeyUnsent, KeyTaken, connVars
  <2>3. WriterOf(s)' /\ ReaderOf(s)' /\ WriterOf(p)' /\ ReaderOf(p)'
    BY <1>2, <1>4 DEF SideOf, WriterOf, ReaderOf, SentBy, connVars
  <2>4. PipeOf(s)' /\ PipeOf(p)'
    <3>1. Taken(s)' = Taken(s) /\ hs'[Peer(s)] = hs[Peer(s)]
      BY <1>1, <1>2, <2>1 DEF Taken, KeyTaken, connVars
    <3>2. hs'[Peer(p)] = "failed" /\ cut'
      BY <1>1, <1>2, <1>4, <2>1
    <3>3. QED
      BY <1>2, <1>4, <3>1, <3>2 DEF SideOf, PipeOf, connVars
  <2>5. QED
    BY <1>1, <2>1, <2>2, <2>3, <2>4 DEF IInv, SideOf
<1>5. CASE /\ ~cut /\ sock' = [sock EXCEPT ![s] = Append(@, KeyUnit(s))]
           /\ hs' = [hs EXCEPT ![s] = After(s, "write")]
  <2>1. /\ hs'[s] = After(s, "write") /\ hs'[p] = hs[p] /\ sock'[p] = sock[p]
        /\ sock'[s] = Append(<<>>, KeyUnit(s))
    BY <1>1, <1>2, <1>3, <1>5 DEF Types
  <2>2. KeyUnit(s) \in Units
    BY DEF KeyUnit, Units
  <2>3. sock'[s] \in Seq(Units) /\ Len(sock'[s]) = 1 /\ sock'[s][1] = KeyUnit(s)
    BY <2>1, <2>2
  <2>4. After(s, "write") \in {"read", "establish"} /\ (s = "server" => After(s, "write") = "establish")
        /\ (s = "client" => After(s, "write") = "read")
    BY DEF After, Sides
  <2>5. Types'
    <3>1. sock' \in [Sides -> Seq(Units)]
      BY <1>2, <1>5, <2>1, <2>3 DEF Types
    <3>2. QED
      BY <1>2, <1>5, <2>4, <3>1 DEF Types, connVars
  <2>6. HandshakeOf(s)' /\ HandshakeOf(p)'
    BY <1>1, <1>2, <1>3, <1>5, <2>1, <2>4
       DEF Sides, SideOf, HandshakeOf, KeyUnsent, KeyTaken, connVars
  <2>7. WriterOf(s)' /\ ReaderOf(s)' /\ WriterOf(p)' /\ ReaderOf(p)'
    BY <1>2, <1>5 DEF SideOf, WriterOf, ReaderOf, SentBy, connVars
  <2>8. PipeOf(s)'
    <3>1. ~KeyTaken(p)' /\ Taken(s)' = 0
      BY <1>1, <1>2, <1>3, <2>1 DEF Taken, KeyTaken, connVars
    <3>2. Len(written'[s]) = 0 /\ Len(bw'[s]) = 0 /\ cut' = cut
      BY <1>2, <1>3 DEF connVars
    <3>3. Follows(s, sock'[s], Taken(s)', written'[s])
      BY <2>3, <3>1, <3>2 DEF IsUnit, Follows
    <3>4. Follows(s, bw'[s], Taken(s)' + Len(sock'[s]), written'[s])
      BY <2>3, <3>1, <3>2 DEF Follows
    <3>5. /\ Len(sock'[s]) + Len(bw'[s]) <= 1 + 2 * Len(written'[s])
          /\ Len(bw'[s]) <= 2 * Len(written'[s])
          /\ Taken(s)' + Len(sock'[s]) + Len(bw'[s]) = 1 + 2 * Len(written'[s])
      BY <2>3, <3>1, <3>2
    <3>6. QED
      BY <3>3, <3>4, <3>5, Zenon DEF PipeOf
  <2>9. PipeOf(p)'
    <3>1. KeyTaken(s)' <=> KeyTaken(s)
      BY <1>2, <2>1, <2>4 DEF KeyTaken, Sides
    <3>2. Taken(p)' = Taken(p)
      BY <1>1, <1>2, <3>1 DEF Taken, connVars
    <3>3. KeyUnsent(p)' <=> KeyUnsent(p)
      BY <2>1 DEF KeyUnsent
    <3>4. hs[Peer(p)] # "failed"
      BY <1>1, <1>2
    <3>5. QED
      BY <1>2, <2>1, <3>2, <3>3, <3>4 DEF SideOf, PipeOf, connVars
  <2>10. QED
    BY <1>1, <2>5, <2>6, <2>7, <2>8, <2>9 DEF IInv, SideOf
<1>6. QED
  BY <1>4, <1>5 DEF WriteKey

\* The other side's key comes in, or the handshake fails.
LEMMA ReadKeyKeeps ==
    ASSUME IInv, NEW s \in Sides, ReadKey(s), UNCHANGED pkt
    PROVE  IInv'
<1>1. PICK p \in Sides : p = Peer(s) /\ Peer(p) = s /\ p # s /\ Sides = {s, p}
  BY TwoSides
<1>2. /\ Types /\ SideOf(s) /\ SideOf(p) /\ hs[s] = "read"
      /\ UNCHANGED <<suite, cut, connVars>>
  BY DEF IInv, ReadKey
<1>3. ~KeyTaken(s) /\ rn[s] = 0 /\ Taken(p) = 0
  BY <1>1, <1>2 DEF SideOf, HandshakeOf, KeyTaken, Taken
<1>4. CASE cut /\ hs' = [hs EXCEPT ![s] = "failed"] /\ UNCHANGED <<sock, theirPub>>
  <2>1. Types' /\ hs'[s] = "failed" /\ hs'[p] = hs[p]
    BY <1>1, <1>2, <1>4 DEF Types, connVars
  <2>2. HandshakeOf(s)' /\ HandshakeOf(p)'
    BY <1>1, <1>2, <1>3, <1>4, <2>1 DEF SideOf, HandshakeOf, KeyUnsent, KeyTaken, connVars
  <2>3. WriterOf(s)' /\ ReaderOf(s)' /\ WriterOf(p)' /\ ReaderOf(p)'
    BY <1>2, <1>4 DEF SideOf, WriterOf, ReaderOf, SentBy, connVars
  <2>4. PipeOf(s)' /\ PipeOf(p)'
    <3>1. Taken(s)' = Taken(s) /\ hs'[Peer(s)] = hs[Peer(s)]
      BY <1>1, <1>2, <2>1 DEF Taken, KeyTaken, connVars
    <3>2. hs'[Peer(p)] = "failed" /\ cut'
      BY <1>1, <1>2, <1>4, <2>1
    <3>3. QED
      BY <1>2, <1>4, <3>1, <3>2 DEF SideOf, PipeOf, connVars
  <2>5. QED
    BY <1>1, <2>1, <2>2, <2>3, <2>4 DEF IInv, SideOf
<1>5. CASE /\ sock[p] # <<>>
           /\ theirPub' = [theirPub EXCEPT ![s] = Head(sock[p]).of]
           /\ sock' = [sock EXCEPT ![p] = Tail(@)]
           /\ hs' = [hs EXCEPT ![s] = After(s, "read")]
  <2>1. /\ sock[p] \in Seq(Units) /\ Len(sock[p]) \in Nat \ {0} /\ written[p] \in Seq(Encodings)
        /\ Follows(p, sock[p], 0, written[p])
    BY <1>1, <1>2, <1>3, <1>5 DEF Types, SideOf, PipeOf
  <2>2. Head(sock[p]).of = p
    <3>1. IsUnit(p, sock[p][1], 0 + 1, written[p])
      BY <2>1 DEF Follows
    <3>2. sock[p][1] = KeyUnit(p)
      BY <3>1 DEF IsUnit
    <3>3. Head(sock[p]) = sock[p][1]
      BY <2>1
    <3>4. QED
      BY <3>2, <3>3 DEF KeyUnit
  <2>3. /\ hs'[s] = After(s, "read") /\ hs'[p] = hs[p] /\ sock'[s] = sock[s]
        /\ sock'[p] = Tail(sock[p]) /\ theirPub'[s] = p /\ theirPub'[p] = theirPub[p]
    BY <1>1, <1>2, <1>5, <2>2 DEF Types
  <2>4. /\ After(s, "read") \in {"write", "establish"}
        /\ (s = "client" => After(s, "read") = "establish")
        /\ (s = "server" => After(s, "read") = "write")
    BY DEF After, Sides
  <2>5. KeyTaken(s)' /\ ~KeyUnsent(p) /\ (KeyUnsent(s)' <=> KeyUnsent(s))
    <3>1. ~KeyUnsent(p)
      BY <1>2, <1>5 DEF SideOf, HandshakeOf
    <3>2. KeyTaken(s)' /\ (KeyUnsent(s)' <=> KeyUnsent(s))
      BY <1>2, <2>3, <2>4 DEF KeyTaken, KeyUnsent, Sides
    <3>3. QED
      BY <3>1, <3>2
  <2>6. /\ sock'[p] \in Seq(Units) /\ Len(sock'[p]) = Len(sock[p]) - 1
        /\ Follows(p, sock'[p], 1, written[p])
    <3>1. Tail(sock[p]) = SubSeq(sock[p], 1 + 1, Len(sock[p]))
      BY <2>1
    <3>2. 1 \in 0 .. Len(sock[p])
      BY <2>1
    <3>3. /\ Follows(p, SubSeq(sock[p], 1 + 1, Len(sock[p])), 0 + 1, written[p])
          /\ SubSeq(sock[p], 1 + 1, Len(sock[p])) \in Seq(Units)
          /\ Len(SubSeq(sock[p], 1 + 1, Len(sock[p]))) = Len(sock[p]) - 1
      BY <2>1, <3>2, DropFollows, ZenonT(30)
    <3>4. 0 + 1 = 1
      OBVIOUS
    <3>5. QED
      BY <2>3, <3>1, <3>3, <3>4, Zenon
  <2>7. Types'
    <3>1. sock' \in [Sides -> Seq(Units)]
      BY <1>2, <1>5, <2>3, <2>6 DEF Types
    <3>2. theirPub' \in [Sides -> Sides \cup {Nil}]
      BY <1>2, <1>5, <2>2 DEF Types
    <3>3. QED
      BY <1>2, <1>5, <2>4, <3>1, <3>2 DEF Types, connVars
  <2>8. HandshakeOf(s)'
    <3>1. hs'[s] # "done" /\ hs'[s] # "failed" /\ hs[s] # "done"
      BY <1>2, <2>3, <2>4
    <3>2. KeyTaken(p)' <=> KeyTaken(p)
      BY <2>3 DEF KeyTaken
    <3>3. QED
      BY <1>1, <1>2, <2>3, <2>5, <3>1, <3>2 DEF SideOf, HandshakeOf, connVars
  <2>9. HandshakeOf(p)'
    <3>1. (KeyTaken(p)' <=> KeyTaken(p)) /\ ~KeyUnsent(p)'
      BY <2>3, <2>5 DEF KeyTaken, KeyUnsent
    <3>2. QED
      BY <1>1, <1>2, <2>3, <3>1 DEF SideOf, HandshakeOf, connVars
  <2>10. WriterOf(s)' /\ ReaderOf(s)' /\ WriterOf(p)' /\ ReaderOf(p)'
    BY <1>2 DEF SideOf, WriterOf, ReaderOf, SentBy, connVars
  <2>11. PipeOf(s)'
    <3>1. Taken(s)' = Taken(s)
      BY <1>1, <1>2, <2>3 DEF Taken, KeyTaken, connVars
    <3>2. QED
      BY <1>1, <1>2, <2>3, <2>5, <3>1 DEF SideOf, PipeOf, connVars
  <2>12. PipeOf(p)'
    <3>1. Taken(p)' = 1
      BY <1>1, <1>2, <1>3, <2>5 DEF Taken, connVars
    <3>2. /\ Len(bw[p]) \in Nat /\ Len(written[p]) \in Nat
          /\ UNCHANGED <<bw, written, cut>>
      BY <1>1, <1>2, SMTT(30) DEF Types, connVars
    <3>3. Taken(p)' + Len(sock'[p]) = Taken(p) + Len(sock[p])
      BY <1>3, <2>1, <2>6, <3>1
    <3>4. Follows(p, sock'[p], Taken(p)', written'[p])
      BY <2>6, <3>1, <3>2
    <3>5. ~cut => /\ Follows(p, bw'[p], Taken(p)' + Len(sock'[p]), written'[p])
                  /\ Taken(p)' + Len(sock'[p]) + Len(bw'[p]) = 1 + 2 * Len(written'[p])
      BY <1>2, <2>5, <3>2, <3>3 DEF SideOf, PipeOf
    <3>6. /\ Len(sock'[p]) + Len(bw'[p]) <= 1 + 2 * Len(written'[p])
          /\ Len(bw'[p]) <= 2 * Len(written'[p])
      <4>1. /\ Len(sock[p]) + Len(bw[p]) <= 1 + 2 * Len(written[p])
            /\ Len(bw[p]) <= 2 * Len(written[p])
        BY <1>2 DEF SideOf, PipeOf
      <4>2. Len(sock'[p]) \in Nat /\ Len(sock'[p]) <= Len(sock[p])
        BY <2>1, <2>6
      <4>3. Len(sock[p]) \in Nat /\ Len(bw[p]) \in Nat /\ Len(written[p]) \in Nat
        BY <2>1, <3>2
      <4>4. Len(sock'[p]) + Len(bw[p]) <= 1 + 2 * Len(written[p])
        <5>1. PICK a, b, c, d \in Nat : /\ a = Len(sock[p]) /\ b = Len(bw[p])
                                        /\ c = Len(written[p]) /\ d = Len(sock'[p])
          BY <4>2, <4>3
        <5>2. a + b <= 1 + 2 * c /\ d <= a
          BY <4>1, <4>2, <5>1, Zenon
        <5>3. d + b <= 1 + 2 * c
          BY <5>2
        <5>4. QED
          BY <5>1, <5>3, Zenon
      <4>5. QED
        BY <3>2, <4>1, <4>4
    <3>7. QED
      BY <3>2, <3>4, <3>5, <3>6 DEF PipeOf
  <2>13. QED
    BY <1>1, <2>7, <2>8, <2>9, <2>10, <2>11, <2>12 DEF IInv, SideOf
<1>6. QED
  BY <1>1, <1>4, <1>5 DEF ReadKey

\* Both keys are there: the suite is the pair of them.
LEMMA EstablishKeeps ==
    ASSUME IInv, NEW s \in Sides, Establish(s), UNCHANGED pkt
    PROVE  IInv'
<1>1. PICK p \in Sides : p = Peer(s) /\ Peer(p) = s /\ p # s /\ Sides = {s, p}
  BY TwoSides
<1>2. /\ Types /\ SideOf(s) /\ SideOf(p) /\ hs[s] = "establish"
      /\ UNCHANGED <<theirPub, sock, cut, connVars>>
      /\ hs' = [hs EXCEPT ![s] = "done"] /\ suite' = [suite EXCEPT ![s] = SharedKey(s, theirPub[s])]
  BY DEF IInv, Establish
<1>3. theirPub[s] = p
  BY <1>1, <1>2 DEF SideOf, HandshakeOf, KeyTaken
<1>4. /\ hs'[s] = "done" /\ hs'[p] = hs[p] /\ suite'[s] = Sides /\ suite'[p] = suite[p]
  BY <1>1, <1>2, <1>3 DEF Types, SharedKey
<1>5. Types'
  <2>1. suite' \in [Sides -> {Sides, Nil}]
    BY <1>1, <1>2, <1>3 DEF Types, SharedKey
  <2>2. QED
    BY <1>2, <2>1 DEF Types, connVars
<1>6. /\ (KeyTaken(s)' <=> KeyTaken(s)) /\ (KeyTaken(p)' <=> KeyTaken(p))
      /\ (KeyUnsent(s)' <=> KeyUnsent(s)) /\ (KeyUnsent(p)' <=> KeyUnsent(p))
  BY <1>2, <1>4 DEF KeyTaken, KeyUnsent
<1>7. HandshakeOf(s)' /\ HandshakeOf(p)'
  BY <1>1, <1>2, <1>4, <1>6 DEF SideOf, HandshakeOf, connVars
<1>8. WriterOf(s)' /\ ReaderOf(s)' /\ WriterOf(p)' /\ ReaderOf(p)'
  BY <1>2 DEF SideOf, WriterOf, ReaderOf, SentBy, connVars
<1>9. Taken(s)' = Taken(s) /\ Taken(p)' = Taken(p)
  BY <1>1, <1>2, <1>6 DEF Taken, connVars
<1>10. PipeOf(s)' /\ PipeOf(p)'
  BY <1>1, <1>2, <1>4, <1>6, <1>9 DEF SideOf, PipeOf, connVars
<1>11. QED
  BY <1>1, <1>5, <1>7, <1>8, <1>10 DEF IInv, SideOf

\* SessionConn.Write: sealed with the next nonce, behind what is buffered.
LEMMA WriteKeeps ==
    ASSUME IInv, NEW s \in Sides, Write(s), UNCHANGED pkt
    PROVE  IInv'
<1>1. PICK p \in Sides : p = Peer(s) /\ Peer(p) = s /\ p # s /\ Sides = {s, p}
  BY TwoSides
<1>2. PICK b : b = Head(todo[s])
  OBVIOUS
<1>3. /\ Types /\ SideOf(s) /\ SideOf(p) /\ hs[s] = "done" /\ todo[s] # <<>>
      /\ wn' = [wn EXCEPT ![s] = @ + 1] /\ todo' = [todo EXCEPT ![s] = Tail(@)]
      /\ written' = [written EXCEPT ![s] = Append(@, b)]
      /\ UNCHANGED <<hs, theirPub, suite, rn, cut, received, failed>>
  BY <1>2 DEF IInv, Write
<1>4. PICK full : full = bw[s] \o <<LenUnit(Len(b) + Overhead), SealUnit(suite[s], wn[s], b)>>
  OBVIOUS
<1>5. PICK k \in 0 .. Len(full) :
        /\ k > 0 => ~cut
        /\ sock' = [sock EXCEPT ![s] = @ \o SubSeq(full, 1, k)]
        /\ bw' = [bw EXCEPT ![s] = SubSeq(full, k + 1, Len(full))]
  BY <1>2, <1>4 DEF Write, Spill
<1>6. PICK w : w = written[s]
  OBVIOUS
<1>7. /\ w \in Seq(Encodings) /\ Len(w) \in Nat /\ wn[s] = Len(w) /\ suite[s] = Sides
      /\ bw[s] \in Seq(Units) /\ sock[s] \in Seq(Units) /\ todo[s] \in Seq(Encodings)
      /\ Len(bw[s]) \in Nat /\ Len(sock[s]) \in Nat
  BY <1>3, <1>6, SMTT(30) DEF Types, SideOf, HandshakeOf, WriterOf
<1>8. /\ b \in Encodings /\ b = todo[s][1] /\ Tail(todo[s]) \in Seq(Encodings)
      /\ Len(todo[s]) \in Nat \ {0} /\ Len(Tail(todo[s])) = Len(todo[s]) - 1
      /\ \A i \in 1 .. Len(todo[s]) - 1 : Tail(todo[s])[i] = todo[s][i + 1]
  BY <1>2, <1>3, <1>7
<1>9. PICK v : v = Append(w, b)
  OBVIOUS
<1>10. /\ v \in Seq(Encodings) /\ Len(v) = Len(w) + 1 /\ v[Len(w) + 1] = b
       /\ \A i \in 1 .. Len(w) : v[i] = w[i]
  BY <1>7, <1>8, <1>9
<1>11. /\ full \in Seq(Units) /\ Len(full) = Len(bw[s]) + 2
  <2>1. PICK u : u = <<LenUnit(Len(b) + Overhead), SealUnit(Sides, Len(w), b)>>
    OBVIOUS
  <2>2. LenUnit(Len(b) + Overhead) \in Units /\ SealUnit(Sides, Len(w), b) \in Units
    BY <1>7, <1>8 DEF LenUnit, SealUnit, Units
  <2>3. u \in Seq(Units) /\ Len(u) = 2
    BY <2>1, <2>2
  <2>4. full = bw[s] \o u
    BY <1>4, <1>7, <2>1
  <2>5. bw[s] \o u \in Seq(Units) /\ Len(bw[s] \o u) = Len(bw[s]) + Len(u)
    BY <1>7, <2>3, ConcatEntries
  <2>6. QED
    BY <2>3, <2>4, <2>5
<1>12. /\ sock'[s] = sock[s] \o SubSeq(full, 1, k) /\ sock'[p] = sock[p]
       /\ bw'[s] = SubSeq(full, k + 1, Len(full)) /\ bw'[p] = bw[p]
       /\ written'[s] = v /\ written'[p] = written[p]
       /\ todo'[s] = Tail(todo[s]) /\ todo'[p] = todo[p]
       /\ wn'[s] = Len(w) + 1 /\ wn'[p] = wn[p]
  BY <1>1, <1>3, <1>5, <1>6, <1>7, <1>9 DEF Types
<1>13. /\ sock'[s] \in Seq(Units) /\ Len(sock'[s]) = Len(sock[s]) + k
       /\ bw'[s] \in Seq(Units) /\ Len(bw'[s]) = Len(bw[s]) + 2 - k
  <2>1. /\ sock[s] \o SubSeq(full, 1, k) \in Seq(Units)
        /\ Len(sock[s] \o SubSeq(full, 1, k)) = Len(sock[s]) + k
        /\ SubSeq(full, k + 1, Len(full)) \in Seq(Units)
        /\ Len(SubSeq(full, k + 1, Len(full))) = Len(full) - k
    <3>1. PICK q : q = sock[s]
      OBVIOUS
    <3>2. q \in Seq(Units)
      BY <1>7, <3>1
    <3>3. /\ q \o SubSeq(full, 1, k) \in Seq(Units) /\ Len(q \o SubSeq(full, 1, k)) = Len(q) + k
          /\ SubSeq(full, k + 1, Len(full)) \in Seq(Units)
          /\ Len(SubSeq(full, k + 1, Len(full))) = Len(full) - k
      BY <1>11, <3>2, SpillEntries
    <3>4. QED
      BY <3>1, <3>3
  <2>2. QED
    BY <1>11, <1>12, <2>1, SMTT(30)
<1>14. Types'
  <2>1. sock' \in [Sides -> Seq(Units)] /\ bw' \in [Sides -> Seq(Units)]
    BY <1>3, <1>5, <1>12, <1>13 DEF Types
  <2>2. /\ todo' \in [Sides -> Seq(Encodings)] /\ written' \in [Sides -> Seq(Encodings)]
    BY <1>3, <1>8, <1>10, <1>12 DEF Types
  <2>3. wn' \in [Sides -> Nat]
    <3>1. wn[s] + 1 \in Nat
      BY <1>7
    <3>2. QED
      BY <1>3, <3>1 DEF Types
  <2>4. QED
    BY <1>3, <2>1, <2>2, <2>3 DEF Types
<1>15. HandshakeOf(s)' /\ HandshakeOf(p)'
  <2>1. /\ (KeyTaken(s)' <=> KeyTaken(s)) /\ (KeyTaken(p)' <=> KeyTaken(p))
        /\ (KeyUnsent(p)' <=> KeyUnsent(p)) /\ ~KeyUnsent(s)'
    BY <1>3 DEF KeyTaken, KeyUnsent
  <2>2. QED
    BY <1>1, <1>3, <1>12, <2>1 DEF SideOf, HandshakeOf
<1>16. WriterOf(s)'
  <2>1. /\ Len(w) + Len(todo[s]) = Count(s)
        /\ \A i \in 1 .. Len(w) : w[i] \in AppendTo(SentBy(s, i))
        /\ \A i \in 1 .. Len(todo[s]) : todo[s][i] \in AppendTo(SentBy(s, Len(w) + i))
    BY <1>3, <1>6 DEF SideOf, WriterOf
  <2>2. \A i : SentBy(s, i)' = SentBy(s, i)
    BY DEF SentBy
  <2>3. ASSUME NEW i \in 1 .. Len(v)
        PROVE  v[i] \in AppendTo(SentBy(s, i)')
    <3>1. CASE i \in 1 .. Len(w)
      BY <1>10, <2>1, <2>2, <3>1
    <3>2. CASE i = Len(w) + 1
      <4>1. 1 \in 1 .. Len(todo[s])
        BY <1>8
      <4>2. QED
        BY <1>8, <1>10, <2>1, <2>2, <3>2, <4>1
    <3>3. QED
      BY <1>7, <1>10, <3>1, <3>2
  <2>4. ASSUME NEW i \in 1 .. Len(todo'[s])
        PROVE  todo'[s][i] \in AppendTo(SentBy(s, Len(v) + i)')
    <3>1. /\ i + 1 \in 1 .. Len(todo[s]) /\ todo'[s][i] = todo[s][i + 1]
          /\ Len(v) + i = Len(w) + (i + 1)
      BY <1>7, <1>8, <1>10, <1>12
    <3>2. todo[s][i + 1] \in AppendTo(SentBy(s, Len(w) + (i + 1)))
      BY <2>1, <3>1
    <3>3. QED
      BY <2>2, <3>1, <3>2
  <2>5. Len(v) + Len(todo'[s]) = Count(s)
    <3>1. PICK t : t = Len(todo[s])
      OBVIOUS
    <3>2. t \in Nat \ {0} /\ Len(todo'[s]) = t - 1 /\ Len(v) = Len(w) + 1 /\ Len(w) + t = Count(s)
      BY <1>8, <1>10, <1>12, <2>1, <3>1
    <3>3. QED
      BY <1>7, <3>2
  <2>6. wn'[s] = Len(v)
    BY <1>10, <1>12
  <2>7. QED
    BY <1>12, <2>3, <2>4, <2>5, <2>6 DEF WriterOf
<1>17. WriterOf(p)' /\ ReaderOf(s)'
  BY <1>1, <1>3, <1>12, ZenonT(30) DEF SideOf, WriterOf, ReaderOf, SentBy
<1>18. ReaderOf(p)'
  <2>1. /\ rn[p] <= Len(w) /\ rn[p] \in Nat /\ rn[p] = Len(received[p])
        /\ (\A i \in 1 .. rn[p] : received[p][i] = w[i])
        /\ failed[p] # "open" /\ (failed[p] = "EOF" => cut)
        /\ (failed[p] = "max" => rn[p] < Len(w) /\ Len(w[rn[p] + 1]) + Overhead > ReadBuffer)
    BY <1>1, <1>3, <1>6 DEF Types, SideOf, ReaderOf
  <2>2. rn[p] < Len(w) => w[rn[p] + 1] = v[rn[p] + 1]
    <3>1. rn[p] < Len(w) => rn[p] + 1 \in 1 .. Len(w)
      BY <1>7, <2>1
    <3>2. QED
      BY <1>10, <3>1
  <2>3. /\ rn[p] <= Len(v) /\ (\A i \in 1 .. rn[p] : received[p][i] = v[i])
        /\ (rn[p] < Len(w) => rn[p] < Len(v))
    BY <1>7, <1>10, <2>1
  <2>4. QED
    BY <1>1, <1>3, <1>12, <2>1, <2>2, <2>3, ZenonT(30) DEF ReaderOf
<1>19. Taken(s)' = Taken(s) /\ Taken(p)' = Taken(p) /\ Taken(s) \in Nat
  <2>1. Taken(s)' = Taken(s) /\ Taken(p)' = Taken(p)
    BY <1>1, <1>3 DEF Taken, KeyTaken
  <2>2. Taken(s) \in Nat
    <3>1. rn[p] \in Nat
      BY <1>3 DEF Types
    <3>2. QED
      BY <1>1, <3>1 DEF Taken
  <2>3. QED
    BY <2>1, <2>2
<1>20. PipeOf(s)'
  <2>1. /\ Len(sock[s]) + Len(bw[s]) <= 1 + 2 * Len(w) /\ Len(bw[s]) <= 2 * Len(w)
        /\ (hs[p] # "failed" => Follows(s, sock[s], Taken(s), w))
        /\ (~cut => /\ Taken(s) + Len(sock[s]) + Len(bw[s]) = 1 + 2 * Len(w)
                    /\ Follows(s, bw[s], Taken(s) + Len(sock[s]), w) /\ hs[p] # "failed")
    BY <1>1, <1>3, <1>6 DEF SideOf, PipeOf, HandshakeOf, KeyUnsent
  <2>2. /\ Len(sock'[s]) + Len(bw'[s]) <= 1 + 2 * Len(v) /\ Len(bw'[s]) <= 2 * Len(v)
    <3>1. PICK m, n \in Nat : m = Len(sock[s]) /\ n = Len(bw[s])
      BY <1>7
    <3>2. Len(sock'[s]) = m + k /\ Len(bw'[s]) = n + 2 - k /\ Len(v) = Len(w) + 1
          /\ m + n <= 1 + 2 * Len(w) /\ n <= 2 * Len(w)
      BY <1>10, <1>13, <2>1, <3>1
    <3>3. k \in Nat
      OBVIOUS
    <3>4. QED
      BY <1>7, <3>2, <3>3, SMTT(30)
  <2>3. hs[p] # "failed" => Follows(s, sock[s], Taken(s), v)
    BY <1>7, <1>8, <1>9, <1>19, <2>1, GrowFollows
  <2>4. CASE cut
    <3>1. k = 0
      BY <1>5, <2>4
    <3>2. sock'[s] = sock[s]
      BY <1>7, <1>11, <1>12, <3>1, SpillNothing
    <3>3. QED
      BY <1>1, <1>3, <1>12, <1>19, <2>2, <2>3, <2>4, <3>2 DEF PipeOf
  <2>5. CASE ~cut
    <3>1. Taken(s) + Len(sock[s]) \in Nat
      BY <1>7, <1>19
    <3>2. Follows(s, full, Taken(s) + Len(sock[s]), v)
      BY <1>4, <1>7, <1>8, <1>9, <2>1, <2>5, <3>1, NextFollows
    <3>3. /\ Follows(s, sock[s] \o SubSeq(full, 1, k), Taken(s), v)
          /\ Follows(s, SubSeq(full, k + 1, Len(full)), Taken(s) + Len(sock[s]) + k, v)
      BY <1>7, <1>10, <1>11, <1>19, <2>1, <2>3, <2>5, <3>2, SpillFollows
    <3>4. Taken(s) + Len(sock[s]) + k = Taken(s) + Len(sock'[s])
      BY <1>7, <1>13, <1>19
    <3>5. Taken(s) + Len(sock'[s]) + Len(bw'[s]) = 1 + 2 * Len(v)
      <4>1. PICK m, n, t \in Nat : m = Len(sock[s]) /\ n = Len(bw[s]) /\ t = Taken(s)
        BY <1>7, <1>19
      <4>2. Len(sock'[s]) = m + k /\ Len(bw'[s]) = n + 2 - k /\ Len(v) = Len(w) + 1
            /\ t + m + n = 1 + 2 * Len(w)
        BY <1>10, <1>13, <2>1, <2>5, <4>1
      <4>3. k \in Nat
        OBVIOUS
      <4>4. t + (m + k) + (n + 2 - k) = 1 + 2 * (Len(w) + 1)
        <5>1. PICK c, d \in Nat : c = Len(w) /\ d = k
          BY <1>7, <4>3
        <5>2. t + m + n = 1 + 2 * c
          BY <4>2, <5>1, Zenon
        <5>3. t + (m + d) + (n + 2 - d) = 1 + 2 * (c + 1)
          BY <5>2
        <5>4. QED
          BY <5>1, <5>3, Zenon
      <4>5. QED
        BY <4>1, <4>2, <4>4, Zenon
    <3>6. QED
      BY <1>1, <1>3, <1>12, <1>19, <2>2, <3>3, <3>4, <3>5 DEF PipeOf
  <2>6. QED
    BY <2>4, <2>5
<1>21. PipeOf(p)'
  BY <1>1, <1>3, <1>12, <1>19 DEF SideOf, PipeOf, KeyUnsent
<1>22. QED
  BY <1>1, <1>14, <1>15, <1>16, <1>17, <1>18, <1>20, <1>21 DEF IInv, SideOf

\* Flush: all that is buffered goes out.
LEMMA FlushKeeps ==
    ASSUME IInv, NEW s \in Sides, Flush(s), UNCHANGED pkt
    PROVE  IInv'
<1>1. PICK p \in Sides : p = Peer(s) /\ Peer(p) = s /\ p # s /\ Sides = {s, p}
  BY TwoSides
<1>2. /\ Types /\ SideOf(s) /\ SideOf(p) /\ bw[s] # <<>> /\ ~cut
      /\ sock' = [sock EXCEPT ![s] = @ \o bw[s]] /\ bw' = [bw EXCEPT ![s] = <<>>]
      /\ UNCHANGED <<hs, theirPub, suite, wn, rn, cut, todo, written, received, failed>>
  BY DEF IInv, Flush
<1>3. /\ bw[s] \in Seq(Units) /\ sock[s] \in Seq(Units) /\ written[s] \in Seq(Encodings)
      /\ Len(bw[s]) \in Nat /\ Len(sock[s]) \in Nat /\ Len(written[s]) \in Nat
  BY <1>2, SMTT(30) DEF Types
<1>4. /\ sock'[s] = sock[s] \o bw[s] /\ sock'[p] = sock[p] /\ bw'[s] = <<>> /\ bw'[p] = bw[p]
  BY <1>1, <1>2 DEF Types
<1>5. sock'[s] \in Seq(Units) /\ Len(sock'[s]) = Len(sock[s]) + Len(bw[s])
  BY <1>3, <1>4
<1>6. Types'
  <2>1. sock' \in [Sides -> Seq(Units)] /\ bw' \in [Sides -> Seq(Units)]
    BY <1>2, <1>4, <1>5, SMTT(30) DEF Types
  <2>2. QED
    BY <1>2, <2>1 DEF Types
<1>7. hs[s] = "done"
  BY <1>2 DEF SideOf, HandshakeOf
<1>8. HandshakeOf(s)' /\ HandshakeOf(p)'
  <2>1. /\ (KeyTaken(s)' <=> KeyTaken(s)) /\ (KeyTaken(p)' <=> KeyTaken(p))
        /\ (KeyUnsent(p)' <=> KeyUnsent(p)) /\ ~KeyUnsent(s)'
    BY <1>2, <1>7 DEF KeyTaken, KeyUnsent
  <2>2. QED
    BY <1>1, <1>2, <1>4, <1>7, <2>1 DEF SideOf, HandshakeOf
<1>9. WriterOf(s)' /\ ReaderOf(s)' /\ WriterOf(p)' /\ ReaderOf(p)'
  BY <1>2 DEF SideOf, WriterOf, ReaderOf, SentBy
<1>10. Taken(s)' = Taken(s) /\ Taken(p)' = Taken(p)
  BY <1>1, <1>2 DEF Taken, KeyTaken
<1>11. PICK t \in Nat : t = Taken(s)
  <2>1. rn[p] \in Nat
    BY <1>2 DEF Types
  <2>2. QED
    BY <1>1, <2>1 DEF Taken
<1>12. PipeOf(s)'
  <2>1. /\ Len(sock[s]) + Len(bw[s]) <= 1 + 2 * Len(written[s])
        /\ Follows(s, sock[s], t, written[s])
        /\ t + Len(sock[s]) + Len(bw[s]) = 1 + 2 * Len(written[s])
        /\ Follows(s, bw[s], t + Len(sock[s]), written[s])
    BY <1>1, <1>2, <1>7, <1>11 DEF SideOf, PipeOf, HandshakeOf, KeyUnsent
  <2>2. bw[s] = SubSeq(bw[s], 1, Len(bw[s])) /\ Len(bw[s]) \in 0 .. Len(bw[s])
    BY <1>3
  <2>3. Follows(s, sock[s] \o SubSeq(bw[s], 1, Len(bw[s])), t, written[s])
    BY <1>3, <2>1, <2>2, SpillFollows
  <2>4. Follows(s, sock'[s], t, written[s])
    BY <1>4, <2>2, <2>3, Zenon
  <2>5. t + Len(sock'[s]) = 1 + 2 * Len(written[s]) /\ Len(bw'[s]) = 0
    <3>1. Len(bw'[s]) = 0
      BY <1>4
    <3>2. PICK m, n, r \in Nat : m = Len(sock[s]) /\ n = Len(bw[s]) /\ r = Len(written[s])
      BY <1>3
    <3>3. t + m + n = 1 + 2 * r /\ Len(sock'[s]) = m + n
      BY <1>5, <2>1, <3>2, Zenon
    <3>4. t + (m + n) = 1 + 2 * r
      BY <3>3
    <3>5. QED
      BY <3>1, <3>2, <3>3, <3>4, Zenon
  <2>6. Follows(s, bw'[s], t + Len(sock'[s]), written[s])
    BY <1>3, <2>5 DEF Follows
  <2>7. /\ Len(sock'[s]) + Len(bw'[s]) <= 1 + 2 * Len(written[s])
        /\ Len(bw'[s]) <= 2 * Len(written[s])
        /\ t + Len(sock'[s]) + Len(bw'[s]) = 1 + 2 * Len(written[s])
    <3>0. Len(sock'[s]) \in Nat
      <4>1. Len(sock[s]) \in Nat /\ Len(bw[s]) \in Nat
        BY <1>3
      <4>2. PICK m, n \in Nat : m = Len(sock[s]) /\ n = Len(bw[s])
        BY <4>1
      <4>3. m + n \in Nat
        OBVIOUS
      <4>4. Len(sock'[s]) = m + n
        BY <1>5, <4>2, Zenon
      <4>5. QED
        BY <4>3, <4>4, Zenon
    <3>1. PICK m, r \in Nat : m = Len(sock'[s]) /\ r = Len(written[s])
      BY <1>3, <3>0, Zenon
    <3>2. t + m = 1 + 2 * r
      BY <2>5, <3>1, Zenon
    <3>3. m + 0 <= 1 + 2 * r /\ 0 <= 2 * r /\ t + m + 0 = 1 + 2 * r
      BY <3>2
    <3>4. QED
      BY <2>5, <3>1, <3>3, Zenon
  <2>8. QED
    BY <1>2, <1>10, <1>11, <2>4, <2>6, <2>7, Zenon DEF PipeOf
<1>13. PipeOf(p)'
  BY <1>1, <1>2, <1>4, <1>10 DEF SideOf, PipeOf, KeyUnsent
<1>14. QED
  BY <1>1, <1>6, <1>8, <1>9, <1>12, <1>13 DEF IInv, SideOf

\* The socket is cut: of both directions a part is left.
LEMMA CutKeeps ==
    ASSUME IInv, Cut, UNCHANGED pkt
    PROVE  IInv'
<1>1. /\ Types /\ ~cut /\ cut' = TRUE /\ UNCHANGED <<hs, theirPub, suite, connVars>>
      /\ sock \in [Sides -> Seq(Units)]
  BY DEF IInv, Cut, Types
<1>2. PICK c \in [Sides -> Nat] :
        /\ \A s \in Sides : c[s] \in 0 .. Len(sock[s])
        /\ sock' = [s \in Sides |-> SubSeq(sock[s], 1, c[s])]
  <2>1. PICK m \in 0 .. Len(sock["client"]), n \in 0 .. Len(sock["server"]) :
          sock' = [s \in Sides |-> SubSeq(sock[s], 1, IF s = "client" THEN m ELSE n)]
    BY DEF Cut
  <2> DEFINE d == [s \in Sides |-> IF s = "client" THEN m ELSE n]
  <2>2. d \in [Sides -> Nat] /\ \A s \in Sides : d[s] \in 0 .. Len(sock[s])
    BY DEF Sides
  <2>3. sock' = [s \in Sides |-> SubSeq(sock[s], 1, d[s])]
    BY <2>1
  <2> HIDE DEF d
  <2>4. QED
    BY <2>2, <2>3
<1>3. ASSUME NEW s \in Sides
      PROVE  SideOf(s)' /\ sock'[s] \in Seq(Units)
  <2>1. PICK p \in Sides : p = Peer(s)
    BY TwoSides
  <2>2. /\ SideOf(s) /\ sock[s] \in Seq(Units) /\ written[s] \in Seq(Encodings)
        /\ Len(sock[s]) \in Nat /\ Len(bw[s]) \in Nat /\ Len(written[s]) \in Nat
        /\ sock'[s] = SubSeq(sock[s], 1, c[s]) /\ c[s] \in 0 .. Len(sock[s])
    <3>1. /\ SideOf(s) /\ sock[s] \in Seq(Units) /\ written[s] \in Seq(Encodings)
          /\ bw[s] \in Seq(Units)
      BY <1>1 DEF IInv, Types
    <3>2. sock'[s] = SubSeq(sock[s], 1, c[s]) /\ c[s] \in 0 .. Len(sock[s])
      BY <1>2, Zenon
    <3>3. QED
      BY <3>1, <3>2
  <2>3. PICK t \in Nat : t = Taken(s)
    <3>1. rn[p] \in Nat
      BY <1>1 DEF Types
    <3>2. QED
      BY <2>1, <3>1 DEF Taken
  <2>4. /\ Follows(s, sock[s], t, written[s]) => Follows(s, sock'[s], t, written[s])
        /\ sock'[s] \in Seq(Units) /\ Len(sock'[s]) = c[s]
    BY <2>2, CutFollows
  <2>5. (KeyTaken(s)' <=> KeyTaken(s)) /\ (KeyUnsent(s)' <=> KeyUnsent(s)) /\ Taken(s)' = t
        /\ (KeyTaken(p)' <=> KeyTaken(p))
    BY <1>1, <2>3 DEF KeyTaken, KeyUnsent, Taken, connVars
  <2>6. HandshakeOf(s)'
    <3>1. sock[s] = <<>> => sock'[s] = <<>>
      BY <2>2, <2>4
    <3>2. QED
      BY <1>1, <2>1, <2>2, <2>5, <3>1 DEF SideOf, HandshakeOf, connVars
  <2>7. WriterOf(s)' /\ ReaderOf(s)'
    BY <1>1, <2>2 DEF SideOf, WriterOf, ReaderOf, SentBy, connVars
  <2>8. PipeOf(s)'
    <3>1. /\ Len(sock[s]) + Len(bw[s]) <= 1 + 2 * Len(written[s])
          /\ Len(bw[s]) <= 2 * Len(written[s])
          /\ hs[Peer(s)] # "failed" => Follows(s, sock'[s], t, written[s])
      BY <2>2, <2>3, <2>4 DEF SideOf, PipeOf
    <3>2. Len(sock'[s]) + Len(bw[s]) <= 1 + 2 * Len(written[s])
      <4>1. PICK m, n, r, d \in Nat :
              m = Len(sock[s]) /\ n = Len(bw[s]) /\ r = Len(written[s]) /\ d = Len(sock'[s])
        BY <2>2, <2>4
      <4>2. m + n <= 1 + 2 * r /\ d <= m
        <5>1. m + n <= 1 + 2 * r
          BY <3>1, <4>1, Zenon
        <5>2. d \in 0 .. m
          BY <2>2, <2>4, <4>1, Zenon
        <5>3. QED
          BY <5>1, <5>2
      <4>3. d + n <= 1 + 2 * r
        BY <4>2
      <4>4. QED
        BY <4>1, <4>3, Zenon
    <3>3. UNCHANGED <<hs, bw, written>>
      BY <1>1 DEF connVars
    <3>4. QED
      BY <1>1, <2>5, <3>1, <3>2, <3>3 DEF PipeOf
  <2>9. QED
    BY <2>4, <2>6, <2>7, <2>8 DEF SideOf
<1>4. Types'
  <2>1. sock' \in [Sides -> Seq(Units)]
    BY <1>2, <1>3
  <2>2. QED
    BY <1>1, <2>1 DEF Types, connVars
<1>5. QED
  BY <1>3, <1>4 DEF IInv

\* SessionConn.Read: the next frame opens, or is too long for the buffer, or the
\* socket has ended.
LEMMA ReadKeeps ==
    ASSUME IInv, NEW s \in Sides, Read(s), UNCHANGED pkt
    PROVE  IInv'
<1>1. PICK p \in Sides : p = Peer(s) /\ Peer(p) = s /\ p # s /\ Sides = {s, p}
  BY TwoSides
<1>2. PICK in : in = sock[p]
  OBVIOUS
<1>3. /\ Types /\ SideOf(s) /\ SideOf(p) /\ hs[s] = "done" /\ failed[s] = "none"
      /\ UNCHANGED <<hs, theirPub, suite, wn, bw, cut, todo, written>>
  BY DEF IInv, Read
<1>4. PICK w : w = written[p]
  OBVIOUS
<1>5. PICK n \in Nat : n = rn[s]
  BY <1>3 DEF Types
<1>6. /\ in \in Seq(Units) /\ Len(in) \in Nat /\ w \in Seq(Encodings) /\ Len(w) \in Nat
      /\ suite[s] = Sides /\ Follows(p, in, 1 + 2 * n, w) /\ Taken(p) = 1 + 2 * n
      /\ received[s] \in Seq(Encodings) /\ Len(received[s]) = n /\ n <= Len(w)
      /\ \A i \in 1 .. n : received[s][i] = w[i]
  <2>1. KeyTaken(s) /\ Taken(p) = 1 + 2 * n
    BY <1>1, <1>3, <1>5 DEF KeyTaken, Taken
  <2>2. Follows(p, in, Taken(p), w)
    BY <1>1, <1>2, <1>3, <1>4 DEF SideOf, PipeOf
  <2>3. /\ Len(received[s]) = n /\ n <= Len(w)
        /\ \A i \in 1 .. n : received[s][i] = w[i]
    BY <1>1, <1>3, <1>4, <1>5 DEF SideOf, ReaderOf
  <2>4. in \in Seq(Units) /\ w \in Seq(Encodings) /\ received[s] \in Seq(Encodings)
    BY <1>2, <1>3, <1>4 DEF Types
  <2>5. suite[s] = Sides
    BY <1>3 DEF SideOf, HandshakeOf
  <2>6. Len(in) \in Nat /\ Len(w) \in Nat
    BY <2>4
  <2>7. QED
    BY <2>1, <2>2, <2>3, <2>4, <2>5, <2>6
<1>7. ASSUME 1 <= Len(in)
      PROVE  n < Len(w) /\ in[1] = LenUnit(Len(w[n + 1]) + Overhead)
  <2>1. PICK m, r \in Nat : m = Len(in) /\ r = Len(w)
    BY <1>6
  <2>2. 1 + 2 * n + m <= 1 + 2 * r /\ 1 <= m
    BY <1>6, <1>7, <2>1 DEF Follows
  <2>3. n < r /\ n + 1 \in 1 .. r /\ 1 \in 1 .. m /\ 1 + 2 * n + 1 = 2 * (n + 1)
    BY <2>2
  <2>4. IsUnit(p, in[1], 1 + 2 * n + 1, w)
    BY <1>6, <2>1, <2>3 DEF Follows
  <2>5. QED
    BY <2>1, <2>3, <2>4 DEF IsUnit
<1>8. ASSUME 2 <= Len(in)
      PROVE  in[2] = SealUnit(Sides, n, w[n + 1])
  <2>1. PICK m, r \in Nat : m = Len(in) /\ r = Len(w)
    BY <1>6
  <2>2. 2 \in 1 .. m /\ 1 + 2 * n + 2 = 2 * (n + 1) + 1 /\ (n + 1) - 1 = n
    BY <1>8, <2>1
  <2>3. n + 1 \in 1 .. r
    BY <1>6, <1>7, <1>8, <2>1
  <2>4. IsUnit(p, in[2], 1 + 2 * n + 2, w)
    BY <1>6, <2>1, <2>2 DEF Follows
  <2>5. QED
    BY <2>1, <2>2, <2>3, <2>4 DEF IsUnit
<1>9. WriterOf(s)' /\ WriterOf(p)'
  BY <1>3 DEF SideOf, WriterOf, SentBy
<1>10. /\ (KeyTaken(s)' <=> KeyTaken(s)) /\ (KeyTaken(p)' <=> KeyTaken(p))
       /\ (KeyUnsent(s)' <=> KeyUnsent(s)) /\ (KeyUnsent(p)' <=> KeyUnsent(p))
  BY <1>3 DEF KeyTaken, KeyUnsent
<1>11. CASE /\ Len(in) > 1 /\ sock' = [sock EXCEPT ![p] = SubSeq(@, 3, Len(@))]
            /\ rn' = [rn EXCEPT ![s] = @ + 1]
            /\ IF Opens(s, in[2])
               THEN /\ received' = [received EXCEPT ![s] = Append(@, in[2].plain)]
                    /\ UNCHANGED failed
               ELSE failed' = [failed EXCEPT ![s] = "open"] /\ UNCHANGED received
  <2>1. 1 <= Len(in) /\ 2 <= Len(in) /\ 2 \in 0 .. Len(in)
    BY <1>6, <1>11
  <2>2. /\ in[2] = SealUnit(Sides, n, w[n + 1]) /\ n < Len(w) /\ w[n + 1] \in Encodings
    BY <1>6, <1>7, <1>8, <2>1
  <2>3. Opens(s, in[2]) /\ in[2].plain = w[n + 1]
    BY <1>5, <1>6, <2>2 DEF Opens, SealUnit
  <2>4. /\ received' = [received EXCEPT ![s] = Append(@, w[n + 1])] /\ UNCHANGED failed
    BY <1>11, <2>3
  <2>5. /\ sock'[s] = sock[s] /\ sock'[p] = SubSeq(in, 2 + 1, Len(in)) /\ rn'[s] = n + 1
        /\ rn'[p] = rn[p] /\ received'[p] = received[p]
        /\ received'[s] = Append(received[s], w[n + 1])
    <3>1. 2 + 1 = 3
      OBVIOUS
    <3>2. QED
      BY <1>1, <1>2, <1>3, <1>5, <1>11, <2>4, <3>1 DEF Types
  <2>6. /\ sock'[p] \in Seq(Units) /\ Len(sock'[p]) = Len(in) - 2
        /\ Follows(p, sock'[p], 1 + 2 * n + 2, w)
    <3>1. PICK z \in Nat : z = 1 + 2 * n
      OBVIOUS
    <3>2. Follows(p, in, z, w)
      BY <1>6, <3>1, Zenon
    <3>3. /\ Follows(p, SubSeq(in, 2 + 1, Len(in)), z + 2, w)
          /\ SubSeq(in, 2 + 1, Len(in)) \in Seq(Units)
          /\ Len(SubSeq(in, 2 + 1, Len(in))) = Len(in) - 2
      BY <1>6, <2>1, <3>2, DropFollows, ZenonT(30)
    <3>4. QED
      BY <2>5, <3>1, <3>3, Zenon
  <2>7. /\ received'[s] \in Seq(Encodings) /\ Len(received'[s]) = n + 1
        /\ \A i \in 1 .. n + 1 : received'[s][i] = w[i]
    BY <1>6, <2>2, <2>5, SMTT(30)
  <2>8. Types'
    <3>1. sock' \in [Sides -> Seq(Units)] /\ received' \in [Sides -> Seq(Encodings)]
      BY <1>3, <1>11, <2>4, <2>5, <2>6, <2>7 DEF Types
    <3>2. rn' \in [Sides -> Nat]
      <4>1. rn \in [Sides -> Nat] /\ rn' = [rn EXCEPT ![s] = rn[s] + 1]
        BY <1>3, <1>11 DEF Types
      <4>2. QED
        BY <4>1
    <3>3. QED
      BY <1>3, <2>4, <3>1, <3>2 DEF Types
  <2>9. HandshakeOf(s)'
    BY <1>1, <1>3, <1>10, <2>5 DEF SideOf, HandshakeOf
  <2>10. HandshakeOf(p)'
    <3>1. ~KeyUnsent(p)
      BY <1>1, <1>3 DEF SideOf, HandshakeOf, KeyTaken
    <3>2. QED
      BY <1>1, <1>3, <1>10, <2>4, <2>5, <3>1 DEF SideOf, HandshakeOf
  <2>11. ReaderOf(s)'
    <3>1. n + 1 <= Len(w) /\ failed'[s] = "none" /\ written'[p] = w
      BY <1>3, <1>4, <1>6, <2>2, <2>4
    <3>2. QED
      BY <1>1, <2>5, <2>7, <3>1 DEF ReaderOf
  <2>12. ReaderOf(p)'
    BY <1>3, <2>4, <2>5 DEF SideOf, ReaderOf
  <2>13. PipeOf(s)'
    <3>1. Taken(s)' = Taken(s)
      BY <1>1, <1>10, <2>5 DEF Taken
    <3>2. QED
      BY <1>3, <1>10, <2>5, <3>1 DEF SideOf, PipeOf
  <2>14. PipeOf(p)'
    <3>1. Taken(p)' = 1 + 2 * n + 2
      BY <1>1, <1>3, <1>5, <1>10, <2>5 DEF Taken, KeyTaken
    <3>2. PICK m, c, r \in Nat : m = Len(in) /\ c = Len(bw[p]) /\ r = Len(w)
      <4>1. bw[p] \in Seq(Units)
        BY <1>3 DEF Types
      <4>2. Len(bw[p]) \in Nat
        BY <4>1
      <4>3. QED
        BY <1>6, <4>2, Zenon
    <3>3. /\ m + c <= 1 + 2 * r /\ c <= 2 * r /\ 2 <= m
          /\ ~cut => Follows(p, bw[p], 1 + 2 * n + m, w)
          /\ ~cut => KeyUnsent(p) \/ 1 + 2 * n + m + c = 1 + 2 * r
      BY <1>2, <1>3, <1>4, <1>6, <2>1, <3>2 DEF SideOf, PipeOf
    <3>4. (m - 2) + c <= 1 + 2 * r /\ 1 + 2 * n + 2 + (m - 2) = 1 + 2 * n + m
      BY <3>3
    <3>5. /\ Len(sock'[p]) = m - 2 /\ bw'[p] = bw[p] /\ written'[p] = w /\ cut' = cut
      BY <1>3, <1>4, <2>6, <3>2
    <3>6. QED
      BY <1>10, <2>6, <3>1, <3>2, <3>3, <3>4, <3>5, Zenon DEF PipeOf
  <2>15. QED
    BY <1>1, <1>9, <2>8, <2>9, <2>10, <2>11, <2>12, <2>13, <2>14 DEF IInv, SideOf
<1>12. CASE /\ UNCHANGED <<sock, rn, received>>
            /\ \/ in # <<>> /\ TooLong(in[1].n) /\ failed' = [failed EXCEPT ![s] = "max"]
               \/ cut /\ failed' = [failed EXCEPT ![s] = "EOF"]
  <2>1. Types' /\ failed'[p] = failed[p] /\ failed'[s] \in {"max", "EOF"}
    BY <1>1, <1>3, <1>12 DEF Types
  <2>2. failed'[s] = "EOF" => cut
    BY <1>3, <1>12 DEF Types
  <2>3. failed'[s] = "max" => n < Len(w) /\ Len(w[n + 1]) + Overhead > ReadBuffer
    <3>1. failed'[s] = "max" => in # <<>> /\ TooLong(in[1].n)
      BY <1>3, <1>12 DEF Types
    <3>2. in # <<>> => 1 <= Len(in)
      BY <1>6
    <3>3. LenUnit(Len(w[n + 1]) + Overhead).n = Len(w[n + 1]) + Overhead
      BY DEF LenUnit
    <3>4. QED
      BY <1>7, <3>1, <3>2, <3>3, Zenon DEF TooLong
  <2>4. HandshakeOf(s)' /\ HandshakeOf(p)'
    BY <1>1, <1>3, <1>10, <1>12, <2>1 DEF SideOf, HandshakeOf
  <2>5. ReaderOf(s)'
    BY <1>1, <1>3, <1>4, <1>5, <1>12, <2>1, <2>2, <2>3 DEF SideOf, ReaderOf
  <2>6. ReaderOf(p)'
    BY <1>3, <1>12, <2>1 DEF SideOf, ReaderOf
  <2>7. Taken(s)' = Taken(s) /\ Taken(p)' = Taken(p)
    BY <1>1, <1>10, <1>12 DEF Taken
  <2>8. PipeOf(s)' /\ PipeOf(p)'
    BY <1>3, <1>10, <1>12, <2>7 DEF SideOf, PipeOf
  <2>9. QED
    BY <1>1, <1>9, <2>1, <2>4, <2>5, <2>6, <2>8 DEF IInv, SideOf
<1>13. QED
  BY <1>1, <1>2, <1>11, <1>12 DEF Read, NextNonce

-----------------------------------------------------------------------------
\* The invariant.

\* At first the packets are all to be written and nothing is sent.
LEMMA InitInv == Init => IInv
<1> SUFFICES ASSUME Init
             PROVE  IInv
  OBVIOUS
<1>1. PICK first \in AppendTo(pkt), second \in AppendTo(Marker) :
        SessionInit([s \in Sides |-> IF s = "client" THEN <<first, second>> ELSE <<second>>])
  BY DEF Init
<1>2. pkt \in Inputs /\ first \in Encodings /\ second \in Encodings
  BY <1>1 DEF Init, Encodings
<1>3. /\ hs = [s \in Sides |-> IF s = "client" THEN "write" ELSE "read"]
      /\ theirPub = [s \in Sides |-> Nil] /\ suite = [s \in Sides |-> Nil]
      /\ wn = [s \in Sides |-> 0] /\ rn = [s \in Sides |-> 0]
      /\ bw = [s \in Sides |-> <<>>] /\ sock = [s \in Sides |-> <<>>] /\ cut = FALSE
      /\ todo = [s \in Sides |-> IF s = "client" THEN <<first, second>> ELSE <<second>>]
      /\ written = [s \in Sides |-> <<>>] /\ received = [s \in Sides |-> <<>>]
      /\ failed = [s \in Sides |-> "none"]
  BY <1>1 DEF SessionInit
<1>4. Types
  <2>1. todo \in [Sides -> Seq(Encodings)]
    BY <1>2, <1>3
  <2>2. /\ written \in [Sides -> Seq(Encodings)] /\ received \in [Sides -> Seq(Encodings)]
        /\ bw \in [Sides -> Seq(Units)] /\ sock \in [Sides -> Seq(Units)]
    BY <1>3
  <2>3. QED
    BY <1>2, <1>3, <2>1, <2>2 DEF Types
<1>5. ASSUME NEW s \in Sides
      PROVE  SideOf(s)
  <2>1. /\ hs[s] = (IF s = "client" THEN "write" ELSE "read") /\ wn[s] = 0 /\ rn[s] = 0
        /\ bw[s] = <<>> /\ sock[s] = <<>> /\ written[s] = <<>> /\ received[s] = <<>>
        /\ failed[s] = "none" /\ ~cut /\ written[Peer(s)] = <<>> /\ rn[Peer(s)] = 0
        /\ todo[s] = IF s = "client" THEN <<first, second>> ELSE <<second>>
    BY <1>3, TwoSides
  <2>2. KeyUnsent(s) /\ ~KeyTaken(s) /\ ~KeyTaken(Peer(s))
    BY <1>3, TwoSides DEF KeyUnsent, KeyTaken, Sides, Peer
  <2>3. HandshakeOf(s)
    BY <2>1, <2>2 DEF HandshakeOf
  <2>4. WriterOf(s)
    <3>1. CASE s = "client"
      <4>1. todo[s] = <<first, second>> /\ Len(todo[s]) = 2 /\ todo[s][1] = first
            /\ todo[s][2] = second
        BY <2>1, <3>1
      <4>2. SentBy(s, 0 + 1) = pkt /\ SentBy(s, 0 + 2) = Marker
        BY <3>1 DEF SentBy
      <4>3. \A i \in 1 .. 2 : todo[s][i] \in AppendTo(SentBy(s, 0 + i))
        BY <1>1, <4>1, <4>2
      <4>4. Len(written[s]) = 0
        BY <2>1
      <4>5. QED
        BY <2>1, <3>1, <4>1, <4>3, <4>4 DEF WriterOf, Count
    <3>2. CASE s # "client"
      <4>1. todo[s] = <<second>> /\ Len(todo[s]) = 1 /\ todo[s][1] = second
        BY <2>1, <3>2
      <4>2. SentBy(s, 0 + 1) = Marker
        BY <3>2 DEF SentBy
      <4>3. \A i \in 1 .. 1 : todo[s][i] \in AppendTo(SentBy(s, 0 + i))
        BY <1>1, <4>1, <4>2
      <4>4. Len(written[s]) = 0
        BY <2>1
      <4>5. QED
        BY <2>1, <3>2, <4>1, <4>3, <4>4 DEF WriterOf, Count
    <3>3. QED
      BY <3>1, <3>2
  <2>5. ReaderOf(s)
    BY <2>1 DEF ReaderOf
  <2>6. PipeOf(s)
    <3>1. Taken(s) = 0
      BY <2>1, <2>2 DEF Taken
    <3>2. QED
      BY <2>1, <2>2, <3>1 DEF PipeOf, Follows
  <2>7. QED
    BY <2>3, <2>4, <2>5, <2>6 DEF SideOf
<1>6. QED
  BY <1>4, <1>5 DEF IInv

\* Every step keeps the invariant.
LEMMA NextInv == IInv /\ [Next]_vars => IInv'
<1> SUFFICES ASSUME IInv, [Next]_vars
             PROVE  IInv'
  OBVIOUS
<1>1. ASSUME NEW s \in Sides, SideStep(s), UNCHANGED pkt
      PROVE  IInv'
  BY <1>1, WriteKeyKeeps, ReadKeyKeeps, EstablishKeeps, WriteKeeps, FlushKeeps, ReadKeeps
     DEF SideStep
<1>2. CASE UNCHANGED vars
  BY <1>2 DEF vars, sessionVars, IInv, Types, SideOf, HandshakeOf, WriterOf, ReaderOf, PipeOf,
              KeyTaken, KeyUnsent, Taken, SentBy
<1>3. QED
  BY <1>1, <1>2, CutKeeps DEF Next, SessionNext

\* The invariant holds in every state.
THEOREM Invariance == Spec => []IInv
BY InitInv, NextInv, PTL DEF Spec

-----------------------------------------------------------------------------
\* The properties.

\* SessionConn.Read fails only when the socket has been cut or when the frame exceeds
\* the buffer: the suites agree and the nonces stay in step, whatever the
\* bufio.Writers spill and whenever the socket is cut.
THEOREM ReadCorrect == Spec => []ReadHonest
<1>1. ASSUME IInv
      PROVE  TypeOK
  <2>1. Types
    BY <1>1 DEF IInv
  <2>2. ASSUME NEW s \in Sides
        PROVE  wn[s] \in 0 .. 2 /\ rn[s] \in 0 .. 2 /\ Len(bw[s]) <= 4 /\ Len(sock[s]) <= 5
    <3>1. PICK p \in Sides : p = Peer(s) /\ Peer(p) = s
      BY TwoSides
    <3>2. SideOf(s) /\ SideOf(p)
      BY <1>1, <3>1 DEF IInv
    <3>3. /\ Len(written[s]) \in Nat /\ Len(written[p]) \in Nat /\ Len(todo[s]) \in Nat
          /\ Len(todo[p]) \in Nat /\ Len(bw[s]) \in Nat /\ Len(sock[s]) \in Nat /\ rn[s] \in Nat
      BY <2>1, SMTT(30) DEF Types
    <3>4. ASSUME NEW t \in Sides, WriterOf(t), Len(written[t]) \in Nat, Len(todo[t]) \in Nat
          PROVE  Len(written[t]) <= 2
      <4>1. Len(written[t]) + Len(todo[t]) = Count(t)
        BY <3>4 DEF WriterOf
      <4>2. Count(t) \in {1, 2}
        BY DEF Count
      <4>3. PICK m, n \in Nat : m = Len(written[t]) /\ n = Len(todo[t])
        BY <3>4
      <4>4. m + n \in {1, 2}
        BY <4>1, <4>2, <4>3, Zenon
      <4>5. m <= 2
        BY <4>4
      <4>6. QED
        BY <4>3, <4>5, Zenon
    <3>10. Len(written[s]) <= 2 /\ Len(written[p]) <= 2
      BY <3>2, <3>3, <3>4 DEF SideOf
    <3>5. wn[s] = Len(written[s]) /\ rn[s] <= Len(written[p])
      BY <3>1, <3>2 DEF SideOf, WriterOf, ReaderOf
    <3>6. PICK m, n, r \in Nat : m = Len(sock[s]) /\ n = Len(bw[s]) /\ r = Len(written[s])
      BY <3>3
    <3>7. m + n <= 1 + 2 * r /\ n <= 2 * r /\ r <= 2
      BY <3>2, <3>6, <3>10 DEF SideOf, PipeOf
    <3>8. n <= 4 /\ m <= 5
      BY <3>7
    <3>9. Len(bw[s]) <= 4 /\ Len(sock[s]) <= 5
      BY <3>6, <3>8, Zenon
    <3>11. PICK q \in Nat : q = Len(written[p])
      BY <3>3
    <3>12. r <= 2 /\ q <= 2 /\ wn[s] = r /\ rn[s] <= q /\ rn[s] \in Nat
      BY <3>3, <3>5, <3>6, <3>10, <3>11, Zenon
    <3>13. wn[s] \in 0 .. 2 /\ rn[s] \in 0 .. 2
      BY <3>12
    <3>14. QED
      BY <3>9, <3>13
  <2>3. wn \in [Sides -> 0 .. 2] /\ rn \in [Sides -> 0 .. 2]
    BY <2>1, <2>2 DEF Types
  <2>4. QED
    BY <2>1, <2>2, <2>3 DEF Types, TypeOK
<1>2. IInv => ReadHonest
  <2>1. ASSUME IInv, NEW s \in Sides
        PROVE  /\ failed[s] # "open" /\ (failed[s] = "EOF" => cut)
               /\ failed[s] = "max" =>
                    Len(written[Peer(s)][Len(received[s]) + 1]) + Overhead > ReadBuffer
    BY <2>1 DEF IInv, SideOf, ReaderOf
  <2>2. QED
    BY <1>1, <2>1 DEF ReadHonest
<1>3. QED
  BY <1>2, Invariance, PTL

\* What a Session delivers: message by message what the other side has written, each
\* an encoding of the packet it was written for.
Delivered ==
    \A s \in Sides :
        /\ IsPrefix(received[s], written[Peer(s)])
        /\ \A i \in 1 .. Len(received[s]) : received[s][i] \in AppendTo(SentBy(Peer(s), i))

\* The invariant gives what a Session delivers.
LEMMA InvDelivers == IInv => Delivered
<1>1. ASSUME IInv, NEW s \in Sides
      PROVE  /\ IsPrefix(received[s], written[Peer(s)])
             /\ \A i \in 1 .. Len(received[s]) : received[s][i] \in AppendTo(SentBy(Peer(s), i))
  <2>1. PICK p \in Sides : p = Peer(s)
    BY TwoSides
  <2>2. PICK v, w : v = received[s] /\ w = written[p]
    OBVIOUS
  <2>3. /\ v \in Seq(Encodings) /\ w \in Seq(Encodings) /\ Len(v) \in Nat /\ Len(w) \in Nat
    BY <1>1, <2>2, SMTT(30) DEF IInv, Types
  <2>4. Len(v) <= Len(w) /\ \A i \in 1 .. Len(v) : v[i] = w[i]
    BY <1>1, <2>1, <2>2 DEF IInv, SideOf, ReaderOf
  <2>5. SubSeq(v, 1, Len(v)) = SubSeq(w, 1, Len(v))
    BY <2>3, <2>4
  <2>6. \A i \in 1 .. Len(w) : w[i] \in AppendTo(SentBy(p, i))
    BY <1>1, <2>2 DEF IInv, SideOf, WriterOf
  <2>7. \A i \in 1 .. Len(v) : v[i] \in AppendTo(SentBy(p, i))
    BY <2>3, <2>4, <2>6
  <2>8. QED
    BY <2>1, <2>2, <2>4, <2>5, <2>7 DEF IsPrefix
<1>2. QED
  BY <1>1 DEF Delivered

\* SessionConn delivers what was written, in order, through framing, buffering and
\* nonces, and whatever the socket cuts off.
THEOREM DeliveredCorrect == Spec => []Delivered
BY InvDelivers, Invariance, PTL

-----------------------------------------------------------------------------
\* Numbers as bytes.

\* A number in two bytes.
LEMMA Uint16Bytes ==
    ASSUME NEW n \in Nat
    PROVE  /\ (n \div Base) % Base \in Byte /\ n % Base \in Byte
           /\ n < Base2 => FromUint16BE((n \div Base) % Base, n % Base) = n
<1>1. Base \in Nat \ {0}
  BY PacketsAssumption
<1>2. n = (n \div Base) * Base + (n % Base) /\ n % Base \in 0 .. Base - 1 /\ n \div Base \in Nat
  BY <1>1, DivMod
<1>3. PICK q \in Nat : q = n \div Base
  BY <1>2
<1>4. q % Base \in 0 .. Base - 1
  BY <1>1, DivMod
<1>5. ASSUME n < Base2
      PROVE  FromUint16BE((n \div Base) % Base, n % Base) = n
  <2>1. (n \div Base) % Base = n \div Base /\ n \div Base \in 0 .. Base - 1
    BY <1>1, <1>5, TwoDigits DEF Base2
  <2>2. (n % Base) % Base = n % Base /\ ((n \div Base) % Base) % Base = n \div Base
    <3>1. \A d \in 0 .. Base - 1 : d % Base = d
      BY <1>1
    <3>2. QED
      BY <1>2, <2>1, <3>1
  <2>3. QED
    BY <1>2, <2>2 DEF FromUint16BE
<1>6. QED
  BY <1>2, <1>3, <1>4, <1>5 DEF Byte

\* A byte is its own remainder.
LEMMA ByteValue == ASSUME NEW d \in Byte PROVE d \in Nat /\ d % Base = d /\ d < Base
BY PacketsAssumption DEF Byte

\* Two bytes make a number.
LEMMA FromUint16Type ==
    ASSUME NEW hi \in Nat, NEW lo \in Nat PROVE FromUint16BE(hi, lo) \in Nat
<1>1. Base \in Nat \ {0}
  BY PacketsAssumption
<1>2. hi % Base \in Nat /\ lo % Base \in Nat
  BY <1>1
<1>3. QED
  BY <1>1, <1>2 DEF FromUint16BE

\* The values that w bytes can take.
Limit(w) == CASE w = 1 -> Base [] w = 2 -> Base2 [] w = 4 -> Base4

\* BE gives w bytes, and FromBE gives back the number if it fits.
LEMMA BEBytes ==
    ASSUME NEW n \in Nat, NEW w \in {1, 2, 4}
    PROVE  BE(n, w) \in Seq(Byte) /\ Len(BE(n, w)) = w
<1>1. Base \in Nat \ {0} /\ Base2 \in Nat \ {0}
  BY PacketsAssumption DEF Base2
<1>2. (n \div Base) % Base \in Byte /\ n % Base \in Byte
  BY Uint16Bytes
<1>3. Uint16BE(n) \in Seq(Byte) /\ Len(Uint16BE(n)) = 2
  BY <1>2 DEF Uint16BE
<1>4. CASE w = 1
  BY <1>2, <1>4 DEF BE
<1>5. CASE w = 2
  BY <1>3, <1>5 DEF BE
<1>6. CASE w = 4
  <2>1. PICK h \in Nat : h = n \div Base2
    BY <1>1, DivMod
  <2>2. (h \div Base) % Base \in Byte /\ h % Base \in Byte
    BY Uint16Bytes
  <2>3. Uint16BE(h) \in Seq(Byte) /\ Len(Uint16BE(h)) = 2
    BY <2>2 DEF Uint16BE
  <2>4. BE(n, w) = Uint16BE(h) \o Uint16BE(n)
    BY <1>6, <2>1 DEF BE
  <2>5. PICK x, y : x = Uint16BE(h) /\ y = Uint16BE(n)
    OBVIOUS
  <2>6. x \in Seq(Byte) /\ Len(x) = 2 /\ y \in Seq(Byte) /\ Len(y) = 2
    BY <1>3, <2>3, <2>5
  <2>7. x \o y \in Seq(Byte) /\ Len(x \o y) = 4
    <3>1. x \o y \in Seq(Byte) /\ Len(x \o y) = Len(x) + Len(y)
      BY <2>6, ConcatEntries
    <3>2. QED
      BY <2>6, <3>1
  <2>8. BE(n, w) = x \o y
    BY <2>4, <2>5
  <2>9. QED
    BY <1>6, <2>7, <2>8
<1>7. QED
  BY <1>4, <1>5, <1>6

\* The low two bytes of a number are those of its low half.
LEMMA LowHalf ==
    ASSUME NEW n \in Nat
    PROVE  /\ ((n % Base2) \div Base) % Base = (n \div Base) % Base
           /\ (n % Base2) % Base = n % Base
<1>1. PICK b \in Nat : b = Base /\ b > 0
  BY PacketsAssumption
<1>2. PICK k \in Nat, r \in 0 .. b - 1 : k = n \div b /\ r = n % b /\ n = k * b + r
  BY <1>1, DivMod
<1>3. PICK t \in Nat, s \in 0 .. b - 1 : t = k \div b /\ s = k % b /\ k = t * b + s
  BY <1>1, DivMod
<1>4. PICK c \in Nat : c = b * b /\ c > 0
  BY <1>1
<1>5. PICK h \in Nat, l \in 0 .. c - 1 : h = n \div c /\ l = n % c /\ n = h * c + l
  BY <1>4, DivMod
<1>6. PICK m \in Nat : m = s * b + r
  OBVIOUS
<1>7. m \in 0 .. c - 1
  <2>1. s = b - 1 \/ s * b + b <= (b - 1) * b
    BY <1>1, ProductGrows
  <2>2. (b - 1) * b + b = c
    BY <1>4
  <2>3. s * b + b <= c
    BY <2>1, <2>2
  <2>4. QED
    BY <1>6, <2>3
<1>8. n = t * c + m
  <2>1. k * b = (t * b + s) * b
    BY <1>3
  <2>2. (t * b + s) * b = t * c + s * b
    BY <1>4
  <2>3. QED
    BY <1>2, <1>6, <2>1, <2>2
<1>9. m = l
  <2>1. Shift(t, c, m) = Shift(h, c, l)
    BY <1>5, <1>8 DEF Shift
  <2>2. QED
    BY <1>4, <1>7, <2>1, ShiftUnique
<1>10. m \div b = s /\ m % b = r
  BY <1>1, <1>6
<1>11. n % Base2 = m
  BY <1>1, <1>4, <1>5, <1>9 DEF Base2
<1>12. s % b = s
  BY <1>1
<1>13. QED
  BY <1>1, <1>2, <1>3, <1>10, <1>11, <1>12

\* FromBE undoes BE on a number that fits.
LEMMA FromBEGivesBack ==
    ASSUME NEW n \in Nat, NEW w \in {1, 2, 4}, n < Limit(w)
    PROVE  FromBE(BE(n, w)) = n
<1>1. Base \in Nat \ {0} /\ Base2 \in Nat \ {0}
  BY PacketsAssumption DEF Base2
<1>2. PICK b : b = BE(n, w)
  OBVIOUS
<1>3. CASE w = 1
  <2>1. n < Base
    BY <1>3 DEF Limit
  <2>2. b = <<n % Base>> /\ n % Base = n
    BY <1>1, <1>2, <1>3, <2>1 DEF BE
  <2>3. FromBE(b) = n
    BY <1>1, <2>1, <2>2 DEF FromBE
  <2>4. QED
    BY <1>2, <2>3
<1>4. CASE w = 2
  <2>1. n < Base2
    BY <1>4 DEF Limit
  <2>2. b = <<(n \div Base) % Base, n % Base>>
    BY <1>2, <1>4 DEF BE, Uint16BE
  <2>3. FromBE(b) = FromUint16BE((n \div Base) % Base, n % Base)
    BY <2>2 DEF FromBE
  <2>4. QED
    BY <1>2, <2>1, <2>3, Uint16Bytes
<1>5. CASE w = 4
  <2>1. n < Base2 * Base2
    BY <1>5 DEF Limit, Base4
  <2>2. PICK h \in Nat : h = n \div Base2
    BY <1>1, DivMod
  <2>3. n = h * Base2 + (n % Base2) /\ n % Base2 \in 0 .. Base2 - 1
    BY <1>1, <2>2, DivMod
  <2>4. h < Base2
    <3>1. PICK b2 \in Nat \ {0} : b2 = Base2
      BY <1>1
    <3>2. n < b2 * b2 /\ h = n \div b2
      BY <2>1, <2>2, <3>1
    <3>3. n \div b2 \in 0 .. b2 - 1
      BY <3>2, TwoDigits
    <3>4. QED
      BY <3>1, <3>2, <3>3
  <2>5. b = <<(h \div Base) % Base, h % Base>> \o <<(n \div Base) % Base, n % Base>>
    BY <1>2, <1>5, <2>2 DEF BE, Uint16BE
  <2>6. /\ Len(b) = 4 /\ b[1] = (h \div Base) % Base /\ b[2] = h % Base
        /\ b[3] = (n \div Base) % Base /\ b[4] = n % Base
    BY <2>5
  <2>7. FromUint16BE(b[1], b[2]) = h
    BY <2>4, <2>6, Uint16Bytes
  <2>8. FromUint16BE(b[3], b[4]) = n % Base2
    <3>1. PICK l \in Nat : l = n % Base2 /\ l < Base2
      BY <1>1, <2>3
    <3>2. (l \div Base) % Base = (n \div Base) % Base /\ l % Base = n % Base
      BY <2>2, <3>1, LowHalf
    <3>3. QED
      BY <2>6, <3>1, <3>2, Uint16Bytes
  <2>9. FromBE(b) = FromUint16BE(b[1], b[2]) * Base2 + FromUint16BE(b[3], b[4])
    BY <2>6 DEF FromBE
  <2>10. QED
    BY <1>2, <2>3, <2>7, <2>8, <2>9
<1>6. QED
  BY <1>3, <1>4, <1>5

-----------------------------------------------------------------------------
\* Parsers.  The buffer c is an encoding or the beginning of one.

\* From at on, c has the bytes of x, as far as it goes.
Agrees(c, at, x) == \A j \in 1 .. Len(x) : at + j <= Len(c) => c[at + j] = x[j]

\* The state of a parser that has read as far as at and v last, if c goes so far.
At(c, at, v) == [res |-> "ok", buf |-> SubSeq(c, at + 1, Len(c)), val |-> v]
UpTo(c, at, v) == IF at <= Len(c) THEN At(c, at, v) ELSE Short("ErrUnexpectedEOF")

\* Bytes are behind each other.
LEMMA AgreesConcat ==
    ASSUME NEW c \in Seq(Nat), NEW at \in Nat, NEW x \in Seq(Nat), NEW y \in Seq(Nat),
           Agrees(c, at, x \o y)
    PROVE  Agrees(c, at, x) /\ Agrees(c, at + Len(x), y)
<1>1. PICK z : z = x \o y
  OBVIOUS
<1>2. PICK m \in Nat, n \in Nat : m = Len(x) /\ n = Len(y)
  OBVIOUS
<1>3. /\ Len(z) = m + n
      /\ \A k \in 1 .. m + n : z[k] = IF k <= m THEN x[k] ELSE y[k - m]
  BY <1>1, <1>2, ConcatEntries
<1>4. \A j \in 1 .. m + n : at + j <= Len(c) => c[at + j] = z[j]
  BY <1>1, <1>3 DEF Agrees
<1>5. \A j \in 1 .. m : at + j <= Len(c) => c[at + j] = x[j]
  <2>1. \A j \in 1 .. m : j \in 1 .. m + n /\ j <= m
    OBVIOUS
  <2>2. \A j \in 1 .. m : z[j] = x[j]
    BY <1>3, <2>1, Zenon
  <2>3. QED
    BY <1>4, <2>1, <2>2, Zenon
<1>6. ASSUME NEW j \in 1 .. n, (at + m) + j <= Len(c)
      PROVE  c[(at + m) + j] = y[j]
  <2>1. m + j \in 1 .. m + n /\ at + (m + j) = (at + m) + j /\ ~(m + j <= m) /\ (m + j) - m = j
    OBVIOUS
  <2>2. z[m + j] = y[j]
    BY <1>3, <2>1, SMTT(30)
  <2>3. c[at + (m + j)] = z[m + j]
    BY <1>4, <1>6, <2>1
  <2>4. QED
    BY <2>1, <2>2, <2>3
<1>7. QED
  BY <1>2, <1>5, <1>6 DEF Agrees

\* A parser that has failed stays so.
LEMMA TakeFailed ==
    ASSUME NEW s, s.res # "ok", NEW n, NEW e
    PROVE  Take(s, n, e) = s
BY SMTT(30) DEF Take

\* TakeSized does nothing in a parser that has failed.
LEMMA TakeSizedFailed ==
    ASSUME NEW s, s.res # "ok", NEW w
    PROVE  TakeSized(s, w) = s
BY DEF Take, TakeSized

\* The fields of the state of a parser.
LEMMA StateOf ==
    ASSUME NEW c, NEW at, NEW v
    PROVE  /\ at <= Len(c) => /\ UpTo(c, at, v).res = "ok" /\ UpTo(c, at, v).val = v
                              /\ UpTo(c, at, v).buf = SubSeq(c, at + 1, Len(c))
           /\ ~(at <= Len(c)) => /\ UpTo(c, at, v).res = "ErrUnexpectedEOF"
                                 /\ UpTo(c, at, v) = Short("ErrUnexpectedEOF")
BY DEF UpTo, At, Short

\* n bytes that are there.
LEMMA TakeThere ==
    ASSUME NEW c \in Seq(Nat), NEW at \in Nat, NEW n \in Nat, at + n <= Len(c), NEW v, NEW e
    PROVE  Take(At(c, at, v), n, e) = At(c, at + n, SubSeq(SubSeq(c, at + 1, Len(c)), 1, n))
<1>1. PICK r : r = SubSeq(c, at + 1, Len(c))
  OBVIOUS
<1>2. r \in Seq(Nat) /\ Len(r) = Len(c) - at
  <2>1. at \in 0 .. Len(c)
    OBVIOUS
  <2>2. QED
    BY <1>1, <2>1, RestOf
<1>3. SubSeq(r, n + 1, Len(r)) = SubSeq(c, (at + n) + 1, Len(c))
  BY <1>1, PartOfRest
<1>4. At(c, at, v) = [res |-> "ok", buf |-> r, val |-> v]
  BY <1>1 DEF At
<1>5. Enough(r, n)
  BY <1>2 DEF Enough
<1>6. Take(At(c, at, v), n, e)
        = [res |-> "ok", buf |-> SubSeq(r, n + 1, Len(r)), val |-> SubSeq(r, 1, n)]
  <2>1. PICK s : s = At(c, at, v)
    OBVIOUS
  <2>2. s = [res |-> "ok", buf |-> r, val |-> v] /\ s.res = "ok" /\ s.buf = r
    BY <1>4, <2>1
  <2>3. PICK y, z : y = SubSeq(r, 1, n) /\ z = SubSeq(r, n + 1, Len(r))
    OBVIOUS
  <2>4. Take(s, n, e) = [s EXCEPT !.val = y, !.buf = z]
    BY <1>5, <2>2, <2>3, Zenon DEF Take
  <2>5. [s EXCEPT !.val = y, !.buf = z] = [res |-> "ok", buf |-> z, val |-> y]
    <3>1. PICK t : t = [s EXCEPT !.val = y]
      OBVIOUS
    <3>2. t = [res |-> "ok", buf |-> r, val |-> y]
      BY <2>2, <3>1
    <3>3. [t EXCEPT !.buf = z] = [res |-> "ok", buf |-> z, val |-> y]
      BY <3>2, SMTT(30)
    <3>4. QED
      BY <3>1, <3>3
  <2>6. QED
    BY <2>1, <2>3, <2>4, <2>5
<1>7. QED
  BY <1>1, <1>3, <1>6 DEF At

\* and that are not.
LEMMA TakeShort ==
    ASSUME NEW c \in Seq(Nat), NEW at \in 0 .. Len(c), NEW n \in Nat, at + n > Len(c), NEW v,
           NEW e
    PROVE  Take(At(c, at, v), n, e) = Short(e)
<1>1. PICK r : r = SubSeq(c, at + 1, Len(c))
  OBVIOUS
<1>2. r \in Seq(Nat) /\ Len(r) = Len(c) - at
  BY <1>1, RestOf
<1>3. ~Enough(r, n)
  BY <1>2 DEF Enough
<1>4. At(c, at, v) = [res |-> "ok", buf |-> r, val |-> v]
  BY <1>1 DEF At
<1>5. QED
  BY <1>3, <1>4 DEF Take

\* Take reads what is written there.
LEMMA TakeReads ==
    ASSUME NEW c \in Seq(Nat), NEW at \in Nat, NEW x \in Seq(Nat), Agrees(c, at, x), NEW v
    PROVE  Take(UpTo(c, at, v), Len(x), "ErrUnexpectedEOF") = UpTo(c, at + Len(x), x)
<1>1. PICK n \in Nat, m \in Nat : n = Len(x) /\ m = Len(c)
  OBVIOUS
<1>2. CASE at + n <= m
  <2>1. at + n <= Len(c)
    BY <1>1, <1>2
  <2>2. PICK r : r = SubSeq(c, at + 1, Len(c))
    OBVIOUS
  <2>3. PICK y : y = SubSeq(r, 1, n)
    OBVIOUS
  <2>4. y \in Seq(Nat) /\ Len(y) = n /\ \A j \in 1 .. n : y[j] = c[at + j]
    <3>1. SubSeq(r, 1, n) \in Seq(Nat)
      BY <2>1, <2>2, PartOfRest
    <3>2. Len(SubSeq(r, 1, n)) = n
      BY <2>1, <2>2, PartOfRest
    <3>3. \A j \in 1 .. n : SubSeq(r, 1, n)[j] = c[at + j]
      BY <2>1, <2>2, PartOfRest
    <3>4. QED
      BY <2>3, <3>1, <3>2, <3>3
  <2>5. \A j \in 1 .. n : c[at + j] = x[j]
    <3>1. \A j \in 1 .. n : at + j <= Len(c) => c[at + j] = x[j]
      BY <1>1, Zenon DEF Agrees
    <3>2. \A j \in 1 .. n : at + j <= Len(c)
      BY <2>1
    <3>3. QED
      BY <3>1, <3>2, Zenon
  <2>6. y = x
    BY <1>1, <2>4, <2>5, SameEntries
  <2>7. Take(At(c, at, v), n, "ErrUnexpectedEOF") = At(c, at + n, y)
    BY <2>1, <2>2, <2>3, TakeThere
  <2>8. UpTo(c, at, v) = At(c, at, v) /\ UpTo(c, at + n, x) = At(c, at + n, x)
    BY <1>1, <1>2 DEF UpTo
  <2>9. QED
    BY <1>1, <2>6, <2>7, <2>8
<1>3. CASE at + n > m /\ at <= m
  <2>1. at \in 0 .. Len(c) /\ at + n > Len(c) /\ ~(at + n <= Len(c)) /\ at <= Len(c)
    BY <1>1, <1>3
  <2>2. Take(At(c, at, v), n, "ErrUnexpectedEOF") = Short("ErrUnexpectedEOF")
    BY <2>1, TakeShort
  <2>3. UpTo(c, at, v) = At(c, at, v) /\ UpTo(c, at + n, x) = Short("ErrUnexpectedEOF")
    BY <2>1 DEF UpTo
  <2>4. QED
    BY <1>1, <2>2, <2>3
<1>4. CASE at > m
  <2>1. ~(at + n <= Len(c)) /\ ~(at <= Len(c))
    BY <1>1, <1>4
  <2>2. /\ UpTo(c, at, v) = Short("ErrUnexpectedEOF")
        /\ UpTo(c, at + n, x) = Short("ErrUnexpectedEOF")
    BY <2>1, SMTT(30) DEF UpTo
  <2>3. Take(Short("ErrUnexpectedEOF"), n, "ErrUnexpectedEOF") = Short("ErrUnexpectedEOF")
    BY DEF Take, Short
  <2>4. QED
    BY <1>1, <2>2, <2>3
<1>5. QED
  BY <1>1, <1>2, <1>3, <1>4

\* Bytes are numbers.
LEMMA ByteSeq == ASSUME NEW x \in Seq(Byte) PROVE x \in Seq(Nat)
BY PacketsAssumption DEF Byte

\* TakeSized reads what Sized has written, if the length fits.
LEMMA TakeSizedReads ==
    ASSUME NEW c \in Seq(Nat), NEW at \in Nat, NEW x \in Seq(Nat), NEW w \in {1, 2, 4},
           Len(x) < Limit(w), Agrees(c, at, Sized(x, w)), NEW v
    PROVE  /\ TakeSized(UpTo(c, at, v), w) = UpTo(c, at + w + Len(x), x)
           /\ Sized(x, w) \in Seq(Nat) /\ Len(Sized(x, w)) = w + Len(x)
<1>1. PICK n \in Nat : n = Len(x)
  OBVIOUS
<1>2. PICK b : b = BE(n, w)
  OBVIOUS
<1>3. b \in Seq(Nat) /\ Len(b) = w /\ FromBE(b) = n
  <2>1. BE(n, w) \in Seq(Byte) /\ Len(BE(n, w)) = w
    BY BEBytes
  <2>2. FromBE(BE(n, w)) = n
    BY <1>1, FromBEGivesBack
  <2>3. BE(n, w) \in Seq(Nat)
    BY <2>1, ByteSeq
  <2>4. QED
    BY <1>2, <2>1, <2>2, <2>3
<1>4. Sized(x, w) = b \o x
  BY <1>1, <1>2 DEF Sized
<1>5. Agrees(c, at, b) /\ Agrees(c, at + w, x)
  BY <1>3, <1>4, AgreesConcat
<1>6. Sized(x, w) \in Seq(Nat) /\ Len(Sized(x, w)) = w + Len(x)
  BY <1>3, <1>4, ConcatEntries
<1>7. PICK t : t = Take(UpTo(c, at, v), w, "ErrUnexpectedEOF")
  OBVIOUS
<1>8. t = UpTo(c, at + w, b)
  BY <1>3, <1>5, <1>7, TakeReads
<1>9. TakeSized(UpTo(c, at, v), w)
        = IF t.res # "ok" THEN t ELSE Take(t, FromBE(t.val), "ErrUnexpectedEOF")
  BY <1>7 DEF TakeSized
<1>10. PICK a \in Nat : a = at + w
  OBVIOUS
<1>11. Take(UpTo(c, a, b), Len(x), "ErrUnexpectedEOF") = UpTo(c, a + Len(x), x)
  BY <1>5, <1>10, TakeReads
<1>12. CASE a <= Len(c)
  <2>1. t.res = "ok" /\ t.val = b
    BY <1>8, <1>10, <1>12, StateOf
  <2>2. QED
    BY <1>1, <1>3, <1>6, <1>8, <1>9, <1>10, <1>11, <2>1
<1>13. CASE ~(a <= Len(c))
  <2>1. t.res # "ok" /\ t = Short("ErrUnexpectedEOF")
    BY <1>8, <1>10, <1>13, StateOf
  <2>2. ~(a + n <= Len(c))
    BY <1>13
  <2>3. UpTo(c, a + n, x) = Short("ErrUnexpectedEOF")
    BY <2>2, StateOf
  <2>4. QED
    BY <1>1, <1>6, <1>9, <1>10, <2>1, <2>3
<1>14. QED
  BY <1>12, <1>13

\* The parts of a concatenation are behind each other.
LEMMA AgreesParts ==
    ASSUME NEW c \in Seq(Nat), NEW at \in Nat, NEW qs \in Seq(Seq(Nat)), NEW cat,
           IsConcat(cat, qs, Nat), Agrees(c, at, cat[Len(qs)]), NEW k \in 1 .. Len(qs)
    PROVE  /\ cat[k - 1] \in Seq(Nat) /\ Len(cat[k]) = Len(cat[k - 1]) + Len(qs[k])
           /\ Agrees(c, at + Len(cat[k - 1]), qs[k])
<1>1. PICK n \in Nat : n = Len(qs)
  OBVIOUS
<1>2. ASSUME NEW i \in 1 .. n
      PROVE  /\ cat[i] = cat[i - 1] \o qs[i] /\ cat[i - 1] \in Seq(Nat) /\ qs[i] \in Seq(Nat)
             /\ cat[i] \in Seq(Nat)
  <2>1. i - 1 \in 0 .. n /\ i \in 0 .. n
    OBVIOUS
  <2>2. cat[i] = cat[i - 1] \o qs[i]
    BY <1>1 DEF IsConcat
  <2>3. cat[i - 1] \in Seq(Nat) /\ cat[i] \in Seq(Nat)
    BY <1>1, <2>1 DEF IsConcat
  <2>4. qs[i] \in Seq(Nat)
    BY <1>1
  <2>5. QED
    BY <2>2, <2>3, <2>4
<1> DEFINE Has(i) == Agrees(c, at, cat[i])
           P == {i \in 0 .. n : Has(n - i)}
<1>3. ASSUME NEW i \in 1 .. n, Has(i)
      PROVE  Has(i - 1) /\ Agrees(c, at + Len(cat[i - 1]), qs[i])
  <2>1. PICK x \in Seq(Nat), y \in Seq(Nat) : x = cat[i - 1] /\ y = qs[i]
    BY <1>2
  <2>2. Agrees(c, at, x \o y)
    BY <1>2, <1>3, <2>1
  <2>3. Agrees(c, at, x) /\ Agrees(c, at + Len(x), y)
    BY <2>2, AgreesConcat
  <2>4. QED
    BY <2>1, <2>3
<1>4. 0 \in P
  BY <1>1
<1>5. ASSUME NEW i \in 1 .. n, i - 1 \in P
      PROVE  i \in P
  <2>1. PICK j \in 1 .. n : j = n - (i - 1) /\ j - 1 = n - i
    OBVIOUS
  <2>2. Has(j)
    BY <1>5, <2>1
  <2> HIDE DEF Has
  <2>3. Has(j - 1)
    BY <1>3, <2>2
  <2>4. QED
    BY <2>1, <2>3
<1>6. 0 .. n \subseteq P
  <2> HIDE DEF P
  <2> QED
    BY <1>4, <1>5, InductionUpTo
<1>7. Has(k)
  <2> HIDE DEF Has
  <2>1. n - k \in 0 .. n /\ n - (n - k) = k
    BY <1>1
  <2>2. QED
    BY <1>6, <2>1
<1>8. k \in 1 .. n
  BY <1>1
<1>9. Len(cat[k]) = Len(cat[k - 1]) + Len(qs[k])
  <2>1. PICK x \in Seq(Nat), y \in Seq(Nat) : x = cat[k - 1] /\ y = qs[k]
    BY <1>2, <1>8
  <2>2. Len(x \o y) = Len(x) + Len(y)
    BY ConcatEntries
  <2>3. QED
    BY <1>2, <1>8, <2>1, <2>2
<1>10. QED
  BY <1>2, <1>3, <1>7, <1>8, <1>9

-----------------------------------------------------------------------------
\* The loop that reads strings.

\* acc[k] is the state of the parser after k turns.
IsStrings(acc, s, n) ==
    acc = [k \in 0 .. n |-> IF k = 0 THEN [s EXCEPT !.val = <<>>] ELSE TakeString(acc[k - 1])]

\* The states of the loop.
States == [res : {"ok", "ErrUnexpectedEOF"}, buf : Seq(Nat), val : Seq(Seq(Nat))]

\* A number that is read from one byte.
LEMMA FromByteType ==
    ASSUME NEW b \in Seq(Nat), Len(b) = 1 PROVE FromBE(b) \in Byte /\ FromBE(b) = b[1] % Base
<1>1. b[1] \in Nat /\ Base \in Nat \ {0}
  BY PacketsAssumption, SMTT(30)
<1>2. FromBE(b) = b[1] % Base
  BY DEF FromBE
<1>3. b[1] % Base \in 0 .. Base - 1
  BY <1>1
<1>4. QED
  BY <1>2, <1>3 DEF Byte

\* A parser that has b left and has read v.
Reading(b, v) == [res |-> "ok", buf |-> b, val |-> v]

\* It has split n entries from b, unless b is too short.
Splits(t, b, n) ==
    \/ t = Short("ErrUnexpectedEOF")
    \/ \E x \in Seq(Nat), y \in Seq(Nat) : t = Reading(y, x) /\ Len(x) = n /\ b = x \o y

\* What Take leaves and what it reads.
LEMMA TakeParsed ==
    ASSUME NEW n \in Nat, NEW b \in Seq(Nat), NEW v
    PROVE  Splits(Take(Reading(b, v), n, "ErrUnexpectedEOF"), b, n)
<1>0. PICK s : s = Reading(b, v) /\ s = [res |-> "ok", buf |-> b, val |-> v]
  BY DEF Reading
<1>1. CASE n > Len(b)
  <2>1. ~Enough(s.buf, n) /\ s.res = "ok"
    BY <1>0, <1>1 DEF Enough
  <2>2. QED
    BY <1>0, <1>1, <2>1, Zenon DEF Take, Splits
<1>2. CASE n <= Len(b)
  <2>1. Enough(b, n) /\ s.res = "ok" /\ s.buf = b
    BY <1>0, <1>2 DEF Enough
  <2>2. PICK x : x = SubSeq(b, 1, n)
    OBVIOUS
  <2>3. PICK y : y = SubSeq(b, n + 1, Len(b))
    OBVIOUS
  <2>4. n \in 0 .. Len(b)
    BY <1>2
  <2>5. x \in Seq(Nat) /\ Len(x) = n /\ \A j \in 1 .. n : x[j] = b[j]
    BY <2>2, <2>4, FirstOf
  <2>6. y \in Seq(Nat) /\ Len(y) = Len(b) - n /\ \A j \in 1 .. Len(b) - n : y[j] = b[n + j]
    BY <2>3, <2>4, RestOf
  <2>7. PICK z : z = x \o y
    OBVIOUS
  <2>8. /\ z \in Seq(Nat) /\ Len(z) = Len(b)
        /\ \A k \in 1 .. Len(b) : z[k] = IF k <= n THEN x[k] ELSE y[k - n]
    <3>1. /\ x \o y \in Seq(Nat) /\ Len(x \o y) = Len(x) + Len(y)
          /\ \A k \in 1 .. Len(x) + Len(y) :
                (x \o y)[k] = IF k <= Len(x) THEN x[k] ELSE y[k - Len(x)]
      BY <2>5, <2>6, ConcatEntries, ZenonT(30)
    <3>2. Len(x) = n /\ n + Len(y) = Len(b)
      BY <2>5, <2>6
    <3>3. QED
      BY <2>7, <3>1, <3>2
  <2>9. ASSUME NEW k \in 1 .. Len(b)
        PROVE  b[k] = z[k]
    <3>1. CASE k <= n
      BY <2>5, <2>8, <3>1
    <3>2. CASE ~(k <= n)
      <4>1. k - n \in 1 .. Len(b) - n /\ n + (k - n) = k
        BY <3>2
      <4>2. QED
        BY <2>6, <2>8, <3>2, <4>1
    <3>3. QED
      BY <3>1, <3>2
  <2>10. b = z
    BY <2>8, <2>9, SameEntries, SMTT(30)
  <2>11. Take(s, n, "ErrUnexpectedEOF") = [s EXCEPT !.val = x, !.buf = y]
    BY <2>1, <2>2, <2>3, Zenon DEF Take
  <2>12. [s EXCEPT !.val = x, !.buf = y] = [res |-> "ok", buf |-> y, val |-> x]
    <3>1. PICK t : t = [s EXCEPT !.val = x]
      OBVIOUS
    <3>2. t = [res |-> "ok", buf |-> b, val |-> x]
      BY <1>0, <3>1
    <3>3. [t EXCEPT !.buf = y] = [res |-> "ok", buf |-> y, val |-> x]
      BY <3>2
    <3>4. QED
      BY <3>1, <3>3
  <2>13. Take(s, n, "ErrUnexpectedEOF") = Reading(y, x) /\ b = x \o y
    BY <2>7, <2>10, <2>11, <2>12 DEF Reading
  <2>14. QED
    BY <1>0, <2>5, <2>6, <2>13, Zenon DEF Splits
<1>3. n > Len(b) \/ n <= Len(b)
  OBVIOUS
<1>4. QED
  BY <1>1, <1>2, <1>3, Zenon

\* One turn of the loop fails, or reads a length and so many bytes.
LEMMA StringParsed ==
    ASSUME NEW s \in States
    PROVE  /\ TakeString(s) \in States
           /\ TakeString(s).res = "ok" =>
                /\ s.res = "ok"
                /\ \E l \in Seq(Nat), x \in Seq(Nat) :
                      /\ Len(l) = 1 /\ l[1] % Base = Len(x)
                      /\ s.buf = l \o (x \o TakeString(s).buf)
                      /\ TakeString(s).val = Append(s.val, x)
<1>1. PICK e \in {"ok", "ErrUnexpectedEOF"}, b \in Seq(Nat), v \in Seq(Seq(Nat)) :
        s = [res |-> e, buf |-> b, val |-> v]
  <2>1. /\ s = [res |-> s.res, buf |-> s.buf, val |-> s.val]
        /\ s.res \in {"ok", "ErrUnexpectedEOF"} /\ s.buf \in Seq(Nat) /\ s.val \in Seq(Seq(Nat))
    BY DEF States
  <2>2. QED
    BY <2>1
<1>2. e \in {"ok", "ErrUnexpectedEOF"} /\ s.res = e /\ s.buf = b /\ s.val = v
  BY <1>1 DEF States
<1>3. PICK t : t = TakeString(s)
  OBVIOUS
<1>4. PICK z : z = TakeSized(s, 1)
  OBVIOUS
<1>5. t = IF z.res # "ok" THEN z ELSE [z EXCEPT !.val = Append(v, z.val)]
  BY <1>2, <1>3, <1>4 DEF TakeString
<1>6. Short("ErrUnexpectedEOF") \in States /\ Short("ErrUnexpectedEOF").res # "ok"
  BY DEF Short, States
<1>7. CASE e # "ok"
  <2>1. z = s
    BY <1>2, <1>4, <1>7, TakeSizedFailed
  <2>2. t = s /\ t.res # "ok"
    BY <1>2, <1>5, <1>7, <2>1
  <2>3. QED
    BY <1>3, <2>2
<1>8. CASE e = "ok"
  <2>1. PICK y : y = Take(s, 1, "ErrUnexpectedEOF")
    OBVIOUS
  <2>2. z = IF y.res # "ok" THEN y ELSE Take(y, FromBE(y.val), "ErrUnexpectedEOF")
    BY <1>4, <2>1 DEF TakeSized
  <2>3. s = Reading(b, v)
    BY <1>1, <1>8 DEF Reading
  <2>4. \/ y = Short("ErrUnexpectedEOF")
        \/ \E l \in Seq(Nat), r \in Seq(Nat) :
              y = Reading(r, l) /\ Len(l) = 1 /\ b = l \o r
    <3>1. PICK n \in Nat : n = 1
      OBVIOUS
    <3>2. Splits(Take(Reading(b, v), n, "ErrUnexpectedEOF"), b, n)
      BY TakeParsed
    <3>3. QED
      BY <2>1, <2>3, <3>1, <3>2, Zenon DEF Splits
  <2>5. CASE y = Short("ErrUnexpectedEOF")
    <3>1. t = Short("ErrUnexpectedEOF")
      BY <1>5, <1>6, <2>2, <2>5
    <3>2. QED
      BY <1>3, <1>6, <3>1
  <2>6. ASSUME NEW l \in Seq(Nat), NEW r \in Seq(Nat),
               y = Reading(r, l), Len(l) = 1, b = l \o r
        PROVE  /\ t \in States
               /\ t.res = "ok" =>
                    /\ s.res = "ok"
                    /\ \E k \in Seq(Nat), x \in Seq(Nat) :
                          /\ Len(k) = 1 /\ k[1] % Base = Len(x)
                          /\ s.buf = k \o (x \o t.buf) /\ t.val = Append(s.val, x)
    <3>1. PICK n \in Nat : n = FromBE(l) /\ n = l[1] % Base
      <4>1. FromBE(l) \in Byte /\ FromBE(l) = l[1] % Base
        BY <2>6, FromByteType
      <4>2. FromBE(l) \in Nat
        BY <4>1, PacketsAssumption DEF Byte
      <4>3. QED
        BY <4>1, <4>2
    <3>2. y.res = "ok" /\ y.val = l
      BY <2>6 DEF Reading
    <3>3. z = Take(y, n, "ErrUnexpectedEOF")
      BY <2>2, <3>1, <3>2
    <3>4. \/ z = Short("ErrUnexpectedEOF")
          \/ \E x \in Seq(Nat), q \in Seq(Nat) :
                z = Reading(q, x) /\ Len(x) = n /\ r = x \o q
      <4>1. Splits(Take(Reading(r, l), n, "ErrUnexpectedEOF"), r, n)
        BY TakeParsed
      <4>2. QED
        BY <2>6, <3>3, <4>1, Zenon DEF Splits
    <3>5. CASE z = Short("ErrUnexpectedEOF")
      BY <1>5, <1>6, <3>5
    <3>6. ASSUME NEW x \in Seq(Nat), NEW q \in Seq(Nat),
                 z = Reading(q, x), Len(x) = n, r = x \o q
          PROVE  /\ t \in States /\ t.res = "ok" /\ t.buf = q /\ t.val = Append(v, x)
      <4>1. z.res = "ok" /\ z.val = x
        BY <3>6 DEF Reading
      <4>2. t = [res |-> "ok", buf |-> q, val |-> Append(v, x)]
        BY <1>5, <3>6, <4>1 DEF Reading
      <4>3. Append(v, x) \in Seq(Seq(Nat))
        OBVIOUS
      <4>4. QED
        BY <4>2, <4>3 DEF States
    <3>7. ASSUME NEW x \in Seq(Nat), NEW q \in Seq(Nat),
                 z = Reading(q, x), Len(x) = n, r = x \o q
          PROVE  /\ t \in States /\ s.res = "ok"
                 /\ \E k \in Seq(Nat), w \in Seq(Nat) :
                          /\ Len(k) = 1 /\ k[1] % Base = Len(w)
                          /\ s.buf = k \o (w \o t.buf) /\ t.val = Append(s.val, w)
      <4>1. /\ t \in States /\ t.res = "ok" /\ t.buf = q /\ t.val = Append(v, x)
        BY <3>6, <3>7
      <4>2. s.buf = l \o (x \o t.buf) /\ t.val = Append(s.val, x)
        BY <1>2, <2>6, <3>7, <4>1
      <4>3. Len(l) = 1 /\ l[1] % Base = Len(x)
        BY <2>6, <3>1, <3>7
      <4>4. QED
        BY <1>2, <1>8, <4>1, <4>2, <4>3
    <3>8. QED
      BY <3>4, <3>5, <3>7
  <2>7. QED
    BY <1>3, <2>4, <2>5, <2>6
<1>9. QED
  BY <1>7, <1>8

\* The loop has a result.
LEMMA StringsExist ==
    ASSUME NEW s, [s EXCEPT !.val = <<>>] \in States, NEW n \in Nat
    PROVE  \E acc \in [0 .. n -> States] : IsStrings(acc, s, n)
<1>1. PICK a \in States : a = [s EXCEPT !.val = <<>>]
  OBVIOUS
<1> DEFINE step == [z \in States \X (1 .. n) |-> TakeString(z[1])]
<1>2. step \in [States \X (1 .. n) -> States]
  <2>1. \A t \in States : TakeString(t) \in States
    BY StringParsed, SMTT(30)
  <2>2. \A z \in States \X (1 .. n) : z[1] \in States
    OBVIOUS
  <2>3. QED
    BY <2>1, <2>2, Zenon
<1>3. PICK f : IsRecursion(f, States, a, n, step)
  <2> HIDE DEF step
  <2> QED
    BY <1>2, RecursionUpTo
<1>4. ASSUME NEW k \in 1 .. n
      PROVE  f[k] = TakeString(f[k - 1])
  <2>1. k - 1 \in 0 .. n
    OBVIOUS
  <2>2. f[k - 1] \in States
    BY <1>3, <2>1 DEF IsRecursion
  <2>3. f[k] = step[<<f[k - 1], k>>]
    BY <1>3 DEF IsRecursion
  <2>4. step[<<f[k - 1], k>>] = TakeString(f[k - 1])
    BY <2>2
  <2>5. QED
    BY <2>3, <2>4
<1>5. f \in [0 .. n -> States] /\ f[0] = a
  BY <1>3 DEF IsRecursion
<1>6. \A k \in 0 .. n : k # 0 => k \in 1 .. n
  OBVIOUS
<1>7. \A k \in 0 .. n : f[k] = IF k = 0 THEN [s EXCEPT !.val = <<>>] ELSE TakeString(f[k - 1])
  BY <1>1, <1>4, <1>5, <1>6, Zenon
<1>8. f = [k \in 0 .. n |-> f[k]]
  BY <1>5
<1>9. IsStrings(f, s, n)
  BY <1>7, <1>8, Zenon DEF IsStrings
<1>10. QED
  BY <1>5, <1>9

\* It has one.
LEMMA StringsResult ==
    ASSUME NEW s, NEW n \in Nat, NEW acc, IsStrings(acc, s, n)
    PROVE  TakeStrings(s, n) = acc[n]
<1> DEFINE g == CHOOSE g : IsStrings(g, s, n)
<1>1. TakeStrings(s, n) = g[n]
  BY Zenon DEF TakeStrings, IsStrings
<1>2. IsStrings(g, s, n)
  BY Zenon
<1> HIDE DEF g
<1>3. \A k \in 0 .. n : g[k] = IF k = 0 THEN [s EXCEPT !.val = <<>>] ELSE TakeString(g[k - 1])
  BY <1>2, Zenon DEF IsStrings
<1>4. \A k \in 0 .. n : acc[k] = IF k = 0 THEN [s EXCEPT !.val = <<>>] ELSE TakeString(acc[k - 1])
  BY Zenon DEF IsStrings
<1> DEFINE P == {k \in 0 .. n : g[k] = acc[k]}
<1>5. 0 \in P
  <2>1. 0 \in 0 .. n
    OBVIOUS
  <2>2. QED
    BY <1>3, <1>4, <2>1, Zenon
<1>6. ASSUME NEW k \in 1 .. n, k - 1 \in P
      PROVE  k \in P
  <2>1. k \in 0 .. n /\ k # 0
    OBVIOUS
  <2>2. g[k] = TakeString(g[k - 1]) /\ acc[k] = TakeString(acc[k - 1])
    BY <1>3, <1>4, <2>1, Zenon
  <2>3. QED
    BY <1>6, <2>1, <2>2, Zenon
<1>7. 0 .. n \subseteq P
  <2> HIDE DEF P
  <2> QED
    BY <1>5, <1>6, InductionUpTo
<1>8. n \in P
  BY <1>7
<1>9. QED
  BY <1>1, <1>8

\* The fields of an acc.
LEMMA StringsSteps ==
    ASSUME NEW s, NEW n \in Nat, NEW acc, IsStrings(acc, s, n)
    PROVE  /\ acc[0] = [s EXCEPT !.val = <<>>]
           /\ \A k \in 1 .. n : acc[k] = TakeString(acc[k - 1])
<1>1. \A k \in 0 .. n : acc[k] = IF k = 0 THEN [s EXCEPT !.val = <<>>] ELSE TakeString(acc[k - 1])
  BY Zenon DEF IsStrings
<1>2. 0 \in 0 .. n /\ \A k \in 1 .. n : k \in 0 .. n /\ k # 0
  OBVIOUS
<1>3. QED
  BY <1>1, <1>2, Zenon

\* Another value in a state.
LEMMA AtVal ==
    ASSUME NEW c, NEW at, NEW v, NEW y
    PROVE  [At(c, at, v) EXCEPT !.val = y] = At(c, at, y)
<1>1. PICK r : r = SubSeq(c, at + 1, Len(c))
  OBVIOUS
<1>2. /\ At(c, at, v) = [res |-> "ok", buf |-> r, val |-> v]
      /\ At(c, at, y) = [res |-> "ok", buf |-> r, val |-> y]
  BY <1>1, Zenon DEF At
<1>3. PICK s : s = [res |-> "ok", buf |-> r, val |-> v]
  OBVIOUS
<1>4. [s EXCEPT !.val = y] = [res |-> "ok", buf |-> r, val |-> y]
  BY <1>3
<1>5. QED
  BY <1>2, <1>3, <1>4

\* One turn of the loop reads the string that is written there.
LEMMA StringReads ==
    ASSUME NEW c \in Seq(Nat), NEW at \in Nat, NEW x \in Seq(Nat), Len(x) < Base,
           Agrees(c, at, Sized(x, 1)), NEW v
    PROVE  TakeString(UpTo(c, at, v)) = UpTo(c, at + Len(Sized(x, 1)), Append(v, x))
<1>1. PICK a \in Nat : a = at + 1 + Len(x)
  OBVIOUS
<1>2. PICK t : t = TakeSized(UpTo(c, at, v), 1)
  OBVIOUS
<1>3. t = UpTo(c, a, x) /\ Len(Sized(x, 1)) = 1 + Len(x)
  <2>1. 1 \in {1, 2, 4} /\ Len(x) < Limit(1)
    BY DEF Limit
  <2>2. /\ TakeSized(UpTo(c, at, v), 1) = UpTo(c, at + 1 + Len(x), x)
        /\ Len(Sized(x, 1)) = 1 + Len(x)
    BY <2>1, TakeSizedReads
  <2>3. QED
    BY <1>1, <1>2, <2>2
<1>4. at + Len(Sized(x, 1)) = a
  <2>1. PICK n \in Nat : n = Len(x)
    OBVIOUS
  <2>2. at + (1 + n) = at + 1 + n
    OBVIOUS
  <2>3. QED
    BY <1>1, <1>3, <2>1, <2>2, Zenon
<1>5. PICK s : s = UpTo(c, at, v)
  OBVIOUS
<1>6. TakeString(s) = IF t.res # "ok" THEN t ELSE [t EXCEPT !.val = Append(s.val, t.val)]
  BY <1>2, <1>5 DEF TakeString
<1>7. CASE a <= Len(c)
  <2>1. at <= Len(c)
    <3>1. Len(x) \in Nat /\ Len(c) \in Nat
      OBVIOUS
    <3>2. QED
      BY <1>1, <1>7, <3>1
  <2>2. s.val = v
    BY <1>5, <2>1 DEF UpTo, At
  <2>3. t.res = "ok" /\ t.val = x
    BY <1>3, <1>7 DEF UpTo, At
  <2>4. [t EXCEPT !.val = Append(v, x)] = UpTo(c, a, Append(v, x))
    <3>1. t = At(c, a, x) /\ UpTo(c, a, Append(v, x)) = At(c, a, Append(v, x))
      BY <1>3, <1>7 DEF UpTo
    <3>2. PICK y : y = Append(v, x)
      OBVIOUS
    <3>3. [t EXCEPT !.val = y] = At(c, a, y)
      BY <3>1, AtVal
    <3>4. QED
      BY <3>1, <3>2, <3>3
  <2>5. TakeString(s) = UpTo(c, a, Append(v, x))
    BY <1>6, <2>2, <2>3, <2>4
  <2>6. QED
    BY <1>4, <1>5, <2>5
<1>8. CASE ~(a <= Len(c))
  <2>1. t = Short("ErrUnexpectedEOF") /\ UpTo(c, a, Append(v, x)) = Short("ErrUnexpectedEOF")
    BY <1>3, <1>8 DEF UpTo
  <2>2. t.res # "ok"
    BY <2>1 DEF Short
  <2>3. TakeString(s) = UpTo(c, a, Append(v, x))
    BY <1>6, <2>1, <2>2
  <2>4. QED
    BY <1>4, <1>5, <2>3
<1>9. QED
  BY <1>7, <1>8

\* The encoding of a string.
LEMMA SizedType ==
    ASSUME NEW x \in Seq(Nat), NEW w \in {1, 2, 4}
    PROVE  Sized(x, w) \in Seq(Nat) /\ Len(Sized(x, w)) = w + Len(x)
<1>1. PICK n \in Nat : n = Len(x)
  OBVIOUS
<1>2. PICK b : b = BE(n, w)
  OBVIOUS
<1>3. b \in Seq(Nat) /\ Len(b) = w
  <2>1. BE(n, w) \in Seq(Byte) /\ Len(BE(n, w)) = w
    BY BEBytes
  <2>2. BE(n, w) \in Seq(Nat)
    BY <2>1, ByteSeq
  <2>3. QED
    BY <1>2, <2>1, <2>2
<1>4. Sized(x, w) = b \o x
  BY <1>1, <1>2 DEF Sized
<1>5. b \o x \in Seq(Nat) /\ Len(b \o x) = Len(b) + Len(x)
  BY <1>3, ConcatEntries
<1>6. QED
  BY <1>3, <1>4, <1>5

\* The encodings of strings.
LEMMA SizedStringsType ==
    ASSUME NEW ss \in Seq(Seq(Nat))
    PROVE  /\ SizedStrings(ss) \in Seq(Seq(Nat)) /\ Len(SizedStrings(ss)) = Len(ss)
           /\ \A i \in 1 .. Len(ss) : SizedStrings(ss)[i] = Sized(ss[i], 1)
<1>1. PICK n \in Nat : n = Len(ss)
  OBVIOUS
<1>2. ASSUME NEW i \in 1 .. n
      PROVE  Sized(ss[i], 1) \in Seq(Nat)
  <2>1. ss[i] \in Seq(Nat) /\ 1 \in {1, 2, 4}
    BY <1>1
  <2>2. QED
    BY <2>1, SizedType
<1>3. PICK q : q = SizedStrings(ss)
  OBVIOUS
<1>4. q = [i \in 1 .. n |-> Sized(ss[i], 1)]
  BY <1>1, <1>3 DEF SizedStrings
<1>5. q \in [1 .. n -> Seq(Nat)]
  BY <1>2, <1>4
<1>6. q \in Seq(Seq(Nat)) /\ Len(q) = n
  BY <1>5, FunctionIsSeq
<1>7. \A i \in 1 .. n : q[i] = Sized(ss[i], 1)
  BY <1>4
<1>8. QED
  BY <1>1, <1>3, <1>6, <1>7

\* TakeStrings reads the strings that AppendStrings has written behind their number.
LEMMA StringsRead ==
    ASSUME NEW c \in Seq(Nat), NEW at \in 0 .. Len(c), NEW ss \in Seq(Seq(Nat)), NEW v,
           \A i \in 1 .. Len(ss) : Len(ss[i]) < Base,
           Agrees(c, at, FlattenSeq(SizedStrings(ss)))
    PROVE  TakeStrings(UpTo(c, at, v), Len(ss))
             = UpTo(c, at + Len(FlattenSeq(SizedStrings(ss))), ss)
<1>1. PICK n \in Nat : n = Len(ss)
  OBVIOUS
<1>2. PICK qs : qs = SizedStrings(ss)
  OBVIOUS
<1>3. /\ qs \in Seq(Seq(Nat)) /\ Len(qs) = n /\ \A i \in 1 .. n : qs[i] = Sized(ss[i], 1)
  BY <1>1, <1>2, SizedStringsType
<1>4. PICK cat : IsConcat(cat, qs, Nat)
  BY <1>3, ConcatExists
<1>5. FlattenSeq(qs) = cat[n]
  BY <1>3, <1>4, FlattenConcat
<1>6. cat[0] = <<>> /\ cat[n] \in Seq(Nat)
  BY <1>3, <1>4 DEF IsConcat
<1>7. PICK s : s = UpTo(c, at, v)
  OBVIOUS
<1>8. /\ [s EXCEPT !.val = <<>>] = UpTo(c, at, <<>>) /\ UpTo(c, at, <<>>) \in States
  <2>1. s = At(c, at, v) /\ UpTo(c, at, <<>>) = At(c, at, <<>>)
    BY <1>7 DEF UpTo
  <2>2. SubSeq(c, at + 1, Len(c)) \in Seq(Nat)
    BY RestOf
  <2>3. [s EXCEPT !.val = <<>>] = At(c, at, <<>>)
    BY <2>1, AtVal
  <2>4. At(c, at, <<>>) \in States
    <3>1. <<>> \in Seq(Seq(Nat))
      OBVIOUS
    <3>2. PICK r \in Seq(Nat), y \in Seq(Seq(Nat)) : r = SubSeq(c, at + 1, Len(c)) /\ y = <<>>
      BY <2>2, <3>1
    <3>3. [res |-> "ok", buf |-> r, val |-> y] \in States
      BY DEF States
    <3>4. QED
      BY <3>2, <3>3 DEF At
  <2>5. QED
    BY <2>1, <2>3, <2>4
<1>9. PICK acc : IsStrings(acc, s, n)
  BY <1>8, StringsExist
<1>10. acc[0] = UpTo(c, at, <<>>) /\ \A k \in 1 .. n : acc[k] = TakeString(acc[k - 1])
  BY <1>8, <1>9, StringsSteps
<1> DEFINE Good(k) == acc[k] = UpTo(c, at + Len(cat[k]), SubSeq(ss, 1, k))
           P == {k \in 0 .. n : Good(k)}
<1>11. Good(0)
  <2>1. SubSeq(ss, 1, 0) = <<>>
    OBVIOUS
  <2>2. Len(cat[0]) = 0 /\ at + 0 = at
    BY <1>6
  <2>3. QED
    BY <1>10, <2>1, <2>2
<1>12. ASSUME NEW k \in 1 .. n, Good(k - 1)
       PROVE  Good(k)
  <2>1. /\ cat[k - 1] \in Seq(Nat) /\ Len(cat[k]) = Len(cat[k - 1]) + Len(qs[k])
        /\ Agrees(c, at + Len(cat[k - 1]), qs[k])
    <3>1. k \in 1 .. Len(qs) /\ Agrees(c, at, cat[Len(qs)]) /\ at \in Nat
      BY <1>2, <1>3, <1>5
    <3>2. QED
      BY <1>3, <1>4, <3>1, AgreesParts
  <2>2. PICK a \in Nat : a = at + Len(cat[k - 1])
    BY <2>1
  <2>3. PICK x \in Seq(Nat) : x = ss[k] /\ Len(x) < Base
    BY <1>1
  <2>4. qs[k] = Sized(x, 1)
    BY <1>3, <2>3
  <2>5. Agrees(c, a, Sized(x, 1))
    BY <2>1, <2>2, <2>4
  <2>6. PICK u : u = SubSeq(ss, 1, k - 1)
    OBVIOUS
  <2>7. TakeString(UpTo(c, a, u)) = UpTo(c, a + Len(Sized(x, 1)), Append(u, x))
    BY <2>3, <2>5, StringReads
  <2>8. Append(u, x) = SubSeq(ss, 1, k)
    BY <1>1, <2>3, <2>6, FirstAppend
  <2>9. a + Len(Sized(x, 1)) = at + Len(cat[k])
    <3>1. Len(Sized(x, 1)) \in Nat
      <4>1. 1 \in {1, 2, 4}
        OBVIOUS
      <4>2. Len(Sized(x, 1)) = 1 + Len(x)
        BY <4>1, SizedType
      <4>3. QED
        BY <4>2
    <3>2. QED
      BY <2>1, <2>2, <2>4, <3>1
  <2>10. acc[k - 1] = UpTo(c, a, u)
    BY <1>12, <2>2, <2>6
  <2>11. QED
    BY <1>10, <2>7, <2>8, <2>9, <2>10
<1>13. 0 .. n \subseteq P
  <2> HIDE DEF Good
  <2>1. 0 \in P
    BY <1>11
  <2>2. \A k \in 1 .. n : k - 1 \in P => k \in P
    BY <1>12
  <2> HIDE DEF P
  <2>3. QED
    BY <2>1, <2>2, InductionUpTo
<1>14. Good(n)
  <2>1. n \in 0 .. n
    OBVIOUS
  <2>2. QED
    BY <1>13, <2>1, Zenon
<1>15. SubSeq(ss, 1, n) = ss
  BY <1>1
<1>16. TakeStrings(s, n) = acc[n]
  BY <1>9, StringsResult
<1>17. QED
  BY <1>1, <1>2, <1>5, <1>7, <1>14, <1>15, <1>16

-----------------------------------------------------------------------------
\* The loop that reads header fields.

\* acc[k] is the state of the parser after k turns.
IsFields(acc, s, n) ==
    acc = [k \in 0 .. n |-> IF k = 0 THEN [s EXCEPT !.val = <<>>] ELSE TakeHeader(acc[k - 1])]

\* The loop has one result.
LEMMA FieldsResult ==
    ASSUME NEW s, NEW n \in Nat, NEW acc, IsFields(acc, s, n)
    PROVE  TakeHeaders(s, n) = acc[n]
<1> DEFINE g == CHOOSE g : IsFields(g, s, n)
<1>1. TakeHeaders(s, n) = g[n]
  BY Zenon DEF TakeHeaders, IsFields
<1>2. IsFields(g, s, n)
  BY Zenon
<1> HIDE DEF g
<1>3. \A k \in 0 .. n : g[k] = IF k = 0 THEN [s EXCEPT !.val = <<>>] ELSE TakeHeader(g[k - 1])
  BY <1>2, Zenon DEF IsFields
<1>4. \A k \in 0 .. n : acc[k] = IF k = 0 THEN [s EXCEPT !.val = <<>>] ELSE TakeHeader(acc[k - 1])
  BY Zenon DEF IsFields
<1> DEFINE P == {k \in 0 .. n : g[k] = acc[k]}
<1>5. 0 \in P
  <2>1. 0 \in 0 .. n
    OBVIOUS
  <2>2. QED
    BY <1>3, <1>4, <2>1, Zenon
<1>6. ASSUME NEW k \in 1 .. n, k - 1 \in P
      PROVE  k \in P
  <2>1. k \in 0 .. n /\ k # 0
    OBVIOUS
  <2>2. g[k] = TakeHeader(g[k - 1]) /\ acc[k] = TakeHeader(acc[k - 1])
    BY <1>3, <1>4, <2>1, Zenon
  <2>3. QED
    BY <1>6, <2>1, <2>2, Zenon
<1>7. 0 .. n \subseteq P
  <2> HIDE DEF P
  <2> QED
    BY <1>5, <1>6, InductionUpTo
<1>8. n \in P
  BY <1>7
<1>9. QED
  BY <1>1, <1>8

\* The function v with one more value.
WithField(v, x, y) == [name \in DOMAIN v \cup {x} |-> IF name = x THEN y ELSE v[name]]

\* One turn of the loop reads the field that is written there.
LEMMA FieldReads ==
    ASSUME NEW c \in Seq(Nat), NEW at \in Nat, NEW x \in Seq(Nat), Len(x) < Base,
           NEW y \in Seq(Nat), Len(y) < Base2, Agrees(c, at, Sized(x, 1) \o Sized(y, 2)), NEW v
    PROVE  TakeHeader(UpTo(c, at, v))
             = UpTo(c, at + Len(Sized(x, 1) \o Sized(y, 2)), WithField(v, x, y))
<1>1. PICK p : p = Sized(x, 1)
  OBVIOUS
<1>2. PICK q : q = Sized(y, 2)
  OBVIOUS
<1>3. 1 \in {1, 2, 4} /\ 2 \in {1, 2, 4} /\ Len(x) < Limit(1) /\ Len(y) < Limit(2)
  BY DEF Limit
<1>4. p \in Seq(Nat) /\ Len(p) = 1 + Len(x)
  BY <1>1, <1>3, SizedType
<1>5. q \in Seq(Nat) /\ Len(q) = 2 + Len(y)
  BY <1>2, <1>3, SizedType
<1>6. PICK m \in Nat, n \in Nat : m = Len(x) /\ n = Len(y)
  OBVIOUS
<1>7. Agrees(c, at, p) /\ Agrees(c, at + Len(p), q)
  BY <1>1, <1>2, <1>4, <1>5, AgreesConcat
<1>8. PICK a \in Nat : a = at + 1 + m
  OBVIOUS
<1>9. PICK b \in Nat : b = a + 2 + n
  OBVIOUS
<1>10. Agrees(c, a, q)
  <2>1. at + Len(p) = a
    BY <1>4, <1>6, <1>8
  <2>2. QED
    BY <1>7, <2>1
<1>11. at + Len(p \o q) = b
  <2>1. Len(p \o q) = Len(p) + Len(q)
    BY <1>4, <1>5, ConcatEntries
  <2>2. QED
    BY <1>4, <1>5, <1>6, <1>8, <1>9, <2>1
<1>12. PICK s : s = UpTo(c, at, v)
  OBVIOUS
<1>13. PICK t : t = TakeSized(s, 1)
  OBVIOUS
<1>14. t = UpTo(c, a, x)
  <2>1. TakeSized(UpTo(c, at, v), 1) = UpTo(c, at + 1 + Len(x), x)
    BY <1>1, <1>3, <1>7, TakeSizedReads
  <2>2. QED
    BY <1>6, <1>8, <1>12, <1>13, <2>1, Zenon
<1>15. PICK u : u = TakeSized(t, 2)
  OBVIOUS
<1>16. u = UpTo(c, b, y)
  <2>1. TakeSized(UpTo(c, a, x), 2) = UpTo(c, a + 2 + Len(y), y)
    BY <1>2, <1>3, <1>10, TakeSizedReads
  <2>2. QED
    BY <1>6, <1>9, <1>14, <1>15, <2>1, Zenon
<1>17. TakeHeader(s)
         = IF u.res # "ok" THEN u
           ELSE [u EXCEPT !.val = [name \in DOMAIN s.val \cup {t.val} |->
                                     IF name = t.val THEN u.val ELSE s.val[name]]]
  BY <1>13, <1>15, Zenon DEF TakeHeader
<1>18. CASE b <= Len(c)
  <2>1. at <= Len(c) /\ a <= Len(c)
    <3>1. PICK l \in Nat : l = Len(c)
      OBVIOUS
    <3>2. QED
      BY <1>6, <1>8, <1>9, <1>18, <3>1, SMTT(30)
  <2>2. s.val = v /\ t.val = x /\ u.val = y /\ u.res = "ok"
    BY <1>12, <1>14, <1>16, <1>18, <2>1, StateOf, SMTT(30)
  <2>3. TakeHeader(s) = [u EXCEPT !.val = WithField(v, x, y)]
    BY <1>17, <2>2, Zenon DEF WithField
  <2>4. u = At(c, b, y) /\ UpTo(c, b, WithField(v, x, y)) = At(c, b, WithField(v, x, y))
    BY <1>16, <1>18 DEF UpTo
  <2>5. [u EXCEPT !.val = WithField(v, x, y)] = At(c, b, WithField(v, x, y))
    BY <2>4, AtVal
  <2>6. TakeHeader(s) = UpTo(c, b, WithField(v, x, y))
    BY <2>3, <2>4, <2>5
  <2>7. QED
    BY <1>1, <1>2, <1>11, <1>12, <2>6
<1>19. CASE ~(b <= Len(c))
  <2>1. /\ u = Short("ErrUnexpectedEOF")
        /\ UpTo(c, b, WithField(v, x, y)) = Short("ErrUnexpectedEOF")
    BY <1>16, <1>19 DEF UpTo
  <2>2. u.res # "ok"
    BY <2>1 DEF Short
  <2>3. TakeHeader(s) = UpTo(c, b, WithField(v, x, y))
    BY <1>17, <2>1, <2>2
  <2>4. QED
    BY <1>1, <1>2, <1>11, <1>12, <2>3
<1>20. QED
  BY <1>18, <1>19

\* The fields of the first k names.
FirstFields(order, h, k) == [name \in {order[i] : i \in 1 .. k} |-> h[name]]

\* One more.
LEMMA NextField ==
    ASSUME NEW order, NEW h, NEW k \in Nat, k > 0
    PROVE  WithField(FirstFields(order, h, k - 1), order[k], h[order[k]])
             = FirstFields(order, h, k)
<1> DEFINE A(j) == {order[i] : i \in 1 .. j}
<1>1. PICK D, E : D = A(k - 1) /\ E = A(k)
  OBVIOUS
<1>2. D \cup {order[k]} = E
  <2>1. \A i \in 1 .. k : i \in 1 .. k - 1 \/ i = k
    OBVIOUS
  <2>2. \A i \in 1 .. k - 1 : i \in 1 .. k
    OBVIOUS
  <2>3. k \in 1 .. k
    OBVIOUS
  <2>4. QED
    BY <1>1, <2>1, <2>2, <2>3, Zenon
<1>3. PICK f : f = [name \in D |-> h[name]]
  OBVIOUS
<1>4. FirstFields(order, h, k - 1) = f /\ FirstFields(order, h, k) = [name \in E |-> h[name]]
  BY <1>1, <1>3 DEF FirstFields
<1>5. DOMAIN f = D /\ \A name \in D : f[name] = h[name]
  BY <1>3
<1>6. WithField(f, order[k], h[order[k]])
        = [name \in E |-> IF name = order[k] THEN h[order[k]] ELSE f[name]]
  BY <1>2, <1>5 DEF WithField
<1>7. \A name \in E : (IF name = order[k] THEN h[order[k]] ELSE f[name]) = h[name]
  BY <1>2, <1>5
<1>8. QED
  BY <1>4, <1>6, <1>7

\* The encodings of header fields.
LEMMA SizedHeadersType ==
    ASSUME NEW order \in Seq(Seq(Nat)), NEW h,
           \A i \in 1 .. Len(order) : h[order[i]] \in Seq(Nat)
    PROVE  /\ SizedHeaders(order, h) \in Seq(Seq(Nat))
           /\ Len(SizedHeaders(order, h)) = Len(order)
           /\ \A i \in 1 .. Len(order) :
                 SizedHeaders(order, h)[i] = Sized(order[i], 1) \o Sized(h[order[i]], 2)
<1>1. PICK n \in Nat : n = Len(order)
  OBVIOUS
<1>2. ASSUME NEW i \in 1 .. n
      PROVE  Sized(order[i], 1) \o Sized(h[order[i]], 2) \in Seq(Nat)
  <2>1. order[i] \in Seq(Nat) /\ h[order[i]] \in Seq(Nat) /\ 1 \in {1, 2, 4} /\ 2 \in {1, 2, 4}
    BY <1>1
  <2>2. Sized(order[i], 1) \in Seq(Nat)
    BY <2>1, SizedType
  <2>3. Sized(h[order[i]], 2) \in Seq(Nat)
    BY <2>1, SizedType
  <2>4. QED
    BY <2>2, <2>3, ConcatEntries
<1>3. PICK q : q = SizedHeaders(order, h)
  OBVIOUS
<1>4. q = [i \in 1 .. n |-> Sized(order[i], 1) \o Sized(h[order[i]], 2)]
  BY <1>1, <1>3 DEF SizedHeaders
<1>5. q \in [1 .. n -> Seq(Nat)]
  BY <1>2, <1>4
<1>6. q \in Seq(Seq(Nat)) /\ Len(q) = n
  BY <1>5, FunctionIsSeq
<1>7. \A i \in 1 .. n : q[i] = Sized(order[i], 1) \o Sized(h[order[i]], 2)
  BY <1>4
<1>8. QED
  BY <1>1, <1>3, <1>6, <1>7

\* TakeHeaders reads the fields that AppendHeaders has written behind their number.
LEMMA FieldsRead ==
    ASSUME NEW c \in Seq(Nat), NEW at \in 0 .. Len(c), NEW order \in Seq(Seq(Nat)), NEW h, NEW v,
           \A i \in 1 .. Len(order) : /\ Len(order[i]) < Base
                                      /\ h[order[i]] \in Seq(Nat) /\ Len(h[order[i]]) < Base2,
           Agrees(c, at, FlattenSeq(SizedHeaders(order, h)))
    PROVE  TakeHeaders(UpTo(c, at, v), Len(order))
             = UpTo(c, at + Len(FlattenSeq(SizedHeaders(order, h))),
                    FirstFields(order, h, Len(order)))
<1>1. PICK n \in Nat : n = Len(order)
  OBVIOUS
<1>2. PICK qs : qs = SizedHeaders(order, h)
  OBVIOUS
<1>3. /\ qs \in Seq(Seq(Nat)) /\ Len(qs) = n
      /\ \A i \in 1 .. n : qs[i] = Sized(order[i], 1) \o Sized(h[order[i]], 2)
  BY <1>1, <1>2, SizedHeadersType
<1>4. PICK cat : IsConcat(cat, qs, Nat)
  BY <1>3, ConcatExists
<1>5. FlattenSeq(qs) = cat[n]
  BY <1>3, <1>4, FlattenConcat
<1>6. cat[0] = <<>> /\ cat[n] \in Seq(Nat)
  BY <1>3, <1>4 DEF IsConcat
<1>7. PICK s : s = UpTo(c, at, v)
  OBVIOUS
<1>8. [s EXCEPT !.val = <<>>] = UpTo(c, at, <<>>)
  <2>1. s = At(c, at, v) /\ UpTo(c, at, <<>>) = At(c, at, <<>>)
    BY <1>7 DEF UpTo
  <2>2. [s EXCEPT !.val = <<>>] = At(c, at, <<>>)
    BY <2>1, AtVal
  <2>3. QED
    BY <2>1, <2>2
<1> DEFINE State(k) == UpTo(c, at + Len(cat[k]), FirstFields(order, h, k))
           f == [k \in 0 .. n |-> State(k)]
<1>9. State(0) = UpTo(c, at, <<>>)
  <2>1. FirstFields(order, h, 0) = <<>>
    <3>1. 1 .. 0 = {}
      OBVIOUS
    <3>2. {order[i] : i \in 1 .. 0} = {}
      BY <3>1
    <3>3. [name \in {} |-> h[name]] = <<>>
      OBVIOUS
    <3>4. QED
      BY <3>2, <3>3 DEF FirstFields
  <2>2. Len(cat[0]) = 0 /\ at + 0 = at
    BY <1>6
  <2>3. QED
    BY <2>1, <2>2
<1>10. ASSUME NEW k \in 1 .. n
       PROVE  State(k) = TakeHeader(State(k - 1))
  <2>1. /\ cat[k - 1] \in Seq(Nat) /\ Len(cat[k]) = Len(cat[k - 1]) + Len(qs[k])
        /\ Agrees(c, at + Len(cat[k - 1]), qs[k])
    <3>1. k \in 1 .. Len(qs) /\ Agrees(c, at, cat[Len(qs)]) /\ at \in Nat
      BY <1>2, <1>3, <1>5
    <3>2. QED
      BY <1>3, <1>4, <3>1, AgreesParts
  <2>2. PICK a \in Nat : a = at + Len(cat[k - 1])
    BY <2>1
  <2>3. PICK x \in Seq(Nat) : x = order[k] /\ Len(x) < Base
    BY <1>1
  <2>4. PICK y \in Seq(Nat) : y = h[x] /\ Len(y) < Base2
    BY <1>1, <2>3
  <2>5. PICK z : z = Sized(x, 1) \o Sized(y, 2)
    OBVIOUS
  <2>6. qs[k] = z
    BY <1>3, <2>3, <2>4, <2>5
  <2>7. Agrees(c, a, z)
    BY <2>1, <2>2, <2>6
  <2>8. PICK u : u = FirstFields(order, h, k - 1)
    OBVIOUS
  <2>9. TakeHeader(UpTo(c, a, u)) = UpTo(c, a + Len(z), WithField(u, x, y))
    BY <2>3, <2>4, <2>5, <2>7, FieldReads, SMTT(30)
  <2>10. WithField(u, x, y) = FirstFields(order, h, k)
    <3>1. k \in Nat /\ k > 0
      OBVIOUS
    <3>2. QED
      BY <2>3, <2>4, <2>8, <3>1, NextField
  <2>11. a + Len(z) = at + Len(cat[k])
    <3>1. qs[k] \in Seq(Nat)
      BY <1>3
    <3>2. PICK i \in Nat, j \in Nat : i = Len(cat[k - 1]) /\ j = Len(z)
      BY <2>1, <2>6, <3>1
    <3>3. Len(cat[k]) = i + j /\ a = at + i
      BY <2>1, <2>2, <2>6, <3>2
    <3>4. QED
      BY <3>2, <3>3
  <2>12. State(k - 1) = UpTo(c, a, u)
    BY <2>2, <2>8
  <2>13. QED
    BY <2>9, <2>10, <2>11, <2>12
<1>11. IsFields(f, s, n)
  <2> HIDE DEF State
  <2>1. \A k \in 0 .. n : f[k] = State(k)
    OBVIOUS
  <2>2. \A k \in 0 .. n : k # 0 => k \in 1 .. n /\ k - 1 \in 0 .. n
    OBVIOUS
  <2>3. \A k \in 0 .. n : State(k) = IF k = 0 THEN [s EXCEPT !.val = <<>>]
                                     ELSE TakeHeader(f[k - 1])
    BY <1>8, <1>9, <1>10, <2>1, <2>2, Zenon
  <2>4. QED
    BY <2>3, Zenon DEF IsFields
<1>12. TakeHeaders(s, n) = f[n]
  <2> HIDE DEF f
  <2> QED
    BY <1>11, FieldsResult
<1>13. f[n] = State(n)
  <2> HIDE DEF State
  <2> QED
    OBVIOUS
<1>14. QED
  BY <1>1, <1>2, <1>5, <1>7, <1>12, <1>13

\* The orders of iteration over a map: each has all its names.
LEMMA OrderOf ==
    ASSUME NEW h, IsHeaders(h), NEW order \in SetToSeqs(DOMAIN h)
    PROVE  /\ order \in Seq(Seq(Nat)) /\ Len(order) = Cardinality(DOMAIN h)
           /\ \A i \in 1 .. Len(order) : /\ order[i] \in DOMAIN h /\ h[order[i]] \in Seq(Nat)
           /\ FirstFields(order, h, Len(order)) = h
<1>1. PICK D : D = DOMAIN h
  OBVIOUS
<1>2. IsFiniteSet(D) /\ D \subseteq Seq(Nat) /\ h \in [D -> Seq(Nat)]
  <2>1. \A x \in Seq(Byte) : x \in Seq(Nat)
    BY ByteSeq
  <2>2. IsFiniteSet(D) /\ D \subseteq Seq(Byte) /\ h \in [D -> Seq(Byte)]
    BY <1>1 DEF IsHeaders
  <2>3. QED
    BY <2>1, <2>2
<1>3. PICK n \in Nat : n = Cardinality(D)
  BY <1>2, FS_CardinalityType
<1>4. order \in [1 .. n -> D] /\ \A i, j \in 1 .. n : i # j => order[i] # order[j]
  BY <1>1, <1>3 DEF SetToSeqs
<1>5. order \in Seq(D) /\ Len(order) = n /\ DOMAIN order = 1 .. n
  BY <1>4, FunctionIsSeq
<1>6. Distinct(order)
  BY <1>4, <1>5 DEF Distinct
<1>7. Cardinality({order[i] : i \in 1 .. n}) = n
  BY <1>5, <1>6, DistinctCount
<1>8. {order[i] : i \in 1 .. n} = D
  <2>1. {order[i] : i \in 1 .. n} \in SUBSET D
    BY <1>4
  <2>2. QED
    BY <1>2, <1>3, <1>7, <2>1, FS_Subset
<1>9. FirstFields(order, h, n) = h
  <2>1. FirstFields(order, h, n) = [name \in D |-> h[name]]
    BY <1>8 DEF FirstFields
  <2>2. QED
    BY <1>2, <2>1
<1>10. order \in Seq(Seq(Nat))
  <2>1. order \in [1 .. n -> Seq(Nat)]
    BY <1>2, <1>4
  <2>2. QED
    BY <2>1, FunctionIsSeq
<1>11. ASSUME NEW i \in 1 .. n
       PROVE  order[i] \in D /\ h[order[i]] \in Seq(Nat)
  <2>1. order[i] \in D
    BY <1>4
  <2>2. QED
    BY <1>2, <2>1
<1>12. QED
  BY <1>1, <1>3, <1>5, <1>9, <1>10, <1>11

-----------------------------------------------------------------------------
\* Each Unmarshal undoes its AppendTo and refuses the beginning of an encoding.

\* r is what comes of c, where b is the whole encoding of p.
Decodes(r, c, b, p) ==
    /\ b \in Seq(Nat) /\ (Len(c) = Len(b) => r = Parsed(p))
    /\ Len(c) < Len(b) => r.res = Refusal(p.type, Len(c))

\* What is not a service request never crashes its decoder.
LEMMA RefusedKindly ==
    ASSUME NEW type, type # "request", NEW n
    PROVE  Refusal(type, n) = "ErrUnexpectedEOF"
BY DEF Refusal

\* Nor does one that is cut behind its number of services.
LEMMA CutLater ==
    ASSUME NEW type, NEW n \in Nat, 5 <= n
    PROVE  Refusal(type, n) = "ErrUnexpectedEOF"
<1>1. n # 4
  OBVIOUS
<1>2. QED
  BY <1>1 DEF Refusal

\* One that is cut before it.
LEMMA CutAtCount ==
    ASSUME NEW n \in Nat, ~(5 <= n), NEW res, 4 <= n => res = "panic",
           ~(4 <= n) => res = "ErrUnexpectedEOF"
    PROVE  res = Refusal("request", n)
<1>1. CASE 4 <= n
  <2>1. n = 4
    BY <1>1
  <2>2. QED
    BY <1>1, <2>1 DEF Refusal
<1>2. CASE ~(4 <= n)
  <2>1. n # 4
    BY <1>2
  <2>2. QED
    BY <1>2, <2>1 DEF Refusal
<1>3. QED
  BY <1>1, <1>2

\* A parser at the beginning.
LEMMA AtStart == ASSUME NEW c \in Seq(Nat) PROVE Start(c) = UpTo(c, 0, <<>>)
<1>1. SubSeq(c, 0 + 1, Len(c)) = c /\ 0 <= Len(c)
  OBVIOUS
<1>2. QED
  BY <1>1 DEF Start, UpTo, At

\* Take whatever it makes of a buffer that is too short.
LEMMA TakeOr ==
    ASSUME NEW c \in Seq(Nat), NEW at \in Nat, NEW x \in Seq(Nat), Agrees(c, at, x), NEW v, NEW e,
           e # "ok"
    PROVE  /\ at + Len(x) <= Len(c) => Take(UpTo(c, at, v), Len(x), e) = UpTo(c, at + Len(x), x)
           /\ ~(at + Len(x) <= Len(c)) /\ at <= Len(c) => Take(UpTo(c, at, v), Len(x), e).res = e
           /\ ~(at <= Len(c)) => Take(UpTo(c, at, v), Len(x), e).res = "ErrUnexpectedEOF"
<1>1. PICK n \in Nat, m \in Nat : n = Len(x) /\ m = Len(c)
  OBVIOUS
<1>2. CASE at + n <= m
  <2>1. at + n <= Len(c) /\ at <= Len(c)
    BY <1>1, <1>2
  <2>2. PICK y : y = SubSeq(SubSeq(c, at + 1, Len(c)), 1, n)
    OBVIOUS
  <2>3. Take(At(c, at, v), n, e) = At(c, at + n, y)
    BY <2>1, <2>2, TakeThere
  <2>4. Take(At(c, at, v), n, "ErrUnexpectedEOF") = At(c, at + n, y)
    BY <2>1, <2>2, TakeThere
  <2>5. UpTo(c, at, v) = At(c, at, v)
    BY <2>1 DEF UpTo
  <2>6. Take(UpTo(c, at, v), Len(x), "ErrUnexpectedEOF") = UpTo(c, at + Len(x), x)
    BY TakeReads
  <2>7. QED
    BY <1>1, <1>2, <2>3, <2>4, <2>5, <2>6
<1>3. CASE at + n > m /\ at <= m
  <2>1. at \in 0 .. Len(c) /\ at + n > Len(c) /\ ~(at + n <= Len(c)) /\ at <= Len(c)
    BY <1>1, <1>3
  <2>2. Take(At(c, at, v), n, e) = Short(e)
    BY <2>1, TakeShort
  <2>3. UpTo(c, at, v) = At(c, at, v) /\ Short(e).res = e
    BY <2>1 DEF UpTo, Short
  <2>4. QED
    BY <1>1, <2>1, <2>2, <2>3
<1>4. CASE at > m
  <2>1. ~(at + n <= Len(c)) /\ ~(at <= Len(c))
    BY <1>1, <1>4
  <2>2. /\ UpTo(c, at, v) = Short("ErrUnexpectedEOF") /\ Short("ErrUnexpectedEOF").res # "ok"
    BY <2>1, SMTT(30) DEF UpTo, Short
  <2>3. Take(UpTo(c, at, v), n, e) = Short("ErrUnexpectedEOF")
    BY <2>2, TakeFailed
  <2>5. Short("ErrUnexpectedEOF").res = "ErrUnexpectedEOF"
    BY DEF Short
  <2>4. QED
    BY <1>1, <2>1, <2>3, <2>5
<1>5. QED
  BY <1>1, <1>2, <1>3, <1>4

\* The number of header fields, and these.
ReadHeaders(s) ==
    LET count == Take(s, 2, "ErrUnexpectedEOF")
    IN  IF count.res # "ok" THEN count ELSE TakeHeaders(count, FromBE(count.val))

\* Headers are read from any of their encodings.
LEMMA HeadersRead ==
    ASSUME NEW c \in Seq(Nat), NEW at \in Nat, NEW v, NEW h, IsHeaders(h), FitsHeaders(h),
           NEW e \in AppendHeaders(h), Agrees(c, at, e)
    PROVE  ReadHeaders(UpTo(c, at, v)) = UpTo(c, at + Len(e), h) /\ e \in Seq(Nat)
<1>1. PICK order \in SetToSeqs(DOMAIN h) :
        e = BE(Len(order), 2) \o FlattenSeq(SizedHeaders(order, h))
  BY DEF AppendHeaders
<1>2. /\ order \in Seq(Seq(Nat)) /\ Len(order) = Cardinality(DOMAIN h)
      /\ \A i \in 1 .. Len(order) : order[i] \in DOMAIN h /\ h[order[i]] \in Seq(Nat)
      /\ FirstFields(order, h, Len(order)) = h
  BY OrderOf
<1>3. PICK n \in Nat : n = Len(order) /\ n < Base2
  BY <1>2 DEF FitsHeaders
<1>4. PICK x : x = BE(n, 2)
  OBVIOUS
<1>5. x \in Seq(Nat) /\ Len(x) = 2 /\ FromBE(x) = n
  <2>1. 2 \in {1, 2, 4} /\ n < Limit(2)
    BY <1>3 DEF Limit
  <2>2. BE(n, 2) \in Seq(Byte) /\ Len(BE(n, 2)) = 2
    BY <2>1, BEBytes
  <2>3. FromBE(BE(n, 2)) = n
    BY <2>1, FromBEGivesBack
  <2>4. BE(n, 2) \in Seq(Nat)
    BY <2>2, ByteSeq
  <2>5. QED
    BY <1>4, <2>2, <2>3, <2>4
<1>6. PICK qs : qs = SizedHeaders(order, h)
  OBVIOUS
<1>7. qs \in Seq(Seq(Nat))
  BY <1>2, <1>6, SizedHeadersType
<1>8. PICK y : y = FlattenSeq(qs)
  OBVIOUS
<1>9. y \in Seq(Nat)
  <2>1. PICK cat : IsConcat(cat, qs, Nat)
    BY <1>7, ConcatExists
  <2>2. FlattenSeq(qs) \in Seq(Nat)
    BY <1>7, <2>1, FlattenConcat
  <2>3. QED
    BY <1>8, <2>2
<1>10. e = x \o y
  BY <1>1, <1>3, <1>4, <1>6, <1>8
<1>11. e \in Seq(Nat) /\ Len(e) = 2 + Len(y)
  <2>1. x \o y \in Seq(Nat) /\ Len(x \o y) = Len(x) + Len(y)
    BY <1>5, <1>9, ConcatEntries
  <2>2. QED
    BY <1>5, <1>10, <2>1
<1>12. Agrees(c, at, x) /\ Agrees(c, at + 2, y)
  <2>1. Agrees(c, at, x \o y)
    BY <1>10
  <2>2. Agrees(c, at, x) /\ Agrees(c, at + Len(x), y)
    BY <1>5, <1>9, <2>1, AgreesConcat
  <2>3. QED
    BY <1>5, <2>2
<1>13. PICK a \in Nat : a = at + 2
  OBVIOUS
<1>14. PICK l \in Nat : l = Len(y)
  BY <1>9
<1>15. PICK count : count = Take(UpTo(c, at, v), 2, "ErrUnexpectedEOF")
  OBVIOUS
<1>16. count = UpTo(c, a, x)
  <2>0. x \in Seq(Nat) /\ Agrees(c, at, x)
    BY <1>5, <1>12
  <2>1. Take(UpTo(c, at, v), Len(x), "ErrUnexpectedEOF") = UpTo(c, at + Len(x), x)
    BY <2>0, TakeReads
  <2>2. QED
    BY <1>5, <1>13, <1>15, <2>1
<1>17. ReadHeaders(UpTo(c, at, v))
         = IF count.res # "ok" THEN count ELSE TakeHeaders(count, FromBE(count.val))
  BY <1>15 DEF ReadHeaders
<1>18. ReadHeaders(UpTo(c, at, v)) = UpTo(c, a + l, h)
  <2>1. CASE a <= Len(c)
    <3>1. count.res = "ok" /\ count.val = x
      BY <1>16, <2>1, StateOf
    <3>2. \A i \in 1 .. Len(order) : /\ Len(order[i]) < Base
                                     /\ h[order[i]] \in Seq(Nat) /\ Len(h[order[i]]) < Base2
      BY <1>2 DEF FitsHeaders
    <3>3. a \in 0 .. Len(c)
      BY <2>1
    <3>4. Agrees(c, a, FlattenSeq(SizedHeaders(order, h)))
      BY <1>6, <1>8, <1>12, <1>13
    <3>5. TakeHeaders(UpTo(c, a, x), Len(order))
             = UpTo(c, a + Len(FlattenSeq(SizedHeaders(order, h))),
                    FirstFields(order, h, Len(order)))
      BY <1>2, <3>2, <3>3, <3>4, FieldsRead, ZenonT(30)
    <3>6. TakeHeaders(count, n) = UpTo(c, a + l, h)
      BY <1>2, <1>3, <1>6, <1>8, <1>14, <1>16, <3>5, Zenon
    <3>7. QED
      BY <1>5, <1>17, <3>1, <3>6
  <2>2. CASE ~(a <= Len(c))
    <3>1. count.res # "ok" /\ count = Short("ErrUnexpectedEOF")
      BY <1>16, <2>2, StateOf
    <3>2. ~(a + l <= Len(c))
      BY <2>2
    <3>3. UpTo(c, a + l, h) = Short("ErrUnexpectedEOF")
      BY <3>2, StateOf
    <3>4. QED
      BY <1>17, <3>1, <3>3
  <2>3. QED
    BY <2>1, <2>2
<1>19. a + l = at + Len(e)
  BY <1>11, <1>13, <1>14
<1>20. QED
  BY <1>11, <1>18, <1>19

\* A length or a number of w bytes.
LEMMA NumberRead ==
    ASSUME NEW n \in Nat, NEW w \in {1, 2, 4}, n < Limit(w)
    PROVE  BE(n, w) \in Seq(Nat) /\ Len(BE(n, w)) = w /\ FromBE(BE(n, w)) = n
<1>1. BE(n, w) \in Seq(Byte) /\ Len(BE(n, w)) = w
  BY BEBytes
<1>2. FromBE(BE(n, w)) = n
  BY FromBEGivesBack
<1>3. BE(n, w) \in Seq(Nat)
  BY <1>1, ByteSeq
<1>4. QED
  BY <1>1, <1>2, <1>3

\* The first bytes.
LEMMA TakeFirst ==
    ASSUME NEW c \in Seq(Nat), NEW x \in Seq(Nat), Agrees(c, 0, x)
    PROVE  Take(Start(c), Len(x), "ErrUnexpectedEOF") = UpTo(c, Len(x), x)
<1>1. PICK at \in Nat : at = 0
  OBVIOUS
<1>2. Take(UpTo(c, at, <<>>), Len(x), "ErrUnexpectedEOF") = UpTo(c, at + Len(x), x)
  BY <1>1, TakeReads
<1>3. at + Len(x) = Len(x)
  BY <1>1
<1>4. QED
  BY <1>1, <1>2, <1>3, AtStart

\* A remainder that leaves a number as it is.
LEMMA ModSmall == ASSUME NEW m \in Nat, NEW j \in Nat, j < m PROVE j % m = j
OBVIOUS

\* Data packets.
LEMMA DataDecodes ==
    ASSUME NEW p, p \in [type : {"data"}, id : 0 .. Base4 - 1, data : Seq(Byte)],
           Len(p.data) < Base2, NEW c \in Seq(Nat), Agrees(c, 0, AppendData(p))
    PROVE  Decodes(UnmarshalDataPacket(c), c, AppendData(p), p)
<1>1. PICK d \in Seq(Nat), i \in Nat :
        p = [type |-> "data", id |-> i, data |-> d] /\ i < Base4 /\ Len(d) < Base2
  <2>1. /\ p = [type |-> "data", id |-> p.id, data |-> p.data] /\ p.id \in 0 .. Base4 - 1
        /\ p.data \in Seq(Byte)
    OBVIOUS
  <2>2. p.data \in Seq(Nat)
    BY <2>1, ByteSeq
  <2>3. Base4 \in Nat
    BY PacketsAssumption DEF Base4, Base2
  <2>4. p.id \in Nat /\ p.id < Base4
    BY <2>1, <2>3
  <2>5. QED
    BY <2>1, <2>2, <2>4
<1>2. PICK n \in Nat : n = Len(d) /\ n < Base2
  BY <1>1
<1>3. 4 \in {1, 2, 4} /\ 2 \in {1, 2, 4} /\ i < Limit(4) /\ n < Limit(2)
  BY <1>1, <1>2 DEF Limit
<1>4. PICK u : u = BE(i, 4)
  OBVIOUS
<1>5. u \in Seq(Nat) /\ Len(u) = 4 /\ FromBE(u) = i
  BY <1>3, <1>4, NumberRead
<1>6. PICK v : v = BE(n, 2)
  OBVIOUS
<1>7. v \in Seq(Nat) /\ Len(v) = 2 /\ FromBE(v) = n
  BY <1>3, <1>6, NumberRead
<1>8. PICK x : x = u \o v
  OBVIOUS
<1>9. x \in Seq(Nat) /\ Len(x) = 6
  <2>0. u \in Seq(Nat) /\ v \in Seq(Nat)
    BY <1>5, <1>7
  <2>1. u \o v \in Seq(Nat) /\ Len(u \o v) = Len(u) + Len(v)
    BY <2>0, ConcatEntries
  <2>2. QED
    BY <1>5, <1>7, <1>8, <2>1
<1>10. SubSeq(x, 1, 4) = u /\ SubSeq(x, 5, 6) = v
  <2>1. SubSeq(u \o v, 1, Len(u)) = u /\ SubSeq(u \o v, Len(u) + 1, Len(u \o v)) = v
    BY <1>5, <1>7, ConcatParts
  <2>2. Len(u) + 1 = 5
    BY <1>5
  <2>3. QED
    BY <1>5, <1>8, <1>9, <2>1, <2>2, Zenon
<1>11. PICK b : b = AppendData(p)
  OBVIOUS
<1>12. b = x \o d
  <2>1. PICK w : w = v \o d
    OBVIOUS
  <2>2. b = u \o w
    BY <1>1, <1>2, <1>4, <1>6, <1>11, <2>1 DEF AppendData, Sized
  <2>3. u \in Seq(Nat) /\ v \in Seq(Nat) /\ d \in Seq(Nat)
    BY <1>5, <1>7
  <2>4. Cat(u, Cat(v, d)) = Cat(Cat(u, v), d)
    BY <2>3, ConcatAssoc
  <2>5. QED
    BY <1>8, <2>1, <2>2, <2>4, Zenon DEF Cat
<1>13. b \in Seq(Nat) /\ Len(b) = 6 + n
  <2>1. x \o d \in Seq(Nat) /\ Len(x \o d) = Len(x) + Len(d)
    BY <1>9, ConcatEntries, ZenonT(30)
  <2>2. QED
    BY <1>2, <1>9, <1>12, <2>1
<1>14. Agrees(c, 0, x) /\ Agrees(c, 6, d)
  <2>1. Agrees(c, 0, x \o d) /\ x \in Seq(Nat)
    BY <1>9, <1>11, <1>12
  <2>2. Agrees(c, 0, x) /\ Agrees(c, 0 + Len(x), d)
    BY <2>1, AgreesConcat
  <2>3. 0 + Len(x) = 6
    BY <1>9
  <2>4. QED
    BY <2>2, <2>3
<1>15. PICK head : head = Take(Start(c), 6, "ErrUnexpectedEOF")
  OBVIOUS
<1>16. head = UpTo(c, 6, x)
  <2>1. x \in Seq(Nat) /\ Agrees(c, 0, x)
    BY <1>9, <1>14
  <2>2. Take(Start(c), Len(x), "ErrUnexpectedEOF") = UpTo(c, Len(x), x)
    BY <2>1, TakeFirst
  <2>3. Len(x) = 6
    BY <1>9
  <2>4. QED
    BY <1>15, <2>2, <2>3
<1>17. PICK r : r = UnmarshalDataPacket(c)
  OBVIOUS
<1>18. r = IF head.res # "ok" THEN Failed(head)
           ELSE IF Len(head.buf) % Base2 < FromBE(SubSeq(head.val, 5, 6))
           THEN [res |-> "ErrUnexpectedEOF"]
           ELSE Parsed([type |-> "data", id |-> FromBE(SubSeq(head.val, 1, 4)),
                        data |-> SubSeq(head.buf, 1, FromBE(SubSeq(head.val, 5, 6)))])
  BY <1>15, <1>17, Zenon DEF UnmarshalDataPacket
<1>19. CASE ~(6 <= Len(c))
  <2>1. head.res = "ErrUnexpectedEOF"
    BY <1>16, <1>19, StateOf
  <2>2. r = Failed(head)
    BY <1>18, <2>1, Zenon
  <2>3. r.res = Refusal(p.type, Len(c))
    BY <1>1, <2>1, <2>2, RefusedKindly DEF Failed
  <2>4. ~(Len(c) = Len(b))
    BY <1>13, <1>19
  <2>5. QED
    BY <1>11, <1>13, <1>17, <2>3, <2>4 DEF Decodes
<1>20. CASE 6 <= Len(c)
  <2>0. PICK z \in Nat : z = 6
    OBVIOUS
  <2>1. head.res = "ok" /\ head.val = x /\ head.buf = SubSeq(c, z + 1, Len(c))
    <3>1. head = UpTo(c, z, x) /\ z <= Len(c)
      BY <1>16, <1>20, <2>0
    <3>2. head.res = "ok"
      BY <3>1, StateOf
    <3>3. head.val = x
      BY <3>1, StateOf
    <3>4. head.buf = SubSeq(c, z + 1, Len(c))
      BY <3>1, StateOf, ZenonT(30)
    <3>5. QED
      BY <3>2, <3>3, <3>4
  <2>2. PICK y : y = head.buf
    OBVIOUS
  <2>3. PICK k \in Nat : k = Len(c) /\ 6 <= k
    BY <1>20
  <2>4. /\ y \in Seq(Nat) /\ Len(y) = k - 6 /\ \A j \in 1 .. k - 6 : y[j] = c[6 + j]
    <3>1. z \in 0 .. Len(c)
      BY <2>0, <2>3
    <3>2. PICK g : g = SubSeq(c, z + 1, Len(c))
      OBVIOUS
    <3>3. g \in Seq(Nat) /\ Len(g) = Len(c) - z /\ \A j \in 1 .. Len(c) - z : g[j] = c[z + j]
      BY <3>1, <3>2, RestOf, SMTT(30)
    <3>4. QED
      BY <2>0, <2>1, <2>2, <2>3, <3>2, <3>3, Zenon
  <2>5. r = IF (k - 6) % Base2 < n THEN [res |-> "ErrUnexpectedEOF"]
            ELSE Parsed([type |-> "data", id |-> i, data |-> SubSeq(y, 1, n)])
    BY <1>5, <1>7, <1>10, <1>18, <2>1, <2>2, <2>4, Zenon
  <2>6. Base2 \in Nat /\ Base2 > 0
    BY PacketsAssumption DEF Base2
  <2>7. \A j \in Nat : j < Base2 => j % Base2 = j
    BY <2>6, ModSmall
  <2>8. CASE k = 6 + n
    <3>1. (k - 6) % Base2 = n /\ k - 6 = n
      BY <1>2, <2>7, <2>8
    <3>2. r = Parsed([type |-> "data", id |-> i, data |-> SubSeq(y, 1, n)])
      BY <2>5, <3>1
    <3>3. SubSeq(y, 1, n) = y
      BY <2>4, <3>1
    <3>4. ASSUME NEW j \in 1 .. n
          PROVE  y[j] = d[j]
      <4>1. j \in 1 .. k - 6 /\ 6 + j <= Len(c) /\ j \in 1 .. Len(d)
        BY <1>2, <2>3, <3>1
      <4>2. c[6 + j] = d[j]
        BY <1>14, <4>1 DEF Agrees
      <4>3. QED
        BY <2>4, <4>1, <4>2
    <3>5. y = d
      BY <1>2, <2>4, <3>1, <3>4, SameEntries
    <3>6. r = Parsed(p)
      BY <1>1, <3>2, <3>3, <3>5
    <3>7. ~(Len(c) < Len(b))
      BY <1>13, <2>3, <2>8
    <3>8. QED
      BY <1>11, <1>13, <1>17, <3>6, <3>7 DEF Decodes
  <2>9. CASE k < 6 + n
    <3>0. k - 6 \in Nat /\ k - 6 < n
      BY <2>3, <2>9
    <3>1. PICK j \in Nat : j = k - 6 /\ j < n
      BY <3>0
    <3>2. j % Base2 = j
      BY <1>2, <2>6, <2>7, <3>1
    <3>3. (k - 6) % Base2 < n
      BY <3>1, <3>2
    <3>4. r = [res |-> "ErrUnexpectedEOF"]
      BY <2>5, <3>3
    <3>5. r.res = Refusal(p.type, Len(c)) /\ Len(c) # Len(b)
      BY <1>1, <1>13, <2>3, <2>9, <3>4, RefusedKindly
    <3>6. QED
      BY <1>11, <1>13, <1>17, <3>5 DEF Decodes
  <2>10. CASE k > 6 + n
    <3>1. Len(c) # Len(b) /\ ~(Len(c) < Len(b))
      BY <1>13, <2>3, <2>10
    <3>2. QED
      BY <1>11, <1>13, <1>17, <3>1 DEF Decodes
  <2>11. QED
    BY <2>8, <2>9, <2>10
<1>21. QED
  BY <1>19, <1>20

\* Service response packets.
LEMMA ResponseDecodes ==
    ASSUME NEW p, IsHeaders(p.headers), FitsHeaders(p.headers),
           p \in [type : {"response"}, id : 0 .. Base4 - 1, handled : BOOLEAN,
                  headers : {p.headers}],
           NEW b \in AppendResponse(p), NEW c \in Seq(Nat), Agrees(c, 0, b)
    PROVE  Decodes(UnmarshalServiceResponsePacket(c), c, b, p)
<1>1. PICK i \in Nat, f \in BOOLEAN, h \in {p.headers} :
        /\ p = [type |-> "response", id |-> i, handled |-> f, headers |-> h] /\ i < Base4
        /\ h = p.headers
  <2>1. /\ p = [type |-> "response", id |-> p.id, handled |-> p.handled, headers |-> p.headers]
        /\ p.id \in 0 .. Base4 - 1 /\ p.handled \in BOOLEAN
    OBVIOUS
  <2>2. Base4 \in Nat
    BY PacketsAssumption DEF Base4, Base2
  <2>3. p.id \in Nat /\ p.id < Base4
    BY <2>1, <2>2
  <2>4. QED
    BY <2>1, <2>3
<1>2. PICK m \in Nat : m = IF f THEN 1 ELSE 0
  OBVIOUS
<1>3. PICK e \in AppendHeaders(h) : b = BE(i, 4) \o <<m>> \o e
  <2>1. p.id = i /\ p.handled = f
    BY <1>1
  <2>2. PICK e \in AppendHeaders(p.headers) :
          b = BE(p.id, 4) \o <<IF p.handled THEN 1 ELSE 0>> \o e
    BY DEF AppendResponse
  <2>3. QED
    BY <1>1, <1>2, <2>1, <2>2
<1>4. 4 \in {1, 2, 4} /\ i < Limit(4)
  BY <1>1 DEF Limit
<1>5. PICK u : u = BE(i, 4)
  OBVIOUS
<1>6. u \in Seq(Nat) /\ Len(u) = 4 /\ FromBE(u) = i
  BY <1>4, <1>5, NumberRead
<1>7. PICK v : v = <<m>>
  OBVIOUS
<1>8. v \in Seq(Nat) /\ Len(v) = 1 /\ v[1] = m
  BY <1>7
<1>9. PICK x : x = u \o v
  OBVIOUS
<1>10. x \in Seq(Nat) /\ Len(x) = 5 /\ x[5] = m
  <2>1. /\ u \o v \in Seq(Nat) /\ Len(u \o v) = Len(u) + Len(v)
        /\ \A k \in 1 .. Len(u) + Len(v) :
              (u \o v)[k] = IF k <= Len(u) THEN u[k] ELSE v[k - Len(u)]
    <3>1. u \in Seq(Nat) /\ v \in Seq(Nat)
      BY <1>6, <1>8
    <3>2. QED
      BY <3>1, ConcatEntries
  <2>2. 5 \in 1 .. Len(u) + Len(v) /\ ~(5 <= Len(u)) /\ 5 - Len(u) = 1 /\ Len(u) + Len(v) = 5
    BY <1>6, <1>8
  <2>3. (u \o v)[5] = v[5 - Len(u)]
    BY <2>1, <2>2, Zenon
  <2>4. QED
    BY <1>8, <1>9, <2>1, <2>2, <2>3, Zenon
<1>11. SubSeq(x, 1, 4) = u
  <2>1. SubSeq(u \o v, 1, Len(u)) = u
    BY <1>6, <1>8, ConcatParts
  <2>2. QED
    BY <1>6, <1>9, <2>1, Zenon
<1>12. b = x \o e
  BY <1>3, <1>5, <1>7, <1>9
<1>13. e \in Seq(Nat)
  <2>1. <<>> \in Seq(Nat) /\ 0 \in Nat
    OBVIOUS
  <2>2. Agrees(<<>>, 0, e)
    BY DEF Agrees
  <2>3. QED
    BY <1>1, <2>1, <2>2, HeadersRead
<1>14. PICK l \in Nat : l = Len(e)
  BY <1>13, SMTT(30)
<1>15. b \in Seq(Nat) /\ Len(b) = 5 + l
  <2>0. x \in Seq(Nat) /\ e \in Seq(Nat)
    BY <1>10, <1>13
  <2>1. x \o e \in Seq(Nat) /\ Len(x \o e) = Len(x) + Len(e)
    BY <2>0, ConcatEntries
  <2>2. QED
    BY <1>10, <1>12, <1>14, <2>1
<1>16. Agrees(c, 0, x) /\ Agrees(c, 5, e)
  <2>1. Agrees(c, 0, x \o e) /\ x \in Seq(Nat)
    BY <1>10, <1>12
  <2>2. Agrees(c, 0, x) /\ Agrees(c, 0 + Len(x), e)
    BY <1>13, <2>1, AgreesConcat
  <2>3. 0 + Len(x) = 5
    BY <1>10
  <2>4. QED
    BY <2>2, <2>3
<1>17. PICK head : head = Take(Start(c), 5, "ErrUnexpectedEOF")
  OBVIOUS
<1>18. head = UpTo(c, 5, x)
  <2>1. x \in Seq(Nat) /\ Agrees(c, 0, x)
    BY <1>10, <1>16
  <2>2. Take(Start(c), Len(x), "ErrUnexpectedEOF") = UpTo(c, Len(x), x)
    BY <2>1, TakeFirst
  <2>3. Len(x) = 5
    BY <1>10
  <2>4. QED
    BY <1>17, <2>2, <2>3
<1>19. PICK s : s = ReadHeaders(head)
  OBVIOUS
<1>20. s = UpTo(c, 5 + l, h)
  <2>1. ReadHeaders(UpTo(c, 5, x)) = UpTo(c, 5 + Len(e), h)
    BY <1>1, <1>16, HeadersRead
  <2>2. QED
    BY <1>14, <1>18, <1>19, <2>1
<1>21. PICK r : r = UnmarshalServiceResponsePacket(c)
  OBVIOUS
<1>22. r = IF s.res # "ok" THEN Failed(s)
           ELSE Parsed([type |-> "response", id |-> FromBE(SubSeq(head.val, 1, 4)),
                        handled |-> head.val[5] = 1, headers |-> s.val])
  BY <1>17, <1>19, <1>21, Zenon DEF UnmarshalServiceResponsePacket, ReadHeaders
<1>23. CASE ~(5 + l <= Len(c))
  <2>1. s.res = "ErrUnexpectedEOF"
    BY <1>20, <1>23, StateOf
  <2>2. r = Failed(s)
    BY <1>22, <2>1, Zenon
  <2>3. r.res = Refusal(p.type, Len(c))
    BY <1>1, <2>1, <2>2, RefusedKindly DEF Failed
  <2>4. ~(Len(c) = Len(b))
    BY <1>15, <1>23
  <2>5. QED
    BY <1>15, <1>21, <2>3, <2>4 DEF Decodes
<1>24. CASE 5 + l <= Len(c)
  <2>1. 5 <= Len(c)
    BY <1>24
  <2>2. s.res = "ok" /\ s.val = h
    BY <1>20, <1>24, StateOf, SMTT(30)
  <2>3. head.val = x
    BY <1>18, <2>1, StateOf
  <2>4. r = Parsed([type |-> "response", id |-> i, handled |-> m = 1, headers |-> h])
    BY <1>6, <1>10, <1>11, <1>22, <2>2, <2>3, Zenon
  <2>5. (m = 1) = f
    BY <1>2
  <2>6. r = Parsed(p)
    BY <1>1, <2>4, <2>5, Zenon
  <2>7. ~(Len(c) < Len(b))
    BY <1>15, <1>24
  <2>8. QED
    BY <1>15, <1>21, <2>6, <2>7 DEF Decodes
<1>25. QED
  BY <1>23, <1>24

\* Strings take at least one byte each.
LEMMA StringsLength ==
    ASSUME NEW ss \in Seq(Seq(Nat))
    PROVE  /\ FlattenSeq(SizedStrings(ss)) \in Seq(Nat)
           /\ Len(ss) <= Len(FlattenSeq(SizedStrings(ss)))
<1>1. PICK n \in Nat : n = Len(ss)
  OBVIOUS
<1>2. PICK qs : qs = SizedStrings(ss)
  OBVIOUS
<1>3. /\ qs \in Seq(Seq(Nat)) /\ Len(qs) = n /\ \A i \in 1 .. n : qs[i] = Sized(ss[i], 1)
  BY <1>1, <1>2, SizedStringsType
<1>4. PICK cat : IsConcat(cat, qs, Nat)
  BY <1>3, ConcatExists
<1>5. FlattenSeq(qs) = cat[n] /\ FlattenSeq(qs) \in Seq(Nat)
  BY <1>3, <1>4, FlattenConcat
<1> DEFINE P == {k \in 0 .. n : Len(cat[k]) \in Nat /\ Len(cat[k]) >= k}
<1>6. 0 \in P
  BY <1>4 DEF IsConcat
<1>7. ASSUME NEW k \in 1 .. n, k - 1 \in P
      PROVE  k \in P
  <2>1. ss[k] \in Seq(Nat) /\ 1 \in {1, 2, 4}
    BY <1>1
  <2>2. Sized(ss[k], 1) \in Seq(Nat) /\ Len(Sized(ss[k], 1)) = 1 + Len(ss[k])
    BY <2>1, SizedType
  <2>3. PICK x \in Seq(Nat) : x = qs[k] /\ Len(x) >= 1
    <3>1. Len(ss[k]) \in Nat
      BY <2>1
    <3>2. QED
      BY <1>3, <2>2, <3>1
  <2>4. PICK y \in Seq(Nat) : y = cat[k - 1]
    <3>1. k - 1 \in 0 .. n
      OBVIOUS
    <3>2. QED
      BY <1>3, <1>4, <3>1 DEF IsConcat
  <2>5. cat[k] = y \o x
    BY <1>3, <1>4, <2>3, <2>4 DEF IsConcat
  <2>6. Len(y \o x) = Len(y) + Len(x) /\ Len(y) \in Nat /\ Len(x) \in Nat
    BY ConcatEntries
  <2>7. Len(y) >= k - 1
    BY <1>7, <2>4
  <2>8. QED
    BY <2>3, <2>5, <2>6, <2>7, SMTT(30)
<1>8. 0 .. n \subseteq P
  <2> HIDE DEF P
  <2> QED
    BY <1>6, <1>7, InductionUpTo
<1>9. n \in P
  BY <1>8
<1>10. QED
  BY <1>1, <1>2, <1>5, <1>9

\* The strings behind their number, in a request and in a handshake.
ReadStrings(s) == IF s.res # "ok" THEN s ELSE TakeStrings(s, FromBE(s.val))
ReadServices(s) ==
    IF s.res # "ok" THEN s
    ELSE IF ~Enough(s.buf, FromBE(s.val)) THEN Short("ErrUnexpectedEOF")
    ELSE TakeStrings(s, FromBE(s.val))

\* The strings of a packet are read from their encoding.
LEMMA CountedRead ==
    ASSUME NEW c \in Seq(Nat), NEW at \in Nat, NEW ss \in Seq(Seq(Nat)), FitsStrings(ss),
           NEW y, y = FlattenSeq(SizedStrings(ss)), Agrees(c, at, y)
    PROVE  /\ ReadStrings(UpTo(c, at, BE(Len(ss), 1))) = UpTo(c, at + Len(y), ss)
           /\ ReadServices(UpTo(c, at, BE(Len(ss), 1))) = UpTo(c, at + Len(y), ss)
<1>1. PICK n \in Nat : n = Len(ss) /\ n < Base
  BY DEF FitsStrings
<1>2. PICK x : x = BE(n, 1)
  OBVIOUS
<1>3. FromBE(x) = n
  <2>1. 1 \in {1, 2, 4} /\ n < Limit(1)
    BY <1>1 DEF Limit
  <2>2. QED
    BY <1>2, <2>1, NumberRead
<1>4. y \in Seq(Nat) /\ n <= Len(y)
  BY <1>1, StringsLength
<1>5. PICK l \in Nat : l = Len(y) /\ n <= l
  BY <1>4
<1>6. PICK s : s = UpTo(c, at, x)
  OBVIOUS
<1>7. CASE at <= Len(c)
  <2>1. s.res = "ok"
    BY <1>6, <1>7, StateOf
  <2>2. s.val = x
    BY <1>6, <1>7, StateOf
  <2>3. s.buf = SubSeq(c, at + 1, Len(c))
    BY <1>6, <1>7, StateOf
  <2>4. at \in 0 .. Len(c)
    BY <1>7
  <2>5. s.buf \in Seq(Nat) /\ Len(s.buf) = Len(c) - at
    BY <2>3, <2>4, RestOf
  <2>6. \A i \in 1 .. Len(ss) : Len(ss[i]) < Base
    BY DEF FitsStrings
  <2>7. TakeStrings(UpTo(c, at, x), Len(ss)) = UpTo(c, at + Len(y), ss)
    BY <2>4, <2>6, StringsRead
  <2>8. TakeStrings(s, n) = UpTo(c, at + l, ss)
    BY <1>1, <1>5, <1>6, <2>7, Zenon
  <2>9. ReadStrings(s) = UpTo(c, at + l, ss)
    BY <1>3, <2>1, <2>2, <2>8, Zenon DEF ReadStrings
  <2>10. ReadServices(s) = UpTo(c, at + l, ss)
    <3>1. CASE Enough(s.buf, n)
      BY <1>3, <2>1, <2>2, <2>8, <3>1, Zenon DEF ReadServices
    <3>2. CASE ~Enough(s.buf, n)
      <4>1. ~(at + l <= Len(c))
        BY <1>5, <2>5, <3>2 DEF Enough
      <4>2. UpTo(c, at + l, ss) = Short("ErrUnexpectedEOF")
        BY <4>1, StateOf
      <4>3. QED
        BY <1>3, <2>1, <2>2, <3>2, <4>2, Zenon DEF ReadServices
    <3>3. QED
      BY <3>1, <3>2
  <2>11. QED
    BY <1>1, <1>2, <1>5, <1>6, <2>9, <2>10, Zenon
<1>8. CASE ~(at <= Len(c))
  <2>1. s.res # "ok" /\ s = Short("ErrUnexpectedEOF")
    BY <1>6, <1>8, StateOf
  <2>2. ~(at + l <= Len(c))
    BY <1>8
  <2>3. UpTo(c, at + l, ss) = Short("ErrUnexpectedEOF")
    BY <2>2, StateOf
  <2>4. ReadStrings(s) = UpTo(c, at + l, ss) /\ ReadServices(s) = UpTo(c, at + l, ss)
    BY <2>1, <2>3, Zenon DEF ReadStrings, ReadServices
  <2>5. QED
    BY <1>1, <1>2, <1>5, <1>6, <2>4, Zenon
<1>9. QED
  BY <1>7, <1>8

\* Service request packets.
LEMMA RequestDecodes ==
    ASSUME NEW p, IsHeaders(p.headers), FitsHeaders(p.headers), FitsStrings(p.services),
           p \in [type : {"request"}, id : 0 .. Base4 - 1, services : Seq(Seq(Byte)),
                  headers : {p.headers}],
           NEW b \in AppendRequest(p), NEW c \in Seq(Nat), Agrees(c, 0, b)
    PROVE  Decodes(UnmarshalServiceRequestPacket(c), c, b, p)
<1>1. PICK i \in Nat, ss \in Seq(Seq(Nat)), h \in {p.headers} :
        /\ p = [type |-> "request", id |-> i, services |-> ss, headers |-> h] /\ i < Base4
        /\ h = p.headers /\ ss = p.services
  <2>1. /\ p = [type |-> "request", id |-> p.id, services |-> p.services, headers |-> p.headers]
        /\ p.id \in 0 .. Base4 - 1 /\ p.services \in Seq(Seq(Byte))
    OBVIOUS
  <2>2. Base4 \in Nat
    BY PacketsAssumption DEF Base4, Base2
  <2>3. p.id \in Nat /\ p.id < Base4
    BY <2>1, <2>2
  <2>4. p.services \in Seq(Seq(Nat))
    <3>1. \A x \in Seq(Byte) : x \in Seq(Nat)
      BY ByteSeq
    <3>2. QED
      BY <2>1, <3>1
  <2>5. QED
    BY <2>1, <2>3, <2>4
<1>2. PICK e \in AppendHeaders(h) : b = BE(i, 4) \o AppendStrings(ss) \o e
  <2>1. p.id = i
    BY <1>1
  <2>2. QED
    BY <1>1, <2>1 DEF AppendRequest
<1>3. FitsStrings(ss) /\ IsHeaders(h) /\ FitsHeaders(h)
  BY <1>1
<1>4. PICK n \in Nat : n = Len(ss) /\ n < Base
  <2>1. Len(ss) \in Nat
    OBVIOUS
  <2>2. Len(ss) < Base
    BY <1>3 DEF FitsStrings
  <2>3. QED
    BY <2>1, <2>2, Zenon
<1>5. 4 \in {1, 2, 4} /\ i < Limit(4) /\ 1 \in {1, 2, 4} /\ n < Limit(1)
  BY <1>1, <1>4 DEF Limit
<1>6. PICK u : u = BE(i, 4)
  OBVIOUS
<1>7. u \in Seq(Nat) /\ Len(u) = 4 /\ FromBE(u) = i
  BY <1>5, <1>6, NumberRead
<1>8. PICK x : x = BE(n, 1)
  OBVIOUS
<1>9. x \in Seq(Nat) /\ Len(x) = 1 /\ FromBE(x) = n
  BY <1>5, <1>8, NumberRead
<1>10. PICK y : y = FlattenSeq(SizedStrings(ss))
  OBVIOUS
<1>11. y \in Seq(Nat)
  BY <1>10, StringsLength
<1>12. e \in Seq(Nat)
  <2>1. <<>> \in Seq(Nat) /\ 0 \in Nat
    OBVIOUS
  <2>2. Agrees(<<>>, 0, e)
    BY DEF Agrees
  <2>3. QED
    BY <1>3, <2>1, <2>2, HeadersRead
<1>13. PICK k \in Nat, l \in Nat : k = Len(y) /\ l = Len(e)
  <2>1. Len(y) \in Nat
    BY <1>11
  <2>2. Len(e) \in Nat
    BY <1>12
  <2>3. QED
    BY <2>1, <2>2, Zenon
<1>14. PICK a : a = x \o y
  OBVIOUS
<1>15. a \in Seq(Nat) /\ Len(a) = 1 + k
  <2>1. x \in Seq(Nat) /\ y \in Seq(Nat)
    BY <1>9, <1>11
  <2>2. x \o y \in Seq(Nat) /\ Len(x \o y) = Len(x) + Len(y)
    BY <2>1, ConcatEntries
  <2>3. QED
    BY <1>9, <1>13, <1>14, <2>2
<1>16. PICK d : d = u \o a
  OBVIOUS
<1>17. d \in Seq(Nat) /\ Len(d) = 5 + k
  <2>1. u \in Seq(Nat) /\ a \in Seq(Nat)
    BY <1>7, <1>15
  <2>2. u \o a \in Seq(Nat) /\ Len(u \o a) = Len(u) + Len(a)
    BY <2>1, ConcatEntries
  <2>3. QED
    BY <1>7, <1>15, <1>16, <2>2, SMTT(30)
<1>18. b = d \o e
  BY <1>2, <1>4, <1>6, <1>8, <1>10, <1>14, <1>16, Zenon DEF AppendStrings
<1>19. b \in Seq(Nat) /\ Len(b) = 5 + k + l
  <2>1. d \in Seq(Nat) /\ e \in Seq(Nat)
    BY <1>12, <1>17
  <2>2. d \o e \in Seq(Nat) /\ Len(d \o e) = Len(d) + Len(e)
    BY <2>1, ConcatEntries
  <2>3. QED
    BY <1>13, <1>17, <1>18, <2>2
<1>20. PICK z \in Nat : z = 0
  OBVIOUS
<1>21. Agrees(c, z, d) /\ Agrees(c, 5 + k, e)
  <2>1. Agrees(c, z, d \o e) /\ d \in Seq(Nat)
    BY <1>17, <1>18, <1>20
  <2>2. Agrees(c, z, d) /\ Agrees(c, z + Len(d), e)
    BY <1>12, <2>1, AgreesConcat
  <2>3. z + Len(d) = 5 + k
    BY <1>17, <1>20
  <2>4. QED
    BY <2>2, <2>3
<1>22. Agrees(c, z, u) /\ Agrees(c, 4, a)
  <2>1. Agrees(c, z, u \o a) /\ u \in Seq(Nat) /\ a \in Seq(Nat)
    BY <1>7, <1>15, <1>16, <1>21
  <2>2. Agrees(c, z, u) /\ Agrees(c, z + Len(u), a)
    BY <2>1, AgreesConcat
  <2>3. z + Len(u) = 4
    BY <1>7, <1>20
  <2>4. QED
    BY <2>2, <2>3
<1>23. PICK f \in Nat : f = 4
  OBVIOUS
<1>24. Agrees(c, f, x) /\ Agrees(c, 5, y)
  <2>1. Agrees(c, f, x \o y) /\ x \in Seq(Nat) /\ y \in Seq(Nat)
    BY <1>9, <1>11, <1>14, <1>22, <1>23
  <2>2. Agrees(c, f, x) /\ Agrees(c, f + Len(x), y)
    BY <2>1, AgreesConcat
  <2>3. f + Len(x) = 5
    BY <1>9, <1>23
  <2>4. QED
    BY <2>2, <2>3
<1>25. PICK id : id = Take(Start(c), 4, "ErrUnexpectedEOF")
  OBVIOUS
<1>26. id = UpTo(c, f, u)
  <2>1. u \in Seq(Nat) /\ Agrees(c, 0, u)
    BY <1>7, <1>20, <1>22
  <2>2. Take(Start(c), Len(u), "ErrUnexpectedEOF") = UpTo(c, Len(u), u)
    BY <2>1, TakeFirst
  <2>3. QED
    BY <1>7, <1>23, <1>25, <2>2
<1>27. PICK size : size = Take(id, 1, "panic")
  OBVIOUS
<1>28. PICK services : services = ReadStrings(size)
  OBVIOUS
<1>29. PICK headers : headers = ReadHeaders(services)
  OBVIOUS
<1>30. PICK r : r = UnmarshalServiceRequestPacket(c)
  OBVIOUS
<1>31. r = IF headers.res # "ok" THEN Failed(headers)
           ELSE Parsed([type |-> "request", id |-> FromBE(id.val), services |-> services.val,
                        headers |-> headers.val])
  BY <1>25, <1>27, <1>28, <1>29, <1>30, ZenonT(30)
     DEF UnmarshalServiceRequestPacket, ReadHeaders, ReadStrings
<1>32. /\ 5 <= Len(c) => size = UpTo(c, 5, x)
       /\ ~(5 <= Len(c)) => size.res = Refusal("request", Len(c))
  <2>1. x \in Seq(Nat) /\ Agrees(c, f, x) /\ "panic" # "ok"
    BY <1>9, <1>24
  <2>2. PICK y1 : y1 = Take(UpTo(c, f, u), Len(x), "panic")
    OBVIOUS
  <2>3. /\ f + Len(x) <= Len(c) => y1 = UpTo(c, f + Len(x), x)
        /\ ~(f + Len(x) <= Len(c)) /\ f <= Len(c) => y1.res = "panic"
        /\ ~(f <= Len(c)) => y1.res = "ErrUnexpectedEOF"
    BY <2>1, <2>2, TakeOr
  <2>4. Len(x) = 1 /\ f + Len(x) = 5 /\ f = 4
    BY <1>9, <1>23
  <2>5. size = y1
    BY <1>26, <1>27, <2>2, <2>4
  <2>6. ASSUME ~(5 <= Len(c))
        PROVE  size.res = Refusal("request", Len(c))
    <3>1. /\ 4 <= Len(c) => size.res = "panic"
          /\ ~(4 <= Len(c)) => size.res = "ErrUnexpectedEOF"
      BY <2>3, <2>4, <2>5, <2>6
    <3>2. Len(c) \in Nat
      OBVIOUS
    <3>3. QED
      BY <2>6, <3>1, <3>2, CutAtCount, Zenon
  <2>7. QED
    BY <2>3, <2>4, <2>5, <2>6, Zenon
<1>33. CASE ~(5 <= Len(c))
  <2>0. size.res = Refusal(p.type, Len(c))
    BY <1>1, <1>32, <1>33
  <2>1. size.res # "ok"
    BY <2>0 DEF Refusal
  <2>2. services = size
    BY <1>28, <2>1, SMTT(30) DEF ReadStrings
  <2>3. headers = size
    BY <1>29, <2>1, <2>2 DEF ReadHeaders, Take
  <2>4. r = Failed(size)
    BY <1>31, <2>1, <2>3, Zenon
  <2>5. r.res = Refusal(p.type, Len(c))
    BY <2>0, <2>4 DEF Failed
  <2>6. ~(Len(c) = Len(b))
    BY <1>19, <1>33, SMTT(30)
  <2>7. QED
    BY <1>19, <1>30, <2>5, <2>6 DEF Decodes
<1>34. CASE 5 <= Len(c)
  <2>1. size = UpTo(c, 5, x)
    BY <1>32, <1>34
  <2>2. services = UpTo(c, 5 + k, ss)
    <3>1. PICK g \in Nat : g = 5
      OBVIOUS
    <3>2. Agrees(c, g, y)
      BY <1>24, <3>1
    <3>3. ReadStrings(UpTo(c, g, BE(Len(ss), 1))) = UpTo(c, g + Len(y), ss)
      BY <1>3, <1>10, <3>2, CountedRead, SMTT(30)
    <3>4. QED
      BY <1>4, <1>8, <1>13, <1>28, <2>1, <3>1, <3>3, Zenon
  <2>3. headers = UpTo(c, 5 + k + l, h)
    <3>1. PICK g \in Nat : g = 5 + k
      OBVIOUS
    <3>2. Agrees(c, g, e)
      BY <1>21, <3>1
    <3>3. ReadHeaders(UpTo(c, g, ss)) = UpTo(c, g + Len(e), h)
      BY <1>3, <3>2, HeadersRead, SMTT(30)
    <3>4. QED
      BY <1>13, <1>29, <2>2, <3>1, <3>3, Zenon
  <2>4. CASE ~(5 + k + l <= Len(c))
    <3>1. headers.res = "ErrUnexpectedEOF"
      BY <2>3, <2>4, StateOf
    <3>2. r = Failed(headers)
      BY <1>31, <3>1, Zenon
    <3>3. r.res = Refusal(p.type, Len(c))
      <4>0. Len(c) \in Nat
        OBVIOUS
      <4>1. Refusal(p.type, Len(c)) = "ErrUnexpectedEOF"
        BY <1>34, <4>0, CutLater, Zenon
      <4>2. QED
        BY <3>1, <3>2, <4>1 DEF Failed
    <3>4. ~(Len(c) = Len(b))
      BY <1>19, <2>4
    <3>5. QED
      BY <1>19, <1>30, <3>3, <3>4 DEF Decodes
  <2>5. CASE 5 + k + l <= Len(c)
    <3>1. 5 + k <= Len(c) /\ f <= Len(c)
      <4>1. Len(c) \in Nat /\ k \in Nat /\ l \in Nat
        OBVIOUS
      <4>2. 5 + k <= Len(c)
        BY <2>5, <4>1, SMTT(30)
      <4>3. QED
        BY <1>23, <2>5, <4>1, <4>2
    <3>2. headers.res = "ok" /\ headers.val = h
      BY <2>3, <2>5 DEF UpTo, At
    <3>3. services.val = ss
      BY <2>2, <3>1 DEF UpTo, At
    <3>5. id.val = u
      BY <1>26, <3>1 DEF UpTo, At
    <3>6. r = Parsed(p)
      BY <1>1, <1>7, <1>31, <3>2, <3>3, <3>5, Zenon
    <3>7. ~(Len(c) < Len(b))
      BY <1>19, <2>5
    <3>8. QED
      BY <1>19, <1>30, <3>6, <3>7 DEF Decodes
  <2>6. QED
    BY <2>4, <2>5
<1>35. QED
  BY <1>33, <1>34

\* kademlia's signature is a number.
LEMMA DigitsHorner == ASSUME NEW a, NEW b PROVE Digits(a, b) = Horner(a, Base, b)
BY DEF Digits, Horner, Shift

\* Digits are a number.
LEMMA DigitsType ==
    ASSUME NEW a \in Nat, NEW b \in Seq(Nat) PROVE Digits(a, b) \in Nat
<1>1. Base \in Nat
  BY PacketsAssumption
<1>2. PICK f : IsHorner(f, a, Base, b)
  BY <1>1, HornerExists
<1>3. Horner(a, Base, b) \in Nat
  BY <1>1, <1>2, HornerUnique
<1>4. QED
  BY <1>3, DigitsHorner

\* A signature is a number.
LEMMA SignType ==
    ASSUME NEW a \in Nat, NEW ss \in Seq(Seq(Nat)) PROVE Sign(a, ss) \in Nat
<1>1. FlattenSeq(ss) \in Seq(Nat)
  BY FlattenType
<1>2. Digits(a, FlattenSeq(ss)) \in Nat
  BY <1>1, DigitsType
<1>3. Base \in Nat
  BY PacketsAssumption
<1>4. QED
  BY <1>2, <1>3 DEF Sign

\* What there is to a handshake.
LEMMA HandshakeFields ==
    ASSUME NEW p, IsHandshake(p)
    PROVE  /\ p = [type |-> "handshake", services |-> p.services, kadId |-> p.kadId,
                   signature |-> p.signature]
           /\ p.services \in Seq(Seq(Byte)) /\ p.services \in Seq(Seq(Nat))
           /\ p.kadId = NoId => p.signature = NoId
           /\ p.kadId # NoId => /\ p.kadId \in Nat /\ p.kadId >= Base
                                /\ p.signature = Sign(p.kadId, p.services)
                                /\ p.signature \in Nat
<1>1. /\ p \in [type : {"handshake"}, kadId : Nat \cup {NoId}, services : Seq(Seq(Byte)),
                signature : Nat \cup {NoId}]
      /\ p.kadId = NoId => p.signature = NoId
      /\ p.kadId # NoId => p.kadId >= Base /\ p.signature = Sign(p.kadId, p.services)
  BY DEF IsHandshake
<1>2. p = [type |-> "handshake", services |-> p.services, kadId |-> p.kadId,
           signature |-> p.signature]
  BY <1>1
<1>3. p.services \in Seq(Seq(Byte)) /\ p.kadId \in Nat \cup {NoId}
  BY <1>1
<1>4. p.services \in Seq(Seq(Nat))
  <2>1. \A x \in Seq(Byte) : x \in Seq(Nat)
    BY ByteSeq
  <2>2. QED
    BY <1>3, <2>1
<1>5. p.kadId # NoId => p.signature \in Nat
  <2>1. ASSUME p.kadId # NoId
        PROVE  p.signature \in Nat
    <3>1. p.kadId \in Nat
      BY <1>3, <2>1
    <3>2. Sign(p.kadId, p.services) \in Nat
      BY <1>4, <3>1, SignType
    <3>3. QED
      BY <1>1, <2>1, <3>2
  <2>2. QED
    BY <2>1
<1>6. QED
  BY <1>1, <1>2, <1>3, <1>4, <1>5, Zenon

\* Handshakes without an id.
LEMMA AnonymousDecodes ==
    ASSUME NEW p, IsHandshake(p), p.kadId = NoId, FitsStrings(p.services), NEW c \in Seq(Nat),
           Agrees(c, 0, AppendHandshake(p))
    PROVE  Decodes(UnmarshalHandshakePacket(c), c, AppendHandshake(p), p)
<1>1. PICK ss : ss = p.services
  OBVIOUS
<1>2. /\ p = [type |-> "handshake", services |-> ss, kadId |-> NoId, signature |-> NoId]
      /\ ss \in Seq(Seq(Nat)) /\ FitsStrings(ss)
  BY <1>1, HandshakeFields, Zenon
<1>3. PICK n \in Nat : n = Len(ss) /\ n < Base
  <2>1. Len(ss) \in Nat
    BY <1>2
  <2>2. Len(ss) < Base
    BY <1>2 DEF FitsStrings
  <2>3. QED
    BY <2>1, <2>2, Zenon
<1>4. 1 \in {1, 2, 4} /\ n < Limit(1)
  BY <1>3 DEF Limit
<1>5. PICK u : u = <<0>>
  OBVIOUS
<1>6. u \in Seq(Nat) /\ Len(u) = 1 /\ u # <<1>>
  BY <1>5
<1>7. PICK x : x = BE(n, 1)
  OBVIOUS
<1>8. x \in Seq(Nat) /\ Len(x) = 1
  BY <1>4, <1>7, NumberRead
<1>9. PICK y : y = FlattenSeq(SizedStrings(ss))
  OBVIOUS
<1>10. y \in Seq(Nat)
  BY <1>2, <1>9, StringsLength
<1>11. PICK k \in Nat : k = Len(y)
  BY <1>10
<1>12. PICK a : a = x \o y
  OBVIOUS
<1>13. a \in Seq(Nat) /\ Len(a) = 1 + k
  <2>1. x \in Seq(Nat) /\ y \in Seq(Nat)
    BY <1>8, <1>10
  <2>2. x \o y \in Seq(Nat) /\ Len(x \o y) = Len(x) + Len(y)
    BY <2>1, ConcatEntries
  <2>3. QED
    BY <1>8, <1>11, <1>12, <2>2
<1>14. PICK b : b = AppendHandshake(p)
  OBVIOUS
<1>15. b = u \o a
  <2>1. a = AppendStrings(ss)
    BY <1>3, <1>7, <1>9, <1>12, Zenon DEF AppendStrings
  <2>2. b = u \o a \o <<>>
    BY <1>1, <1>5, <1>14, <2>1, Zenon DEF AppendHandshake
  <2>3. u \o a \in Seq(Nat)
    BY <1>6, <1>13, ConcatEntries
  <2>4. QED
    BY <2>2, <2>3
<1>16. b \in Seq(Nat) /\ Len(b) = 2 + k
  <2>1. u \in Seq(Nat) /\ a \in Seq(Nat)
    BY <1>6, <1>13
  <2>2. u \o a \in Seq(Nat) /\ Len(u \o a) = Len(u) + Len(a)
    BY <2>1, ConcatEntries
  <2>3. QED
    BY <1>6, <1>13, <1>15, <2>2
<1>17. PICK z \in Nat : z = 0
  OBVIOUS
<1>18. PICK o \in Nat : o = 1
  OBVIOUS
<1>19. PICK t \in Nat : t = 2
  OBVIOUS
<1>20. Agrees(c, z, u) /\ Agrees(c, o, a)
  <2>1. Agrees(c, z, u \o a) /\ u \in Seq(Nat) /\ a \in Seq(Nat)
    BY <1>6, <1>13, <1>14, <1>15, <1>17
  <2>2. Agrees(c, z, u) /\ Agrees(c, z + Len(u), a)
    BY <2>1, AgreesConcat
  <2>3. z + Len(u) = o
    BY <1>6, <1>17, <1>18
  <2>4. QED
    BY <2>2, <2>3
<1>21. Agrees(c, o, x) /\ Agrees(c, t, y)
  <2>1. Agrees(c, o, x \o y) /\ x \in Seq(Nat) /\ y \in Seq(Nat)
    BY <1>8, <1>10, <1>12, <1>20
  <2>2. Agrees(c, o, x) /\ Agrees(c, o + Len(x), y)
    BY <2>1, AgreesConcat
  <2>3. o + Len(x) = t
    BY <1>8, <1>18, <1>19
  <2>4. QED
    BY <2>2, <2>3
<1>22. PICK flag : flag = Take(Start(c), 1, "ErrUnexpectedEOF")
  OBVIOUS
<1>23. flag = UpTo(c, o, u)
  <2>1. u \in Seq(Nat) /\ Agrees(c, 0, u)
    BY <1>6, <1>17, <1>20
  <2>2. Take(Start(c), Len(u), "ErrUnexpectedEOF") = UpTo(c, Len(u), u)
    BY <2>1, TakeFirst
  <2>3. QED
    BY <1>6, <1>18, <1>22, <2>2
<1>24. flag.val # <<1>>
  <2>1. o <= Len(c) => flag.val = u
    BY <1>23 DEF UpTo, At
  <2>2. ~(o <= Len(c)) => flag.val = <<>>
    BY <1>23 DEF UpTo, Short
  <2>3. <<>> # <<1>>
    OBVIOUS
  <2>4. QED
    BY <1>6, <2>1, <2>2, <2>3, Zenon
<1>25. PICK size : size = Take(flag, 1, "ErrUnexpectedEOF")
  OBVIOUS
<1>26. size = UpTo(c, t, x)
  <2>1. x \in Seq(Nat) /\ Agrees(c, o, x)
    BY <1>8, <1>21
  <2>2. Take(UpTo(c, o, u), Len(x), "ErrUnexpectedEOF") = UpTo(c, o + Len(x), x)
    BY <2>1, TakeReads
  <2>3. Len(x) = 1 /\ o + Len(x) = t
    BY <1>8, <1>18, <1>19
  <2>4. QED
    BY <1>23, <1>25, <2>2, <2>3
<1>27. PICK services : services = ReadServices(size)
  OBVIOUS
<1>28. services = UpTo(c, t + k, ss)
  <2>1. ReadServices(UpTo(c, t, BE(Len(ss), 1))) = UpTo(c, t + Len(y), ss)
    BY <1>2, <1>9, <1>21, CountedRead, ZenonT(30)
  <2>2. QED
    BY <1>3, <1>7, <1>11, <1>26, <1>27, <2>1, Zenon
<1>29. PICK r : r = UnmarshalHandshakePacket(c)
  OBVIOUS
<1>30. r = IF services.res # "ok" THEN Failed(services)
           ELSE Parsed([type |-> "handshake", services |-> services.val, kadId |-> NoId,
                        signature |-> NoId])
  BY <1>22, <1>24, <1>25, <1>27, <1>29, Zenon DEF UnmarshalHandshakePacket, ReadServices
<1>31. CASE ~(t + k <= Len(c))
  <2>1. services.res = "ErrUnexpectedEOF"
    BY <1>28, <1>31 DEF UpTo, Short
  <2>2. r = Failed(services)
    BY <1>30, <2>1, Zenon
  <2>3. r.res = Refusal(p.type, Len(c))
    BY <1>2, <2>1, <2>2, RefusedKindly DEF Failed
  <2>4. ~(Len(c) = Len(b))
    BY <1>16, <1>19, <1>31
  <2>5. QED
    BY <1>14, <1>16, <1>29, <2>3, <2>4 DEF Decodes
<1>32. CASE t + k <= Len(c)
  <2>1. services.res = "ok" /\ services.val = ss
    BY <1>28, <1>32 DEF UpTo, At
  <2>2. r = Parsed(p)
    BY <1>2, <1>30, <2>1, Zenon
  <2>3. ~(Len(c) < Len(b))
    BY <1>16, <1>19, <1>32
  <2>4. QED
    BY <1>14, <1>16, <1>29, <2>2, <2>3 DEF Decodes
<1>33. QED
  BY <1>31, <1>32

\* The beginning of a handshake with an id: the id is read.
IdResult(c, i) ==
    LET size     == Take(UpTo(c, 2, <<i>>), 1, "ErrUnexpectedEOF")
        services == ReadServices(size)
        sig      == Take(services, 1, "ErrUnexpectedEOF")
    IN  /\ 2 <= Len(c) =>
             UnmarshalHandshakePacket(c)
               = IF sig.res # "ok" THEN Failed(sig)
                 ELSE Parsed([type |-> "handshake", services |-> services.val,
                              kadId |-> i, signature |-> sig.val[1]])
        /\ ~(2 <= Len(c)) => UnmarshalHandshakePacket(c).res = "ErrUnexpectedEOF"

\* UnmarshalHandshakePacket on a buffer that begins with an id.
LEMMA IdRead ==
    ASSUME NEW c \in Seq(Nat), NEW i \in Nat, Agrees(c, 0, <<1, i>>)
    PROVE  IdResult(c, i)
<1>15. PICK size, services, sig :
        /\ size = Take(UpTo(c, 2, <<i>>), 1, "ErrUnexpectedEOF")
        /\ services = ReadServices(size) /\ sig = Take(services, 1, "ErrUnexpectedEOF")
  OBVIOUS
<1>1. PICK u, v : u = <<1>> /\ v = <<i>>
  OBVIOUS
<1>2. u \in Seq(Nat) /\ Len(u) = 1 /\ v \in Seq(Nat) /\ Len(v) = 1 /\ v[1] = i
  BY <1>1
<1>3. <<1, i>> = u \o v
  BY <1>1
<1>4. PICK z \in Nat : z = 0
  OBVIOUS
<1>5. PICK o \in Nat : o = 1
  OBVIOUS
<1>6. Agrees(c, z, u) /\ Agrees(c, o, v)
  <2>1. Agrees(c, z, u \o v) /\ u \in Seq(Nat) /\ v \in Seq(Nat)
    BY <1>2, <1>3, <1>4
  <2>2. Agrees(c, z, u) /\ Agrees(c, z + Len(u), v)
    BY <2>1, AgreesConcat
  <2>3. z + Len(u) = o
    BY <1>2, <1>4, <1>5
  <2>4. QED
    BY <2>2, <2>3
<1>7. PICK flag : flag = Take(Start(c), 1, "ErrUnexpectedEOF")
  OBVIOUS
<1>8. flag = UpTo(c, o, u)
  <2>1. u \in Seq(Nat) /\ Agrees(c, 0, u)
    BY <1>2, <1>4, <1>6
  <2>2. Take(Start(c), Len(u), "ErrUnexpectedEOF") = UpTo(c, Len(u), u)
    BY <2>1, TakeFirst
  <2>3. QED
    BY <1>2, <1>5, <1>7, <2>2
<1>9. PICK id : id = Take(flag, 1, "ErrUnexpectedEOF")
  OBVIOUS
<1>10. id = UpTo(c, 2, v)
  <2>1. v \in Seq(Nat) /\ Agrees(c, o, v)
    BY <1>2, <1>6
  <2>2. Take(UpTo(c, o, u), Len(v), "ErrUnexpectedEOF") = UpTo(c, o + Len(v), v)
    BY <2>1, TakeReads
  <2>3. Len(v) = 1 /\ o + Len(v) = 2
    BY <1>2, <1>5
  <2>4. QED
    BY <1>8, <1>9, <2>2, <2>3
<1>11. PICK r : r = UnmarshalHandshakePacket(c)
  OBVIOUS
<1>12. CASE o <= Len(c)
  <2>1. flag.val = <<1>>
    BY <1>1, <1>8, <1>12 DEF UpTo, At
  <2>2. size = Take(id, 1, "ErrUnexpectedEOF")
    BY <1>15, <1>1, <1>10
  <2>3. r = IF sig.res # "ok" THEN Failed(sig)
            ELSE Parsed([type |-> "handshake", services |-> services.val,
                         kadId |-> id.val[1], signature |-> sig.val[1]])
    BY <1>15, <1>7, <1>9, <1>11, <2>1, <2>2, Zenon DEF UnmarshalHandshakePacket, ReadServices
  <2>4. CASE 2 <= Len(c)
    <3>1. id.val = v
      BY <1>10, <2>4 DEF UpTo, At
    <3>2. id.val[1] = i
      BY <1>2, <3>1
    <3>3. r = IF sig.res # "ok" THEN Failed(sig)
              ELSE Parsed([type |-> "handshake", services |-> services.val,
                           kadId |-> i, signature |-> sig.val[1]])
      BY <2>3, <3>2, Zenon
    <3>4. QED
      BY <1>15, <1>11, <2>4, <3>3, Zenon DEF IdResult
  <2>5. CASE ~(2 <= Len(c))
    <3>1. id.res = "ErrUnexpectedEOF"
      BY <1>10, <2>5 DEF UpTo, Short
    <3>2. size = id
      BY <2>2, <3>1, TakeFailed
    <3>3. services = id
      BY <1>15, <3>1, <3>2 DEF ReadServices
    <3>4. sig = id
      BY <1>15, <3>1, <3>3, TakeFailed
    <3>5. r = Failed(id)
      BY <2>3, <3>1, <3>4, Zenon
    <3>6. r.res = "ErrUnexpectedEOF"
      BY <3>1, <3>5 DEF Failed
    <3>7. QED
      BY <1>15, <1>11, <2>5, <3>6, Zenon DEF IdResult
  <2>6. QED
    BY <2>4, <2>5
<1>13. CASE ~(o <= Len(c))
  <2>1. flag = Short("ErrUnexpectedEOF")
    BY <1>8, <1>13 DEF UpTo
  <2>2. flag.res = "ErrUnexpectedEOF" /\ flag.val # <<1>>
    BY <2>1 DEF Short
  <2>3. Take(flag, 1, "ErrUnexpectedEOF") = flag
    BY <2>2, TakeFailed
  <2>4. r = Failed(flag)
    BY <1>7, <1>11, <2>2, <2>3, Zenon DEF UnmarshalHandshakePacket
  <2>5. r.res = "ErrUnexpectedEOF"
    BY <2>2, <2>4 DEF Failed
  <2>6. ~(2 <= Len(c))
    BY <1>5, <1>13
  <2>7. QED
    BY <1>15, <1>11, <2>5, <2>6, Zenon DEF IdResult
<1>14. QED
  BY <1>12, <1>13

\* The encoding of a handshake with an id: the id, the number of services, these, and
\* the signature.
IsSigned(p, u, x, y, g) ==
    /\ u = <<1, p.kadId>> /\ x = BE(Len(p.services), 1)
    /\ y = FlattenSeq(SizedStrings(p.services)) /\ g = <<p.signature>>
    /\ u \in Seq(Nat) /\ Len(u) = 2 /\ x \in Seq(Nat) /\ Len(x) = 1
    /\ y \in Seq(Nat) /\ g \in Seq(Nat) /\ Len(g) = 1
    /\ AppendHandshake(p) = (u \o (x \o y)) \o g
    /\ AppendHandshake(p) \in Seq(Nat) /\ Len(AppendHandshake(p)) = 4 + Len(y)

\* AppendHandshake has these parts.
LEMMA SignedEncoding ==
    ASSUME NEW p, IsHandshake(p), p.kadId # NoId
    PROVE  \E u, x, y, g : IsSigned(p, u, x, y, g)
<1>0. PICK u, x, y, g : /\ u = <<1, p.kadId>> /\ x = BE(Len(p.services), 1)
                        /\ y = FlattenSeq(SizedStrings(p.services)) /\ g = <<p.signature>>
  OBVIOUS
<1>1. p.kadId \in Nat /\ p.signature \in Nat /\ p.services \in Seq(Seq(Nat))
  BY HandshakeFields
<1>2. u \in Seq(Nat) /\ Len(u) = 2 /\ g \in Seq(Nat) /\ Len(g) = 1
  BY <1>0, <1>1
<1>3. x \in Seq(Nat) /\ Len(x) = 1
  <2>1. PICK n \in Nat : n = Len(p.services)
    BY <1>1
  <2>2. 1 \in {1, 2, 4}
    OBVIOUS
  <2>3. BE(n, 1) \in Seq(Byte) /\ Len(BE(n, 1)) = 1
    BY <2>2, BEBytes
  <2>4. BE(n, 1) \in Seq(Nat)
    BY <2>3, ByteSeq
  <2>5. QED
    BY <1>0, <2>1, <2>3, <2>4
<1>4. y \in Seq(Nat)
  BY <1>0, <1>1, StringsLength
<1>5. PICK a : a = x \o y
  OBVIOUS
<1>6. a \in Seq(Nat) /\ Len(a) = 1 + Len(y)
  <2>1. x \in Seq(Nat)
    BY <1>3
  <2>2. x \o y \in Seq(Nat) /\ Len(x \o y) = Len(x) + Len(y)
    BY <1>4, <2>1, ConcatEntries
  <2>3. QED
    BY <1>3, <1>5, <2>2
<1>7. PICK d : d = u \o a
  OBVIOUS
<1>8. d \in Seq(Nat) /\ Len(d) = 3 + Len(y)
  <2>1. u \in Seq(Nat) /\ a \in Seq(Nat)
    BY <1>2, <1>6
  <2>2. u \o a \in Seq(Nat) /\ Len(u \o a) = Len(u) + Len(a)
    BY <2>1, ConcatEntries
  <2>3. Len(y) \in Nat
    BY <1>4
  <2>4. QED
    BY <1>2, <1>6, <1>7, <2>2, <2>3
<1>9. PICK b : b = d \o g
  OBVIOUS
<1>10. b \in Seq(Nat) /\ Len(b) = 4 + Len(y)
  <2>1. d \in Seq(Nat) /\ g \in Seq(Nat)
    BY <1>2, <1>8
  <2>2. d \o g \in Seq(Nat) /\ Len(d \o g) = Len(d) + Len(g)
    BY <2>1, ConcatEntries
  <2>3. Len(y) \in Nat
    BY <1>4
  <2>4. QED
    BY <1>2, <1>8, <1>9, <2>2, <2>3
<1>11. a = AppendStrings(p.services)
  BY <1>0, <1>5, Zenon DEF AppendStrings
<1>12. AppendHandshake(p) = b
  BY <1>0, <1>7, <1>9, <1>11, Zenon DEF AppendHandshake
<1>13. IsSigned(p, u, x, y, g)
  BY <1>0, <1>2, <1>3, <1>4, <1>5, <1>7, <1>9, <1>10, <1>12, Zenon DEF IsSigned
<1>14. QED
  BY <1>13, Zenon

\* Handshakes with an id.
LEMMA SignedDecodes ==
    ASSUME NEW p, IsHandshake(p), p.kadId # NoId, FitsStrings(p.services), NEW c \in Seq(Nat),
           Agrees(c, 0, AppendHandshake(p))
    PROVE  Decodes(UnmarshalHandshakePacket(c), c, AppendHandshake(p), p)
<1>1. PICK ss, i, m : ss = p.services /\ i = p.kadId /\ m = p.signature
  OBVIOUS
<1>2. /\ p = [type |-> "handshake", services |-> ss, kadId |-> i, signature |-> m]
      /\ ss \in Seq(Seq(Nat)) /\ FitsStrings(ss) /\ i \in Nat /\ m \in Nat
  BY <1>1, HandshakeFields, Zenon
<1>3. PICK u, x, y, g : IsSigned(p, u, x, y, g)
  BY SignedEncoding, Zenon
<1>4. PICK b : b = AppendHandshake(p)
  OBVIOUS
<1>5. /\ u \in Seq(Nat) /\ Len(u) = 2 /\ x \in Seq(Nat) /\ Len(x) = 1
      /\ y \in Seq(Nat) /\ g \in Seq(Nat) /\ Len(g) = 1 /\ b = (u \o (x \o y)) \o g
      /\ b \in Seq(Nat) /\ Len(b) = 4 + Len(y)
  BY <1>3, <1>4, Zenon DEF IsSigned
<1>31. /\ u = <<1, i>> /\ x = BE(Len(ss), 1) /\ y = FlattenSeq(SizedStrings(ss)) /\ g = <<m>>
  BY <1>1, <1>3, Zenon DEF IsSigned
<1>6. PICK k \in Nat : k = Len(y)
  BY <1>5
<1>7. PICK a : a = x \o y
  OBVIOUS
<1>8. a \in Seq(Nat) /\ Len(a) = 1 + k
  <2>1. x \in Seq(Nat) /\ y \in Seq(Nat)
    BY <1>5
  <2>2. x \o y \in Seq(Nat) /\ Len(x \o y) = Len(x) + Len(y)
    BY <2>1, ConcatEntries
  <2>3. QED
    BY <1>5, <1>6, <1>7, <2>2
<1>9. PICK d : d = u \o a
  OBVIOUS
<1>10. d \in Seq(Nat) /\ Len(d) = 3 + k
  <2>1. u \in Seq(Nat) /\ a \in Seq(Nat)
    BY <1>5, <1>8
  <2>2. u \o a \in Seq(Nat) /\ Len(u \o a) = Len(u) + Len(a)
    BY <2>1, ConcatEntries
  <2>3. QED
    BY <1>5, <1>8, <1>9, <2>2
<1>11. PICK z \in Nat : z = 0
  OBVIOUS
<1>12. PICK t \in Nat : t = 2
  OBVIOUS
<1>13. PICK e \in Nat : e = 3
  OBVIOUS
<1>14. Agrees(c, z, d) /\ Agrees(c, e + k, g)
  <2>1. Agrees(c, z, d \o g) /\ d \in Seq(Nat) /\ g \in Seq(Nat)
    BY <1>4, <1>5, <1>7, <1>9, <1>10, <1>11
  <2>2. Agrees(c, z, d) /\ Agrees(c, z + Len(d), g)
    BY <2>1, AgreesConcat
  <2>3. z + Len(d) = e + k
    BY <1>10, <1>11, <1>13
  <2>4. QED
    BY <2>2, <2>3
<1>15. Agrees(c, z, u) /\ Agrees(c, t, a)
  <2>1. Agrees(c, z, u \o a) /\ u \in Seq(Nat) /\ a \in Seq(Nat)
    BY <1>5, <1>8, <1>9, <1>14
  <2>2. Agrees(c, z, u) /\ Agrees(c, z + Len(u), a)
    BY <2>1, AgreesConcat
  <2>3. z + Len(u) = t
    BY <1>5, <1>11, <1>12
  <2>4. QED
    BY <2>2, <2>3
<1>16. Agrees(c, t, x) /\ Agrees(c, e, y)
  <2>1. Agrees(c, t, x \o y) /\ x \in Seq(Nat) /\ y \in Seq(Nat)
    BY <1>5, <1>7, <1>15
  <2>2. Agrees(c, t, x) /\ Agrees(c, t + Len(x), y)
    BY <2>1, AgreesConcat
  <2>3. t + Len(x) = e
    BY <1>5, <1>12, <1>13
  <2>4. QED
    BY <2>2, <2>3
<1>17. PICK size : size = Take(UpTo(c, 2, <<i>>), 1, "ErrUnexpectedEOF")
  OBVIOUS
<1>18. PICK services : services = ReadServices(size)
  OBVIOUS
<1>19. PICK sig : sig = Take(services, 1, "ErrUnexpectedEOF")
  OBVIOUS
<1>20. PICK r : r = UnmarshalHandshakePacket(c)
  OBVIOUS
<1>21. /\ 2 <= Len(c) => r = IF sig.res # "ok" THEN Failed(sig)
                            ELSE Parsed([type |-> "handshake", services |-> services.val,
                                         kadId |-> i, signature |-> sig.val[1]])
       /\ ~(2 <= Len(c)) => r.res = "ErrUnexpectedEOF"
  <2>1. Agrees(c, 0, <<1, i>>) /\ i \in Nat
    BY <1>2, <1>31, <1>11, <1>15
  <2>2. IdResult(c, i)
    BY <2>1, IdRead, Zenon
  <2>3. QED
    BY <1>17, <1>18, <1>19, <1>20, <2>2, Zenon DEF IdResult
<1>22. size = UpTo(c, e, x)
  <2>1. x \in Seq(Nat) /\ Agrees(c, t, x)
    BY <1>5, <1>16
  <2>2. Take(UpTo(c, t, <<i>>), Len(x), "ErrUnexpectedEOF") = UpTo(c, t + Len(x), x)
    BY <2>1, TakeReads
  <2>3. Len(x) = 1 /\ t + Len(x) = e
    BY <1>5, <1>12, <1>13
  <2>4. QED
    BY <1>12, <1>17, <2>2, <2>3
<1>23. services = UpTo(c, e + k, ss)
  <2>1. ReadServices(UpTo(c, e, BE(Len(ss), 1))) = UpTo(c, e + Len(y), ss)
    <3>1. ss \in Seq(Seq(Nat)) /\ FitsStrings(ss)
      BY <1>2
    <3>2. y = FlattenSeq(SizedStrings(ss)) /\ Agrees(c, e, y)
      BY <1>31, <1>16
    <3>3. QED
      BY <3>1, <3>2, CountedRead, ZenonT(30)
  <2>2. QED
    BY <1>31, <1>6, <1>18, <1>22, <2>1, Zenon
<1>24. sig = UpTo(c, e + k + 1, g)
  <2>1. PICK f \in Nat : f = e + k
    OBVIOUS
  <2>2. g \in Seq(Nat) /\ Agrees(c, f, g)
    BY <1>5, <1>14, <2>1
  <2>3. Take(UpTo(c, f, ss), Len(g), "ErrUnexpectedEOF") = UpTo(c, f + Len(g), g)
    BY <2>2, TakeReads
  <2>4. Len(g) = 1
    BY <1>5
  <2>5. QED
    BY <1>19, <1>23, <2>1, <2>3, <2>4
<1>25. CASE ~(e + k + 1 <= Len(c))
  <2>1. sig.res = "ErrUnexpectedEOF" /\ sig.res # "ok"
    BY <1>24, <1>25 DEF UpTo, Short
  <2>2. r = Failed(sig) \/ r.res = "ErrUnexpectedEOF"
    BY <1>21, <2>1, Zenon
  <2>3. r.res = Refusal(p.type, Len(c))
    BY <1>2, <2>1, <2>2, RefusedKindly DEF Failed
  <2>4. ~(Len(c) = Len(b))
    <3>1. Len(b) = 4 + k
      BY <1>5, <1>6
    <3>2. QED
      BY <1>13, <1>25, <3>1
  <2>5. QED
    BY <1>4, <1>5, <1>20, <2>3, <2>4 DEF Decodes
<1>26. CASE e + k + 1 <= Len(c)
  <2>1. 2 <= Len(c) /\ e + k <= Len(c)
    BY <1>13, <1>26
  <2>2. services.val = ss
    BY <1>23, <2>1 DEF UpTo, At
  <2>3. sig.res = "ok" /\ sig.val = g
    BY <1>24, <1>26 DEF UpTo, At
  <2>4. sig.val[1] = m
    BY <1>31, <2>3
  <2>5. r = Parsed(p)
    BY <1>2, <1>21, <2>1, <2>2, <2>3, <2>4, Zenon
  <2>6. ~(Len(c) < Len(b))
    <3>1. Len(b) = 4 + k
      BY <1>5, <1>6
    <3>2. QED
      BY <1>13, <1>26, <3>1
  <2>7. QED
    BY <1>4, <1>5, <1>20, <2>5, <2>6 DEF Decodes
<1>27. QED
  BY <1>25, <1>26

\* What Unmarshal makes of an encoding and of the beginning of one.
LEMMA PacketDecodes ==
    ASSUME NEW p, IsPacket(p), Fits(p), NEW b \in AppendTo(p), NEW c \in Seq(Nat),
           Agrees(c, 0, b)
    PROVE  Decodes(Unmarshal(p.type, c), c, b, p)
<1>1. CASE p.type = "handshake" /\ IsHandshake(p)
  <2>1. b = AppendHandshake(p) /\ FitsStrings(p.services)
    BY <1>1 DEF AppendTo, Fits
  <2>2. Unmarshal(p.type, c) = UnmarshalHandshakePacket(c)
    BY <1>1 DEF Unmarshal
  <2>3. CASE p.kadId = NoId
    BY <1>1, <2>1, <2>2, <2>3, AnonymousDecodes
  <2>4. CASE p.kadId # NoId
    BY <1>1, <2>1, <2>2, <2>4, SignedDecodes
  <2>5. QED
    BY <2>3, <2>4
<1>2. CASE /\ p.type = "request" /\ IsHeaders(p.headers)
           /\ p \in [type : {"request"}, id : 0 .. Base4 - 1, services : Seq(Seq(Byte)),
                     headers : {p.headers}]
  <2>1. b \in AppendRequest(p) /\ FitsStrings(p.services) /\ FitsHeaders(p.headers)
    BY <1>2 DEF AppendTo, Fits
  <2>2. Unmarshal(p.type, c) = UnmarshalServiceRequestPacket(c)
    BY <1>2 DEF Unmarshal
  <2>3. QED
    BY <1>2, <2>1, <2>2, RequestDecodes
<1>3. CASE /\ p.type = "response" /\ IsHeaders(p.headers)
           /\ p \in [type : {"response"}, id : 0 .. Base4 - 1, handled : BOOLEAN,
                     headers : {p.headers}]
  <2>1. b \in AppendResponse(p) /\ FitsHeaders(p.headers)
    BY <1>3 DEF AppendTo, Fits
  <2>2. Unmarshal(p.type, c) = UnmarshalServiceResponsePacket(c)
    BY <1>3 DEF Unmarshal
  <2>3. QED
    BY <1>3, <2>1, <2>2, ResponseDecodes
<1>4. CASE p.type = "data" /\ p \in [type : {"data"}, id : 0 .. Base4 - 1, data : Seq(Byte)]
  <2>1. b = AppendData(p) /\ Len(p.data) < Base2
    BY <1>4 DEF AppendTo, Fits
  <2>2. Unmarshal(p.type, c) = UnmarshalDataPacket(c)
    BY <1>4 DEF Unmarshal
  <2>3. QED
    BY <1>4, <2>1, <2>2, DataDecodes
<1>5. QED
  BY <1>1, <1>2, <1>3, <1>4 DEF IsPacket

\* A packet whose lengths fit comes back from each of its encodings.
LEMMA UnmarshalUndoes ==
    ASSUME NEW p, IsPacket(p), Fits(p), NEW b \in AppendTo(p)
    PROVE  b \in Seq(Nat) /\ Unmarshal(p.type, b) = Parsed(p)
<1>1. <<>> \in Seq(Nat) /\ Agrees(<<>>, 0, b)
  BY DEF Agrees
<1>2. b \in Seq(Nat)
  <2>1. PICK c \in Seq(Nat) : Agrees(c, 0, b)
    BY <1>1
  <2>2. Decodes(Unmarshal(p.type, c), c, b, p)
    BY <2>1, PacketDecodes
  <2>3. QED
    BY <2>2 DEF Decodes
<1>3. Agrees(b, 0, b)
  BY <1>2 DEF Agrees
<1>4. Decodes(Unmarshal(p.type, b), b, b, p)
  BY <1>2, <1>3, PacketDecodes
<1>5. QED
  BY <1>2, <1>4 DEF Decodes

\* One that has lost its end is refused.
LEMMA UnmarshalRefuses ==
    ASSUME NEW p, IsPacket(p), Fits(p), NEW b \in AppendTo(p), NEW n \in 0 .. Len(b) - 1
    PROVE  Unmarshal(p.type, SubSeq(b, 1, n)).res = Refusal(p.type, n)
<1>1. b \in Seq(Nat)
  BY UnmarshalUndoes
<1>2. PICK l \in Nat : l = Len(b) /\ n \in 0 .. l /\ n < l
  BY <1>1
<1>3. PICK c : c = SubSeq(b, 1, n)
  OBVIOUS
<1>4. c \in Seq(Nat) /\ Len(c) = n /\ \A j \in 1 .. n : c[j] = b[j]
  <2>1. n \in 0 .. Len(b)
    BY <1>2
  <2>2. QED
    BY <1>1, <1>3, <2>1, FirstOf
<1>5. Agrees(c, 0, b)
  <2>1. ASSUME NEW j \in 1 .. Len(b), 0 + j <= Len(c)
        PROVE  c[0 + j] = b[j]
    <3>1. 0 + j = j /\ j \in 1 .. n
      BY <1>1, <1>4, <2>1
    <3>2. QED
      BY <1>4, <3>1
  <2>2. QED
    BY <2>1 DEF Agrees
<1>6. Decodes(Unmarshal(p.type, c), c, b, p)
  BY <1>4, <1>5, PacketDecodes
<1>7. QED
  BY <1>2, <1>3, <1>4, <1>6 DEF Decodes

-----------------------------------------------------------------------------
\* What a handshake that Validate accepts says of the encoding it was read from.

\* The sum of bytes and of the lengths that the bytes of names need.
Weight(f) == Len(f) + Total(f)

\* The weight of names in a row.
LEMMA WeightConcat ==
    ASSUME NEW x \in Seq(Nat), NEW y \in Seq(Nat)
    PROVE  Weight(x \o y) = Weight(x) + Weight(y)
<1>1. Total(x \o y) = Total(x) + Total(y)
  BY SumConcat
<1>2. Len(x \o y) = Len(x) + Len(y)
  BY ConcatEntries
<1>3. Total(x) \in Nat /\ Total(y) \in Nat
  BY SumType
<1>4. Len(x) \in Nat /\ Len(y) \in Nat
  OBVIOUS
<1>5. QED
  BY <1>1, <1>2, <1>3, <1>4 DEF Weight

\* A name in an encoding: its bytes sum up to its weight only if its length fits.
LEMMA SizedTotal ==
    ASSUME NEW x \in Seq(Byte)
    PROVE  /\ Sized(x, 1) \in Seq(Byte) /\ Len(Sized(x, 1)) = 1 + Len(x)
           /\ Total(Sized(x, 1)) <= Weight(x)
           /\ Total(Sized(x, 1)) = Weight(x) => Len(x) < Base
<1>1. x \in Seq(Nat)
  BY ByteSeq
<1>2. PICK n \in Nat : n = Len(x)
  BY <1>1
<1>3. PICK r : r = n % Base
  OBVIOUS
<1>4. r \in Byte /\ r \in Nat /\ r <= n /\ r < Base
  <2>1. Base \in Nat \ {0}
    BY PacketsAssumption
  <2>2. n = (n \div Base) * Base + (n % Base) /\ n % Base \in 0 .. Base - 1 /\ n \div Base \in Nat
    BY <2>1, DivMod
  <2>3. r \in Byte /\ r \in Nat /\ r < Base
    BY <1>3, <2>1, <2>2 DEF Byte
  <2>4. r <= n
    BY <1>3, <2>1
  <2>5. QED
    BY <2>3, <2>4
<1>5. PICK l : l = <<r>>
  OBVIOUS
<1>6. l \in Seq(Byte) /\ l \in Seq(Nat) /\ Len(l) = 1
  BY <1>4, <1>5
<1>7. Sized(x, 1) = l \o x
  BY <1>2, <1>3, <1>5 DEF Sized, BE
<1>8. l \o x \in Seq(Byte) /\ Len(l \o x) = Len(l) + Len(x)
  BY <1>6, ConcatEntries
<1>9. Total(l \o x) = Total(l) + Total(x)
  BY <1>1, <1>6, SumConcat
<1>10. Total(l) = r
  BY <1>4, <1>5, SumSmall
<1>11. Total(x) \in Nat
  BY <1>1, SumType
<1>12. Total(Sized(x, 1)) = r + Total(x)
  BY <1>7, <1>9, <1>10
<1>13. Weight(x) = n + Total(x)
  BY <1>2 DEF Weight
<1>14. Total(Sized(x, 1)) <= Weight(x) /\ (Total(Sized(x, 1)) = Weight(x) => n < Base)
  <2>1. Base \in Nat
    BY PacketsAssumption
  <2>2. QED
    BY <1>4, <1>11, <1>12, <1>13, <2>1
<1>15. QED
  BY <1>2, <1>6, <1>7, <1>8, <1>14

\* The encoding of names: y and the names in a row f, n of them.
Encoded(y, f, n) ==
    /\ y \in Seq(Byte) /\ f \in Seq(Byte) /\ Len(y) = n + Len(f) /\ Total(y) <= Weight(f)

\* One name more in an encoding.
LEMMA EncodedMore ==
    ASSUME NEW n \in Nat, NEW y, NEW f, Encoded(y, f, n), NEW x \in Seq(Byte)
    PROVE  /\ Encoded(y \o Sized(x, 1), f \o x, n + 1)
           /\ Total(y \o Sized(x, 1)) = Weight(f \o x) => Total(y) = Weight(f) /\ Len(x) < Base
<1>1. y \in Seq(Byte) /\ f \in Seq(Byte) /\ Len(y) = n + Len(f) /\ Total(y) <= Weight(f)
  BY DEF Encoded
<1>2. y \in Seq(Nat) /\ f \in Seq(Nat) /\ x \in Seq(Nat)
  BY <1>1, ByteSeq
<1>3. PICK z : z = Sized(x, 1)
  OBVIOUS
<1>4. /\ z \in Seq(Byte) /\ Len(z) = 1 + Len(x)
      /\ Total(z) <= Weight(x) /\ (Total(z) = Weight(x) => Len(x) < Base)
  BY <1>3, SizedTotal
<1>5. z \in Seq(Nat)
  BY <1>4, ByteSeq
<1>6. y \o z \in Seq(Byte) /\ Len(y \o z) = Len(y) + Len(z)
  BY <1>1, <1>4, ConcatEntries
<1>7. f \o x \in Seq(Byte) /\ Len(f \o x) = Len(f) + Len(x)
  BY <1>1, ConcatEntries
<1>8. Total(y \o z) = Total(y) + Total(z)
  BY <1>2, <1>5, SumConcat
<1>9. Weight(f \o x) = Weight(f) + Weight(x)
  BY <1>2, WeightConcat
<1>10. Total(y) \in Nat /\ Total(z) \in Nat /\ Total(f) \in Nat /\ Total(x) \in Nat
  BY <1>2, <1>5, SumType
<1>11. Len(f) \in Nat /\ Len(x) \in Nat
  BY <1>2
<1>12. Weight(f) \in Nat /\ Weight(x) \in Nat
  BY <1>10, <1>11 DEF Weight
<1>13. Len(y \o z) = (n + 1) + Len(f \o x)
  BY <1>1, <1>4, <1>6, <1>7, <1>11
<1>14. Total(y \o z) <= Weight(f \o x)
  BY <1>1, <1>4, <1>8, <1>9, <1>10, <1>12, SMTT(30)
<1>15. Total(y \o z) = Weight(f \o x) => Total(y) = Weight(f) /\ Total(z) = Weight(x)
  BY <1>1, <1>4, <1>8, <1>9, <1>10, <1>12, SMTT(30)
<1>16. Encoded(y \o z, f \o x, n + 1)
  BY <1>6, <1>7, <1>13, <1>14 DEF Encoded
<1>17. QED
  BY <1>3, <1>4, <1>15, <1>16

\* The encoding of names; its bytes sum up to their weight only if all lengths fit.
LEMMA EncodedNames ==
    ASSUME NEW ss \in Seq(Seq(Byte)), NEW y, y = FlattenSeq(SizedStrings(ss)),
           NEW f, f = FlattenSeq(ss)
    PROVE  /\ Encoded(y, f, Len(ss))
           /\ Total(y) = Weight(f) => \A i \in 1 .. Len(ss) : Len(ss[i]) < Base
<1>1. PICK n \in Nat : n = Len(ss)
  OBVIOUS
<1>2. PICK qs : qs = SizedStrings(ss)
  OBVIOUS
<1>3. Len(qs) = n /\ \A i \in 1 .. n : qs[i] = Sized(ss[i], 1)
  BY <1>1, <1>2 DEF SizedStrings
<1>4. qs \in Seq(Seq(Byte))
  <2>1. \A i \in 1 .. n : Sized(ss[i], 1) \in Seq(Byte)
    <3>1. \A i \in 1 .. n : ss[i] \in Seq(Byte)
      BY <1>1
    <3>2. QED
      BY <3>1, SizedTotal
  <2>2. [i \in 1 .. n |-> Sized(ss[i], 1)] \in Seq(Seq(Byte))
    BY <2>1
  <2>3. QED
    BY <1>1, <1>2, <2>2 DEF SizedStrings
<1>5. PICK c : IsConcat(c, qs, Byte)
  BY <1>4, ConcatExists
<1>6. PICK d : IsConcat(d, ss, Byte)
  BY ConcatExists
<1>7. y = c[n]
  BY <1>2, <1>3, <1>4, <1>5, FlattenConcat
<1>8. f = d[n]
  BY <1>1, <1>6, FlattenConcat
<1>9. c[0] = <<>> /\ \A k \in 1 .. n : c[k] = c[k - 1] \o Sized(ss[k], 1)
  BY <1>3, <1>5 DEF IsConcat
<1>10. d[0] = <<>> /\ \A k \in 1 .. n : d[k] = d[k - 1] \o ss[k]
  BY <1>1, <1>6 DEF IsConcat
<1> DEFINE P == {k \in 0 .. n :
                   /\ Encoded(c[k], d[k], k)
                   /\ Total(c[k]) = Weight(d[k]) => \A i \in 1 .. k : Len(ss[i]) < Base}
<1>11. 0 \in P
  <2>1. Total(<<>>) = 0
    BY SumSmall
  <2>2. Encoded(<<>>, <<>>, 0)
    BY <2>1 DEF Encoded, Weight
  <2>3. \A i \in 1 .. 0 : Len(ss[i]) < Base
    OBVIOUS
  <2>4. 0 \in 0 .. n
    OBVIOUS
  <2>5. QED
    BY <1>9, <1>10, <2>2, <2>3, <2>4, Zenon
<1>12. ASSUME NEW k \in 1 .. n, k - 1 \in P
       PROVE  k \in P
  <2>1. /\ Encoded(c[k - 1], d[k - 1], k - 1)
        /\ Total(c[k - 1]) = Weight(d[k - 1]) => \A i \in 1 .. k - 1 : Len(ss[i]) < Base
    BY <1>12
  <2>2. ss[k] \in Seq(Byte)
    BY <1>1
  <2>3. PICK j \in Nat : j = k - 1
    OBVIOUS
  <2>4. PICK a, b, x : a = c[j] /\ b = d[j] /\ x = ss[k]
    OBVIOUS
  <2>5. Encoded(a, b, j) /\ x \in Seq(Byte)
    BY <2>1, <2>2, <2>3, <2>4
  <2>6. Encoded(a \o Sized(x, 1), b \o x, j + 1)
    BY <2>5, EncodedMore
  <2>7. Total(a \o Sized(x, 1)) = Weight(b \o x) => Total(a) = Weight(b) /\ Len(x) < Base
    BY <2>5, EncodedMore
  <2>8. c[k] = a \o Sized(x, 1) /\ d[k] = b \o x /\ j + 1 = k
    <3>1. c[k] = c[k - 1] \o Sized(ss[k], 1)
      BY <1>9
    <3>2. d[k] = d[k - 1] \o ss[k]
      BY <1>10
    <3>3. j + 1 = k
      BY <2>3
    <3>4. QED
      BY <2>3, <2>4, <3>1, <3>2, <3>3, Zenon
  <2>9. Encoded(c[k], d[k], k)
    BY <2>6, <2>8, Zenon
  <2>10. ASSUME Total(c[k]) = Weight(d[k]), NEW i \in 1 .. k
         PROVE  Len(ss[i]) < Base
    <3>1. Total(a) = Weight(b) /\ Len(x) < Base
      BY <2>7, <2>8, <2>10, Zenon
    <3>2. i \in 1 .. k - 1 \/ i = k
      OBVIOUS
    <3>3. \A h \in 1 .. k - 1 : Len(ss[h]) < Base
      BY <2>1, <2>3, <2>4, <3>1, Zenon
    <3>4. QED
      BY <2>4, <3>1, <3>2, <3>3, Zenon
  <2>11. k \in 0 .. n
    OBVIOUS
  <2>12. QED
    BY <2>9, <2>10, <2>11, Zenon
<1>13. 0 .. n \subseteq P
  <2> HIDE DEF P
  <2> QED
    BY <1>11, <1>12, InductionUpTo
<1>14. n \in P
  BY <1>13
<1>15. QED
  BY <1>1, <1>7, <1>8, <1>14, Zenon

\* Names that a parser has read from w: the bytes e that they took, what is left, and
\* the names in a row f, n of them.
Eaten(w, e, rest, f, n) ==
    /\ e \in Seq(Nat) /\ f \in Seq(Nat) /\ w = Cat(e, rest) /\ Len(e) = n + Len(f)
    /\ e \in Seq(Byte) => f \in Seq(Byte) /\ Total(e) = Weight(f)

\* A name behind its length, of whatever bytes.
LEMMA NameWeight ==
    ASSUME NEW l \in Seq(Nat), NEW x \in Seq(Nat), Len(l) = 1, l[1] % Base = Len(x),
           l \o x \in Seq(Byte)
    PROVE  x \in Seq(Byte) /\ Total(l \o x) = Weight(x)
<1>1. l \in Seq(Byte) /\ x \in Seq(Byte)
  BY PartsIn
<1>2. PICK a \in Byte : l = <<a>>
  <2>1. PICK a : a = l[1]
    OBVIOUS
  <2>2. a \in Byte
    BY <1>1, <2>1
  <2>3. l = <<a>>
    <3>1. <<a>> \in Seq(Byte) /\ Len(<<a>>) = 1 /\ <<a>>[1] = a
      BY <2>2
    <3>2. \A i \in 1 .. Len(l) : l[i] = <<a>>[i]
      BY <2>1, <3>1
    <3>3. QED
      BY <3>1, <3>2, SameEntries
  <2>4. QED
    BY <2>2, <2>3
<1>3. a \in Nat /\ a = Len(x)
  <2>1. a \in Nat /\ a % Base = a
    BY ByteValue
  <2>2. l[1] = a
    BY <1>2
  <2>3. QED
    BY <2>1, <2>2
<1>4. Total(l) = a
  BY <1>2, <1>3, SumSmall
<1>5. Total(l \o x) = Total(l) + Total(x)
  BY SumConcat
<1>6. QED
  BY <1>1, <1>3, <1>4, <1>5 DEF Weight

\* One name more that is read.
LEMMA EatenMore ==
    ASSUME NEW n \in Nat, NEW w, NEW e, NEW f, NEW rest, Eaten(w, e, rest, f, n),
           NEW l \in Seq(Nat), NEW x \in Seq(Nat), NEW r \in Seq(Nat),
           Len(l) = 1, l[1] % Base = Len(x), rest = l \o (x \o r)
    PROVE  \E d : Eaten(w, d, r, f \o x, n + 1)
<1>1. /\ e \in Seq(Nat) /\ f \in Seq(Nat) /\ w = Cat(e, rest) /\ Len(e) = n + Len(f)
      /\ e \in Seq(Byte) => f \in Seq(Byte) /\ Total(e) = Weight(f)
  BY Zenon DEF Eaten
<1>2. PICK a : a = l \o x
  OBVIOUS
<1>3. a \in Seq(Nat) /\ Len(a) = 1 + Len(x)
  <2>1. l \o x \in Seq(Nat) /\ Len(l \o x) = Len(l) + Len(x)
    BY ConcatEntries
  <2>2. QED
    BY <1>2, <2>1
<1>4. rest = Cat(a, r)
  <2>1. Cat(l, Cat(x, r)) = Cat(Cat(l, x), r)
    BY ConcatAssoc
  <2>2. QED
    BY <1>2, <2>1, Zenon DEF Cat
<1>5. PICK d : d = Cat(e, a)
  OBVIOUS
<1>6. w = Cat(d, r)
  <2>1. e \in Seq(Nat) /\ a \in Seq(Nat) /\ r \in Seq(Nat)
    BY <1>1, <1>3
  <2>2. Cat(e, Cat(a, r)) = Cat(Cat(e, a), r)
    BY <2>1, ConcatAssoc
  <2>3. QED
    BY <1>1, <1>4, <1>5, <2>2, Zenon
<1>7. d = e \o a
  BY <1>5 DEF Cat
<1>8. d \in Seq(Nat) /\ Len(d) = Len(e) + Len(a)
  <2>1. e \in Seq(Nat) /\ a \in Seq(Nat)
    BY <1>1, <1>3
  <2>2. e \o a \in Seq(Nat) /\ Len(e \o a) = Len(e) + Len(a)
    BY <2>1, ConcatEntries
  <2>3. QED
    BY <1>7, <2>2
<1>9. f \o x \in Seq(Nat) /\ Len(f \o x) = Len(f) + Len(x)
  BY <1>1, ConcatEntries
<1>10. Len(d) = (n + 1) + Len(f \o x)
  <2>1. Len(f) \in Nat /\ Len(x) \in Nat
    BY <1>1
  <2>2. QED
    BY <1>1, <1>3, <1>8, <1>9, <2>1
<1>11. ASSUME d \in Seq(Byte)
       PROVE  f \o x \in Seq(Byte) /\ Total(d) = Weight(f \o x)
  <2>1. e \in Seq(Nat) /\ a \in Seq(Nat) /\ e \o a \in Seq(Byte)
    BY <1>1, <1>3, <1>7, <1>11
  <2>2. e \in Seq(Byte) /\ a \in Seq(Byte)
    BY <2>1, PartsIn
  <2>3. l \o x \in Seq(Byte)
    BY <1>2, <2>2
  <2>4. x \in Seq(Byte) /\ Total(l \o x) = Weight(x)
    BY <2>3, NameWeight
  <2>5. f \in Seq(Byte) /\ Total(e) = Weight(f)
    BY <1>1, <2>2
  <2>6. f \o x \in Seq(Byte)
    BY <2>4, <2>5, ConcatEntries
  <2>7. Total(e \o a) = Total(e) + Total(a)
    BY <2>1, SumConcat
  <2>8. Weight(f \o x) = Weight(f) + Weight(x)
    BY <1>1, WeightConcat
  <2>9. Total(d) = Weight(f \o x)
    BY <1>2, <1>7, <2>4, <2>5, <2>7, <2>8, Zenon
  <2>10. QED
    BY <2>6, <2>9
<1>12. Eaten(w, d, r, f \o x, n + 1)
  BY <1>6, <1>8, <1>9, <1>10, <1>11, Zenon DEF Eaten
<1>13. QED
  BY <1>12, Zenon

\* What the loop that reads names has taken from w, whatever the bytes.
LEMMA NamesEaten ==
    ASSUME NEW w \in Seq(Nat), NEW v, NEW n \in Nat, NEW t, t = TakeStrings(Reading(w, v), n),
           t.res = "ok"
    PROVE  /\ t \in States
           /\ \E e : Eaten(w, e, t.buf, FlattenSeq(t.val), n)
<1>1. PICK s : s = Reading(w, v)
  OBVIOUS
<1>2. [s EXCEPT !.val = <<>>] = Reading(w, <<>>)
  BY <1>1 DEF Reading
<1>3. Reading(w, <<>>) \in States
  BY DEF Reading, States
<1>4. PICK acc : acc \in [0 .. n -> States] /\ IsStrings(acc, s, n)
  BY <1>2, <1>3, StringsExist
<1>5. t = acc[n]
  BY <1>1, <1>4, StringsResult
<1>6. acc[0] = Reading(w, <<>>) /\ \A k \in 1 .. n : acc[k] = TakeString(acc[k - 1])
  <2>1. IsStrings(acc, s, n)
    BY <1>4
  <2>2. QED
    BY <1>2, <2>1, StringsSteps
<1> DEFINE Has(k) == acc[k].res = "ok" =>
                        \E e : Eaten(w, e, acc[k].buf, FlattenSeq(acc[k].val), k)
           P == {k \in 0 .. n : Has(k)}
<1>7. 0 \in P
  <2>1. acc[0].buf = w /\ acc[0].val = <<>>
    BY <1>6 DEF Reading
  <2>2. FlattenSeq(acc[0].val) = <<>>
    BY <2>1, FlattenEmpty
  <2>3. Total(<<>>) = 0
    BY SumSmall
  <2>4. Weight(<<>>) = 0
    BY <2>3 DEF Weight
  <2>5. w = Cat(<<>>, w)
    BY DEF Cat
  <2>6. Eaten(w, <<>>, w, <<>>, 0)
    BY <2>3, <2>4, <2>5 DEF Eaten
  <2>7. 0 \in 0 .. n
    OBVIOUS
  <2>8. QED
    BY <2>1, <2>2, <2>6, <2>7, Zenon
<1>8. ASSUME NEW k \in 1 .. n, k - 1 \in P
      PROVE  k \in P
  <2>1. k \in 0 .. n /\ k - 1 \in 0 .. n
    OBVIOUS
  <2>2. SUFFICES ASSUME acc[k].res = "ok"
                 PROVE  \E e : Eaten(w, e, acc[k].buf, FlattenSeq(acc[k].val), k)
    BY <2>1, Zenon
  <2>3. PICK a \in States : a = acc[k - 1]
    BY <1>4, <2>1
  <2>4. PICK b \in States : b = acc[k]
    BY <1>4, <2>1
  <2>5. b = TakeString(a) /\ b.res = "ok"
    BY <1>6, <2>2, <2>3, <2>4, Zenon
  <2>6. /\ a.res = "ok"
        /\ \E l \in Seq(Nat), x \in Seq(Nat) :
              /\ Len(l) = 1 /\ l[1] % Base = Len(x)
              /\ a.buf = l \o (x \o b.buf) /\ b.val = Append(a.val, x)
    BY <2>5, StringParsed, Zenon
  <2>7. PICK l \in Seq(Nat), x \in Seq(Nat) :
          /\ Len(l) = 1 /\ l[1] % Base = Len(x)
          /\ a.buf = l \o (x \o b.buf) /\ b.val = Append(a.val, x)
    BY <2>6
  <2>8. PICK f : f = FlattenSeq(a.val)
    OBVIOUS
  <2>9. PICK j \in Nat : j = k - 1
    OBVIOUS
  <2>10. PICK e : Eaten(w, e, a.buf, f, j)
    BY <1>8, <2>3, <2>6, <2>8, <2>9, Zenon
  <2>11. PICK rest : rest = a.buf
    OBVIOUS
  <2>12. PICK r \in Seq(Nat) : r = b.buf
    BY <2>4 DEF States
  <2>13. \E d : Eaten(w, d, r, f \o x, j + 1)
    <3>1. Eaten(w, e, rest, f, j)
      BY <2>10, <2>11
    <3>2. Len(l) = 1 /\ l[1] % Base = Len(x) /\ rest = l \o (x \o r)
      BY <2>7, <2>11, <2>12
    <3>3. QED
      BY <3>1, <3>2, EatenMore
  <2>14. FlattenSeq(b.val) = f \o x
    <3>1. a.val \in Seq(Seq(Nat))
      BY <2>3 DEF States
    <3>2. FlattenSeq(Append(a.val, x)) = FlattenSeq(a.val) \o x
      BY <3>1, FlattenAppend
    <3>3. QED
      BY <2>7, <2>8, <3>2
  <2>15. j + 1 = k
    BY <2>9
  <2>16. QED
    BY <2>4, <2>12, <2>13, <2>14, <2>15, Zenon
<1>9. 0 .. n \subseteq P
  <2> HIDE DEF P
  <2> QED
    BY <1>7, <1>8, InductionUpTo
<1>10. n \in P /\ n \in 0 .. n
  BY <1>9
<1>11. t \in States
  BY <1>4, <1>5, <1>10
<1>12. QED
  BY <1>5, <1>10, <1>11, Zenon

\* A number of digits behind an id is not below the id.
LEMMA DigitsLarge ==
    ASSUME NEW a \in Nat, a > 0, NEW b \in Seq(Nat) PROVE Digits(a, b) >= a
<1>1. Base \in Nat /\ Base > 1
  BY PacketsAssumption
<1>2. PICK f : IsHorner(f, a, Base, b)
  BY <1>1, HornerExists
<1>3. Digits(a, b) = f[Len(b)]
  <2>1. Horner(a, Base, b) = f[Len(b)]
    BY <1>1, <1>2, HornerUnique
  <2>2. QED
    BY <2>1, DigitsHorner
<1>4. CASE Len(b) = 0
  <2>1. f[0] = a
    BY <1>2 DEF IsHorner
  <2>2. QED
    BY <1>3, <1>4, <2>1
<1>5. CASE Len(b) # 0
  <2>1. Len(b) \in 1 .. Len(b)
    BY <1>5
  <2>2. f[Len(b)] > a
    BY <1>1, <1>2, <2>1, HornerGrows
  <2>3. f[Len(b)] \in Nat
    BY <1>2, <2>1 DEF IsHorner
  <2>4. QED
    BY <1>3, <2>2, <2>3
<1>6. QED
  BY <1>4, <1>5

\* A signature is no byte, and the names in a row are in it.
LEMMA SignLarge ==
    ASSUME NEW a \in Nat, a > 0, NEW ss \in Seq(Seq(Nat)) PROVE Sign(a, ss) \in Nat \ Byte
<1>1. PICK b \in Seq(Nat) : b = FlattenSeq(ss)
  BY FlattenType
<1>2. PICK d \in Nat : d = Digits(a, b)
  BY DigitsType
<1>3. d >= 1
  BY <1>2, DigitsLarge
<1>4. Sign(a, ss) = Base * d
  BY <1>1, <1>2 DEF Sign
<1>5. Base \in Nat \ {0}
  BY PacketsAssumption
<1>6. d * Base >= 0 * Base + Base
  BY <1>3, <1>5, ProductGrows
<1>7. Base * d \in Nat /\ Base * d >= Base
  BY <1>5, <1>6
<1>8. PICK m : m = Base * d
  OBVIOUS
<1>9. m \in Nat /\ m >= Base
  BY <1>7, <1>8
<1>10. m \notin Byte
  BY <1>5, <1>9 DEF Byte
<1>11. QED
  BY <1>4, <1>8, <1>9, <1>10

\* Names with the same signature are the same bytes in a row.
LEMMA SignInjective ==
    ASSUME NEW a \in Nat, a > 0, NEW q, NEW r, FlattenSeq(q) \in Seq(Byte),
           FlattenSeq(r) \in Seq(Byte), Sign(a, q) = Sign(a, r)
    PROVE  FlattenSeq(q) = FlattenSeq(r)
<1>1. PICK x \in Seq(Byte), y \in Seq(Byte) : x = FlattenSeq(q) /\ y = FlattenSeq(r)
  OBVIOUS
<1>2. x \in Seq(Nat) /\ y \in Seq(Nat)
  BY ByteSeq
<1>3. PICK d \in Nat : d = Digits(a, x)
  BY <1>2, DigitsType
<1>4. PICK e \in Nat : e = Digits(a, y)
  BY <1>2, DigitsType
<1>5. Base * d = Base * e
  BY <1>1, <1>3, <1>4 DEF Sign
<1>6. d = e
  <2>1. Base \in Nat \ {0}
    BY PacketsAssumption
  <2>2. ~(d > e)
    <3>1. SUFFICES ASSUME d > e PROVE FALSE
      OBVIOUS
    <3>2. d * Base >= e * Base + Base
      BY <2>1, <3>1, ProductGrows
    <3>3. QED
      BY <1>5, <2>1, <3>2
  <2>3. ~(e > d)
    <3>1. SUFFICES ASSUME e > d PROVE FALSE
      OBVIOUS
    <3>2. e * Base >= d * Base + Base
      BY <2>1, <3>1, ProductGrows
    <3>3. QED
      BY <1>5, <2>1, <3>2
  <2>4. QED
    BY <2>2, <2>3
<1>7. Horner(a, Base, x) = Horner(a, Base, y)
  BY <1>3, <1>4, <1>6, DigitsHorner
<1>8. Base \in Nat /\ Base > 1 /\ x \in Seq(0 .. Base - 1) /\ y \in Seq(0 .. Base - 1)
  BY PacketsAssumption DEF Byte
<1>9. x = y
  BY <1>7, <1>8, HornerInjective
<1>10. QED
  BY <1>1, <1>9

\* Where a value that is no byte stands behind bytes.
LEMMA BytesThenLarge ==
    ASSUME NEW y \in Seq(Byte), NEW g \in Seq(Nat), Len(g) = 1, NEW e \in Seq(Nat),
           NEW r \in Seq(Nat), Len(r) >= 1, r[1] \notin Byte, Cat(y, g) = Cat(e, r)
    PROVE  e = y /\ r[1] = g[1]
<1>1. PICK w : w = y \o g
  OBVIOUS
<1>2. w = e \o r
  BY <1>1, Zenon DEF Cat
<1>3. PICK k \in Nat, j \in Nat, l \in Nat : k = Len(y) /\ j = Len(e) /\ l = Len(r) /\ l >= 1
  OBVIOUS
<1>4. y \in Seq(Nat)
  BY ByteSeq
<1>5. Len(w) = k + 1 /\ \A a \in 1 .. k + 1 : w[a] = IF a <= k THEN y[a] ELSE g[a - k]
  <2>1. /\ Len(y \o g) = Len(y) + Len(g)
        /\ \A a \in 1 .. Len(y) + Len(g) :
              (y \o g)[a] = IF a <= Len(y) THEN y[a] ELSE g[a - Len(y)]
    BY <1>4, ConcatEntries, ZenonT(30)
  <2>2. Len(y) = k /\ Len(g) = 1
    BY <1>3
  <2>3. QED
    BY <1>1, <2>1, <2>2
<1>6. Len(w) = j + l /\ \A a \in 1 .. j + l : w[a] = IF a <= j THEN e[a] ELSE r[a - j]
  BY <1>2, <1>3, ConcatEntries
<1>7. w[j + 1] = r[1]
  <2>1. j + 1 \in 1 .. j + l /\ ~(j + 1 <= j) /\ (j + 1) - j = 1
    BY <1>3
  <2>2. QED
    BY <1>6, <2>1
<1>8. j = k
  <2>1. j <= k
    BY <1>3, <1>5, <1>6
  <2>2. SUFFICES ASSUME j < k PROVE FALSE
    BY <2>1
  <2>3. j + 1 \in 1 .. k + 1 /\ j + 1 <= k /\ j + 1 \in 1 .. Len(y)
    BY <1>3, <2>2
  <2>4. y[j + 1] \in Byte
    BY <2>3
  <2>5. w[j + 1] = y[j + 1]
    BY <1>5, <2>3
  <2>6. QED
    BY <1>7, <2>4, <2>5
<1>9. r[1] = g[1]
  <2>1. k + 1 \in 1 .. k + 1 /\ ~(k + 1 <= k) /\ (k + 1) - k = 1
    OBVIOUS
  <2>2. w[k + 1] = g[1]
    BY <1>5, <2>1
  <2>3. QED
    BY <1>7, <1>8, <2>2
<1>10. \A a \in 1 .. Len(e) : e[a] = y[a]
  <2>1. SUFFICES ASSUME NEW a \in 1 .. j PROVE e[a] = y[a]
    BY <1>3
  <2>2. a \in 1 .. j + l /\ a \in 1 .. k + 1 /\ a <= j /\ a <= k
    BY <1>8
  <2>3. QED
    BY <1>5, <1>6, <2>2
<1>11. e = y
  BY <1>3, <1>8, <1>10, SameEntries
<1>12. QED
  BY <1>9, <1>11

\* Agreement of a sequence with its own beginning.
LEMMA AgreesItself == ASSUME NEW c \in Seq(Nat) PROVE Agrees(c, 0, c)
BY DEF Agrees

\* A handshake q that was read from the encoding u, x, y, g of p: it has n names, and
\* t is the parser behind them.
IsRead(q, p, u, x, y, g, n, t) ==
    /\ IsSigned(p, u, x, y, g) /\ n \in Byte /\ t.res = "ok"
    /\ t = TakeStrings(Reading(Cat(y, g), x), n)
    /\ Take(t, 1, "ErrUnexpectedEOF").res = "ok"
    /\ q.pkt = [type |-> "handshake", services |-> t.val, kadId |-> p.kadId,
                signature |-> Take(t, 1, "ErrUnexpectedEOF").val[1]]

\* An encoding that is accepted was read like this.
LEMMA SignedRead ==
    ASSUME NEW p, IsHandshake(p), p.kadId # NoId, NEW q,
           q = UnmarshalHandshakePacket(AppendHandshake(p)), q.res = "ok"
    PROVE  \E u, x, y, g, n, t : IsRead(q, p, u, x, y, g, n, t)
<1>1. PICK u, x, y, g : IsSigned(p, u, x, y, g)
  BY SignedEncoding, Zenon
<1>2. PICK b : b = AppendHandshake(p)
  OBVIOUS
<1>3. /\ u \in Seq(Nat) /\ Len(u) = 2 /\ x \in Seq(Nat) /\ Len(x) = 1
      /\ y \in Seq(Nat) /\ g \in Seq(Nat) /\ Len(g) = 1 /\ b = (u \o (x \o y)) \o g
      /\ b \in Seq(Nat) /\ Len(b) = 4 + Len(y)
  BY <1>1, <1>2, Zenon DEF IsSigned
<1>4. PICK i \in Nat : i = p.kadId
  BY HandshakeFields
<1>5. u = <<1, i>>
  BY <1>1, <1>4, Zenon DEF IsSigned
<1>6. PICK v, w : v = Cat(u, x) /\ w = Cat(y, g)
  OBVIOUS
<1>7. v \in Seq(Nat) /\ Len(v) = 3
  <2>1. u \in Seq(Nat) /\ x \in Seq(Nat)
    BY <1>3
  <2>2. u \o x \in Seq(Nat) /\ Len(u \o x) = Len(u) + Len(x)
    BY <2>1, ConcatEntries
  <2>3. QED
    BY <1>3, <1>6, <2>2 DEF Cat
<1>8. w \in Seq(Nat)
  <2>1. y \in Seq(Nat) /\ g \in Seq(Nat)
    BY <1>3
  <2>2. y \o g \in Seq(Nat)
    BY <2>1, ConcatEntries
  <2>3. QED
    BY <1>6, <2>2 DEF Cat
<1>9. b = v \o w
  <2>1. u \in Seq(Nat) /\ x \in Seq(Nat) /\ y \in Seq(Nat) /\ g \in Seq(Nat)
    BY <1>3
  <2>2. Cat(u, Cat(x, y)) = Cat(v, y)
    BY <1>6, <2>1, ConcatAssoc
  <2>3. Cat(v, Cat(y, g)) = Cat(Cat(v, y), g)
    BY <1>7, <2>1, ConcatAssoc
  <2>4. QED
    BY <1>3, <1>6, <2>2, <2>3, Zenon DEF Cat
<1>10. PICK z \in Nat, o \in Nat, e \in Nat : z = 0 /\ o = 2 /\ e = 3
  OBVIOUS
<1>11. Agrees(b, z, v)
  <2>1. Agrees(b, z, v \o w)
    BY <1>3, <1>9, <1>10, AgreesItself
  <2>2. QED
    BY <1>3, <1>7, <1>8, <2>1, AgreesConcat
<1>12. Agrees(b, z, u) /\ Agrees(b, o, x)
  <2>1. Agrees(b, z, u \o x) /\ u \in Seq(Nat) /\ x \in Seq(Nat) /\ b \in Seq(Nat)
    BY <1>3, <1>6, <1>11 DEF Cat
  <2>2. Agrees(b, z, u) /\ Agrees(b, z + Len(u), x)
    BY <2>1, AgreesConcat
  <2>3. z + Len(u) = o
    BY <1>3, <1>10
  <2>4. QED
    BY <2>2, <2>3
<1>13. PICK size : size = Take(UpTo(b, 2, <<i>>), 1, "ErrUnexpectedEOF")
  OBVIOUS
<1>14. PICK t : t = ReadServices(size)
  OBVIOUS
<1>15. PICK sig : sig = Take(t, 1, "ErrUnexpectedEOF")
  OBVIOUS
<1>16. Len(y) \in Nat
  BY <1>3
<1>17. 2 <= Len(b) /\ e <= Len(b)
  BY <1>3, <1>10, <1>16
<1>18. q = IF sig.res # "ok" THEN Failed(sig)
           ELSE Parsed([type |-> "handshake", services |-> t.val, kadId |-> i,
                        signature |-> sig.val[1]])
  <2>1. Agrees(b, 0, <<1, i>>) /\ b \in Seq(Nat)
    BY <1>3, <1>5, <1>10, <1>12
  <2>2. IdResult(b, i)
    BY <2>1, IdRead, Zenon
  <2>3. QED
    BY <1>2, <1>13, <1>14, <1>15, <1>17, <2>2, Zenon DEF IdResult
<1>19. sig.res = "ok"
  <2>1. Failed(sig).res = sig.res
    BY DEF Failed
  <2>2. QED
    BY <1>18, <2>1, Zenon
<1>20. q.pkt = [type |-> "handshake", services |-> t.val, kadId |-> i, signature |-> sig.val[1]]
  BY <1>18, <1>19 DEF Parsed
<1>21. t.res = "ok"
  BY <1>15, <1>19, TakeFailed
<1>22. size = Reading(w, x)
  <2>1. x \in Seq(Nat) /\ Agrees(b, o, x) /\ b \in Seq(Nat)
    BY <1>3, <1>12
  <2>2. Take(UpTo(b, o, <<i>>), Len(x), "ErrUnexpectedEOF") = UpTo(b, o + Len(x), x)
    BY <2>1, TakeReads
  <2>3. Len(x) = 1 /\ o + Len(x) = e
    BY <1>3, <1>10
  <2>4. size = UpTo(b, e, x)
    BY <1>10, <1>13, <2>2, <2>3
  <2>5. size = At(b, e, x)
    BY <1>17, <2>4 DEF UpTo
  <2>6. SubSeq(v \o w, Len(v) + 1, Len(v \o w)) = w
    BY <1>7, <1>8, ConcatParts
  <2>7. SubSeq(b, e + 1, Len(b)) = w
    BY <1>7, <1>9, <1>10, <2>6
  <2>8. QED
    BY <2>5, <2>7 DEF At, Reading
<1>23. PICK n : n = FromBE(x)
  OBVIOUS
<1>24. n \in Byte
  BY <1>3, <1>23, FromByteType
<1>25. t = TakeStrings(Reading(w, x), n)
  <2>1. size.res = "ok" /\ size.val = x
    BY <1>22 DEF Reading
  <2>2. Short("ErrUnexpectedEOF").res # "ok"
    BY DEF Short
  <2>3. QED
    BY <1>14, <1>21, <1>22, <1>23, <2>1, <2>2, Zenon DEF ReadServices
<1>26. QED
  <2>1. /\ n \in Byte /\ t.res = "ok"
        /\ t = TakeStrings(Reading(Cat(y, g), x), n)
        /\ Take(t, 1, "ErrUnexpectedEOF").res = "ok"
    BY <1>6, <1>15, <1>19, <1>21, <1>24, <1>25, Zenon
  <2>2. q.pkt = [type |-> "handshake", services |-> t.val, kadId |-> p.kadId,
                 signature |-> Take(t, 1, "ErrUnexpectedEOF").val[1]]
    BY <1>4, <1>15, <1>20, Zenon
  <2>3. IsRead(q, p, u, x, y, g, n, t)
    BY <1>1, <2>1, <2>2, Zenon DEF IsRead
  <2>4. QED
    BY <2>3, Zenon

\* A handshake with an id that Validate accepts has the services of its sender.
LEMMA AcceptedIsHonest ==
    ASSUME NEW p, IsHandshake(p), p.kadId # NoId, NEW q,
           q = UnmarshalHandshakePacket(AppendHandshake(p)), q.res = "ok", Validate(q.pkt)
    PROVE  q.pkt.services = p.services
<1>0. PICK u, x, y, g, n, t : IsRead(q, p, u, x, y, g, n, t)
  BY SignedRead, Zenon
<1>1. /\ IsSigned(p, u, x, y, g) /\ n \in Byte /\ t.res = "ok"
      /\ t = TakeStrings(Reading(Cat(y, g), x), n)
      /\ Take(t, 1, "ErrUnexpectedEOF").res = "ok"
      /\ q.pkt = [type |-> "handshake", services |-> t.val, kadId |-> p.kadId,
                  signature |-> Take(t, 1, "ErrUnexpectedEOF").val[1]]
  BY <1>0, Zenon DEF IsRead
<1>2. PICK i, ss, m : i = p.kadId /\ ss = p.services /\ m = p.signature
  OBVIOUS
<1>3. /\ i \in Nat /\ i >= Base /\ ss \in Seq(Seq(Byte)) /\ ss \in Seq(Seq(Nat))
      /\ m = Sign(i, ss)
  BY <1>2, HandshakeFields, Zenon
<1>4. i > 0
  BY <1>3, PacketsAssumption
<1>5. /\ y \in Seq(Nat) /\ g \in Seq(Nat) /\ Len(g) = 1
      /\ y = FlattenSeq(SizedStrings(ss)) /\ g = <<m>>
  BY <1>1, <1>2, Zenon DEF IsSigned
<1>6. PICK w : w = Cat(y, g)
  OBVIOUS
<1>7. w \in Seq(Nat)
  <2>1. y \o g \in Seq(Nat)
    BY <1>5, ConcatEntries
  <2>2. QED
    BY <1>6, <2>1 DEF Cat
<1>8. n \in Nat /\ n < Base
  BY <1>1, ByteValue
<1>9. t \in States /\ \E e : Eaten(w, e, t.buf, FlattenSeq(t.val), n)
  <2>1. t = TakeStrings(Reading(w, x), n) /\ t.res = "ok"
    BY <1>1, <1>6, Zenon
  <2>2. QED
    BY <1>7, <1>8, <2>1, NamesEaten
<1>10. PICK e : Eaten(w, e, t.buf, FlattenSeq(t.val), n)
  BY <1>9
<1>11. PICK r, qs : r = t.buf /\ qs = t.val
  OBVIOUS
<1>12. r \in Seq(Nat) /\ qs \in Seq(Seq(Nat)) /\ t = Reading(r, qs)
  <2>1. t = [res |-> t.res, buf |-> t.buf, val |-> t.val]
    BY <1>9 DEF States
  <2>2. t.buf \in Seq(Nat) /\ t.val \in Seq(Seq(Nat))
    BY <1>9 DEF States
  <2>3. QED
    BY <1>1, <1>11, <2>1, <2>2 DEF Reading
<1>13. PICK f : f = FlattenSeq(qs)
  OBVIOUS
<1>14. /\ e \in Seq(Nat) /\ f \in Seq(Nat) /\ w = Cat(e, r) /\ Len(e) = n + Len(f)
       /\ e \in Seq(Byte) => f \in Seq(Byte) /\ Total(e) = Weight(f)
  BY <1>10, <1>11, <1>13, Zenon DEF Eaten
\* The signature that was read is the one of the names that were.
<1>15. PICK sig : sig = Take(t, 1, "ErrUnexpectedEOF")
  OBVIOUS
<1>16. Len(r) >= 1 /\ sig.val[1] = r[1]
  <2>1. Splits(Take(Reading(r, qs), 1, "ErrUnexpectedEOF"), r, 1)
    BY <1>12, TakeParsed
  <2>2. Splits(sig, r, 1)
    BY <1>12, <1>15, <2>1, Zenon
  <2>3. sig.res = "ok"
    BY <1>1, <1>15
  <2>4. PICK a \in Seq(Nat), c \in Seq(Nat) : sig = Reading(c, a) /\ Len(a) = 1 /\ r = a \o c
    BY <2>2, <2>3, SMTT(30) DEF Splits, Short
  <2>5. sig.val = a
    BY <2>4 DEF Reading
  <2>6. /\ Len(a \o c) = Len(a) + Len(c)
        /\ \A k \in 1 .. Len(a) + Len(c) :
              (a \o c)[k] = IF k <= Len(a) THEN a[k] ELSE c[k - Len(a)]
    BY ConcatEntries
  <2>7. Len(c) \in Nat
    OBVIOUS
  <2>8. QED
    BY <2>4, <2>5, <2>6, <2>7
<1>17. r[1] = Sign(i, qs)
  <2>1. q.pkt.kadId = i /\ q.pkt.services = qs /\ q.pkt.signature = sig.val[1]
    BY <1>1, <1>2, <1>11, <1>15
  <2>2. q.pkt.kadId # NoId => q.pkt.signature = Sign(q.pkt.kadId, q.pkt.services)
    BY DEF Validate
  <2>3. QED
    BY <1>2, <1>16, <2>1, <2>2, Zenon
<1>18. r[1] \notin Byte
  BY <1>3, <1>4, <1>12, <1>17, SignLarge
\* So it is the one that was sent, and the names are all of the bytes before it.
<1>19. PICK z : z = FlattenSeq(ss)
  OBVIOUS
<1>20. Encoded(y, z, Len(ss))
  BY <1>3, <1>5, <1>19, EncodedNames
<1>21. y \in Seq(Byte) /\ z \in Seq(Byte) /\ Len(y) = Len(ss) + Len(z)
  BY <1>20 DEF Encoded
<1>22. e = y /\ r[1] = g[1]
  <2>1. Cat(y, g) = Cat(e, r)
    BY <1>6, <1>14
  <2>2. y \in Seq(Byte) /\ g \in Seq(Nat) /\ Len(g) = 1
    BY <1>5, <1>21
  <2>3. e \in Seq(Nat) /\ r \in Seq(Nat) /\ Len(r) >= 1 /\ r[1] \notin Byte
    BY <1>12, <1>14, <1>16, <1>18
  <2>4. QED
    BY <2>1, <2>2, <2>3, BytesThenLarge
<1>23. f \in Seq(Byte) /\ Total(y) = Weight(f) /\ Len(y) = n + Len(f)
  BY <1>14, <1>21, <1>22
<1>24. Sign(i, qs) = Sign(i, ss)
  BY <1>3, <1>5, <1>17, <1>22
<1>25. f = z
  BY <1>3, <1>4, <1>13, <1>19, <1>21, <1>23, <1>24, SignInjective
\* Their number and their lengths were no larger than a byte.
<1>26. Len(ss) = n
  <2>1. Len(ss) \in Nat /\ Len(z) \in Nat
    BY <1>3, <1>21
  <2>2. QED
    BY <1>8, <1>21, <1>23, <1>25, <2>1
<1>27. \A k \in 1 .. Len(ss) : Len(ss[k]) < Base
  <2>1. Total(y) = Weight(z)
    BY <1>23, <1>25
  <2>2. QED
    BY <1>3, <1>5, <1>19, <2>1, EncodedNames
<1>28. FitsStrings(ss)
  <2>1. DOMAIN ss = 1 .. Len(ss)
    BY <1>3
  <2>2. QED
    BY <1>8, <1>26, <1>27, <2>1 DEF FitsStrings
<1>29. PICK b : b = AppendHandshake(p)
  OBVIOUS
<1>30. b \in Seq(Nat)
  BY <1>1, <1>29, Zenon DEF IsSigned
<1>31. Agrees(b, 0, AppendHandshake(p))
  BY <1>29, <1>30, AgreesItself
<1>32. Decodes(UnmarshalHandshakePacket(b), b, AppendHandshake(p), p)
  BY <1>2, <1>28, <1>30, <1>31, SignedDecodes
<1>33. q = Parsed(p)
  BY <1>29, <1>32 DEF Decodes
<1>34. QED
  BY <1>33 DEF Parsed

-----------------------------------------------------------------------------
\* The packets of a Session.

\* A packet whose lengths fit comes back from each of its encodings, for every packet
\* that the program can make, whatever order a map is iterated in.
THEOREM UnmarshalCorrect ==
    \A p : IsPacket(p) /\ Fits(p) => \A b \in AppendTo(p) : Unmarshal(p.type, b) = Parsed(p)
BY UnmarshalUndoes

\* What is sent is a packet, and what arrives is one of its encodings.
LEMMA InvArrived ==
    ASSUME IInv, NEW s \in Sides, NEW i \in 1 .. Len(received[s])
    PROVE  IsPacket(SentBy(Peer(s), i)) /\ received[s][i] \in AppendTo(SentBy(Peer(s), i))
<1>1. SentBy(Peer(s), i) \in Inputs \cup {Marker}
  BY DEF SentBy, IInv, Types
<1>2. received[s][i] \in AppendTo(SentBy(Peer(s), i))
  BY InvDelivers DEF Delivered
<1>3. QED
  BY <1>1, <1>2, WireAssumption

\* The packets that come out are the ones that went in.
LEMMA InvEndToEnd == IInv => EndToEnd
<1>1. ASSUME IInv, NEW s \in Sides
      PROVE  /\ IsPrefix(received[s], written[Peer(s)])
             /\ \A i \in 1 .. Len(received[s]) :
                  Fits(SentBy(Peer(s), i)) =>
                    Unmarshal(SentBy(Peer(s), i).type, received[s][i]) = Parsed(SentBy(Peer(s), i))
  <2>1. ASSUME NEW i \in 1 .. Len(received[s]), Fits(SentBy(Peer(s), i))
        PROVE  Unmarshal(SentBy(Peer(s), i).type, received[s][i]) = Parsed(SentBy(Peer(s), i))
    <3>1. IsPacket(SentBy(Peer(s), i)) /\ received[s][i] \in AppendTo(SentBy(Peer(s), i))
      BY <1>1, InvArrived
    <3>2. QED
      BY <2>1, <3>1, UnmarshalUndoes
  <2>2. QED
    BY <1>1, <2>1, InvDelivers DEF Delivered
<1>2. QED
  BY <1>1 DEF EndToEnd

\* EndToEnd holds in every behaviour, for any set of packets: what a side unmarshals
\* is what the other appended, through encoding, framing, buffering and nonces, and
\* whatever the socket cuts off.
THEOREM EndToEndCorrect == Spec => []EndToEnd
BY InvEndToEnd, Invariance, PTL

\* The beginning of an encoding is refused, the one that crashes its decoder included.
LEMMA InvPrefixRefused == IInv => PrefixRefused
<1>1. ASSUME IInv, Fits(pkt), NEW b \in AppendTo(pkt), NEW n \in 0 .. Len(b) - 1
      PROVE  Unmarshal(pkt.type, SubSeq(b, 1, n)).res = Refusal(pkt.type, n)
  <2>1. IsPacket(pkt)
    BY <1>1, WireAssumption DEF IInv, Types
  <2>2. QED
    BY <1>1, <2>1, UnmarshalRefuses
<1>2. QED
  BY <1>1 DEF PrefixRefused

\* No Unmarshal accepts a packet that has lost its end, wherever it was cut, and only
\* that of a service request behind its id makes it crash.
THEOREM PrefixRefusedCorrect == Spec => []PrefixRefused
BY InvPrefixRefused, Invariance, PTL

\* What Validate makes of the handshakes that arrive.
LEMMA InvHonest == IInv => HandshakeHonest
<1> DEFINE Sent(i) == SentBy("client", i)
           Got(i)  == Unmarshal(Sent(i).type, received["server"][i])
           Honest(i) ==
             /\ (Got(i).res = "ok" /\ Validate(Got(i).pkt)) =>
                  Got(i).pkt.services = Sent(i).services
             /\ Fits(Sent(i)) /\ Validate(Sent(i)) => Got(i).res = "ok" /\ Validate(Got(i).pkt)
<1>1. ASSUME IInv, NEW i \in 1 .. Len(received["server"]), Sent(i).type = "handshake",
             Sent(i).kadId # NoId
      PROVE  Honest(i)
  <2>0. PICK p, q : p = Sent(i) /\ q = Got(i)
    OBVIOUS
  <2>1. "server" \in Sides /\ Peer("server") = "client"
    BY DEF Sides, Peer
  <2>2. IsPacket(p) /\ received["server"][i] \in AppendTo(p)
    BY <1>1, <2>0, <2>1, InvArrived
  <2>3. IsHandshake(p)
    BY <1>1, <2>0, <2>2 DEF IsPacket
  <2>4. received["server"][i] = AppendHandshake(p)
    BY <1>1, <2>0, <2>2 DEF AppendTo
  <2>5. q = UnmarshalHandshakePacket(AppendHandshake(p))
    BY <1>1, <2>0, <2>4 DEF Unmarshal
  <2>6. (q.res = "ok" /\ Validate(q.pkt)) => q.pkt.services = p.services
    BY <1>1, <2>0, <2>3, <2>5, AcceptedIsHonest
  <2>7. ASSUME Fits(p), Validate(p)
        PROVE  q.res = "ok" /\ Validate(q.pkt)
    <3>1. q = Parsed(p)
      BY <2>0, <2>2, <2>4, <2>7, UnmarshalUndoes
    <3>2. q.res = "ok" /\ q.pkt = p
      BY <3>1 DEF Parsed
    <3>3. QED
      BY <2>7, <3>2
  <2>8. QED
    BY <2>0, <2>6, <2>7, Zenon
<1>2. QED
  BY <1>1, Zenon DEF HandshakeHonest

\* HandshakeHonest holds in every behaviour: a peer with an id is registered with the
\* services that it has signed or not at all, also where a length has overflowed.
THEOREM HandshakeHonestCorrect == Spec => []HandshakeHonest
BY InvHonest, Invariance, PTL
=============================================================================

--------------------------- MODULE StreamsProofs ----------------------------
(***************************************************************************)
(* Proofs about module Streams: a request is handled once, ids never       *)
(* collide, Push returns a stream only for a request that was answered,    *)
(* and every reader gets its own chunks in order and an honest EOF.        *)
(***************************************************************************)
EXTENDS Streams, FiniteSetTheorems, TLAPS

\* The types of the variables (TypeOK without the bound on the sockets).
Types ==
    /\ counter \in [Ends -> Ids] /\ streams \in [Ends -> [Ids -> Objects \cup {None}]]
    /\ wire \in [Ends -> Seq(Message)]
    /\ life \in [Ends -> {"up", "closing", "closed"}]
    /\ loop \in [Ends -> {"read", "writing", "exited"}]
    /\ chunk \in [Ends -> (Objects \X Message) \cup {None}]
    /\ closed \in [Objects -> BOOLEAN] /\ left \in [Objects -> BOOLEAN]
    /\ eof \in [Objects -> BOOLEAN] /\ got \in [Objects -> Seq(Message)]
    /\ header \in [Tries -> {"nil", "handled", "unhandled"}]
    /\ signalled \in [Tries -> BOOLEAN]
    /\ ppc \in [Requests -> {"idle", "try", "header", "body", "wait", "reading",
                             "done", "failed"}]
    /\ todo \in [Requests -> SUBSET Conns] /\ cur \in [Requests -> Conns \cup {None}]
    /\ id \in [Tries -> Ids] /\ sent \in [Tries -> Nat]
    /\ hpc \in [Tries -> {"none", "spawned", "body", "reply", "done"}]
    /\ hconn \in [Tries -> Conns] /\ hsent \in [Tries -> Nat]
    /\ faults \in 0 .. MaxFaults

\* The states of a Push that has got a stream.
Active == {"header", "body", "wait", "reading", "done"}

\* Such a Push has a provider; a read loop that writes has a chunk.
Pushing ==
    /\ \A p \in Requests : ppc[p] \in Active => cur[p] \in Conns
    /\ \A e \in Ends : loop[e] = "writing" => chunk[e] \in Objects \X Message

\* The messages between the ends.
Held(e) == {wire[e][i] : i \in 1 .. Len(wire[e])}

\* The header of try x is sent: no other provider is tried any more.
Committed(x) ==
    /\ cur[x[1]] = x[2]
    /\ ppc[x[1]] \in {"body", "wait", "reading", "done", "failed"}

\* Requests and handlers are of tries that are committed.
Handling ==
    /\ \A e \in Ends : \A m \in Held(e) : m.op = "request" => Committed(m.try)
    /\ \A x \in Tries : hpc[x] # "none" => Committed(x)

HandlingInv == Types /\ Pushing /\ Handling

-----------------------------------------------------------------------------
\* Ids.  S is the set of tries that NextStream has started.
Started(S, e) == {p \in Requests : <<p, e[1]>> \in S /\ PushEnd(<<p, e[1]>>) = e}
Pos(S, e) == Cardinality(Started(S, e))

\* The request of x is in wire[PushEnd(x)].
Requested(x) == \E m \in Held(PushEnd(x)) : m.op = "request" /\ m.try = x

Numbered(S) ==
    /\ \A x \in S : x[2] \notin todo[x[1]] /\ ppc[x[1]] # "idle"
    /\ \A p \in Requests : ppc[p] \in Active => Try(p) \in S
    /\ \A e \in Ends : counter[e] = (FirstId(e) + 2 * Pos(S, e)) % IdModulus
    /\ \A x \in S : \E n \in 0 .. Pos(S, PushEnd(x)) - 1 : id[x] = FirstId(PushEnd(x)) + 2 * n
    /\ \A x, y \in S : PushEnd(x) = PushEnd(y) /\ id[x] = id[y] => x = y

\* A message is of a started try, with its id; a request comes from its PushEnd.
Addressed(S) ==
    \A e \in Ends : \A m \in Held(e) :
        /\ m.try \in S /\ m.id = id[m.try]
        /\ m.op = "request" => PushEnd(m.try) = e

\* An entry is of a started try, at its end, under its id.
Entries(S) ==
    \A e \in Ends, i \in Ids, o \in Objects : streams[e][i] = o =>
        /\ o[1] \in S /\ EndOf(o) = e /\ id[o[1]] = i
        /\ o[2] = "in" => Committed(o[1]) /\ ~Requested(o[1])

\* A request is sent once, and is not on its way any more when it is handled.
UniqueIn(s) ==
    \A i, j \in 1 .. Len(s) :
        s[i].op = "request" /\ s[j].op = "request" /\ s[i].try = s[j].try => i = j
Running(S) ==
    /\ \A x \in Tries : hpc[x] # "none" => x \in S /\ ~Requested(x)
    /\ \A e \in Ends : UniqueIn(wire[e])

IdsOf(S) == Numbered(S) /\ Addressed(S) /\ Entries(S) /\ Running(S)
IdsInv == HandlingInv /\ \E S \in SUBSET Tries : IdsOf(S)

-----------------------------------------------------------------------------
\* Answers: what holds if the context of a handler is its own (~ContextReuse).

\* A message travels from one end of its try to the other; a response says that
\* the handler has written, or that there is none.
Answering ==
    /\ hconn = [x \in Tries |-> x[2]]
    /\ \A e \in Ends : \A m \in Held(e) :
         /\ m.try[2] = e[1]
         /\ m.op = "response" => HandlerEnd(m.try) = e /\ (m.handled => hsent[m.try] > 0)
    /\ \A x \in Tries : header[x] = "handled" => hsent[x] > 0
    /\ \A p \in Requests : ppc[p] \in {"reading", "done"} => hsent[Try(p)] > 0

AnswerInv == IdsInv /\ Answering

-----------------------------------------------------------------------------
\* Chunks.  Everything that the reader of object o gets comes out of wire[Source(o)].
Source(o) == Other(EndOf(o))

\* Chunks, the empty one included, that were sent.
Emitted(o) == IF o[2] = "in" THEN sent[o[1]]
              ELSE IF hsent[o[1]] = 0 THEN 0 ELSE hsent[o[1]] - 1

\* Chunks that have left the socket.
Pending(o) == loop[EndOf(o)] = "writing" /\ chunk[EndOf(o)][1] = o
Have(o)    == Len(got[o]) + IF Pending(o) THEN 1 ELSE 0

\* The senders' progress.
Sending ==
    /\ \A x \in Tries : ~Committed(x) => sent[x] = 0
    /\ \A p \in Requests : ppc[p] = "body" => sent[Try(p)] <= Body[p]
    /\ \A x \in Tries : hpc[x] # "done" => hsent[x] <= LastOf(x)

\* Socket s, with the chunks of try x for a reader that has h of them: n of the chunks
\* 1 .. len (and of the empty one behind) were sent, and those above h are in s, in order,
\* as long as somebody takes them.
DataIn(s, x) == {i \in 1 .. Len(s) : s[i].op = "data" /\ s[i].try = x}
Flow(s, x, h, n, len, open) ==
    /\ h <= len /\ h <= n
    /\ \A i \in DataIn(s, x) : \/ s[i].k = 0 /\ n = len + 1
                               \/ h < s[i].k /\ s[i].k <= len /\ s[i].k <= n
    /\ \A i, j \in DataIn(s, x) : i < j => s[i].k # 0 /\ (s[j].k = 0 \/ s[i].k < s[j].k)
    /\ open => \A k \in 1 .. len : h < k /\ k <= n => \E i \in DataIn(s, x) : s[i].k = k

\* What the reader of o has got, and what is on its way to it.
ChunksOf(o) ==
    /\ \A i \in 1 .. Len(got[o]) : got[o][i].try = o[1] /\ got[o][i].k = i
    /\ Pending(o) => chunk[EndOf(o)][2].try = o[1] /\ chunk[EndOf(o)][2].k = Len(got[o]) + 1
    /\ Flow(wire[Source(o)], o[1], Have(o), Emitted(o), Length(o), loop[EndOf(o)] # "exited")

\* Nobody reads o any more.
Gone(o) ==
    IF o[2] = "in" THEN hpc[o[1]] = "done"
    ELSE /\ ppc[o[1][1]] # "idle" /\ o[1][2] \notin todo[o[1][1]]
         /\ ~(/\ cur[o[1][1]] = o[1][2] /\ ppc[o[1][1]] \in {"header", "body", "wait", "reading"})

EofOf(o) ==
    /\ left[o] => Gone(o)
    /\ closed[o] => Len(got[o]) = Length(o) \/ life[EndOf(o)] = "closed" \/ Gone(o)
    /\ eof[o] => Len(got[o]) = Length(o) \/ life[EndOf(o)] = "closed"

\* What nobody reads is not kept; a provider is closed after its read loop has ended.
Drained ==
    \A e \in Ends : /\ loop[e] = "exited" => wire[Other(e)] = <<>>
                    /\ life[e] = "closed" => loop[e] = "exited"

Chunks   == Sending /\ Drained /\ \A o \in Objects : ChunksOf(o)
ChunkInv == AnswerInv /\ Chunks
EofInv   == ChunkInv /\ \A o \in Objects : EofOf(o)

-----------------------------------------------------------------------------
\* Sockets.  A is the set of requests that were refused, each with one answer.
Refused(A, e) == {x \in A : HandlerEnd(x) = e}
BoundedBy(A) ==
    /\ \A x \in A : Committed(x) /\ ~Requested(x)
    /\ \A e \in Ends : Len(wire[e]) <= Cap + Cardinality(Refused(A, e))
SocketInv == IdsInv /\ \E A \in SUBSET Unserved : BoundedBy(A)

-----------------------------------------------------------------------------
\* Ends, tries and objects.

\* The two ends of a connection, and the parity of their ids.
LEMMA OtherEnd ==
    ASSUME NEW e \in Ends
    PROVE  /\ Other(e) \in Ends /\ Other(Other(e)) = e /\ Other(e) # e /\ Other(e)[1] = e[1]
           /\ e[1] \in Conns /\ e = <<e[1], e[2]>>
BY DEF Ends, Other

\* The two ends of a connection count from different numbers.
LEMMA Parity ==
    ASSUME NEW e \in Ends
    PROVE  FirstId(e) \in {0, 1} /\ FirstId(Other(e)) \in {0, 1} /\ FirstId(Other(e)) # FirstId(e)
BY DEF Ends, Other, FirstId

\* Two ends of one connection are the same or each other's.
LEMMA SameConn ==
    ASSUME NEW e \in Ends, NEW f \in Ends, e[1] = f[1]
    PROVE  f = e \/ f = Other(e)
BY DEF Ends, Other

\* A try has an end that pushes it and one that handles it.
LEMMA TryEnds ==
    ASSUME NEW x \in Tries
    PROVE  /\ x = <<x[1], x[2]>> /\ x[1] \in Requests /\ x[2] \in Conns
           /\ PushEnd(x) \in Ends /\ HandlerEnd(x) \in Ends /\ HandlerEnd(x) = Other(PushEnd(x))
           /\ PushEnd(x)[1] = x[2] /\ HandlerEnd(x)[1] = x[2]
           /\ <<x, "out">> \in Objects /\ <<x, "in">> \in Objects
           /\ EndOf(<<x, "out">>) = PushEnd(x) /\ EndOf(<<x, "in">>) = HandlerEnd(x)
BY DEF Tries, PushEnd, HandlerEnd, Other, Ends, Objects, EndOf

\* An object is one of the two of its try.
LEMMA ObjectEnds ==
    ASSUME NEW o \in Objects
    PROVE  /\ o[1] \in Tries /\ o[2] \in {"out", "in"} /\ o = <<o[1], o[2]>> /\ EndOf(o) \in Ends
           /\ o[1][1] \in Requests /\ o[1][2] \in Conns
           /\ EndOf(o)[1] = o[1][2]
<1>1. o[1] \in Tries /\ o[2] \in {"out", "in"} /\ o = <<o[1], o[2]>>
  BY DEF Objects
<1>2. /\ o[1][1] \in Requests /\ o[1][2] \in Conns
      /\ PushEnd(o[1]) \in Ends /\ HandlerEnd(o[1]) \in Ends
      /\ PushEnd(o[1])[1] = o[1][2] /\ HandlerEnd(o[1])[1] = o[1][2]
  BY <1>1, TryEnds
<1>3. EndOf(o) = PushEnd(o[1]) \/ EndOf(o) = HandlerEnd(o[1])
  BY DEF EndOf
<1>4. QED
  BY <1>1, <1>2, <1>3

-----------------------------------------------------------------------------
\* Sockets.

\* Append, and Tail, element by element.
LEMMA AppendAt ==
    ASSUME NEW X, NEW s \in Seq(X), NEW m \in X
    PROVE  /\ Append(s, m) \in Seq(X) /\ Len(Append(s, m)) = Len(s) + 1
           /\ \A i \in 1 .. Len(s) : Append(s, m)[i] = s[i]
           /\ Append(s, m)[Len(s) + 1] = m
OBVIOUS

\* Tail, element by element.
LEMMA TailAt ==
    ASSUME NEW X, NEW s \in Seq(X), s # <<>>
    PROVE  /\ Tail(s) \in Seq(X) /\ Len(Tail(s)) = Len(s) - 1 /\ Len(s) \in Nat /\ Len(s) >= 1
           /\ Head(s) = s[1] /\ Head(s) \in X
           /\ \A i \in 1 .. Len(s) - 1 : Tail(s)[i] = s[i + 1]
OBVIOUS

\* The messages that Send adds.
LEMMA HeldSend ==
    ASSUME Types, NEW e \in Ends, NEW m \in Message, Send(e, m)
    PROVE  /\ wire' \in [Ends -> Seq(Message)]
           /\ \A f \in Ends : \A n \in Held(f)' : n \in Held(f) \/ (f = e /\ n = m)
<1>1. wire \in [Ends -> Seq(Message)]
  BY DEF Types
<1>2. CASE wire' = wire
  BY <1>1, <1>2 DEF Held
<1>3. CASE wire' = [wire EXCEPT ![e] = Append(@, m)]
  <2>1. /\ wire'[e] = Append(wire[e], m) /\ \A f \in Ends : f # e => wire'[f] = wire[f]
    BY <1>1, <1>3
  <2>2. wire[e] \in Seq(Message) /\ Len(wire[e]) \in Nat
    BY <1>1
  <2>3. /\ Append(wire[e], m) \in Seq(Message) /\ Len(Append(wire[e], m)) = Len(wire[e]) + 1
        /\ \A i \in 1 .. Len(wire[e]) : Append(wire[e], m)[i] = wire[e][i]
        /\ Append(wire[e], m)[Len(wire[e]) + 1] = m
    BY <2>2, AppendAt
  <2>4. wire' \in [Ends -> Seq(Message)]
    BY <1>1, <1>3, <2>3
  <2>5. ASSUME NEW n \in Held(e)'
        PROVE  n \in Held(e) \/ n = m
    <3>1. PICK i \in 1 .. Len(wire'[e]) : n = wire'[e][i]
      BY <2>5 DEF Held
    <3>2. i \in 1 .. Len(wire[e]) \/ i = Len(wire[e]) + 1
      BY <2>1, <2>2, <2>3, <3>1
    <3>3. QED
      BY <2>1, <2>3, <3>1, <3>2 DEF Held
  <2>6. ASSUME NEW f \in Ends, f # e
        PROVE  Held(f)' = Held(f)
    BY <2>1, <2>6 DEF Held
  <2>7. QED
    BY <2>4, <2>5, <2>6
<1>4. QED
  BY <1>2, <1>3 DEF Send, Sent

\* The messages that HandleMessage takes away, and the one that it takes.
LEMMA HeldConsumed ==
    ASSUME Types, NEW e \in Ends, wire[Other(e)] # <<>>
    PROVE  /\ Consumed(e) \in [Ends -> Seq(Message)]
           /\ Head(wire[Other(e)]) \in Message /\ Head(wire[Other(e)]) \in Held(Other(e))
           /\ Head(wire[Other(e)]) = wire[Other(e)][1] /\ Len(wire[Other(e)]) \in Nat
           /\ Consumed(e)[Other(e)] = Tail(wire[Other(e)])
           /\ Len(Consumed(e)[Other(e)]) = Len(wire[Other(e)]) - 1 /\ Len(wire[Other(e)]) >= 1
           /\ \A i \in 1 .. Len(wire[Other(e)]) - 1 :
                Consumed(e)[Other(e)][i] = wire[Other(e)][i + 1]
           /\ \A f \in Ends : f # Other(e) => Consumed(e)[f] = wire[f]
           /\ \A f \in Ends : \A i \in 1 .. Len(Consumed(e)[f]) : Consumed(e)[f][i] \in Held(f)
<1> DEFINE g == Other(e)
<1>1. wire \in [Ends -> Seq(Message)] /\ g \in Ends
  BY OtherEnd DEF Types
<1>2. wire[g] \in Seq(Message) /\ wire[g] # <<>>
  BY <1>1
<1>3. /\ Tail(wire[g]) \in Seq(Message) /\ Len(Tail(wire[g])) = Len(wire[g]) - 1
      /\ Len(wire[g]) \in Nat /\ Len(wire[g]) >= 1
      /\ Head(wire[g]) = wire[g][1] /\ Head(wire[g]) \in Message
      /\ \A i \in 1 .. Len(wire[g]) - 1 : Tail(wire[g])[i] = wire[g][i + 1]
  BY <1>2, TailAt
<1>4. /\ Consumed(e) \in [Ends -> Seq(Message)] /\ Consumed(e)[g] = Tail(wire[g])
      /\ \A f \in Ends : f # g => Consumed(e)[f] = wire[f]
  BY <1>1, <1>3 DEF Consumed
<1>5. Head(wire[g]) \in Held(g)
  BY <1>3 DEF Held
<1>6. ASSUME NEW f \in Ends, NEW i \in 1 .. Len(Consumed(e)[f])
      PROVE  Consumed(e)[f][i] \in Held(f)
  <2>1. CASE f = g
    <3>1. i \in 1 .. Len(wire[g]) - 1 /\ i + 1 \in 1 .. Len(wire[g])
      BY <1>3, <1>4, <1>6, <2>1
    <3>2. PICK j \in 1 .. Len(wire[g]) : j = i + 1
      BY <3>1
    <3>3. Consumed(e)[g][i] = wire[g][j]
      BY <1>3, <1>4, <3>1, <3>2
    <3>4. QED
      BY <2>1, <3>3 DEF Held
  <2>2. CASE f # g
    BY <1>4, <1>6, <2>2 DEF Held
  <2>3. QED
    BY <2>1, <2>2
<1>7. QED
  BY <1>3, <1>4, <1>5, <1>6

\* Nothing comes into a socket that loses its first message.
LEMMA HeldConsumes ==
    ASSUME Types, NEW e \in Ends, wire[Other(e)] # <<>>, wire' = Consumed(e)
    PROVE  wire' \in [Ends -> Seq(Message)] /\ \A f \in Ends : \A n \in Held(f)' : n \in Held(f)
<1>1. ASSUME NEW f \in Ends, NEW n \in Held(f)'
      PROVE  n \in Held(f)
  <2>1. PICK i \in 1 .. Len(wire'[f]) : n = wire'[f][i]
    BY <1>1 DEF Held
  <2>2. QED
    BY <2>1, HeldConsumed
<1>2. QED
  BY <1>1, HeldConsumed

\* A message is taken from one socket and answered on the other.
LEMMA HeldAnswer ==
    ASSUME Types, NEW e \in Ends, wire[Other(e)] # <<>>, NEW m \in Message,
           wire' = Sent(Consumed(e), e, m)
    PROVE  /\ wire' \in [Ends -> Seq(Message)] /\ wire'[Other(e)] = Consumed(e)[Other(e)]
           /\ wire'[e] = wire[e] \/ wire'[e] = Append(wire[e], m)
           /\ \A f \in Ends : f # Other(e) /\ f # e => wire'[f] = wire[f]
           /\ \A f \in Ends : \A n \in Held(f)' : n \in Held(f) \/ (f = e /\ n = m)
<1>1. /\ Other(e) \in Ends /\ Other(e) # e /\ Consumed(e) \in [Ends -> Seq(Message)]
      /\ wire \in [Ends -> Seq(Message)] /\ Consumed(e)[e] = wire[e]
      /\ \A f \in Ends : f # Other(e) => Consumed(e)[f] = wire[f]
      /\ \A f \in Ends : \A i \in 1 .. Len(Consumed(e)[f]) : Consumed(e)[f][i] \in Held(f)
  BY OtherEnd, HeldConsumed DEF Types
<1>2. CASE wire' = Consumed(e)
  <2>1. ASSUME NEW f \in Ends, NEW n \in Held(f)'
        PROVE  n \in Held(f)
    <3>1. PICK i \in 1 .. Len(wire'[f]) : n = wire'[f][i]
      BY <2>1 DEF Held
    <3>2. QED
      BY <1>1, <1>2, <3>1
  <2>2. QED
    BY <1>1, <1>2, <2>1
<1>3. CASE wire' = [Consumed(e) EXCEPT ![e] = Append(@, m)]
  <2>1. wire[e] \in Seq(Message) /\ Len(wire[e]) \in Nat
    BY <1>1
  <2>2. /\ Append(wire[e], m) \in Seq(Message) /\ Len(Append(wire[e], m)) = Len(wire[e]) + 1
        /\ \A i \in 1 .. Len(wire[e]) : Append(wire[e], m)[i] = wire[e][i]
        /\ Append(wire[e], m)[Len(wire[e]) + 1] = m
    BY <2>1, AppendAt
  <2>3. /\ wire' \in [Ends -> Seq(Message)] /\ wire'[e] = Append(wire[e], m)
        /\ \A f \in Ends : f # e => wire'[f] = Consumed(e)[f]
    BY <1>1, <1>3, <2>2
  <2>4. ASSUME NEW n \in Held(e)'
        PROVE  n \in Held(e) \/ n = m
    <3>1. PICK i \in 1 .. Len(wire'[e]) : n = wire'[e][i]
      BY <2>4 DEF Held
    <3>2. i \in 1 .. Len(wire[e]) \/ i = Len(wire[e]) + 1
      BY <2>1, <2>2, <2>3, <3>1
    <3>3. QED
      BY <2>2, <2>3, <3>1, <3>2 DEF Held
  <2>5. ASSUME NEW f \in Ends, f # e, NEW n \in Held(f)'
        PROVE  n \in Held(f)
    <3>1. PICK i \in 1 .. Len(wire'[f]) : n = wire'[f][i]
      BY <2>5 DEF Held
    <3>2. QED
      BY <1>1, <2>3, <2>5, <3>1
  <2>6. QED
    BY <1>1, <2>3, <2>4, <2>5
<1>4. QED
  BY <1>2, <1>3 DEF Sent

\* The end of a read loop empties a socket.
LEMMA HeldExit ==
    ASSUME Types, NEW e \in Ends, Exit(e)
    PROVE  /\ wire' \in [Ends -> Seq(Message)] /\ wire'[Other(e)] = <<>>
           /\ \A f \in Ends : f # Other(e) => wire'[f] = wire[f]
           /\ \A f \in Ends : \A n \in Held(f)' : n \in Held(f)
           /\ loop' = [loop EXCEPT ![e] = "exited"] /\ life' = [life EXCEPT ![e] = "closing"]
           /\ loop' \in [Ends -> {"read", "writing", "exited"}]
           /\ life' \in [Ends -> {"up", "closing", "closed"}]
<1>1. /\ wire \in [Ends -> Seq(Message)] /\ wire' = [wire EXCEPT ![Other(e)] = <<>>]
      /\ Other(e) \in Ends
  BY OtherEnd DEF Types, Exit
<1>2. /\ wire' \in [Ends -> Seq(Message)] /\ wire'[Other(e)] = <<>>
      /\ \A f \in Ends : f # Other(e) => wire'[f] = wire[f]
  BY <1>1
<1>3. ASSUME NEW f \in Ends, NEW n \in Held(f)'
      PROVE  n \in Held(f)
  BY <1>2, <1>3 DEF Held
<1>4. QED
  BY <1>2, <1>3 DEF Types, Exit

\* Held messages are messages.
LEMMA HeldTyped ==
    ASSUME Types, NEW e \in Ends, NEW m \in Held(e)
    PROVE  /\ m \in Message /\ m.try \in Tries /\ m.id \in Ids /\ m.k \in Nat
           /\ m.op \in {"request", "response", "data"} /\ m.handled \in BOOLEAN
<1>1. PICK i \in 1 .. Len(wire[e]) : m = wire[e][i]
  BY DEF Held
<1>2. wire[e] \in Seq(Message)
  BY DEF Types
<1>3. m \in Message
  BY <1>1, <1>2
<1>4. QED
  BY <1>3 DEF Message

-----------------------------------------------------------------------------
\* A request is handled once.

\* CloseStreamWithError, on the types.
LEMMA CloseTyped ==
    ASSUME Types, NEW o \in Objects, CloseStream(o)
    PROVE  /\ closed' \in [Objects -> BOOLEAN] /\ signalled' \in [Tries -> BOOLEAN]
           /\ streams' \in [Ends -> [Ids -> Objects \cup {None}]]
           /\ \A e \in Ends, i \in Ids : streams'[e][i] = streams[e][i] \/ streams'[e][i] = None
           /\ closed'[o] = TRUE /\ \A q \in Objects : q # o => closed'[q] = closed[q]
<1>1. EndOf(o) \in Ends /\ o[1] \in Tries /\ id[o[1]] \in Ids
  BY ObjectEnds DEF Types
<1>2. closed' \in [Objects -> BOOLEAN] /\ closed'[o] = TRUE
      /\ \A q \in Objects : q # o => closed'[q] = closed[q]
  BY DEF Types, CloseStream
<1>3. signalled' \in [Tries -> BOOLEAN]
  BY DEF Types, CloseStream, Done
<1>4. /\ streams' \in [Ends -> [Ids -> Objects \cup {None}]]
      /\ \A e \in Ends, i \in Ids : streams'[e][i] = streams[e][i] \/ streams'[e][i] = None
  BY <1>1 DEF Types, CloseStream
<1>5. QED
  BY <1>2, <1>3, <1>4

\* A pipe changes hands, on the types.
LEMMA TakeTyped ==
    ASSUME Types, Pushing, NEW o \in Objects, TakeChunk(o)
    PROVE  /\ got' \in [Objects -> Seq(Message)]
           /\ loop' \in [Ends -> {"read", "writing", "exited"}]
           /\ chunk' \in [Ends -> (Objects \X Message) \cup {None}]
           /\ \A e \in Ends : loop'[e] = "writing" => loop[e] = "writing" /\ chunk'[e] = chunk[e]
           /\ UNCHANGED <<closed, left, eof>>
<1>1. /\ EndOf(o) \in Ends /\ loop[EndOf(o)] = "writing"
      /\ chunk[EndOf(o)] \in Objects \X Message
  BY ObjectEnds DEF TakeChunk, Offered, Pushing
<1>2. chunk[EndOf(o)][2] \in Message /\ got[o] \in Seq(Message)
  BY <1>1 DEF Types
<1>3. Append(got[o], chunk[EndOf(o)][2]) \in Seq(Message)
  BY <1>2
<1>4. got' \in [Objects -> Seq(Message)]
  BY <1>3 DEF Types, TakeChunk
<1>5. QED
  BY <1>1, <1>4 DEF Types, TakeChunk

\* Acquiring a Context, on the types.
LEMMA AcquireTyped ==
    ASSUME Types, NEW e \in Ends, AcquireContext(e)
    PROVE  hconn' \in [Tries -> Conns]
BY OtherEnd DEF Types, AcquireContext

\* What keeps Handling: commitments last, and requests and handlers have one.
LEMMA HandlingKept ==
    ASSUME HandlingInv, Types', Pushing',
           \A x \in Tries : Committed(x) => Committed(x)',
           \A f \in Ends : \A m \in Held(f)' :
              m \in Held(f) \/ (m.op = "request" => Committed(m.try)'),
           \A x \in Tries : hpc'[x] # "none" => hpc[x] # "none" \/ Committed(x)
    PROVE  HandlingInv'
<1>1. ASSUME NEW f \in Ends, NEW m \in Held(f)', m.op = "request"
      PROVE  Committed(m.try)'
  <2>1. CASE m \in Held(f)
    <3>1. m.try \in Tries
      BY <2>1, HeldTyped DEF HandlingInv
    <3>2. Committed(m.try)
      BY <1>1, <2>1 DEF HandlingInv, Handling
    <3>3. QED
      BY <3>1, <3>2
  <2>2. CASE m \notin Held(f)
    BY <1>1, <2>2
  <2>3. QED
    BY <2>1, <2>2
<1>2. ASSUME NEW x \in Tries, hpc'[x] # "none"
      PROVE  Committed(x)'
  BY <1>2 DEF HandlingInv, Handling
<1>3. QED
  BY <1>1, <1>2 DEF HandlingInv, Handling

\* The steps of Push.
LEMMA PushHandling ==
    ASSUME HandlingInv, NEW p \in Requests,
           \/ UNCHANGED faults /\ (NodePush(p) \/ Push(p))
           \/ BodyFails(p) \/ UserLeaves(p)
    PROVE  HandlingInv'
<1>0. /\ Types /\ Pushing /\ MaxFaults \in Nat
      /\ Targets \in [Requests -> SUBSET Conns]
  BY StreamsAssumption DEF HandlingInv
<1>1. ASSUME UNCHANGED wire PROVE \A f \in Ends : \A m \in Held(f)' : m \in Held(f)
  BY <1>1 DEF Held
<1>2. ASSUME NEW q \in {"try", "header", "body", "wait", "reading", "done", "failed"},
             ppc' = [ppc EXCEPT ![p] = q], UNCHANGED cur,
             ppc[p] \in {"body", "wait", "reading", "done", "failed"} =>
                q \in {"body", "wait", "reading", "done", "failed"}
      PROVE  \A x \in Tries : Committed(x) => Committed(x)'
  BY <1>0, <1>2, TryEnds DEF Types, Committed
<1>3. ASSUME NodePush(p), UNCHANGED faults PROVE HandlingInv'
  <2>1. Types' /\ Pushing'
    BY <1>0, <1>3 DEF Types, Pushing, Active, NodePush, provVars, connVars, pipeVars, hndlVars
  <2>2. QED
    BY <1>0, <1>1, <1>2, <1>3, <2>1, HandlingKept DEF NodePush, connVars, hndlVars
<1>4. ASSUME NEW c \in Conns, NextStream(p, c), UNCHANGED faults PROVE HandlingInv'
  <2>1. PushEnd(<<p, c>>) \in Ends /\ <<p, c>> \in Tries /\ <<<<p, c>>, "out">> \in Objects
    BY TryEnds DEF Tries
  <2>2. NextId(counter[PushEnd(<<p, c>>)]) \in Ids /\ counter[PushEnd(<<p, c>>)] \in Ids
    BY <1>0, <2>1, StreamsAssumption, SMTT(30) DEF Types, NextId, Ids
  <2>3. /\ counter' \in [Ends -> Ids] /\ id' \in [Tries -> Ids]
        /\ streams' \in [Ends -> [Ids -> Objects \cup {None}]]
    BY <1>0, <1>4, <2>1, <2>2 DEF Types, NextStream
  <2>4. Types' /\ Pushing'
    BY <1>0, <1>4, <2>3, ZenonT(30) DEF Types, Pushing, Active, NextStream, connVars, pipeVars, hndlVars
  <2>5. \A x \in Tries : Committed(x) => Committed(x)'
    BY <1>0, <1>4, TryEnds DEF Types, Committed, NextStream
  <2>6. QED
    BY <1>1, <1>4, <2>4, <2>5, HandlingKept DEF NextStream, connVars, hndlVars
<1>5. ASSUME NoProviderLeft(p), UNCHANGED faults PROVE HandlingInv'
  <2>1. Types' /\ Pushing'
    BY <1>0, <1>5 DEF Types, Pushing, Active, NoProviderLeft, provVars, connVars, pipeVars, hndlVars
  <2>2. QED
    BY <1>0, <1>1, <1>2, <1>5, <2>1, HandlingKept DEF NoProviderLeft, connVars, hndlVars
<1>6. ASSUME ppc[p] \in {"header", "body", "wait", "reading"}
      PROVE  /\ cur[p] \in Conns /\ Try(p) \in Tries /\ PushEnd(Try(p)) \in Ends
             /\ <<Try(p), "out">> \in Objects /\ EndOf(<<Try(p), "out">>) = PushEnd(Try(p))
  <2>1. cur[p] \in Conns
    BY <1>0, <1>6 DEF Pushing, Active
  <2>2. Try(p) \in Tries
    BY <2>1 DEF Try, Tries
  <2>3. QED
    BY <2>1, <2>2, TryEnds
<1>7. ASSUME PushHeader(p), UNCHANGED faults PROVE HandlingInv'
  <2>1. Try(p) \in Tries /\ PushEnd(Try(p)) \in Ends /\ ppc[p] = "header" /\ cur[p] \in Conns
    BY <1>6, <1>7 DEF PushHeader
  <2>2. PICK m : m = Msg("request", Try(p), 0) /\ Send(PushEnd(Try(p)), m)
    BY <1>7 DEF PushHeader
  <2>3. m \in Message /\ m.try = Try(p)
    BY <1>0, <2>1, <2>2 DEF Types, Message, Msg
  <2>4. /\ wire' \in [Ends -> Seq(Message)]
        /\ \A f \in Ends : \A n \in Held(f)' : n \in Held(f) \/ n = m
    BY <1>0, <2>1, <2>2, <2>3, HeldSend
  <2>5. Types' /\ Pushing'
    BY <1>0, <1>7, <2>1, <2>4 DEF Types, Pushing, Active, PushHeader, provVars, pipeVars, hndlVars
  <2>6. Committed(m.try)'
    BY <1>0, <1>7, <2>1, <2>3 DEF Types, Committed, PushHeader, Try
  <2>7. \A x \in Tries : Committed(x) => Committed(x)'
    BY <1>0, <1>2, <1>7, <2>1 DEF PushHeader
  <2>8. \A f \in Ends : \A n \in Held(f)' : n \in Held(f) \/ (n.op = "request" => Committed(n.try)')
    BY <2>3, <2>4, <2>6, Zenon
  <2>9. QED
    BY <1>7, <2>5, <2>7, <2>8, HandlingKept DEF PushHeader, hndlVars
<1>8. ASSUME PushChunk(p), UNCHANGED faults PROVE HandlingInv'
  <2>1. Try(p) \in Tries /\ PushEnd(Try(p)) \in Ends /\ ppc[p] = "body" /\ cur[p] \in Conns
    BY <1>6, <1>8 DEF PushChunk
  <2>2. sent[Try(p)] \in Nat /\ Body[p] \in Nat
    BY <1>0, <2>1, StreamsAssumption DEF Types
  <2>10. PICK k \in Nat : Send(PushEnd(Try(p)), Msg("data", Try(p), k))
    BY <1>8, <2>2 DEF PushChunk
  <2>3. PICK m : m = Msg("data", Try(p), k) /\ Send(PushEnd(Try(p)), m)
    BY <2>10
  <2>4. m \in Message /\ m.op = "data"
    BY <1>0, <2>1, <2>3 DEF Types, Message, Msg
  <2>5. /\ wire' \in [Ends -> Seq(Message)]
        /\ \A f \in Ends : \A n \in Held(f)' : n \in Held(f) \/ n = m
    BY <1>0, <2>1, <2>3, <2>4, HeldSend
  <2>6. sent' \in [Tries -> Nat]
    BY <1>0, <1>8, <2>1, <2>2 DEF Types, PushChunk
  <2>7. PICK q \in {"body", "wait"} : ppc' = [ppc EXCEPT ![p] = q]
    BY <1>8 DEF PushChunk
  <2>8. Types' /\ Pushing'
    BY <1>0, <1>8, <2>1, <2>5, <2>6, <2>7 DEF Types, Pushing, Active, PushChunk, provVars, pipeVars, hndlVars
  <2>9. QED
    BY <1>0, <1>2, <1>8, <2>4, <2>5, <2>7, <2>8, HandlingKept DEF PushChunk, hndlVars
<1>9. ASSUME PushFails(p), UNCHANGED faults PROVE HandlingInv'
  <2>1. <<Try(p), "out">> \in Objects
    BY <1>6, <1>9 DEF PushFails
  <2>2. PICK q \in {"try", "failed"} : ppc' = [ppc EXCEPT ![p] = q] /\ (q = "try" => ppc[p] = "header")
    BY <1>9 DEF PushFails, AfterFailure
  <2>5. /\ closed' \in [Objects -> BOOLEAN] /\ signalled' \in [Tries -> BOOLEAN]
        /\ streams' \in [Ends -> [Ids -> Objects \cup {None}]]
    BY <1>0, <1>9, <2>1, CloseTyped DEF PushFails
  <2>3. Types' /\ Pushing'
    BY <1>0, <1>9, <2>2, <2>5 DEF Types, Pushing, Active, PushFails, connVars, hndlVars
  <2>4. QED
    BY <1>0, <1>1, <1>2, <1>9, <2>2, <2>3, HandlingKept DEF PushFails, connVars, hndlVars
<1>10. ASSUME BodyFails(p) PROVE HandlingInv'
  <2>1. <<Try(p), "out">> \in Objects
    BY <1>6, <1>10 DEF BodyFails
  <2>2. faults' \in 0 .. MaxFaults
    BY <1>0, <1>10 DEF Types, BodyFails, Fault
  <2>5. /\ closed' \in [Objects -> BOOLEAN] /\ signalled' \in [Tries -> BOOLEAN]
        /\ streams' \in [Ends -> [Ids -> Objects \cup {None}]]
    BY <1>0, <1>10, <2>1, CloseTyped DEF BodyFails
  <2>3. Types' /\ Pushing'
    BY <1>0, <1>10, <2>2, <2>5 DEF Types, Pushing, Active, BodyFails, connVars, hndlVars
  <2>4. QED
    BY <1>0, <1>1, <1>2, <1>10, <2>3, HandlingKept DEF BodyFails, connVars, hndlVars
<1>11. ASSUME PushReturn(p), UNCHANGED faults PROVE HandlingInv'
  <2>1. cur[p] \in Conns
    BY <1>6, <1>11 DEF PushReturn
  <2>2. PICK q \in {"reading", "failed"} : ppc' = [ppc EXCEPT ![p] = q]
    BY <1>11 DEF PushReturn, Returned
  <2>3. Types' /\ Pushing'
    BY <1>0, <1>11, <2>1, <2>2 DEF Types, Pushing, Active, PushReturn, provVars, connVars, pipeVars, hndlVars
  <2>4. QED
    BY <1>0, <1>1, <1>2, <1>11, <2>2, <2>3, HandlingKept DEF PushReturn, connVars, hndlVars
<1>12. ASSUME UserReads(p), UNCHANGED faults PROVE HandlingInv'
  <2>1. <<Try(p), "out">> \in Objects /\ cur[p] \in Conns /\ ppc[p] = "reading"
    BY <1>6, <1>12 DEF UserReads
  <2>2. PICK q \in {"reading", "done"} : ppc' = [ppc EXCEPT ![p] = q]
    <3>1. ppc = [ppc EXCEPT ![p] = "reading"]
      BY <1>0, <2>1 DEF Types
    <3>2. QED
      BY <1>12, <3>1 DEF UserReads
  <2>3. CASE TakeChunk(<<Try(p), "out">>)
    <3>1. /\ got' \in [Objects -> Seq(Message)]
          /\ loop' \in [Ends -> {"read", "writing", "exited"}]
          /\ chunk' \in [Ends -> (Objects \X Message) \cup {None}]
          /\ \A e \in Ends : loop'[e] = "writing" => loop[e] = "writing" /\ chunk'[e] = chunk[e]
          /\ UNCHANGED <<closed, left, eof>>
      BY <1>0, <2>1, <2>3, TakeTyped
    <3>2. Types' /\ Pushing'
      BY <1>0, <1>12, <2>1, <2>2, <3>1 DEF Types, Pushing, Active, UserReads, provVars, hndlVars
    <3>3. QED
      BY <1>0, <1>1, <1>2, <1>12, <2>2, <3>2, HandlingKept DEF UserReads, hndlVars
  <2>4. CASE ReadEOF(<<Try(p), "out">>)
    <3>1. Types' /\ Pushing'
      BY <1>0, <1>12, <2>1, <2>2, <2>4 DEF Types, Pushing, Active, UserReads, ReadEOF, provVars, hndlVars
    <3>2. QED
      BY <1>0, <1>1, <1>2, <1>12, <2>2, <3>1, HandlingKept DEF UserReads, hndlVars
  <2>5. QED
    BY <1>12, <2>3, <2>4 DEF UserReads
<1>13. ASSUME UserLeaves(p) PROVE HandlingInv'
  <2>1. <<Try(p), "out">> \in Objects /\ cur[p] \in Conns
    BY <1>6, <1>13 DEF UserLeaves
  <2>2. faults' \in 0 .. MaxFaults
    BY <1>0, <1>13 DEF Types, UserLeaves, Fault
  <2>3. Types' /\ Pushing'
    BY <1>0, <1>13, <2>1, <2>2 DEF Types, Pushing, Active, UserLeaves, Leave, provVars, hndlVars
  <2>4. QED
    BY <1>0, <1>1, <1>2, <1>13, <2>3, HandlingKept DEF UserLeaves, hndlVars
<1>14. QED
  BY <1>3, <1>4, <1>5, <1>7, <1>8, <1>9, <1>10, <1>11, <1>12, <1>13 DEF Push

\* The steps of a handler.
LEMMA HandlerHandling ==
    ASSUME HandlingInv, NEW x \in Tries,
           UNCHANGED faults /\ Handler(x)
    PROVE  HandlingInv'
<1>0. /\ Types /\ Pushing /\ MaxFaults \in Nat
      /\ <<x, "in">> \in Objects /\ EndOf(<<x, "in">>) = HandlerEnd(x)
  BY StreamsAssumption, TryEnds DEF HandlingInv
<1>1. ASSUME UNCHANGED wire PROVE \A f \in Ends : \A m \in Held(f)' : m \in Held(f)
  BY <1>1 DEF Held
<1>2. ASSUME UNCHANGED <<ppc, cur>>
      PROVE  \A y \in Tries : Committed(y) => Committed(y)'
  BY <1>2 DEF Committed
<1>3. ASSUME NEW q \in {"body", "reply", "done"}, hpc' = [hpc EXCEPT ![x] = q], hpc[x] # "none"
      PROVE  /\ hpc' \in [Tries -> {"none", "spawned", "body", "reply", "done"}]
             /\ \A y \in Tries : hpc'[y] # "none" => hpc[y] # "none" \/ Committed(y)
  BY <1>0, <1>3 DEF Types
<1>4. ASSUME HandlerStarts(x), UNCHANGED faults PROVE HandlingInv'
  <2>1. PICK q \in {"body", "reply"} : hpc' = [hpc EXCEPT ![x] = q]
    BY <1>4 DEF HandlerStarts, HandlerGoes
  <2>2. /\ hpc' \in [Tries -> {"none", "spawned", "body", "reply", "done"}]
        /\ \A y \in Tries : hpc'[y] # "none" => hpc[y] # "none" \/ Committed(y)
    BY <1>3, <1>4, <2>1 DEF HandlerStarts
  <2>3. Types' /\ Pushing'
    BY <1>0, <1>4, <2>2 DEF Types, Pushing, Active, HandlerStarts, provVars, connVars, pipeVars, pushVars
  <2>4. QED
    BY <1>1, <1>2, <1>4, <2>2, <2>3, HandlingKept DEF HandlerStarts, connVars, pushVars
<1>5. ASSUME HandlerReads(x), UNCHANGED faults PROVE HandlingInv'
  <2>1. PICK q \in {"body", "reply"} : hpc' = [hpc EXCEPT ![x] = q]
    BY <1>5 DEF HandlerReads, HandlerGoes
  <2>2. /\ hpc' \in [Tries -> {"none", "spawned", "body", "reply", "done"}]
        /\ \A y \in Tries : hpc'[y] # "none" => hpc[y] # "none" \/ Committed(y)
    BY <1>3, <1>5, <2>1 DEF HandlerReads
  <2>3. Types' /\ Pushing'
    <3>1. CASE TakeChunk(<<x, "in">>)
      <4>1. /\ got' \in [Objects -> Seq(Message)]
            /\ loop' \in [Ends -> {"read", "writing", "exited"}]
            /\ chunk' \in [Ends -> (Objects \X Message) \cup {None}]
            /\ \A e \in Ends : loop'[e] = "writing" => loop[e] = "writing" /\ chunk'[e] = chunk[e]
            /\ UNCHANGED <<closed, left, eof>>
        BY <1>0, <3>1, TakeTyped
      <4>2. QED
        BY <1>0, <1>5, <2>2, <4>1 DEF Types, Pushing, Active, HandlerReads, provVars, pushVars
    <3>2. CASE ReadEOF(<<x, "in">>)
      BY <1>0, <1>5, <2>2, <3>2 DEF Types, Pushing, Active, HandlerReads, ReadEOF, provVars, pushVars
    <3>3. QED
      BY <1>5, <3>1, <3>2 DEF HandlerReads
  <2>4. QED
    BY <1>1, <1>2, <1>5, <2>2, <2>3, HandlingKept DEF HandlerReads, pushVars
<1>6. ASSUME HandlerWrites(x), UNCHANGED faults PROVE HandlingInv'
  <2>1. PICK e : e = <<hconn[x], HandlerEnd(x)[2]>>
    OBVIOUS
  <2>2. e \in Ends
    BY <1>0, <2>1, TryEnds DEF Types, Ends
  <2>3. hsent[x] \in Nat
    BY <1>0 DEF Types
  <2>4. PICK op \in {"response", "data"}, k \in Nat : Send(e, Msg(op, x, k))
    BY <1>6, <2>1, <2>3 DEF HandlerWrites, ReplyOp
  <2>5. PICK m : m = Msg(op, x, k)
    OBVIOUS
  <2>6. m \in Message /\ m.op # "request" /\ Send(e, m)
    BY <1>0, <2>4, <2>5 DEF Types, Message, Msg
  <2>7. /\ wire' \in [Ends -> Seq(Message)]
        /\ \A f \in Ends : \A n \in Held(f)' : n \in Held(f) \/ n = m
    BY <1>0, <2>2, <2>6, HeldSend
  <2>8. hsent' \in [Tries -> Nat] /\ left' \in [Objects -> BOOLEAN]
    BY <1>0, <1>6, <2>3 DEF Types, HandlerWrites
  <2>9. PICK q \in {"body", "reply", "done"} : hpc' = [hpc EXCEPT ![x] = q]
    BY <1>6 DEF HandlerWrites, HandlerGoes
  <2>10. /\ hpc' \in [Tries -> {"none", "spawned", "body", "reply", "done"}]
         /\ \A y \in Tries : hpc'[y] # "none" => hpc[y] # "none" \/ Committed(y)
    BY <1>3, <1>6, <2>9 DEF HandlerWrites
  <2>11. Types' /\ Pushing'
    BY <1>0, <1>6, <2>7, <2>8, <2>10 DEF Types, Pushing, Active, HandlerWrites, provVars, pushVars
  <2>12. QED
    BY <1>2, <1>6, <2>6, <2>7, <2>10, <2>11, HandlingKept DEF HandlerWrites, pushVars
<1>7. ASSUME HandlerFails(x), UNCHANGED faults PROVE HandlingInv'
  <2>1. /\ closed' \in [Objects -> BOOLEAN] /\ signalled' \in [Tries -> BOOLEAN]
        /\ streams' \in [Ends -> [Ids -> Objects \cup {None}]]
    BY <1>0, <1>7, CloseTyped DEF HandlerFails
  <2>2. left' \in [Objects -> BOOLEAN]
    BY <1>0, <1>7 DEF Types, HandlerFails
  <2>3. Types' /\ Pushing'
    BY <1>0, <1>3, <1>7, <2>1, <2>2, Zenon DEF Types, Pushing, Active, HandlerFails, connVars, pushVars
  <2>4. QED
    BY <1>0, <1>1, <1>2, <1>3, <1>7, <2>3, HandlingKept DEF HandlerFails, connVars, pushVars
<1>8. QED
  BY <1>4, <1>5, <1>6, <1>7 DEF Handler

\* The steps of a read loop and of the end of a connection.
LEMMA LoopHandling ==
    ASSUME HandlingInv, NEW e \in Ends,
           \/ UNCHANGED faults /\ (ReadLoop(e) \/ ReadFails(e) \/ ProviderClose(e))
           \/ NetworkFails(e) \/ CloseWriter(e)
    PROVE  HandlingInv'
<1>0. /\ Types /\ Pushing /\ MaxFaults \in Nat /\ Other(e) \in Ends
  BY StreamsAssumption, OtherEnd DEF HandlingInv
<1>1. \A y \in Tries : Committed(y) => Committed(y)'
  BY Zenon DEF Committed, ReadLoop, HandleRequest, HandleResponse, HandleData, HandleUnknown, WriteFails,
         MessageRefused, ReadFails, ProviderClose, NetworkFails, CloseWriter, pushVars
<1>2. ASSUME NEW op, Received(e, op)
      PROVE  /\ hconn' \in [Tries -> Conns] /\ wire[Other(e)] # <<>> /\ loop[e] = "read"
             /\ Head(wire[Other(e)]).op = op
  BY <1>0, <1>2, AcquireTyped DEF Received
<1>3. ASSUME wire[Other(e)] # <<>>
      PROVE  /\ Head(wire[Other(e)]) \in Held(Other(e)) /\ Head(wire[Other(e)]) \in Message
             /\ Head(wire[Other(e)]).try \in Tries /\ Head(wire[Other(e)]).id \in Ids
  <2>1. Head(wire[Other(e)]) \in Held(Other(e))
    BY <1>0, <1>3, HeldConsumed
  <2>2. QED
    BY <1>0, <2>1, HeldTyped
<1>4. ASSUME HandleRequest(e), UNCHANGED faults PROVE HandlingInv'
  <2>1. PICK m : m = Head(wire[Other(e)])
    OBVIOUS
  <2>2. /\ hconn' \in [Tries -> Conns] /\ wire[Other(e)] # <<>> /\ m.op = "request" /\ loop[e] = "read"
    BY <1>2, <1>4, <2>1 DEF HandleRequest
  <2>3. m \in Held(Other(e)) /\ m \in Message /\ m.try \in Tries /\ m.id \in Ids
    BY <1>3, <2>1, <2>2
  <2>4. <<m.try, "in">> \in Objects /\ Committed(m.try)
    BY <1>0, <2>2, <2>3, TryEnds DEF HandlingInv, Handling
  <2>5. streams' \in [Ends -> [Ids -> Objects \cup {None}]]
    BY <1>0, <1>4, <2>1, <2>3, <2>4 DEF Types, HandleRequest
  <2>6. UNCHANGED <<counter, chunk, pipeVars, header, signalled, pushVars, hsent, faults>>
    BY <1>4 DEF HandleRequest
  <2>7. CASE /\ hpc' = [hpc EXCEPT ![m.try] = "spawned"]
             /\ wire' = Consumed(e) /\ UNCHANGED <<loop, life>>
    <3>1. wire' \in [Ends -> Seq(Message)] /\ \A f \in Ends : \A n \in Held(f)' : n \in Held(f)
      BY <1>0, <2>2, <2>7, HeldConsumes
    <3>2. Types' /\ Pushing'
      BY <1>0, <2>2, <2>3, <2>5, <2>6, <2>7, <3>1 DEF Types, Pushing, Active, pipeVars, pushVars
    <3>3. \A y \in Tries : hpc'[y] # "none" => hpc[y] # "none" \/ Committed(y)
      BY <1>0, <2>3, <2>4, <2>7 DEF Types
    <3>4. QED
      BY <1>1, <3>1, <3>2, <3>3, HandlingKept
  <2>8. CASE /\ UNCHANGED <<hpc, loop, life>>
             /\ wire' = Sent(Consumed(e), e, [m EXCEPT !.op = "response", !.handled = FALSE])
    <3>1. PICK r : r = [m EXCEPT !.op = "response", !.handled = FALSE]
      OBVIOUS
    <3>2. r \in Message /\ r.op = "response"
      BY <2>3, <3>1 DEF Message
    <3>3. /\ wire' \in [Ends -> Seq(Message)]
          /\ \A f \in Ends : \A n \in Held(f)' : n \in Held(f) \/ n = r
      BY <1>0, <2>2, <2>8, <3>1, <3>2, HeldAnswer
    <3>4. Types' /\ Pushing'
      BY <1>0, <2>2, <2>5, <2>6, <2>8, <3>3 DEF Types, Pushing, Active, pipeVars, pushVars
    <3>5. QED
      BY <1>1, <2>8, <3>2, <3>3, <3>4, HandlingKept
  <2>9. CASE UNCHANGED hpc /\ Exit(e)
    <3>1. /\ wire' \in [Ends -> Seq(Message)] /\ \A f \in Ends : \A n \in Held(f)' : n \in Held(f)
          /\ loop' = [loop EXCEPT ![e] = "exited"]
          /\ loop' \in [Ends -> {"read", "writing", "exited"}]
          /\ life' \in [Ends -> {"up", "closing", "closed"}]
      BY <1>0, <2>9, HeldExit
    <3>2. Types' /\ Pushing'
      BY <1>0, <2>2, <2>5, <2>6, <2>9, <3>1 DEF Types, Pushing, Active, pipeVars, pushVars
    <3>3. QED
      BY <1>1, <2>9, <3>1, <3>2, HandlingKept
  <2>10. QED
    BY <1>4, <2>1, <2>7, <2>8, <2>9 DEF HandleRequest
<1>5. ASSUME wire[Other(e)] # <<>>, Exists(e)
      PROVE  streams[e][Head(wire[Other(e)]).id] \in Objects
  BY <1>0, <1>3, <1>5 DEF Types, Exists
<1>6. ASSUME HandleResponse(e), UNCHANGED faults PROVE HandlingInv'
  <2>1. hconn' \in [Tries -> Conns] /\ wire[Other(e)] # <<>>
    BY <1>2, <1>6 DEF HandleResponse
  <2>2. PICK o \in Objects : o = streams[e][Head(wire[Other(e)]).id]
    BY <1>5, <1>6, <2>1 DEF HandleResponse
  <2>3. o[1] \in Tries
    BY ObjectEnds, SMTT(30)
  <2>4. header' \in [Tries -> {"nil", "handled", "unhandled"}] /\ signalled' \in [Tries -> BOOLEAN]
    BY <1>0, <1>6, <2>2, <2>3 DEF Types, HandleResponse, Done
  <2>5. wire' \in [Ends -> Seq(Message)] /\ \A f \in Ends : \A n \in Held(f)' : n \in Held(f)
    BY <1>0, <1>6, <2>1, HeldConsumes DEF HandleResponse
  <2>6. Types' /\ Pushing'
    BY <1>0, <1>6, <2>1, <2>4, <2>5, Zenon DEF Types, Pushing, Active, HandleResponse, provVars, pipeVars, pushVars
  <2>7. QED
    BY <1>1, <1>6, <2>5, <2>6, HandlingKept DEF HandleResponse
<1>7. ASSUME HandleData(e), UNCHANGED faults PROVE HandlingInv'
  <2>1. hconn' \in [Tries -> Conns] /\ wire[Other(e)] # <<>>
    BY <1>2, <1>7 DEF HandleData
  <2>2. PICK m, o : m = Head(wire[Other(e)]) /\ o = streams[e][m.id]
    OBVIOUS
  <2>3. o \in Objects /\ m \in Message
    BY <1>3, <1>5, <1>7, <2>1, <2>2 DEF HandleData
  <2>4. CASE CloseStream(o) /\ wire' = Consumed(e)
             /\ UNCHANGED <<counter, life, loop, chunk, left, got, eof, header, pushVars, hpc, hsent>>
    <3>1. wire' \in [Ends -> Seq(Message)] /\ \A f \in Ends : \A n \in Held(f)' : n \in Held(f)
      BY <1>0, <2>1, <2>4, HeldConsumes
    <3>2. /\ closed' \in [Objects -> BOOLEAN] /\ signalled' \in [Tries -> BOOLEAN]
          /\ streams' \in [Ends -> [Ids -> Objects \cup {None}]]
      BY <1>0, <2>3, <2>4, CloseTyped
    <3>3. Types' /\ Pushing'
      BY <1>0, <1>7, <2>1, <2>4, <3>1, <3>2 DEF Types, Pushing, Active, pushVars
    <3>4. QED
      BY <1>1, <2>4, <3>1, <3>3, HandlingKept
  <2>5. CASE /\ wire' = Consumed(e)
             /\ loop' = [loop EXCEPT ![e] = "writing"]
             /\ chunk' = [chunk EXCEPT ![e] = <<o, m>>]
             /\ UNCHANGED <<provVars, life, pipeVars, header, signalled, pushVars, hpc, hsent>>
    <3>1. wire' \in [Ends -> Seq(Message)] /\ \A f \in Ends : \A n \in Held(f)' : n \in Held(f)
      BY <1>0, <2>1, <2>5, HeldConsumes
    <3>2. <<o, m>> \in Objects \X Message
      BY <2>3
    <3>3. Types' /\ Pushing'
      BY <1>0, <1>7, <2>1, <2>5, <3>1, <3>2 DEF Types, Pushing, Active, provVars, pipeVars, pushVars
    <3>4. QED
      BY <1>1, <2>5, <3>1, <3>3, HandlingKept
  <2>6. CASE CloseStream(o) /\ MessageRefused(e)
    <3>1. /\ wire' \in [Ends -> Seq(Message)] /\ \A f \in Ends : \A n \in Held(f)' : n \in Held(f)
          /\ loop' = [loop EXCEPT ![e] = "exited"]
          /\ loop' \in [Ends -> {"read", "writing", "exited"}]
          /\ life' \in [Ends -> {"up", "closing", "closed"}]
      BY <1>0, <2>6, HeldExit DEF MessageRefused
    <3>2. /\ closed' \in [Objects -> BOOLEAN] /\ signalled' \in [Tries -> BOOLEAN]
          /\ streams' \in [Ends -> [Ids -> Objects \cup {None}]]
      BY <1>0, <2>3, <2>6, CloseTyped
    <3>3. Types' /\ Pushing'
      BY <1>0, <1>7, <2>1, <2>6, <3>1, <3>2 DEF Types, Pushing, Active, pushVars, MessageRefused
    <3>4. QED
      BY <1>1, <2>6, <3>1, <3>3, HandlingKept DEF MessageRefused
  <2>7. QED
    BY <1>7, <2>2, <2>4, <2>5, <2>6 DEF HandleData
<1>8. ASSUME HandleUnknown(e), UNCHANGED faults PROVE HandlingInv'
  <2>1. hconn' \in [Tries -> Conns]
    BY <1>2, <1>8 DEF HandleUnknown
  <2>2. /\ wire' \in [Ends -> Seq(Message)] /\ \A f \in Ends : \A n \in Held(f)' : n \in Held(f)
        /\ loop' = [loop EXCEPT ![e] = "exited"]
        /\ loop' \in [Ends -> {"read", "writing", "exited"}]
        /\ life' \in [Ends -> {"up", "closing", "closed"}]
    BY <1>0, <1>8, HeldExit DEF MessageRefused, HandleUnknown
  <2>3. Types' /\ Pushing'
    BY <1>0, <1>8, <2>1, <2>2 DEF Types, Pushing, Active, pushVars, MessageRefused, HandleUnknown
  <2>4. QED
    BY <1>1, <1>8, <2>2, <2>3, HandlingKept DEF MessageRefused, HandleUnknown
<1>9. ASSUME WriteFails(e), UNCHANGED faults PROVE HandlingInv'
  <2>1. chunk[e][1] \in Objects
    BY <1>0, <1>9 DEF WriteFails, Pushing
  <2>2. /\ wire' \in [Ends -> Seq(Message)] /\ \A f \in Ends : \A n \in Held(f)' : n \in Held(f)
        /\ loop' = [loop EXCEPT ![e] = "exited"]
        /\ loop' \in [Ends -> {"read", "writing", "exited"}]
        /\ life' \in [Ends -> {"up", "closing", "closed"}]
    BY <1>0, <1>9, HeldExit DEF WriteFails
  <2>3. /\ closed' \in [Objects -> BOOLEAN] /\ signalled' \in [Tries -> BOOLEAN]
        /\ streams' \in [Ends -> [Ids -> Objects \cup {None}]]
    BY <1>0, <1>9, <2>1, CloseTyped DEF WriteFails
  <2>4. Types' /\ Pushing'
    BY <1>0, <1>9, <2>2, <2>3 DEF Types, Pushing, Active, pushVars, hndlVars, WriteFails
  <2>5. QED
    BY <1>1, <1>9, <2>2, <2>4, HandlingKept DEF WriteFails, hndlVars
<1>10. ASSUME \/ UNCHANGED faults /\ ReadFails(e)
              \/ NetworkFails(e)
       PROVE  HandlingInv'
  <2>1. /\ wire' \in [Ends -> Seq(Message)] /\ \A f \in Ends : \A n \in Held(f)' : n \in Held(f)
        /\ loop' = [loop EXCEPT ![e] = "exited"]
        /\ loop' \in [Ends -> {"read", "writing", "exited"}]
        /\ life' \in [Ends -> {"up", "closing", "closed"}]
    BY <1>0, <1>10, HeldExit DEF ReadFails, NetworkFails
  <2>2. UNCHANGED <<provVars, chunk, pipeVars, header, signalled, pushVars, hndlVars>>
    BY <1>10 DEF ReadFails, NetworkFails
  <2>3. faults' \in 0 .. MaxFaults
    BY <1>0, <1>10 DEF Types, NetworkFails, Fault
  <2>4. Types' /\ Pushing'
    BY <1>0, <2>1, <2>2, <2>3 DEF Types, Pushing, Active, provVars, pipeVars, pushVars, hndlVars
  <2>5. QED
    BY <1>1, <2>1, <2>2, <2>4, HandlingKept DEF hndlVars
<1>11. ASSUME CloseWriter(e) PROVE HandlingInv'
  <2>1. faults' \in 0 .. MaxFaults
    BY <1>0, <1>11 DEF Types, CloseWriter, Fault
  <2>2. Types' /\ Pushing'
    BY <1>0, <1>11, <2>1 DEF Types, Pushing, Active, CloseWriter, provVars, pipeVars, pushVars, hndlVars
  <2>3. QED
    BY <1>1, <1>11, <2>2, HandlingKept DEF CloseWriter, hndlVars, Held
<1>12. ASSUME ProviderClose(e), UNCHANGED faults PROVE HandlingInv'
  <2>1. /\ closed' \in [Objects -> BOOLEAN] /\ signalled' \in [Tries -> BOOLEAN]
        /\ streams' \in [Ends -> [Ids -> Objects \cup {None}]]
        /\ life' \in [Ends -> {"up", "closing", "closed"}]
    BY <1>0, <1>12 DEF Types, ProviderClose, Done
  <2>2. Types' /\ Pushing'
    BY <1>0, <1>12, <2>1 DEF Types, Pushing, Active, ProviderClose, pushVars, hndlVars
  <2>3. QED
    BY <1>1, <1>12, <2>2, HandlingKept DEF ProviderClose, hndlVars, Held
<1>13. QED
  BY <1>4, <1>6, <1>7, <1>8, <1>9, <1>10, <1>11, <1>12 DEF ReadLoop

\* HandledOnce rests on an invariant: it holds initially and every step keeps it.
LEMMA HandlingInit == Init => HandlingInv
<1> SUFFICES ASSUME Init PROVE HandlingInv
  OBVIOUS
<1>1. \A e \in Ends : FirstId(e) \in Ids
  BY StreamsAssumption, Parity DEF Ids
<1>2. \A x \in Tries : x[2] \in Conns
  BY TryEnds
<1>3. Types
  BY <1>1, <1>2, StreamsAssumption DEF Init, Types, Ids
<1>4. Pushing
  BY DEF Init, Pushing, Active
<1>5. Handling
  BY DEF Init, Handling, Held
<1>6. QED
  BY <1>3, <1>4, <1>5 DEF HandlingInv

\* Every step keeps it.
LEMMA HandlingNext == HandlingInv /\ [Next]_vars => HandlingInv'
<1> SUFFICES ASSUME HandlingInv, [Next]_vars PROVE HandlingInv'
  OBVIOUS
<1>1. CASE UNCHANGED vars
  BY <1>1 DEF vars, provVars, connVars, pipeVars, pushVars, hndlVars, HandlingInv, Types, Pushing, Active,
              Handling, Held, Committed
<1>2. CASE Next
  BY <1>2, PushHandling, HandlerHandling, LoopHandling DEF Next, Progress
<1>3. QED
  BY <1>1, <1>2

\* Requests and handlers are of committed tries in every state.
THEOREM HandlingInvariance == Spec => []HandlingInv
BY HandlingInit, HandlingNext, PTL DEF Spec

\* StreamNode.Push hands a request to one handler at most, also when it has gone
\* through several providers and connections end meanwhile.
THEOREM HandledOnceCorrect == Spec => []HandledOnce
<1>1. ASSUME HandlingInv, NEW p \in Requests
      PROVE  Cardinality({c \in Conns : hpc[<<p, c>>] # "none"}) <= 1
  <2> DEFINE H == {c \in Conns : hpc[<<p, c>>] # "none"}
  <2>1. \A c \in H : c = cur[p]
    BY <1>1 DEF HandlingInv, Handling, Committed, Tries
  <2>2. IsFiniteSet({cur[p]}) /\ Cardinality({cur[p]}) = 1
    BY FS_Singleton
  <2>3. H \subseteq {cur[p]}
    BY <2>1
  <2>4. Cardinality(H) <= Cardinality({cur[p]})
    BY <2>2, <2>3, FS_Subset
  <2>5. QED
    BY <2>2, <2>4
<1>2. HandlingInv => HandledOnce
  BY <1>1 DEF HandledOnce
<1>3. QED
  BY <1>2, HandlingInvariance, PTL

-----------------------------------------------------------------------------
\* Ids never collide.

\* Appending keeps a request unique that is not there yet.
LEMMA UniqueAppend ==
    ASSUME NEW s \in Seq(Message), NEW m \in Message, UniqueIn(s),
           m.op = "request" => \A i \in 1 .. Len(s) : s[i].op = "request" => s[i].try # m.try
    PROVE  UniqueIn(Append(s, m))
<1>1. /\ Len(Append(s, m)) = Len(s) + 1 /\ Append(s, m)[Len(s) + 1] = m /\ Len(s) \in Nat
      /\ \A i \in 1 .. Len(s) : Append(s, m)[i] = s[i]
  BY AppendAt
<1>2. PICK a, n : a = Append(s, m) /\ n = Len(s)
  OBVIOUS
<1>3. /\ Len(a) = n + 1 /\ a[n + 1] = m /\ n \in Nat /\ \A i \in 1 .. n : a[i] = s[i]
  BY <1>1, <1>2
<1>4. ASSUME NEW i \in 1 .. Len(a), NEW j \in 1 .. Len(a),
             a[i].op = "request", a[j].op = "request", a[i].try = a[j].try
      PROVE  i = j
  <2>1. (i \in 1 .. n \/ i = n + 1) /\ (j \in 1 .. n \/ j = n + 1)
    BY <1>3
  <2>2. CASE i \in 1 .. n /\ j \in 1 .. n
    BY <1>2, <1>3, <1>4, <2>2 DEF UniqueIn
  <2>3. CASE i \in 1 .. n /\ j = n + 1
    BY <1>2, <1>3, <1>4, <2>3
  <2>4. CASE i = n + 1 /\ j \in 1 .. n
    BY <1>2, <1>3, <1>4, <2>4
  <2>5. QED
    BY <2>1, <2>2, <2>3, <2>4
<1>5. UniqueIn(a)
  BY <1>4 DEF UniqueIn
<1>6. QED
  BY <1>2, <1>5

\* Taking the first message keeps requests unique; a request that is taken is gone.
LEMMA UniqueTail ==
    ASSUME NEW s \in Seq(Message), s # <<>>, UniqueIn(s)
    PROVE  /\ UniqueIn(Tail(s))
           /\ Head(s).op = "request" =>
                \A i \in 1 .. Len(Tail(s)) : Tail(s)[i].op = "request" => Tail(s)[i].try # Head(s).try
<1>1. /\ Len(Tail(s)) = Len(s) - 1 /\ Len(s) \in Nat /\ Len(s) >= 1 /\ Head(s) = s[1]
      /\ \A i \in 1 .. Len(s) - 1 : Tail(s)[i] = s[i + 1]
  BY TailAt
<1>2. PICK t, n : t = Tail(s) /\ n = Len(s)
  OBVIOUS
<1>3. /\ Len(t) = n - 1 /\ n \in Nat /\ n >= 1 /\ \A i \in 1 .. n - 1 : t[i] = s[i + 1]
  BY <1>1, <1>2
<1>4. ASSUME NEW i \in 1 .. Len(t)
      PROVE  i \in Int /\ i + 1 \in 1 .. n /\ i + 1 # 1 /\ t[i] = s[i + 1]
  BY <1>3, <1>4
<1>5. ASSUME NEW i \in 1 .. Len(t), NEW j \in 1 .. Len(t),
             t[i].op = "request", t[j].op = "request", t[i].try = t[j].try
      PROVE  i = j
  <2>1. i + 1 = j + 1
    BY <1>2, <1>4, <1>5 DEF UniqueIn
  <2>2. QED
    BY <1>4, <2>1
<1>6. ASSUME s[1].op = "request", NEW i \in 1 .. Len(t), t[i].op = "request"
      PROVE  t[i].try # s[1].try
  BY <1>2, <1>3, <1>4, <1>6 DEF UniqueIn
<1>7. UniqueIn(t)
  BY <1>5 DEF UniqueIn
<1>8. QED
  BY <1>1, <1>2, <1>6, <1>7

\* Sockets keep requests unique: a Send of something else,
LEMMA UniqueSend ==
    ASSUME Types, NEW e \in Ends, NEW m \in Message, Send(e, m), \A f \in Ends : UniqueIn(wire[f]),
           m.op = "request" => \A n \in Held(e) : n.op = "request" => n.try # m.try
    PROVE  \A f \in Ends : UniqueIn(wire'[f])
<1>1. wire \in [Ends -> Seq(Message)] /\ wire[e] \in Seq(Message)
  BY DEF Types
<1>2. UniqueIn(Append(wire[e], m))
  BY <1>1, UniqueAppend DEF Held
<1>3. wire' = wire \/ wire' = [wire EXCEPT ![e] = Append(@, m)]
  BY DEF Send, Sent
<1>4. QED
  BY <1>1, <1>2, <1>3

\* a message that is taken,
LEMMA UniqueConsumed ==
    ASSUME Types, NEW e \in Ends, wire[Other(e)] # <<>>, \A f \in Ends : UniqueIn(wire[f])
    PROVE  /\ \A f \in Ends : UniqueIn(Consumed(e)[f])
           /\ Head(wire[Other(e)]).op = "request" =>
                \A i \in 1 .. Len(Consumed(e)[Other(e)]) :
                   Consumed(e)[Other(e)][i].op = "request" =>
                     Consumed(e)[Other(e)][i].try # Head(wire[Other(e)]).try
<1>1. wire[Other(e)] \in Seq(Message) /\ Other(e) \in Ends
  BY OtherEnd DEF Types
<1>2. /\ UniqueIn(Tail(wire[Other(e)]))
      /\ Head(wire[Other(e)]).op = "request" =>
           \A i \in 1 .. Len(Tail(wire[Other(e)])) :
              Tail(wire[Other(e)])[i].op = "request" =>
                Tail(wire[Other(e)])[i].try # Head(wire[Other(e)]).try
  BY <1>1, UniqueTail
<1>3. /\ Consumed(e)[Other(e)] = Tail(wire[Other(e)])
      /\ \A f \in Ends : f # Other(e) => Consumed(e)[f] = wire[f]
  BY HeldConsumed
<1>4. QED
  BY <1>2, <1>3

\* and a socket that is emptied.
LEMMA UniqueExit ==
    ASSUME Types, NEW e \in Ends, Exit(e), \A f \in Ends : UniqueIn(wire[f])
    PROVE  \A f \in Ends : UniqueIn(wire'[f])
<1>1. UniqueIn(<<>>)
  BY DEF UniqueIn
<1>2. QED
  BY <1>1, HeldExit

\* What keeps IdsOf in every step that starts no stream.
LEMMA IdsKept ==
    ASSUME HandlingInv, Types', NEW S \in SUBSET Tries, IdsOf(S), UNCHANGED <<counter, id>>,
           \A p \in Requests : /\ ppc[p] # "idle" => ppc'[p] # "idle" /\ todo'[p] \subseteq todo[p]
                               /\ ppc'[p] \in Active => ppc[p] \in Active /\ cur'[p] = cur[p],
           \A x \in Tries : Committed(x) => Committed(x)',
           \A f \in Ends : \A m \in Held(f)' :
              \/ m \in Held(f)
              \/ /\ m.try \in S /\ m.id = id[m.try]
                 /\ m.op = "request" => PushEnd(m.try) = f /\ ~Committed(m.try),
           \A f \in Ends : UniqueIn(wire'[f]),
           \A x \in Tries : hpc'[x] # "none" => hpc[x] # "none" \/ (x \in S /\ ~Requested(x)'),
           \A e \in Ends, i \in Ids :
              \/ streams'[e][i] = streams[e][i] \/ streams'[e][i] = None
              \/ \E x \in S : /\ streams'[e][i] = <<x, "in">> /\ HandlerEnd(x) = e /\ id[x] = i
                              /\ Committed(x) /\ ~Requested(x)'
    PROVE  IdsOf(S)'
<1>0. Types /\ Handling /\ Numbered(S) /\ Addressed(S) /\ Entries(S) /\ Running(S)
  BY DEF HandlingInv, IdsOf
<1>1. ASSUME NEW x \in Tries, Committed(x), ~Requested(x)
      PROVE  ~Requested(x)'
  <2>1. ASSUME NEW m \in Held(PushEnd(x))', m.op = "request", m.try = x
        PROVE  FALSE
    BY <1>1, <2>1, TryEnds DEF Requested
  <2>2. QED
    BY <2>1 DEF Requested
<1>2. Numbered(S)'
  <2>1. \A x \in S : x[2] \notin todo'[x[1]] /\ ppc'[x[1]] # "idle"
    BY <1>0, TryEnds DEF Numbered
  <2>2. \A p \in Requests : ppc'[p] \in Active => Try(p)' \in S
    BY <1>0 DEF Numbered, Try
  <2>3. QED
    BY <1>0, <2>1, <2>2 DEF Numbered
<1>3. Addressed(S)'
  BY <1>0 DEF Addressed
<1>4. Entries(S)'
  <2>1. ASSUME NEW e \in Ends, NEW i \in Ids, NEW o \in Objects, streams'[e][i] = o
        PROVE  /\ o[1] \in S /\ EndOf(o) = e /\ id[o[1]] = i
               /\ o[2] = "in" => Committed(o[1])' /\ ~Requested(o[1])'
    <3>2. CASE o = streams[e][i]
      <4>1. o[1] \in S /\ EndOf(o) = e /\ id[o[1]] = i
        BY <1>0, <2>1, <3>2 DEF Entries
      <4>2. ASSUME o[2] = "in" PROVE Committed(o[1])' /\ ~Requested(o[1])'
        <5>1. Committed(o[1]) /\ ~Requested(o[1]) /\ o[1] \in Tries
          BY <1>0, <2>1, <3>2, <4>1, <4>2 DEF Entries
        <5>2. QED
          BY <1>1, <5>1
      <4>3. QED
        BY <4>1, <4>2
    <3>3. CASE \E x \in S : /\ o = <<x, "in">> /\ HandlerEnd(x) = e /\ id[x] = i
                            /\ Committed(x) /\ ~Requested(x)'
      <4>1. PICK x \in S : /\ o = <<x, "in">> /\ HandlerEnd(x) = e /\ id[x] = i
                           /\ Committed(x) /\ ~Requested(x)'
        BY <3>3
      <4>2. o[1] = x /\ EndOf(o) = e /\ Committed(x)'
        BY <4>1, TryEnds
      <4>3. QED
        BY <4>1, <4>2
    <3>4. QED
      BY <2>1, <3>2, <3>3, StreamsAssumption, ZenonT(30)
  <2>2. QED
    BY <2>1 DEF Entries
<1>5. Running(S)'
  <2>1. ASSUME NEW x \in Tries, hpc'[x] # "none"
        PROVE  x \in S /\ ~Requested(x)'
    <3>1. CASE hpc[x] # "none"
      BY <1>0, <1>1, <3>1 DEF Running, Handling
    <3>2. CASE hpc[x] = "none"
      BY <2>1, <3>2
    <3>3. QED
      BY <3>1, <3>2
  <2>2. QED
    BY <2>1 DEF Running
<1>6. QED
  BY <1>2, <1>3, <1>4, <1>5 DEF IdsOf

\* Numbers below the modulus are their own remainders.
LEMMA ModSmall == ASSUME NEW a \in Nat, NEW m \in Nat \ {0}, a < m PROVE a % m = a
OBVIOUS

\* The requests that have been pushed over a connection are finitely many.
LEMMA StartedFinite ==
    ASSUME NEW S \in SUBSET Tries, NEW e \in Ends
    PROVE  /\ IsFiniteSet(Started(S, e)) /\ Pos(S, e) \in Nat /\ Pos(S, e) <= Cardinality(Requests)
           /\ Cardinality(Requests) \in Nat
           /\ (\E p \in Requests : p \notin Started(S, e)) => Pos(S, e) < Cardinality(Requests)
<1>1. IsFiniteSet(Requests) /\ Started(S, e) \subseteq Requests
  BY StreamsAssumption DEF Started
<1>2. /\ IsFiniteSet(Started(S, e)) /\ Pos(S, e) <= Cardinality(Requests)
      /\ Pos(S, e) = Cardinality(Requests) => Started(S, e) = Requests
  BY <1>1, FS_Subset DEF Pos
<1>3. Pos(S, e) \in Nat /\ Cardinality(Requests) \in Nat
  BY <1>1, <1>2, FS_CardinalityType DEF Pos
<1>4. QED
  BY <1>2, <1>3

\* NextStream: one more try is started, with an id that none of its end has.
LEMMA NextStreamIds ==
    ASSUME HandlingInv, HandlingInv', NEW S \in SUBSET Tries, IdsOf(S),
           NEW p \in Requests, NEW c \in Conns, NextStream(p, c)
    PROVE  IdsOf(S \cup {<<p, c>>})'
<1>0. Types /\ Handling /\ Numbered(S) /\ Addressed(S) /\ Entries(S) /\ Running(S)
  BY DEF HandlingInv, IdsOf
<1>1. PICK x \in Tries : x = <<p, c>>
  BY DEF Tries
<1>2. PICK e \in Ends : e = PushEnd(x) /\ e[1] = c
  BY <1>1, TryEnds
<1>3. /\ x \notin S /\ ppc[p] = "try" /\ c \in todo[p]
  BY <1>0, <1>1 DEF Numbered, NextStream
<1>4. /\ ppc' = [ppc EXCEPT ![p] = "header"] /\ todo' = [todo EXCEPT ![p] = @ \ {c}]
      /\ cur' = [cur EXCEPT ![p] = c] /\ id' = [id EXCEPT ![x] = counter[e]]
      /\ counter' = [counter EXCEPT ![e] = NextId(@)]
      /\ streams' = [streams EXCEPT ![e][counter[e]] = <<x, "out">>]
      /\ UNCHANGED <<wire, hpc>>
  BY <1>1, <1>2 DEF NextStream, connVars, hndlVars
<1> DEFINE T == S \cup {x}
<1>5. T \in SUBSET Tries
  OBVIOUS
<1>6. Started(T, e) = Started(S, e) \cup {p} /\ p \notin Started(S, e)
  <2>1. p \notin Started(S, e)
    BY <1>1, <1>2, <1>3 DEF Started
  <2>2. ASSUME NEW q PROVE q \in Started(T, e) <=> q \in Started(S, e) \/ q = p
    BY <1>1, <1>2 DEF Started
  <2>3. QED
    BY <2>1, <2>2
<1>7. ASSUME NEW f \in Ends, f # e PROVE Started(T, f) = Started(S, f)
  BY <1>1, <1>2, <1>7 DEF Started
<1>8. PICK n \in Nat : /\ n = Pos(S, e) /\ n < Cardinality(Requests) /\ Cardinality(Requests) \in Nat
                       /\ Pos(T, e) = n + 1
  <2>1. IsFiniteSet(Started(S, e)) /\ Pos(S, e) \in Nat /\ Pos(S, e) < Cardinality(Requests)
        /\ Cardinality(Requests) \in Nat
    BY <1>6, StartedFinite
  <2>2. Cardinality(Started(S, e) \cup {p}) = Cardinality(Started(S, e)) + 1
    BY <1>6, <2>1, FS_AddElement
  <2>3. QED
    BY <1>6, <2>1, <2>2 DEF Pos
<1>9. \A f \in Ends : f # e => Pos(T, f) = Pos(S, f)
  BY <1>7 DEF Pos
<1>10. PICK z \in {0, 1} : z = FirstId(e)
  BY Parity
<1>11. /\ z + 2 * n \in Nat /\ z + 2 * n < IdModulus /\ IdModulus \in Nat \ {0}
  BY <1>8, StreamsAssumption
<1>12. counter[e] = z + 2 * n
  <2>1. counter[e] = (z + 2 * n) % IdModulus
    BY <1>0, <1>8, <1>10 DEF Numbered
  <2>2. QED
    BY <1>11, <2>1, ModSmall
<1>13. counter'[e] = (z + 2 * (n + 1)) % IdModulus
  <2>1. counter'[e] = (z + 2 * n + 2) % IdModulus
    BY <1>0, <1>4, <1>12 DEF Types, NextId
  <2>2. z + 2 * n + 2 = z + 2 * (n + 1)
    OBVIOUS
  <2>3. QED
    BY <2>1, <2>2
<1>14. id'[x] = z + 2 * n /\ \A y \in S : id'[y] = id[y]
  BY <1>0, <1>3, <1>4, <1>12 DEF Types
<1>15. \A y \in Tries : Committed(y) => Committed(y)'
  BY <1>0, <1>3, <1>4, TryEnds DEF Types, Committed
<1>16. /\ \A f \in Ends : Held(f)' = Held(f)
       /\ \A y \in Tries : Requested(y)' <=> Requested(y)
  BY <1>4 DEF Held, Requested
<1>17. Numbered(T)'
  <2>1. ASSUME NEW y \in T PROVE y[2] \notin todo'[y[1]] /\ ppc'[y[1]] # "idle"
    <3>1. CASE y = x
      BY <1>0, <1>1, <1>4, <3>1 DEF Types
    <3>2. CASE y \in S
      BY <1>0, <1>4, <3>2, TryEnds DEF Types, Numbered
    <3>3. QED
      BY <3>1, <3>2
  <2>2. ASSUME NEW q \in Requests, ppc'[q] \in Active PROVE Try(q)' \in T
    <3>1. CASE q = p
      BY <1>0, <1>1, <1>4, <3>1 DEF Types, Try
    <3>2. CASE q # p
      BY <1>0, <1>4, <2>2, <3>2 DEF Types, Try, Numbered
    <3>3. QED
      BY <3>1, <3>2
  <2>3. ASSUME NEW f \in Ends PROVE counter'[f] = (FirstId(f) + 2 * Pos(T, f)) % IdModulus
    <3>1. CASE f = e
      BY <1>8, <1>10, <1>13, <3>1
    <3>2. CASE f # e
      BY <1>0, <1>4, <1>9, <3>2 DEF Types, Numbered
    <3>3. QED
      BY <3>1, <3>2
  <2>4. ASSUME NEW y \in S, PushEnd(y) = e
        PROVE  \E k \in 0 .. n - 1 : id'[y] = z + 2 * k
    BY <1>0, <1>8, <1>10, <1>14, <2>4 DEF Numbered
  <2>5. ASSUME NEW y \in T
        PROVE  \E k \in 0 .. Pos(T, PushEnd(y)) - 1 : id'[y] = FirstId(PushEnd(y)) + 2 * k
    <3>1. CASE y = x
      BY <1>2, <1>8, <1>10, <1>14, <3>1
    <3>2. CASE y \in S /\ PushEnd(y) = e
      BY <1>8, <1>10, <2>4, <3>2
    <3>3. CASE y \in S /\ PushEnd(y) # e
      <4>1. Pos(T, PushEnd(y)) = Pos(S, PushEnd(y))
        BY <1>9, <3>3, TryEnds
      <4>2. QED
        BY <1>0, <1>14, <3>3, <4>1 DEF Numbered
    <3>4. QED
      BY <3>1, <3>2, <3>3
  <2>6. ASSUME NEW y \in S, PushEnd(y) = e PROVE id'[y] # id'[x]
    BY <1>14, <2>4, <2>6
  <2>7. ASSUME NEW y \in T, NEW w \in T, PushEnd(y) = PushEnd(w), id'[y] = id'[w] PROVE y = w
    <3>1. CASE y \in S /\ w \in S
      BY <1>0, <1>14, <2>7, <3>1 DEF Numbered
    <3>2. CASE y = x \/ w = x
      BY <1>2, <2>6, <2>7, <3>2
    <3>3. QED
      BY <3>1, <3>2
  <2>8. QED
    BY <2>1, <2>2, <2>3, <2>5, <2>7 DEF Numbered
<1>18. Addressed(T)'
  BY <1>0, <1>14, <1>16 DEF Addressed
<1>19. Entries(T)'
  <2>1. ASSUME NEW f \in Ends, NEW i \in Ids, NEW o \in Objects, streams'[f][i] = o
        PROVE  /\ o[1] \in T /\ EndOf(o) = f /\ id'[o[1]] = i
               /\ o[2] = "in" => Committed(o[1])' /\ ~Requested(o[1])'
    <3>1. (f = e /\ i = counter[e] /\ o = <<x, "out">>) \/ o = streams[f][i]
      BY <1>0, <1>4, <2>1 DEF Types
    <3>2. CASE f = e /\ i = counter[e] /\ o = <<x, "out">>
      BY <1>2, <1>12, <1>14, <3>2, TryEnds
    <3>3. CASE o = streams[f][i]
      BY <1>0, <1>14, <1>15, <1>16, <2>1, <3>3, ObjectEnds DEF Entries
    <3>4. QED
      BY <3>1, <3>2, <3>3
  <2>2. QED
    BY <2>1 DEF Entries
<1>20. Running(T)'
  BY <1>0, <1>4, <1>16 DEF Running
<1>21. QED
  BY <1>1, <1>17, <1>18, <1>19, <1>20 DEF IdsOf

\* No try is started at first.
LEMMA IdsInit == Init => IdsInv
<1> SUFFICES ASSUME Init PROVE IdsInv
  OBVIOUS
<1>1. ASSUME NEW e \in Ends PROVE Pos({}, e) = 0
  BY FS_EmptySet DEF Pos, Started
<1>2. ASSUME NEW e \in Ends PROVE counter[e] = (FirstId(e) + 2 * Pos({}, e)) % IdModulus
  <2>1. FirstId(e) \in Nat /\ FirstId(e) < IdModulus /\ IdModulus \in Nat \ {0}
    BY StreamsAssumption, Parity
  <2>2. FirstId(e) % IdModulus = FirstId(e) /\ FirstId(e) + 2 * 0 = FirstId(e)
    BY <2>1, ModSmall
  <2>3. counter[e] = FirstId(e)
    BY DEF Init
  <2>4. QED
    BY <1>1, <2>2, <2>3
<1>3. Numbered({})
  BY <1>2 DEF Numbered, Init, Active
<1>4. Addressed({}) /\ Entries({}) /\ Running({})
  BY StreamsAssumption DEF Init, Addressed, Entries, Running, Held, UniqueIn
<1>5. IdsOf({})
  BY <1>3, <1>4 DEF IdsOf
<1>6. QED
  BY <1>5, HandlingInit DEF IdsInv

\* The other steps of Push start no stream; only PushHeader sends a request.
LEMMA PushIds ==
    ASSUME HandlingInv, HandlingInv', NEW S \in SUBSET Tries, IdsOf(S), NEW p \in Requests,
           \/ NodePush(p) \/ BodyFails(p) \/ UserLeaves(p) \/ NoProviderLeft(p) \/ PushHeader(p)
           \/ PushChunk(p) \/ PushFails(p) \/ PushReturn(p) \/ UserReads(p)
    PROVE  IdsOf(S)'
<1>0. /\ Types /\ Types' /\ Pushing /\ Handling /\ Numbered(S) /\ Addressed(S) /\ Entries(S)
      /\ Running(S)
  BY DEF HandlingInv, IdsOf
<1>1. UNCHANGED <<counter, id, hpc>>
  BY DEF NodePush, BodyFails, UserLeaves, NoProviderLeft, PushHeader, PushChunk, PushFails,
         PushReturn, UserReads, provVars, pushVars, hndlVars
<1>2. ASSUME NEW q \in {"try", "header", "body", "wait", "reading", "done", "failed"},
             ppc' = [ppc EXCEPT ![p] = q], UNCHANGED cur,
             ppc[p] \in {"body", "wait", "reading", "done", "failed"} =>
                q \in {"body", "wait", "reading", "done", "failed"},
             q \in Active => ppc[p] \in Active,
             UNCHANGED todo \/ (ppc[p] = "idle" /\ \E X : todo' = [todo EXCEPT ![p] = X])
      PROVE  /\ \A x \in Tries : Committed(x) => Committed(x)'
             /\ \A r \in Requests : /\ ppc[r] # "idle" => ppc'[r] # "idle" /\ todo'[r] \subseteq todo[r]
                                    /\ ppc'[r] \in Active => ppc[r] \in Active /\ cur'[r] = cur[r]
  <2>1. \A x \in Tries : Committed(x) => Committed(x)'
    BY <1>0, <1>2, TryEnds DEF Types, Committed
  <2>2. QED
    BY <1>0, <1>2, <2>1 DEF Types
<1>3. PICK q \in {"try", "body", "wait", "reading", "done", "failed"} :
         /\ ppc' = [ppc EXCEPT ![p] = q]
         /\ ppc[p] \in {"body", "wait", "reading", "done", "failed"} =>
              q \in {"body", "wait", "reading", "done", "failed"}
         /\ q \in Active => ppc[p] \in Active
  <2>1. CASE UserReads(p)
    <3>1. ppc = [ppc EXCEPT ![p] = "reading"] /\ ppc[p] = "reading"
      BY <1>0, <2>1 DEF Types, UserReads
    <3>2. QED
      BY <2>1, <3>1 DEF UserReads, Active
  <2>2. CASE PushFails(p)
    BY <2>2 DEF PushFails, AfterFailure, Active
  <2>3. CASE PushReturn(p)
    BY <2>3 DEF PushReturn, Returned, Active
  <2>4. CASE PushChunk(p) \/ PushHeader(p)
    BY <2>4 DEF PushChunk, PushHeader, Active
  <2>5. CASE NodePush(p) \/ BodyFails(p) \/ UserLeaves(p) \/ NoProviderLeft(p)
    BY <2>5 DEF NodePush, BodyFails, UserLeaves, NoProviderLeft, Active
  <2>6. QED
    BY <2>1, <2>2, <2>3, <2>4, <2>5
<1>4. UNCHANGED cur /\ (UNCHANGED todo \/ (ppc[p] = "idle" /\ \E X : todo' = [todo EXCEPT ![p] = X]))
  BY DEF NodePush, BodyFails, UserLeaves, NoProviderLeft, PushHeader, PushChunk, PushFails,
         PushReturn, UserReads
<1>5. /\ \A x \in Tries : Committed(x) => Committed(x)'
      /\ \A r \in Requests : /\ ppc[r] # "idle" => ppc'[r] # "idle" /\ todo'[r] \subseteq todo[r]
                             /\ ppc'[r] \in Active => ppc[r] \in Active /\ cur'[r] = cur[r]
  BY <1>2, <1>3, <1>4
<1>6. \A e \in Ends, i \in Ids : streams'[e][i] = streams[e][i] \/ streams'[e][i] = None
  <2>1. CASE UNCHANGED streams
    BY <2>1
  <2>2. CASE PushFails(p) \/ BodyFails(p)
    <3>1. Try(p) \in Tries
      BY <1>0, <2>2 DEF PushFails, BodyFails, Pushing, Active, Try, Tries
    <3>2. <<Try(p), "out">> \in Objects /\ CloseStream(<<Try(p), "out">>)
      BY <2>2, <3>1, TryEnds DEF PushFails, BodyFails
    <3>3. QED
      BY <1>0, <3>2, CloseTyped
  <2>3. QED
    BY <2>1, <2>2 DEF NodePush, UserLeaves, NoProviderLeft, PushHeader, PushChunk,
                      PushReturn, UserReads, provVars
<1>7. CASE UNCHANGED wire
  <2>1. /\ \A f \in Ends : \A m \in Held(f)' : m \in Held(f)
        /\ \A f \in Ends : UniqueIn(wire'[f])
    BY <1>0, <1>7 DEF Held, Running
  <2>2. QED
    BY <1>0, <1>1, <1>5, <1>6, <2>1, IdsKept
<1>8. CASE PushHeader(p) \/ PushChunk(p)
  <2>1. PICK x \in Tries : x = Try(p) /\ x \in S
    BY <1>0, <1>8 DEF PushHeader, PushChunk, Pushing, Active, Try, Tries, Numbered
  <2>2. sent[x] \in Nat /\ Body[p] \in Nat
    BY <1>0, StreamsAssumption DEF Types
  <2>3. PICK op \in {"request", "data"}, k \in Nat :
           /\ Send(PushEnd(x), Msg(op, x, k))
           /\ op = "request" => ppc[p] = "header"
    BY <1>8, <2>1, <2>2 DEF PushHeader, PushChunk
  <2>4. PICK m : m = Msg(op, x, k)
    OBVIOUS
  <2>5. m \in Message /\ m.try = x /\ m.op = op /\ m.id = id[x] /\ Send(PushEnd(x), m)
    BY <1>0, <2>3, <2>4 DEF Types, Message, Msg
  <2>6. PushEnd(x) \in Ends /\ (op = "request" => ~Committed(x))
    BY <2>1, <2>3, TryEnds DEF Committed, Try
  <2>7. \A f \in Ends : \A n \in Held(f)' : n \in Held(f) \/ (f = PushEnd(x) /\ n = m)
    BY <1>0, <2>5, <2>6, HeldSend
  <2>8. \A f \in Ends : UniqueIn(wire'[f])
    <3>1. op = "request" => \A n \in Held(PushEnd(x)) : n.op = "request" => n.try # x
      BY <1>0, <2>6 DEF Handling
    <3>2. QED
      BY <1>0, <2>5, <2>6, <3>1, UniqueSend DEF Running
  <2>9. \A f \in Ends : \A n \in Held(f)' :
              \/ n \in Held(f)
              \/ /\ n.try \in S /\ n.id = id[n.try]
                 /\ n.op = "request" => PushEnd(n.try) = f /\ ~Committed(n.try)
    BY <2>1, <2>5, <2>6, <2>7
  <2>10. QED
    BY <1>0, <1>1, <1>5, <1>6, <2>8, <2>9, IdsKept
<1>9. QED
  BY <1>7, <1>8 DEF NodePush, BodyFails, UserLeaves, NoProviderLeft, PushFails, PushReturn,
                    UserReads, connVars

\* A handler sends nothing but responses and data of its own try.
LEMMA HandlerIds ==
    ASSUME HandlingInv, HandlingInv', NEW S \in SUBSET Tries, IdsOf(S), NEW x \in Tries,
           Handler(x)
    PROVE  IdsOf(S)'
<1>0. /\ Types /\ Types' /\ Numbered(S) /\ Running(S)
  BY DEF HandlingInv, IdsOf
<1>1. UNCHANGED <<counter, pushVars>> /\ hpc[x] # "none"
      /\ \E q : hpc' = [hpc EXCEPT ![x] = q]
  BY DEF Handler, HandlerStarts, HandlerReads, HandlerWrites, HandlerFails, HandlerGoes, provVars
<1>2. /\ UNCHANGED <<counter, id>>
      /\ \A r \in Requests : /\ ppc[r] # "idle" => ppc'[r] # "idle" /\ todo'[r] \subseteq todo[r]
                             /\ ppc'[r] \in Active => ppc[r] \in Active /\ cur'[r] = cur[r]
      /\ \A y \in Tries : Committed(y) => Committed(y)'
      /\ \A y \in Tries : hpc'[y] # "none" => hpc[y] # "none"
  BY <1>0, <1>1 DEF Types, pushVars, Committed
<1>3. \A e \in Ends, i \in Ids : streams'[e][i] = streams[e][i] \/ streams'[e][i] = None
  <2>1. CASE UNCHANGED streams
    BY <2>1
  <2>2. CASE HandlerFails(x)
    BY <1>0, <2>2, CloseTyped, TryEnds DEF HandlerFails
  <2>3. QED
    BY <2>1, <2>2 DEF Handler, HandlerStarts, HandlerReads, HandlerWrites, provVars
<1>4. CASE UNCHANGED wire
  <2>1. /\ \A f \in Ends : \A m \in Held(f)' : m \in Held(f)
        /\ \A f \in Ends : UniqueIn(wire'[f])
    BY <1>0, <1>4 DEF Held, Running
  <2>2. QED
    BY <1>0, <1>2, <1>3, <2>1, IdsKept
<1>5. CASE HandlerWrites(x)
  <2>1. PICK e : e = <<hconn[x], HandlerEnd(x)[2]>>
    OBVIOUS
  <2>2. e \in Ends /\ hsent[x] \in Nat /\ x \in S
    BY <1>0, <1>1, <2>1, TryEnds DEF Types, Ends, Running
  <2>3. PICK op \in {"response", "data"}, k \in Nat : Send(e, Msg(op, x, k))
    BY <1>5, <2>1, <2>2 DEF HandlerWrites, ReplyOp
  <2>4. PICK m : m = Msg(op, x, k)
    OBVIOUS
  <2>5. m \in Message /\ m.try = x /\ m.op # "request" /\ m.id = id[x] /\ Send(e, m)
    BY <1>0, <2>3, <2>4 DEF Types, Message, Msg
  <2>6. \A f \in Ends : \A n \in Held(f)' : n \in Held(f) \/ n = m
    BY <1>0, <2>2, <2>5, HeldSend
  <2>7. \A f \in Ends : UniqueIn(wire'[f])
    BY <1>0, <2>2, <2>5, UniqueSend DEF Running
  <2>8. \A f \in Ends : \A n \in Held(f)' :
              \/ n \in Held(f)
              \/ n.try \in S /\ n.id = id[n.try] /\ n.op # "request"
    BY <2>2, <2>5, <2>6
  <2>9. QED
    BY <1>0, <1>2, <1>3, <2>7, <2>8, IdsKept
<1>6. QED
  BY <1>4, <1>5 DEF Handler, HandlerStarts, HandlerReads, HandlerFails, connVars

\* HandleMessage and the end of a connection: HandleRequest enters a stream under the
\* id of the other end.
LEMMA LoopIds ==
    ASSUME HandlingInv, HandlingInv', NEW S \in SUBSET Tries, IdsOf(S), NEW e \in Ends,
           ReadLoop(e) \/ ReadFails(e) \/ ProviderClose(e) \/ NetworkFails(e) \/ CloseWriter(e)
    PROVE  IdsOf(S)'
<1>0. /\ Types /\ Types' /\ Pushing /\ Handling /\ Addressed(S) /\ Running(S) /\ Other(e) \in Ends
      /\ \A f \in Ends : UniqueIn(wire[f])
  BY OtherEnd DEF HandlingInv, IdsOf, Running
<1>1. UNCHANGED <<counter, pushVars>>
  BY Zenon DEF ReadLoop, HandleRequest, HandleResponse, HandleData, HandleUnknown, WriteFails,
         MessageRefused, ReadFails, ProviderClose, NetworkFails, CloseWriter, provVars
<1>2. /\ UNCHANGED <<counter, id>>
      /\ \A r \in Requests : /\ ppc[r] # "idle" => ppc'[r] # "idle" /\ todo'[r] \subseteq todo[r]
                             /\ ppc'[r] \in Active => ppc[r] \in Active /\ cur'[r] = cur[r]
      /\ \A y \in Tries : Committed(y) => Committed(y)'
  BY <1>1 DEF pushVars, Committed
<1>3. ASSUME \/ UNCHANGED wire
             \/ wire[Other(e)] # <<>> /\ wire' = Consumed(e)
             \/ Exit(e)
      PROVE  /\ \A f \in Ends : \A n \in Held(f)' : n \in Held(f)
             /\ \A f \in Ends : UniqueIn(wire'[f])
  <2>1. CASE UNCHANGED wire
    BY <1>0, <2>1 DEF Held
  <2>2. CASE wire[Other(e)] # <<>> /\ wire' = Consumed(e)
    BY <1>0, <2>2, HeldConsumes, UniqueConsumed
  <2>3. CASE Exit(e)
    BY <1>0, <2>3, HeldExit, UniqueExit
  <2>4. QED
    BY <1>3, <2>1, <2>2, <2>3
<1>4. CASE HandleRequest(e)
  <2>1. PICK m : m = Head(wire[Other(e)])
    OBVIOUS
  <2>2. wire[Other(e)] # <<>> /\ m.op = "request"
    BY <1>4, <2>1 DEF HandleRequest, Received
  <2>3. m \in Held(Other(e)) /\ m \in Message
    BY <1>0, <2>1, <2>2, HeldConsumed
  <2>4. PICK x \in S : x = m.try /\ m.id = id[x] /\ PushEnd(x) = Other(e) /\ x \in Tries
    BY <1>0, <2>2, <2>3, HeldTyped DEF Addressed
  <2>5. HandlerEnd(x) = e /\ Committed(x)
    <3>1. HandlerEnd(x) = Other(Other(e)) /\ Other(Other(e)) = e
      BY <2>4, TryEnds, OtherEnd
    <3>2. Committed(x)
      BY <1>0, <2>2, <2>3, <2>4 DEF Handling
    <3>3. QED
      BY <3>1, <3>2, Zenon
  <2>6. \A i \in 1 .. Len(Consumed(e)[Other(e)]) :
           Consumed(e)[Other(e)][i].op = "request" => Consumed(e)[Other(e)][i].try # x
    BY <1>0, <2>1, <2>2, <2>4, UniqueConsumed
  <2>7. ASSUME wire'[Other(e)] = Consumed(e)[Other(e)] \/ wire'[Other(e)] = <<>>
        PROVE  ~Requested(x)'
    BY <2>4, <2>6, <2>7 DEF Requested, Held
  <2>8. streams' = [streams EXCEPT ![e][m.id] = <<x, "in">>]
    BY <1>4, <2>1, <2>4 DEF HandleRequest
  <2>9. ASSUME ~Requested(x)'
        PROVE  \A f \in Ends, i \in Ids :
                 \/ streams'[f][i] = streams[f][i]
                 \/ \E y \in S : /\ streams'[f][i] = <<y, "in">> /\ HandlerEnd(y) = f /\ id[y] = i
                                 /\ Committed(y) /\ ~Requested(y)'
    <3>1. ASSUME NEW f \in Ends, NEW i \in Ids
          PROVE  streams'[f][i] = streams[f][i] \/ (f = e /\ i = id[x] /\ streams'[f][i] = <<x, "in">>)
      BY <1>0, <2>4, <2>8 DEF Types
    <3>2. QED
      BY <2>4, <2>5, <2>9, <3>1
  <2>10. hpc' = hpc \/ hpc' = [hpc EXCEPT ![x] = "spawned"]
    BY <1>4, <2>1, <2>4 DEF HandleRequest
  <2>11. ASSUME ~Requested(x)'
         PROVE  \A y \in Tries : hpc'[y] # "none" => hpc[y] # "none" \/ (y \in S /\ ~Requested(y)')
    BY <1>0, <2>4, <2>10, <2>11, SMTT(30) DEF Types
  <2>12. CASE wire' = Consumed(e) \/ Exit(e)
    <3>1. ~Requested(x)'
      BY <1>0, <2>7, <2>12, HeldExit
    <3>2. /\ \A f \in Ends : \A n \in Held(f)' : n \in Held(f)
          /\ \A f \in Ends : UniqueIn(wire'[f])
      BY <1>3, <2>2, <2>12
    <3>3. QED
      BY <1>0, <1>2, <2>9, <2>11, <3>1, <3>2, IdsKept
  <2>13. CASE wire' = Sent(Consumed(e), e, [m EXCEPT !.op = "response", !.handled = FALSE])
    <3>1. PICK r : r = [m EXCEPT !.op = "response", !.handled = FALSE]
      OBVIOUS
    <3>2. r \in Message /\ r.op = "response" /\ r.try = x /\ r.id = id[x]
      BY <2>3, <2>4, <3>1 DEF Message
    <3>3. /\ wire'[Other(e)] = Consumed(e)[Other(e)]
          /\ wire'[e] = wire[e] \/ wire'[e] = Append(wire[e], r)
          /\ \A f \in Ends : f # Other(e) /\ f # e => wire'[f] = wire[f]
          /\ \A f \in Ends : \A n \in Held(f)' : n \in Held(f) \/ n = r
      BY <1>0, <2>2, <2>13, <3>1, <3>2, HeldAnswer
    <3>4. ~Requested(x)'
      BY <2>7, <3>3
    <3>5. UniqueIn(Append(wire[e], r))
      BY <1>0, <3>2, UniqueAppend DEF Types
    <3>6. UniqueIn(Consumed(e)[Other(e)])
      BY <1>0, <2>2, UniqueConsumed
    <3>7. \A f \in Ends : UniqueIn(wire'[f])
      BY <1>0, <3>3, <3>5, <3>6
    <3>8. \A f \in Ends : \A n \in Held(f)' :
              \/ n \in Held(f)
              \/ n.try \in S /\ n.id = id[n.try] /\ n.op # "request"
      BY <3>2, <3>3
    <3>9. QED
      BY <1>0, <1>2, <2>9, <2>11, <3>4, <3>7, <3>8, IdsKept
  <2>14. QED
    BY <1>4, <2>1, <2>12, <2>13 DEF HandleRequest
<1>5. CASE ~HandleRequest(e)
  <2>1. UNCHANGED hpc
    BY <1>5, Zenon DEF ReadLoop, HandleResponse, HandleData, HandleUnknown, WriteFails,
         MessageRefused, ReadFails, ProviderClose, NetworkFails, CloseWriter, hndlVars
  <2>2. \/ UNCHANGED wire
        \/ wire[Other(e)] # <<>> /\ wire' = Consumed(e)
        \/ Exit(e)
    BY <1>5, ZenonT(30) DEF ReadLoop, HandleResponse, HandleData, HandleUnknown, WriteFails, Received,
         MessageRefused, ReadFails, ProviderClose, NetworkFails, CloseWriter
  <2>3. \A f \in Ends, i \in Ids : streams'[f][i] = streams[f][i] \/ streams'[f][i] = None
    <3>1. ASSUME NEW o \in Objects, CloseStream(o)
          PROVE  \A f \in Ends, i \in Ids : streams'[f][i] = streams[f][i] \/ streams'[f][i] = None
      BY <1>0, <3>1, CloseTyped
    <3>2. CASE UNCHANGED streams
      BY <3>2
    <3>3. CASE ProviderClose(e)
      BY <1>0, <3>3 DEF Types, ProviderClose
    <3>4. CASE WriteFails(e)
      <4>1. chunk[e][1] \in Objects
        BY <1>0, <3>4 DEF WriteFails, Pushing
      <4>2. QED
        BY <3>1, <3>4, <4>1 DEF WriteFails
    <3>5. CASE HandleData(e)
      <4>1. PICK m, o : m = Head(wire[Other(e)]) /\ o = streams[e][m.id]
        OBVIOUS
      <4>2. wire[Other(e)] # <<>> /\ o # None
        BY <3>5, <4>1 DEF HandleData, Received, Exists
      <4>3. m.id \in Ids
        BY <1>0, <4>1, <4>2, HeldConsumed, HeldTyped
      <4>4. o \in Objects
        BY <1>0, <4>1, <4>2, <4>3 DEF Types
      <4>5. QED
        BY <3>1, <3>2, <3>5, <4>1, <4>4 DEF HandleData, provVars
    <3>6. QED
      BY <1>5, <3>2, <3>3, <3>4, <3>5, Zenon DEF ReadLoop, HandleResponse, HandleUnknown,
         ReadFails, NetworkFails, CloseWriter, provVars
  <2>4. QED
    BY <1>0, <1>2, <1>3, <2>1, <2>2, <2>3, IdsKept
<1>6. QED
  BY <1>4, <1>5

\* Every step keeps the ids apart.
LEMMA IdsNext == IdsInv /\ [Next]_vars => IdsInv'
<1> SUFFICES ASSUME IdsInv, [Next]_vars PROVE IdsInv'
  OBVIOUS
<1>1. HandlingInv /\ HandlingInv'
  BY HandlingNext DEF IdsInv
<1>2. PICK S \in SUBSET Tries : IdsOf(S)
  BY DEF IdsInv
<1>3. ASSUME IdsOf(S)' PROVE IdsInv'
  BY <1>1, <1>3 DEF IdsInv
<1>4. ASSUME NEW p \in Requests, NEW c \in Conns, NextStream(p, c) PROVE IdsInv'
  <2>1. S \cup {<<p, c>>} \in SUBSET Tries
    BY DEF Tries
  <2>2. IdsOf(S \cup {<<p, c>>})'
    BY <1>1, <1>2, <1>4, NextStreamIds
  <2>3. QED
    BY <1>1, <2>1, <2>2 DEF IdsInv
<1>5. CASE UNCHANGED vars
  <2>1. IdsOf(S)'
    BY <1>2, <1>5 DEF vars, provVars, connVars, pipeVars, pushVars, hndlVars, IdsOf, Numbered,
              Addressed, Entries, Running, Held, Committed, Requested, Try
  <2>2. QED
    BY <1>3, <2>1
<1>6. ASSUME NEW p \in Requests,
             \/ NodePush(p) \/ BodyFails(p) \/ UserLeaves(p) \/ NoProviderLeft(p) \/ PushHeader(p)
             \/ PushChunk(p) \/ PushFails(p) \/ PushReturn(p) \/ UserReads(p)
      PROVE  IdsInv'
  BY <1>1, <1>2, <1>3, <1>6, PushIds
<1>7. ASSUME NEW x \in Tries, Handler(x) PROVE IdsInv'
  BY <1>1, <1>2, <1>3, <1>7, HandlerIds
<1>8. ASSUME NEW e \in Ends,
             ReadLoop(e) \/ ReadFails(e) \/ ProviderClose(e) \/ NetworkFails(e) \/ CloseWriter(e)
      PROVE  IdsInv'
  BY <1>1, <1>2, <1>3, <1>8, LoopIds
<1>9. QED
  BY <1>4, <1>5, <1>6, <1>7, <1>8 DEF Next, Progress, Push

\* Ids are counted, distinct and in step in every state.
THEOREM IdsInvariance == Spec => []IdsInv
BY IdsInit, IdsNext, PTL DEF Spec

\* A service request never finds its id in use: the two ends of a connection count
\* from different parities, and no end counts round to an id that it has given.
THEOREM IdsApartCorrect == Spec => []IdsApart
<1>1. ASSUME IdsInv, NEW e \in Ends, wire[Other(e)] # <<>>, Head(wire[Other(e)]).op = "request"
      PROVE  ~Exists(e)
  <2>0. PICK S \in SUBSET Tries : IdsOf(S)
    BY <1>1 DEF IdsInv
  <2>1. Types /\ Other(e) \in Ends /\ Numbered(S) /\ Addressed(S) /\ Entries(S)
    BY <1>1, <2>0, OtherEnd DEF IdsInv, HandlingInv, IdsOf
  <2>2. PICK m : m = Head(wire[Other(e)]) /\ m \in Held(Other(e)) /\ m.id \in Ids
    BY <1>1, <2>1, HeldConsumed, HeldTyped
  <2>3. m.try \in S /\ m.id = id[m.try] /\ PushEnd(m.try) = Other(e) /\ m.op = "request"
    BY <1>1, <2>1, <2>2 DEF Addressed
  <2>4. SUFFICES ASSUME streams[e][m.id] # None PROVE FALSE
    BY <2>2 DEF Exists
  <2>5. PICK o \in Objects : o = streams[e][m.id]
    BY <2>1, <2>2, <2>4 DEF Types
  <2>6. /\ o[1] \in S /\ EndOf(o) = e /\ id[o[1]] = m.id /\ (o[2] = "in" => ~Requested(o[1]))
    BY <2>1, <2>2, <2>4, <2>5 DEF Entries
  <2>7. CASE o[2] = "in"
    <3>1. PushEnd(o[1]) = Other(e)
      BY <2>6, <2>7, TryEnds, OtherEnd DEF EndOf
    <3>2. o[1] = m.try
      BY <2>1, <2>3, <2>6, <3>1 DEF Numbered
    <3>3. QED
      BY <2>2, <2>3, <2>6, <2>7, <3>2 DEF Requested
  <2>8. CASE o[2] = "out"
    <3>1. PushEnd(o[1]) = e
      BY <2>6, <2>8 DEF EndOf
    <3>2. PICK a \in Int : id[o[1]] = FirstId(e) + 2 * a
      BY <2>1, <2>6, <3>1 DEF Numbered
    <3>3. PICK b \in Int : id[m.try] = FirstId(Other(e)) + 2 * b
      BY <2>1, <2>3 DEF Numbered
    <3>4. PICK y, z \in {0, 1} : y = FirstId(e) /\ z = FirstId(Other(e)) /\ y # z
      BY Parity
    <3>5. y + 2 * a = z + 2 * b
      BY <2>3, <2>6, <3>2, <3>3, <3>4
    <3>6. QED
      BY <3>4, <3>5
  <2>9. QED
    BY <2>7, <2>8, ObjectEnds
<1>2. IdsInv => IdsApart
  BY <1>1 DEF IdsApart
<1>3. QED
  BY <1>2, IdsInvariance, PTL

-----------------------------------------------------------------------------
\* Push returns what was answered.

\* A message finds the stream that it is of, or none.
LEMMA Found ==
    ASSUME IdsInv, Answering, NEW e \in Ends, wire[Other(e)] # <<>>, Exists(e),
           NEW m, m = Head(wire[Other(e)]), NEW o, o = streams[e][m.id]
    PROVE  /\ o \in Objects /\ o[1] = m.try /\ EndOf(o) = e /\ id[o[1]] = m.id
           /\ m.op = "response" => o[2] = "out"
           /\ m \in Held(Other(e)) /\ m \in Message
<1>0. PICK S \in SUBSET Tries : IdsOf(S)
  BY DEF IdsInv
<1>1. Types /\ Other(e) \in Ends /\ Numbered(S) /\ Addressed(S) /\ Entries(S)
  BY <1>0, OtherEnd DEF IdsInv, HandlingInv, IdsOf
<1>2. m \in Held(Other(e)) /\ m.id \in Ids /\ m \in Message
  BY <1>1, HeldConsumed, HeldTyped
<1>3. m.try \in S /\ m.id = id[m.try] /\ m.try[2] = e[1]
  BY <1>1, <1>2, OtherEnd DEF Addressed, Answering
<1>4. o \in Objects /\ o # None
  BY <1>1, <1>2 DEF Types, Exists
<1>5. o[1] \in S /\ EndOf(o) = e /\ id[o[1]] = m.id
  BY <1>1, <1>2, <1>4 DEF Entries
<1>6. o[1][2] = e[1]
  BY <1>4, <1>5, ObjectEnds
<1>7. PushEnd(m.try) \in {e, Other(e)} /\ PushEnd(o[1]) \in {e, Other(e)}
  <2>1. /\ PushEnd(m.try) \in Ends /\ PushEnd(m.try)[1] = e[1]
        /\ PushEnd(o[1]) \in Ends /\ PushEnd(o[1])[1] = e[1]
    BY <1>3, <1>5, <1>6, TryEnds
  <2>2. QED
    BY <2>1, SameConn
<1>8. PushEnd(m.try) = PushEnd(o[1])
  <2>1. PICK a \in Int : id[o[1]] = FirstId(PushEnd(o[1])) + 2 * a
    BY <1>1, <1>5 DEF Numbered
  <2>2. PICK b \in Int : id[m.try] = FirstId(PushEnd(m.try)) + 2 * b
    BY <1>1, <1>3 DEF Numbered
  <2>3. SUFFICES ASSUME PushEnd(m.try) # PushEnd(o[1]) PROVE FALSE
    OBVIOUS
  <2>4. PICK y, z \in {0, 1} : y = FirstId(PushEnd(o[1])) /\ z = FirstId(PushEnd(m.try)) /\ y # z
    BY <1>7, <2>3, Parity, SMTT(30)
  <2>5. y + 2 * a = z + 2 * b
    BY <1>3, <1>5, <2>1, <2>2, <2>4
  <2>6. QED
    BY <2>4, <2>5
<1>9. o[1] = m.try
  BY <1>1, <1>3, <1>5, <1>8 DEF Numbered
<1>10. ASSUME m.op = "response" PROVE o[2] = "out"
  <2>1. HandlerEnd(m.try) = Other(e) /\ Other(e) # e
    BY <1>1, <1>2, <1>10, OtherEnd DEF Answering
  <2>2. QED
    BY <1>4, <1>5, <1>9, <2>1, ObjectEnds DEF EndOf
<1>11. QED
  BY <1>2, <1>4, <1>5, <1>9, <1>10

\* What keeps Answering.
LEMMA AnswerKept ==
    ASSUME Types, Answering, UNCHANGED hconn,
           \A x \in Tries : hsent[x] > 0 => hsent'[x] > 0,
           \A x \in Tries : header'[x] = "handled" => header[x] = "handled" \/ hsent[x] > 0,
           \A p \in Requests : ppc'[p] \in {"reading", "done"} =>
              /\ cur'[p] = cur[p] /\ Try(p) \in Tries
              /\ ppc[p] \in {"reading", "done"} \/ hsent[Try(p)] > 0,
           \A f \in Ends : \A m \in Held(f)' :
              \/ m \in Held(f)
              \/ /\ m.try[2] = f[1]
                 /\ m.op = "response" => HandlerEnd(m.try) = f /\ (m.handled => hsent'[m.try] > 0)
    PROVE  Answering'
<1>1. ASSUME NEW f \in Ends, NEW m \in Held(f)'
      PROVE  /\ m.try[2] = f[1]
             /\ m.op = "response" => HandlerEnd(m.try) = f /\ (m.handled => hsent'[m.try] > 0)
  <2>1. CASE m \in Held(f)
    BY <2>1, HeldTyped DEF Answering
  <2>2. CASE m \notin Held(f)
    BY <1>1, <2>2
  <2>3. QED
    BY <2>1, <2>2
<1>2. \A p \in Requests : ppc'[p] \in {"reading", "done"} => hsent'[Try(p)'] > 0
  BY DEF Answering, Try
<1>3. QED
  BY <1>1, <1>2 DEF Answering

\* Push: it returns a stream whose header says so.
LEMMA PushAnswer ==
    ASSUME AnswerInv, NEW p \in Requests, NodePush(p) \/ Push(p) \/ BodyFails(p) \/ UserLeaves(p)
    PROVE  Answering'
<1>0. Types /\ Pushing /\ Answering
  BY DEF AnswerInv, IdsInv, HandlingInv
<1>1. UNCHANGED <<hconn, hsent, header>>
  BY DEF NodePush, Push, BodyFails, UserLeaves, NextStream, NoProviderLeft, PushHeader, PushChunk,
         PushFails, PushReturn, UserReads, hndlVars
<1>2. ASSUME NEW r \in Requests, ppc'[r] \in {"reading", "done"}
      PROVE  /\ cur'[r] = cur[r] /\ Try(r) \in Tries
             /\ ppc[r] \in {"reading", "done"} \/ hsent[Try(r)] > 0
  <2>1. CASE r # p
    <3>1. /\ \E q : ppc' = [ppc EXCEPT ![p] = q] \/ UNCHANGED ppc
          /\ \E c : cur' = [cur EXCEPT ![p] = c] \/ UNCHANGED cur
      BY DEF NodePush, Push, BodyFails, UserLeaves, NextStream, NoProviderLeft,
         PushHeader, PushChunk, PushFails, PushReturn, UserReads
    <3>4. ppc'[r] = ppc[r] /\ cur'[r] = cur[r]
      BY <1>0, <2>1, <3>1 DEF Types
    <3>2. Try(r) \in Tries
      BY <1>0, <1>2, <3>4 DEF Pushing, Active, Try, Tries
    <3>3. QED
      BY <1>2, <3>2, <3>4
  <2>2. CASE r = p /\ PushReturn(p)
    <3>1. Try(p) \in Tries
      BY <1>0, <2>2 DEF PushReturn, Pushing, Active, Try, Tries
    <3>2. header[Try(p)] = "handled"
      BY <1>0, <1>2, <2>2 DEF Types, PushReturn, Returned
    <3>3. QED
      BY <1>0, <2>2, <3>1, <3>2 DEF Answering, PushReturn
  <2>3. CASE r = p /\ (UserReads(p) \/ UserLeaves(p))
    BY <1>0, <2>3 DEF UserReads, UserLeaves, Pushing, Active, Try, Tries
  <2>4. CASE r = p /\ ~PushReturn(p) /\ ~UserReads(p) /\ ~UserLeaves(p)
    <3>1. PICK q \in {"try", "header", "body", "wait", "failed"} : ppc' = [ppc EXCEPT ![p] = q]
      BY <2>4 DEF NodePush, Push, BodyFails, NextStream, NoProviderLeft,
         PushHeader, PushChunk, PushFails, AfterFailure
    <3>2. QED
      BY <1>0, <1>2, <2>4, <3>1 DEF Types
  <2>5. QED
    BY <2>1, <2>2, <2>3, <2>4
<1>3. CASE UNCHANGED wire
  BY <1>0, <1>1, <1>2, <1>3, AnswerKept DEF Held
<1>4. CASE PushHeader(p) \/ PushChunk(p)
  <2>1. PICK x \in Tries : x = Try(p)
    BY <1>0, <1>4 DEF PushHeader, PushChunk, Pushing, Active, Try, Tries
  <2>2. sent[x] \in Nat /\ Body[p] \in Nat /\ PushEnd(x) \in Ends /\ PushEnd(x)[1] = x[2]
    BY <1>0, StreamsAssumption, TryEnds DEF Types
  <2>3. PICK op \in {"request", "data"}, k \in Nat : Send(PushEnd(x), Msg(op, x, k))
    BY <1>4, <2>1, <2>2 DEF PushHeader, PushChunk
  <2>4. PICK m : m = Msg(op, x, k)
    OBVIOUS
  <2>5. m \in Message /\ m.try = x /\ m.op = op /\ Send(PushEnd(x), m)
    BY <1>0, <2>3, <2>4 DEF Types, Message, Msg
  <2>6. \A f \in Ends : \A n \in Held(f)' : n \in Held(f) \/ (f = PushEnd(x) /\ n = m)
    BY <1>0, <2>2, <2>5, HeldSend
  <2>7. \A f \in Ends : \A n \in Held(f)' : n \in Held(f) \/ (n.try[2] = f[1] /\ n.op # "response")
    BY <2>2, <2>5, <2>6
  <2>8. QED
    BY <1>0, <1>1, <1>2, <2>7, AnswerKept
<1>5. QED
  BY <1>3, <1>4 DEF NodePush, Push, BodyFails, UserLeaves, NextStream, NoProviderLeft, PushFails,
                    PushReturn, UserReads, connVars

\* A handler answers over its own connection.
LEMMA HandlerAnswer ==
    ASSUME AnswerInv, NEW x \in Tries, Handler(x)
    PROVE  Answering'
<1>0. Types /\ Pushing /\ Answering
  BY DEF AnswerInv, IdsInv, HandlingInv
<1>1. UNCHANGED <<hconn, header, ppc, cur>>
  BY DEF Handler, HandlerStarts, HandlerReads, HandlerWrites, HandlerFails, pushVars
<1>2. \A r \in Requests : ppc'[r] \in {"reading", "done"} =>
         cur'[r] = cur[r] /\ Try(r) \in Tries /\ ppc[r] \in {"reading", "done"}
  BY <1>0, <1>1 DEF Pushing, Active, Try, Tries
<1>3. CASE UNCHANGED <<wire, hsent>>
  BY <1>0, <1>1, <1>2, <1>3, AnswerKept DEF Held
<1>4. CASE HandlerWrites(x)
  <2>1. <<hconn[x], HandlerEnd(x)[2]>> = HandlerEnd(x) /\ HandlerEnd(x) \in Ends
        /\ HandlerEnd(x)[1] = x[2]
    <3>1. hconn[x] = HandlerEnd(x)[1] /\ HandlerEnd(x) \in Ends
      BY <1>0, TryEnds DEF Answering
    <3>2. HandlerEnd(x) = <<HandlerEnd(x)[1], HandlerEnd(x)[2]>> /\ HandlerEnd(x)[1] = x[2]
      BY <3>1, OtherEnd, TryEnds
    <3>3. QED
      BY <3>1, <3>2
  <2>2. hsent[x] \in Nat
    BY <1>0 DEF Types
  <2>3. PICK op \in {"response", "data"}, k \in Nat : Send(HandlerEnd(x), Msg(op, x, k))
    BY <1>4, <2>1, <2>2 DEF HandlerWrites, ReplyOp
  <2>4. PICK m : m = Msg(op, x, k)
    OBVIOUS
  <2>5. m \in Message /\ m.try = x /\ Send(HandlerEnd(x), m)
    BY <1>0, <2>3, <2>4 DEF Types, Message, Msg
  <2>6. \A f \in Ends : \A n \in Held(f)' : n \in Held(f) \/ (f = HandlerEnd(x) /\ n = m)
    BY <1>0, <2>1, <2>5, HeldSend
  <2>7. hsent'[x] > 0 /\ \A y \in Tries : hsent[y] > 0 => hsent'[y] > 0
    BY <1>0, <1>4, <2>2 DEF Types, HandlerWrites
  <2>8. \A f \in Ends : \A n \in Held(f)' :
           n \in Held(f) \/ (n.try[2] = f[1] /\ HandlerEnd(n.try) = f /\ hsent'[n.try] > 0)
    BY <2>1, <2>5, <2>6, <2>7
  <2>9. QED
    BY <1>0, <1>1, <1>2, <2>7, <2>8, AnswerKept
<1>5. QED
  BY <1>3, <1>4 DEF Handler, HandlerStarts, HandlerReads, HandlerFails, connVars

\* HandleMessage: a response is for the stream of its request.
LEMMA LoopAnswer ==
    ASSUME ~ContextReuse, AnswerInv, NEW e \in Ends,
           ReadLoop(e) \/ ReadFails(e) \/ ProviderClose(e) \/ NetworkFails(e) \/ CloseWriter(e)
    PROVE  Answering'
<1>0. Types /\ Pushing /\ Answering /\ IdsInv /\ Other(e) \in Ends
  BY OtherEnd DEF AnswerInv, IdsInv, HandlingInv
<1>1. UNCHANGED <<hsent, ppc, cur>>
  BY ZenonT(30) DEF ReadLoop, HandleRequest, HandleResponse, HandleData, HandleUnknown, WriteFails,
         MessageRefused, ReadFails, ProviderClose, NetworkFails, CloseWriter, pushVars, hndlVars
<1>2. UNCHANGED hconn
  BY Zenon DEF ReadLoop, HandleRequest, HandleResponse, HandleData, HandleUnknown, WriteFails,
         Received, AcquireContext, ReadFails, ProviderClose, NetworkFails, CloseWriter, hndlVars
<1>3. \A r \in Requests : ppc'[r] \in {"reading", "done"} =>
         cur'[r] = cur[r] /\ Try(r) \in Tries /\ ppc[r] \in {"reading", "done"}
  BY <1>0, <1>1 DEF Pushing, Active, Try, Tries
<1>4. CASE HandleResponse(e)
  <2>1. PICK m, o : m = Head(wire[Other(e)]) /\ o = streams[e][m.id]
    OBVIOUS
  <2>2. wire[Other(e)] # <<>> /\ Exists(e) /\ m.op = "response"
    BY <1>4, <2>1 DEF HandleResponse, Received
  <2>3. o \in Objects /\ o[1] = m.try /\ o[2] = "out" /\ m \in Held(Other(e))
    BY <1>0, <2>1, <2>2, Found
  <2>4. m.handled => hsent[m.try] > 0
    BY <1>0, <2>2, <2>3 DEF Answering
  <2>5. header' = [header EXCEPT ![m.try] = IF m.handled THEN "handled" ELSE "unhandled"]
    BY <1>4, <2>1, <2>3 DEF HandleResponse
  <2>6. \A x \in Tries : header'[x] = "handled" => header[x] = "handled" \/ hsent[x] > 0
    BY <1>0, <2>4, <2>5 DEF Types
  <2>7. \A f \in Ends : \A n \in Held(f)' : n \in Held(f)
    BY <1>0, <1>4, <2>2, HeldConsumes DEF HandleResponse
  <2>8. QED
    BY <1>0, <1>1, <1>2, <1>3, <2>6, <2>7, AnswerKept
<1>5. CASE HandleRequest(e)
  <2>1. PICK m : m = Head(wire[Other(e)])
    OBVIOUS
  <2>2. wire[Other(e)] # <<>> /\ m.op = "request" /\ UNCHANGED header
    BY <1>5, <2>1 DEF HandleRequest, Received
  <2>3. m \in Held(Other(e)) /\ m \in Message /\ m.try \in Tries
    BY <1>0, <2>1, <2>2, HeldConsumed, HeldTyped
  <2>4. CASE wire' = Consumed(e) \/ Exit(e)
    <3>1. \A f \in Ends : \A n \in Held(f)' : n \in Held(f)
      BY <1>0, <2>2, <2>4, HeldConsumes, HeldExit
    <3>2. QED
      BY <1>0, <1>1, <1>2, <1>3, <2>2, <3>1, AnswerKept
  <2>5. CASE wire' = Sent(Consumed(e), e, [m EXCEPT !.op = "response", !.handled = FALSE])
    <3>1. PICK r : r = [m EXCEPT !.op = "response", !.handled = FALSE]
      OBVIOUS
    <3>2. r \in Message /\ r.try = m.try /\ r.handled = FALSE
      BY <2>3, <3>1 DEF Message
    <3>3. \A f \in Ends : \A n \in Held(f)' : n \in Held(f) \/ (f = e /\ n = r)
      BY <1>0, <2>2, <2>5, <3>1, <3>2, HeldAnswer
    <3>4. PushEnd(m.try) = Other(e)
      BY <1>0, <2>2, <2>3 DEF IdsInv, IdsOf, Addressed
    <3>5. HandlerEnd(m.try) = e /\ m.try[2] = e[1]
      <4>1. HandlerEnd(m.try) = Other(Other(e)) /\ Other(Other(e)) = e
        BY <2>3, <3>4, TryEnds, OtherEnd
      <4>2. QED
        BY <2>3, <4>1, TryEnds
    <3>6. \A f \in Ends : \A n \in Held(f)' :
             n \in Held(f) \/ (n.try[2] = f[1] /\ HandlerEnd(n.try) = f /\ ~n.handled)
      BY <3>2, <3>3, <3>5
    <3>7. QED
      BY <1>0, <1>1, <1>2, <1>3, <2>2, <3>6, AnswerKept
  <2>6. QED
    BY <1>5, <2>1, <2>4, <2>5 DEF HandleRequest
<1>6. CASE ~HandleRequest(e) /\ ~HandleResponse(e)
  <2>1. UNCHANGED header
    BY <1>6 DEF ReadLoop, HandleData, HandleUnknown, WriteFails,
         MessageRefused, ReadFails, ProviderClose, NetworkFails, CloseWriter
  <2>2. \/ UNCHANGED wire
        \/ wire[Other(e)] # <<>> /\ wire' = Consumed(e)
        \/ Exit(e)
    BY <1>6 DEF ReadLoop, HandleData, HandleUnknown, WriteFails, Received,
         MessageRefused, ReadFails, ProviderClose, NetworkFails, CloseWriter
  <2>3. \A f \in Ends : \A n \in Held(f)' : n \in Held(f)
    <3>1. CASE UNCHANGED wire
      BY <3>1 DEF Held
    <3>2. QED
      BY <1>0, <2>2, <3>1, HeldConsumes, HeldExit
  <2>4. QED
    BY <1>0, <1>1, <1>2, <1>3, <2>1, <2>3, AnswerKept
<1>7. QED
  BY <1>4, <1>5, <1>6

\* Answering holds in every state, unless a Context is reused too early.
LEMMA AnswerInvariance == ASSUME ~ContextReuse PROVE Spec => []AnswerInv
<1>1. Init => AnswerInv
  <2>1. Init => Answering
    BY DEF Init, Answering, Held
  <2>2. QED
    BY <2>1, IdsInit DEF AnswerInv
<1>2. AnswerInv /\ [Next]_vars => AnswerInv'
  <2> SUFFICES ASSUME AnswerInv, [Next]_vars PROVE AnswerInv'
    OBVIOUS
  <2>1. IdsInv'
    BY IdsNext DEF AnswerInv
  <2>2. CASE UNCHANGED vars
    BY <2>1, <2>2 DEF vars, connVars, pushVars, hndlVars, AnswerInv, Answering, Held, Try
  <2>3. CASE Next
    <3>1. Answering'
      BY <2>3, PushAnswer, HandlerAnswer, LoopAnswer DEF Next, Progress
    <3>2. QED
      BY <2>1, <3>1 DEF AnswerInv
  <2>4. QED
    BY <2>2, <2>3
<1>3. QED
  BY <1>1, <1>2, PTL DEF Spec

\* Push returns a stream only when the handler of that very request responded, if no
\* Context is reused while a handler still has to read its connection from it.
THEOREM PushHonestCorrect == ASSUME ~ContextReuse PROVE Spec => []PushHonest
<1>1. AnswerInv => PushHonest
  BY DEF AnswerInv, Answering, PushHonest
<1>2. QED
  BY <1>1, AnswerInvariance, PTL

-----------------------------------------------------------------------------
\* Readers get their chunks in order.

\* Where the chunks of x are in a, which is s with m behind it.
Longer(s, m, a, x) ==
    /\ \A i \in DataIn(s, x) : i \in DataIn(a, x) /\ a[i] = s[i]
    /\ \A i \in DataIn(a, x) :
         \/ i \in DataIn(s, x) /\ a[i] = s[i]
         \/ /\ i = Len(s) + 1 /\ a[i] = m /\ m.op = "data" /\ m.try = x
            /\ \A j \in DataIn(s, x) : j < i
    /\ (m.op = "data" /\ m.try = x) => Len(s) + 1 \in DataIn(a, x) /\ a[Len(s) + 1] = m

\* Where they are in t, which is s without its first message.
Shorter(s, t, x) ==
    /\ \A i \in DataIn(t, x) : i \in Nat /\ i + 1 \in DataIn(s, x) /\ t[i] = s[i + 1]
    /\ \A i \in DataIn(s, x) : i = 1 \/ (i > 1 /\ i - 1 \in DataIn(t, x) /\ t[i - 1] = s[i])
    /\ (1 \in DataIn(s, x)) <=> (s[1].op = "data" /\ s[1].try = x)
    /\ Head(s) = s[1]

\* The chunks of a longer socket.
LEMMA DataAppend ==
    ASSUME NEW s \in Seq(Message), NEW m \in Message, NEW x
    PROVE  Longer(s, m, Append(s, m), x)
<1>1. /\ Len(Append(s, m)) = Len(s) + 1 /\ Append(s, m)[Len(s) + 1] = m /\ Len(s) \in Nat
      /\ \A i \in 1 .. Len(s) : Append(s, m)[i] = s[i]
  BY AppendAt
<1>2. PICK a, n : a = Append(s, m) /\ n = Len(s)
  OBVIOUS
<1>3. /\ Len(a) = n + 1 /\ a[n + 1] = m /\ n \in Nat /\ \A i \in 1 .. n : a[i] = s[i]
  BY <1>1, <1>2
<1>4. Longer(s, m, a, x)
  <2>1. /\ \A i \in DataIn(s, x) : i \in DataIn(a, x) /\ a[i] = s[i]
        /\ \A i \in DataIn(a, x) :
              \/ i \in DataIn(s, x) /\ a[i] = s[i]
              \/ /\ i = n + 1 /\ a[i] = m /\ m.op = "data" /\ m.try = x
                 /\ \A j \in DataIn(s, x) : j < i
        /\ (m.op = "data" /\ m.try = x) => n + 1 \in DataIn(a, x) /\ a[n + 1] = m
    BY <1>2, <1>3 DEF DataIn
  <2>2. QED
    BY <1>2, <2>1, Zenon DEF Longer
<1>5. QED
  BY <1>2, <1>4, Zenon

\* The chunks of a socket without its first message.
LEMMA DataTail ==
    ASSUME NEW s \in Seq(Message), s # <<>>, NEW x
    PROVE  Shorter(s, Tail(s), x)
<1>1. /\ Len(Tail(s)) = Len(s) - 1 /\ Len(s) \in Nat /\ Len(s) >= 1 /\ Head(s) = s[1]
      /\ \A i \in 1 .. Len(s) - 1 : Tail(s)[i] = s[i + 1]
  BY TailAt
<1>2. PICK t, n : t = Tail(s) /\ n = Len(s)
  OBVIOUS
<1>3. /\ Len(t) = n - 1 /\ n \in Nat /\ n >= 1 /\ \A i \in 1 .. n - 1 : t[i] = s[i + 1]
  BY <1>1, <1>2
<1>4. ASSUME NEW i \in DataIn(t, x)
      PROVE  i \in Nat /\ i + 1 \in DataIn(s, x) /\ t[i] = s[i + 1]
  <2>1. i \in 1 .. n - 1 /\ t[i].op = "data" /\ t[i].try = x
    BY <1>3 DEF DataIn
  <2>2. i \in Nat /\ i + 1 \in 1 .. n /\ t[i] = s[i + 1]
    BY <1>3, <2>1
  <2>3. QED
    BY <1>2, <2>1, <2>2 DEF DataIn
<1>5. ASSUME NEW i \in DataIn(s, x), i # 1
      PROVE  i > 1 /\ i - 1 \in DataIn(t, x) /\ t[i - 1] = s[i]
  <2>1. i \in 1 .. n /\ s[i].op = "data" /\ s[i].try = x
    BY <1>2 DEF DataIn
  <2>2. i > 1 /\ i - 1 \in 1 .. n - 1 /\ (i - 1) + 1 = i
    BY <1>3, <1>5, <2>1
  <2>3. t[i - 1] = s[i]
    BY <1>3, <2>2
  <2>4. QED
    BY <1>3, <2>1, <2>2, <2>3 DEF DataIn
<1>6. 1 \in DataIn(s, x) <=> s[1].op = "data" /\ s[1].try = x
  BY <1>2, <1>3 DEF DataIn
<1>7. Shorter(s, t, x)
  BY <1>1, <1>4, <1>5, <1>6 DEF Shorter
<1>8. QED
  BY <1>2, <1>7, Zenon

\* Chunks have numbers.
LEMMA DataTyped ==
    ASSUME NEW s \in Seq(Message), NEW x, NEW i \in DataIn(s, x)
    PROVE  i \in Nat /\ i \in 1 .. Len(s) /\ s[i] \in Message /\ s[i].k \in Nat
<1>1. i \in 1 .. Len(s) /\ Len(s) \in Nat
  BY DEF DataIn
<1>2. i \in Nat /\ s[i] \in Message
  BY <1>1
<1>3. QED
  BY <1>1, <1>2 DEF Message

\* A message for another reader, or no chunk at all, changes nothing;
LEMMA FlowOther ==
    ASSUME NEW s \in Seq(Message), NEW x, NEW h \in Nat, NEW n \in Nat, NEW len \in Nat,
           NEW open \in BOOLEAN, Flow(s, x, h, n, len, open),
           NEW m \in Message, ~(m.op = "data" /\ m.try = x)
    PROVE  Flow(Append(s, m), x, h, n, len, open)
<1>1. PICK a : a = Append(s, m)
  OBVIOUS
<1>2. /\ \A i \in DataIn(s, x) : i \in DataIn(a, x) /\ a[i] = s[i]
      /\ \A i \in DataIn(a, x) : i \in DataIn(s, x) /\ a[i] = s[i]
  <2>1. Longer(s, m, Append(s, m), x)
    BY DataAppend
  <2>2. Longer(s, m, a, x)
    BY <1>1, <2>1, Zenon
  <2>3. QED
    BY <2>2, Zenon DEF Longer
<1>3. Flow(a, x, h, n, len, open)
  BY <1>2 DEF Flow
<1>4. QED
  BY <1>1, <1>3

\* the next chunk goes behind the ones before it;
LEMMA FlowSend ==
    ASSUME NEW s \in Seq(Message), NEW x, NEW h \in Nat, NEW n \in Nat, NEW len \in Nat,
           NEW open \in BOOLEAN, Flow(s, x, h, n, len, open), n <= len,
           NEW m \in Message, m.op = "data", m.try = x, m.k = IF n + 1 <= len THEN n + 1 ELSE 0
    PROVE  Flow(Append(s, m), x, h, n + 1, len, open)
<1>1. PICK a : a = Append(s, m)
  OBVIOUS
<1>2. PICK z : z = Len(s) + 1
  OBVIOUS
<1>3. /\ \A i \in DataIn(s, x) : i \in DataIn(a, x) /\ a[i] = s[i]
      /\ \A i \in DataIn(a, x) :
            \/ i \in DataIn(s, x) /\ a[i] = s[i]
            \/ i = z /\ a[i] = m /\ \A j \in DataIn(s, x) : j < z
      /\ z \in DataIn(a, x) /\ a[z] = m
  <2>1. Longer(s, m, Append(s, m), x)
    BY DataAppend
  <2>2. Longer(s, m, a, x)
    BY <1>1, <2>1, Zenon
  <2>3. QED
    BY <1>2, <2>2, Zenon DEF Longer
<1>4. ASSUME NEW i \in DataIn(s, x)
      PROVE  i \in Nat /\ s[i].k \in Nat /\ s[i].k # 0 /\ h < s[i].k /\ s[i].k <= n
  <2>1. i \in Nat /\ s[i].k \in Nat
    BY DataTyped
  <2>2. (s[i].k = 0 /\ n = len + 1) \/ (h < s[i].k /\ s[i].k <= len /\ s[i].k <= n)
    BY DEF Flow
  <2>3. QED
    BY <2>1, <2>2
<1>11. h <= n /\ h <= len
  BY DEF Flow
<1>5. m.k \in Nat /\ ((m.k = 0 /\ n + 1 = len + 1) \/ (m.k = n + 1 /\ n + 1 <= len))
  <2>1. CASE n + 1 <= len
    BY <2>1
  <2>2. CASE ~(n + 1 <= len)
    BY <2>2
  <2>3. QED
    BY <2>1, <2>2
<1>6. \A i \in DataIn(a, x) : \/ a[i].k = 0 /\ n + 1 = len + 1
                              \/ h < a[i].k /\ a[i].k <= len /\ a[i].k <= n + 1
  BY <1>3, <1>4, <1>5, <1>11
<1>7. ASSUME NEW i \in DataIn(a, x), NEW j \in DataIn(a, x), i < j
      PROVE  a[i].k # 0 /\ (a[j].k = 0 \/ a[i].k < a[j].k)
  <2>1. CASE i \in DataIn(s, x) /\ j \in DataIn(s, x)
    BY <1>3, <1>7, <2>1 DEF Flow
  <2>2. CASE i \in DataIn(s, x) /\ j = z
    BY <1>3, <1>4, <1>5, <2>2
  <2>3. CASE i = z
    <3>1. z \in Nat
      BY <1>2
    <3>2. QED
      BY <1>3, <1>4, <1>7, <2>3, <3>1
  <2>4. QED
    BY <1>3, <2>1, <2>2, <2>3
<1>8. ASSUME open, NEW k \in 1 .. len, h < k, k <= n + 1
      PROVE  \E i \in DataIn(a, x) : a[i].k = k
  <2>1. CASE k <= n
    BY <1>3, <1>8, <2>1 DEF Flow
  <2>2. CASE k = n + 1
    BY <1>3, <1>5, <1>8, <2>2
  <2>3. QED
    BY <1>8, <2>1, <2>2
<1>9. Flow(a, x, h, n + 1, len, open)
  BY <1>6, <1>7, <1>8, <1>11 DEF Flow
<1>10. QED
  BY <1>1, <1>9

\* nothing is kept for a reader whose socket is not read any more;
LEMMA FlowEmpty ==
    ASSUME NEW x, NEW h \in Nat, NEW n \in Nat, NEW len \in Nat, h <= len, h <= n
    PROVE  Flow(<<>>, x, h, n, len, FALSE)
BY DEF Flow, DataIn

\* what is taken for another reader changes nothing;
LEMMA FlowSkip ==
    ASSUME NEW s \in Seq(Message), s # <<>>, NEW x, NEW h \in Nat, NEW n \in Nat, NEW len \in Nat,
           NEW open \in BOOLEAN, Flow(s, x, h, n, len, open),
           ~(Head(s).op = "data" /\ Head(s).try = x)
    PROVE  Flow(Tail(s), x, h, n, len, open)
<1>1. PICK t : t = Tail(s)
  OBVIOUS
<1>2. /\ \A i \in DataIn(t, x) : i \in Nat /\ i + 1 \in DataIn(s, x) /\ t[i] = s[i + 1]
      /\ \A i \in DataIn(s, x) : i > 1 /\ i - 1 \in DataIn(t, x) /\ t[i - 1] = s[i]
  <2>1. Shorter(s, Tail(s), x)
    BY DataTail
  <2>2. Shorter(s, t, x)
    BY <1>1, <2>1, Zenon
  <2>3. QED
    BY <2>2 DEF Shorter
<1>3. \A i \in DataIn(t, x) : \/ t[i].k = 0 /\ n = len + 1
                              \/ h < t[i].k /\ t[i].k <= len /\ t[i].k <= n
  BY <1>2 DEF Flow
<1>4. ASSUME NEW i \in DataIn(t, x), NEW j \in DataIn(t, x), i < j
      PROVE  t[i].k # 0 /\ (t[j].k = 0 \/ t[i].k < t[j].k)
  <2>1. i + 1 < j + 1 /\ i + 1 \in DataIn(s, x) /\ j + 1 \in DataIn(s, x)
    BY <1>2, <1>4
  <2>2. s[i + 1].k # 0 /\ (s[j + 1].k = 0 \/ s[i + 1].k < s[j + 1].k)
    BY <2>1, Zenon DEF Flow
  <2>3. QED
    BY <1>2, <2>2, Zenon
<1>5. ASSUME open, NEW k \in 1 .. len, h < k, k <= n
      PROVE  \E i \in DataIn(t, x) : t[i].k = k
  <2>1. PICK i \in DataIn(s, x) : s[i].k = k
    BY <1>5 DEF Flow
  <2>2. QED
    BY <1>2, <2>1
<1>6. Flow(t, x, h, n, len, open)
  BY <1>3, <1>4, <1>5, Zenon DEF Flow
<1>7. QED
  BY <1>1, <1>6

\* the chunk that is taken is the next one, and the empty one comes after all others.
LEMMA FlowTake ==
    ASSUME NEW s \in Seq(Message), s # <<>>, NEW x, NEW h \in Nat, NEW n \in Nat, NEW len \in Nat,
           Flow(s, x, h, n, len, TRUE),
           Head(s).op = "data", Head(s).try = x
    PROVE  /\ Head(s).k # 0 => Head(s).k = h + 1 /\ Flow(Tail(s), x, h + 1, n, len, TRUE)
           /\ Head(s).k = 0 => h = len /\ Flow(Tail(s), x, h, n, len, TRUE)
<1>1. PICK t : t = Tail(s)
  OBVIOUS
<1>2. /\ \A i \in DataIn(t, x) : i \in Nat /\ i + 1 \in DataIn(s, x) /\ t[i] = s[i + 1]
      /\ \A i \in DataIn(s, x) : i = 1 \/ (i > 1 /\ i - 1 \in DataIn(t, x) /\ t[i - 1] = s[i])
      /\ 1 \in DataIn(s, x) /\ Head(s) = s[1]
  <2>1. Shorter(s, Tail(s), x)
    BY DataTail
  <2>2. Shorter(s, t, x)
    BY <1>1, <2>1, Zenon
  <2>3. QED
    BY <2>2 DEF Shorter
<1>4. \A i \in DataIn(s, x) : i \in Nat /\ s[i].k \in Nat
  BY DataTyped
<1>3. PICK a \in Nat : a = s[1].k
  BY <1>2, <1>4
<1>5. \A i \in DataIn(t, x) : 1 < i + 1 /\ i + 1 \in DataIn(s, x) /\ t[i] = s[i + 1] /\ t[i].k \in Nat
  <2>1. ASSUME NEW i \in DataIn(t, x) PROVE 1 < i + 1
    <3>1. i \in 1 .. Len(t)
      BY DEF DataIn
    <3>2. QED
      BY <1>2, <3>1
  <2>2. QED
    BY <1>2, <1>4, <2>1
<1>6. ASSUME NEW i \in DataIn(t, x) PROVE a # 0 /\ (t[i].k = 0 \/ a < t[i].k)
  BY <1>2, <1>3, <1>5 DEF Flow
<1>7. ASSUME NEW i \in DataIn(t, x), NEW j \in DataIn(t, x), i < j
      PROVE  t[i].k # 0 /\ (t[j].k = 0 \/ t[i].k < t[j].k)
  <2>1. i + 1 < j + 1 /\ i + 1 \in DataIn(s, x) /\ j + 1 \in DataIn(s, x)
    BY <1>2, <1>7
  <2>2. s[i + 1].k # 0 /\ (s[j + 1].k = 0 \/ s[i + 1].k < s[j + 1].k)
    BY <2>1, Zenon DEF Flow
  <2>3. QED
    BY <1>2, <2>2, Zenon
<1>8. ASSUME NEW k \in 1 .. len, h < k, k <= n, k # a
      PROVE  \E i \in DataIn(t, x) : t[i].k = k
  <2>1. PICK i \in DataIn(s, x) : s[i].k = k
    BY <1>8 DEF Flow
  <2>2. QED
    BY <1>2, <1>3, <1>8, <2>1
<1>9. h <= len /\ h <= n /\ ((a = 0 /\ n = len + 1) \/ (h < a /\ a <= len /\ a <= n))
  BY <1>2, <1>3 DEF Flow
<1>10. CASE a # 0
  <2>1. a = h + 1
    <3>1. SUFFICES ASSUME a > h + 1 PROVE FALSE
      BY <1>9, <1>10
    <3>2. h + 1 \in 1 .. len /\ h < h + 1 /\ h + 1 <= n /\ h + 1 # a
      BY <1>9, <1>10, <3>1
    <3>3. PICK i \in DataIn(t, x) : t[i].k = h + 1
      BY <1>8, <3>2
    <3>4. QED
      BY <1>6, <3>1, <3>3
  <2>2. \A i \in DataIn(t, x) : \/ t[i].k = 0 /\ n = len + 1
                                \/ h + 1 < t[i].k /\ t[i].k <= len /\ t[i].k <= n
    <3>1. \A i \in DataIn(t, x) : \/ t[i].k = 0 /\ n = len + 1
                                  \/ h < t[i].k /\ t[i].k <= len /\ t[i].k <= n
      BY <1>5 DEF Flow
    <3>2. QED
      BY <1>5, <1>6, <2>1, <3>1
  <2>3. \A k \in 1 .. len : h + 1 < k /\ k <= n => \E i \in DataIn(t, x) : t[i].k = k
    BY <1>8, <2>1
  <2>4. Flow(t, x, h + 1, n, len, TRUE)
    BY <1>7, <1>9, <1>10, <2>1, <2>2, <2>3 DEF Flow
  <2>5. QED
    BY <1>1, <1>2, <1>3, <1>10, <2>1, <2>4
<1>11. CASE a = 0
  <2>1. DataIn(t, x) = {}
    BY <1>6, <1>11
  <2>2. h = len
    <3>1. SUFFICES ASSUME h < len PROVE FALSE
      BY <1>9
    <3>2. h + 1 \in 1 .. len /\ h < h + 1 /\ h + 1 <= n /\ h + 1 # a
      BY <1>9, <1>11, <3>1
    <3>3. QED
      BY <1>8, <2>1, <3>2
  <2>3. Flow(t, x, h, n, len, TRUE)
    <3>1. \A k \in 1 .. len : ~(h < k)
      BY <2>2
    <3>2. QED
      BY <1>9, <2>1, <2>2, <3>1 DEF Flow
  <2>4. QED
    BY <1>1, <1>2, <1>3, <1>11, <2>2, <2>3
<1>12. QED
  BY <1>10, <1>11

\* The numbers of an object, and where its messages come from.
LEMMA ObjectTyped ==
    ASSUME Types, NEW o \in Objects
    PROVE  /\ got[o] \in Seq(Message) /\ Len(got[o]) \in Nat /\ Have(o) \in Nat /\ Emitted(o) \in Nat
           /\ Length(o) \in Nat /\ Source(o) \in Ends /\ EndOf(o) \in Ends
           /\ Other(Source(o)) = EndOf(o) /\ Source(o) # EndOf(o) /\ Other(EndOf(o)) = Source(o)
           /\ wire[Source(o)] \in Seq(Message) /\ Len(got[o]) <= Have(o)
           /\ (loop[EndOf(o)] # "exited") \in BOOLEAN
<1>1. o[1] \in Tries /\ o[1][1] \in Requests /\ EndOf(o) \in Ends
  BY ObjectEnds
<1>2. /\ Source(o) \in Ends /\ Other(Source(o)) = EndOf(o) /\ Source(o) # EndOf(o)
  BY <1>1, OtherEnd DEF Source
<1>3. got[o] \in Seq(Message) /\ wire[Source(o)] \in Seq(Message)
  BY <1>2 DEF Types
<1>4. PICK g \in Nat : g = Len(got[o])
  BY <1>3
<1>5. Have(o) = g + (IF Pending(o) THEN 1 ELSE 0)
  BY <1>4 DEF Have
<1>6. Have(o) \in Nat /\ g <= Have(o)
  BY <1>5
<1>7. Emitted(o) \in Nat
  <2>1. sent[o[1]] \in Nat /\ hsent[o[1]] \in Nat
    BY <1>1 DEF Types
  <2>2. QED
    BY <2>1 DEF Emitted
<1>8. Length(o) \in Nat
  BY <1>1, StreamsAssumption DEF Length
<1>9. QED
  BY <1>1, <1>2, <1>3, <1>4, <1>6, <1>7, <1>8 DEF Source

\* The source of a try's objects.
LEMMA SourceOf ==
    ASSUME NEW x \in Tries
    PROVE  Source(<<x, "in">>) = PushEnd(x) /\ Source(<<x, "out">>) = HandlerEnd(x)
BY TryEnds, OtherEnd DEF Source

\* What keeps ChunksOf for a reader that gets nothing.
LEMMA ChunksQuiet ==
    ASSUME Types, NEW o \in Objects, ChunksOf(o), got'[o] = got[o], Emitted(o)' = Emitted(o),
           Pending(o)' <=> Pending(o), Pending(o) => chunk'[EndOf(o)] = chunk[EndOf(o)],
           loop'[EndOf(o)] = "exited" <=> loop[EndOf(o)] = "exited",
           \/ wire'[Source(o)] = wire[Source(o)]
           \/ \E m \in Message : /\ wire'[Source(o)] = Append(wire[Source(o)], m)
                                 /\ ~(m.op = "data" /\ m.try = o[1])
           \/ /\ wire[Source(o)] # <<>> /\ wire'[Source(o)] = Tail(wire[Source(o)])
              /\ ~(Head(wire[Source(o)]).op = "data" /\ Head(wire[Source(o)]).try = o[1])
    PROVE  ChunksOf(o)'
<1>1. Have(o)' = Have(o)
  BY DEF Have
<1>2. /\ Have(o) \in Nat /\ Emitted(o) \in Nat /\ Length(o) \in Nat
      /\ wire[Source(o)] \in Seq(Message) /\ (loop[EndOf(o)] # "exited") \in BOOLEAN
  BY ObjectTyped
<1>3. Flow(wire[Source(o)], o[1], Have(o), Emitted(o), Length(o), loop[EndOf(o)] # "exited")
  BY DEF ChunksOf
<1>4. Flow(wire'[Source(o)], o[1], Have(o), Emitted(o), Length(o), loop[EndOf(o)] # "exited")
  BY <1>2, <1>3, FlowOther, FlowSkip
<1>5. (loop'[EndOf(o)] # "exited") = (loop[EndOf(o)] # "exited")
  OBVIOUS
<1>6. Flow(wire'[Source(o)], o[1], Have(o)', Emitted(o)', Length(o), loop'[EndOf(o)] # "exited")
  BY <1>1, <1>4, <1>5
<1>7. QED
  BY <1>6, ZenonT(30) DEF ChunksOf, Source, Length, EndOf, PushEnd, HandlerEnd, Other

\* What keeps ChunksOf when the read loop ends.
LEMMA ChunksExit ==
    ASSUME Types, NEW o \in Objects, ChunksOf(o), got'[o] = got[o], Emitted(o)' = Emitted(o),
           wire'[Source(o)] = <<>>, loop'[EndOf(o)] = "exited"
    PROVE  ChunksOf(o)'
<1>1. ~Pending(o)' /\ Have(o)' = Len(got[o]) + 0 /\ Len(got[o]) \in Nat
  BY ObjectTyped DEF Pending, Have, EndOf, PushEnd, HandlerEnd, Other
<1>2. /\ Have(o) \in Nat /\ Emitted(o) \in Nat /\ Length(o) \in Nat /\ Len(got[o]) <= Have(o)
  BY ObjectTyped
<1>3. Have(o) <= Length(o) /\ Have(o) <= Emitted(o)
  BY DEF ChunksOf, Flow
<1>4. PICK h \in Nat : h = Len(got[o]) /\ h = Have(o)'
  BY <1>1
<1>5. h <= Length(o) /\ h <= Emitted(o)
  BY <1>2, <1>3, <1>4
<1>6. Flow(<<>>, o[1], h, Emitted(o), Length(o), FALSE)
  BY <1>2, <1>5, FlowEmpty
<1>7. (loop'[EndOf(o)] # "exited") = FALSE
  OBVIOUS
<1>8. Flow(wire'[Source(o)], o[1], Have(o)', Emitted(o)', Length(o), loop'[EndOf(o)] # "exited")
  BY <1>4, <1>6, <1>7
<1>9. QED
  BY <1>1, <1>8 DEF ChunksOf, Source, Length, EndOf, PushEnd, HandlerEnd, Other

\* Nothing moves.
LEMMA ChunksIdle ==
    ASSUME NEW o \in Objects, ChunksOf(o), UNCHANGED <<got, loop, chunk, wire, sent, hsent>>
    PROVE  ChunksOf(o)'
BY DEF ChunksOf, Pending, Have, Emitted, Source, Length, EndOf, PushEnd, HandlerEnd, Other

\* A Send.
LEMMA ChunksSend ==
    ASSUME Types, Drained, NEW e \in Ends, NEW m \in Message, Send(e, m),
           UNCHANGED <<got, loop, chunk>>, NEW o \in Objects, ChunksOf(o),
           \/ Emitted(o)' = Emitted(o) /\ ~(Source(o) = e /\ m.op = "data" /\ m.try = o[1])
           \/ /\ Emitted(o)' = Emitted(o) + 1 /\ Source(o) = e /\ m.op = "data" /\ m.try = o[1]
              /\ Emitted(o) <= Length(o)
              /\ m.k = IF Emitted(o) + 1 <= Length(o) THEN Emitted(o) + 1 ELSE 0
    PROVE  ChunksOf(o)'
<1>1. /\ Have(o) \in Nat /\ Emitted(o) \in Nat /\ Length(o) \in Nat /\ Source(o) \in Ends
      /\ wire[Source(o)] \in Seq(Message) /\ (loop[EndOf(o)] # "exited") \in BOOLEAN
      /\ Other(Source(o)) = EndOf(o)
  BY ObjectTyped
<1>2. (Pending(o)' <=> Pending(o)) /\ Have(o)' = Have(o)
  BY DEF Pending, Have, EndOf, PushEnd, HandlerEnd, Other
<1>3. \/ wire'[Source(o)] = wire[Source(o)] /\ (Source(o) = e => loop[EndOf(o)] = "exited")
      \/ Source(o) = e /\ wire'[Source(o)] = Append(wire[Source(o)], m)
  BY <1>1 DEF Types, Send, Sent
<1>4. CASE Emitted(o)' = Emitted(o) /\ ~(Source(o) = e /\ m.op = "data" /\ m.try = o[1])
  BY <1>2, <1>3, <1>4, ChunksQuiet
<1>5. CASE /\ Emitted(o)' = Emitted(o) + 1 /\ Source(o) = e /\ m.op = "data" /\ m.try = o[1]
           /\ Emitted(o) <= Length(o)
           /\ m.k = IF Emitted(o) + 1 <= Length(o) THEN Emitted(o) + 1 ELSE 0
  <2>1. Flow(wire[Source(o)], o[1], Have(o), Emitted(o), Length(o), loop[EndOf(o)] # "exited")
    BY DEF ChunksOf
  <2>2. PICK op \in BOOLEAN : op = (loop[EndOf(o)] # "exited")
    BY <1>1
  <2>3. Flow(wire'[Source(o)], o[1], Have(o), Emitted(o) + 1, Length(o), op)
    <3>1. CASE wire'[Source(o)] = Append(wire[Source(o)], m)
      <4>1. Flow(Append(wire[Source(o)], m), o[1], Have(o), Emitted(o) + 1, Length(o), op)
        BY <1>1, <1>5, <2>1, <2>2, FlowSend
      <4>2. QED
        BY <3>1, <4>1
    <3>2. CASE wire'[Source(o)] = wire[Source(o)] /\ loop[EndOf(o)] = "exited"
      <4>1. wire'[Source(o)] = <<>> /\ op = FALSE
        BY <1>1, <2>2, <3>2, OtherEnd DEF Drained, Source
      <4>2. Have(o) <= Length(o) /\ Have(o) <= Emitted(o) + 1 /\ Emitted(o) + 1 \in Nat
        BY <1>1, <2>1 DEF Flow
      <4>3. QED
        BY <1>1, <4>1, <4>2, FlowEmpty
    <3>3. QED
      BY <1>3, <1>5, <3>1, <3>2
  <2>4. Flow(wire'[Source(o)], o[1], Have(o)', Emitted(o)', Length(o), loop'[EndOf(o)] # "exited")
    BY <1>2, <1>5, <2>2, <2>3
  <2>5. QED
    BY <1>2, <2>4 DEF ChunksOf, Source, Length, EndOf, PushEnd, HandlerEnd, Other
<1>6. QED
  BY <1>4, <1>5

\* A reader takes the chunk that is offered.
LEMMA ChunksTake ==
    ASSUME Types, Pushing, NEW q \in Objects, TakeChunk(q), UNCHANGED <<wire, sent, hsent>>,
           NEW o \in Objects, ChunksOf(o)
    PROVE  ChunksOf(o)'
<1>1. /\ EndOf(q) \in Ends /\ EndOf(o) \in Ends /\ loop[EndOf(q)] = "writing"
      /\ chunk[EndOf(q)] \in Objects \X Message /\ chunk[EndOf(q)][1] = q
      /\ got' = [got EXCEPT ![q] = Append(@, chunk[EndOf(q)][2])]
      /\ loop' = [loop EXCEPT ![EndOf(q)] = "read"] /\ chunk' = [chunk EXCEPT ![EndOf(q)] = None]
  BY ObjectEnds DEF TakeChunk, Offered, Pushing
<1>2. Emitted(o)' = Emitted(o)
  BY DEF Emitted
<1>3. CASE o # q
  <2>1. got'[o] = got[o]
    BY <1>1, <1>3 DEF Types
  <2>2. CASE EndOf(o) = EndOf(q)
    <3>1. ~Pending(o)' /\ ~Pending(o) /\ loop'[EndOf(o)] = "read"
      BY <1>1, <1>3, <2>2 DEF Types, Pending, EndOf, PushEnd, HandlerEnd, Other
    <3>2. QED
      BY <1>1, <1>2, <2>1, <2>2, <3>1, ChunksQuiet
  <2>3. CASE EndOf(o) # EndOf(q)
    <3>1. loop'[EndOf(o)] = loop[EndOf(o)] /\ chunk'[EndOf(o)] = chunk[EndOf(o)]
      BY <1>1, <2>3 DEF Types
    <3>2. Pending(o)' <=> Pending(o)
      BY <3>1 DEF Pending, EndOf, PushEnd, HandlerEnd, Other
    <3>3. QED
      BY <1>2, <2>1, <3>1, <3>2, ChunksQuiet
  <2>4. QED
    BY <2>2, <2>3
<1>4. CASE o = q
  <2>1. Pending(o) /\ ~Pending(o)' /\ loop'[EndOf(o)] = "read"
    BY <1>1, <1>4 DEF Types, Pending, EndOf, PushEnd, HandlerEnd, Other
  <2>2. PICK c \in Message : c = chunk[EndOf(o)][2] /\ got'[o] = Append(got[o], c)
    BY <1>1, <1>4 DEF Types
  <2>3. got[o] \in Seq(Message) /\ Len(got[o]) \in Nat
    BY ObjectTyped
  <2>4. /\ Len(got'[o]) = Len(got[o]) + 1 /\ got'[o][Len(got[o]) + 1] = c
        /\ \A i \in 1 .. Len(got[o]) : got'[o][i] = got[o][i]
    BY <2>2, <2>3, AppendAt
  <2>5. c.try = o[1] /\ c.k = Len(got[o]) + 1
    BY <2>1, <2>2 DEF ChunksOf
  <2>6. \A i \in 1 .. Len(got'[o]) : got'[o][i].try = o[1] /\ got'[o][i].k = i
    <3>1. PICK n \in Nat : n = Len(got[o])
      BY <2>3
    <3>2. ASSUME NEW i \in 1 .. n + 1 PROVE got'[o][i].try = o[1] /\ got'[o][i].k = i
      <4>1. CASE i \in 1 .. n
        BY <2>4, <3>1, <4>1 DEF ChunksOf
      <4>2. CASE i = n + 1
        BY <2>4, <2>5, <3>1, <4>2
      <4>3. QED
        BY <3>2, <4>1, <4>2
    <3>3. QED
      BY <2>4, <3>1, <3>2
  <2>7. Have(o)' = Have(o)
    BY <2>1, <2>3, <2>4 DEF Have
  <2>8. Flow(wire[Source(o)], o[1], Have(o), Emitted(o), Length(o), loop[EndOf(o)] # "exited")
    BY DEF ChunksOf
  <2>9. (loop'[EndOf(o)] # "exited") = TRUE /\ (loop[EndOf(o)] # "exited") = TRUE
    BY <1>1, <1>4, <2>1
  <2>10. Flow(wire'[Source(o)], o[1], Have(o)', Emitted(o)', Length(o), loop'[EndOf(o)] # "exited")
    BY <1>2, <2>7, <2>8, <2>9
  <2>11. QED
    BY <2>1, <2>6, <2>10 DEF ChunksOf, Source, Length, EndOf, PushEnd, HandlerEnd, Other
<1>5. QED
  BY <1>3, <1>4

\* HandleMessage takes a message: a chunk is the next one of its reader, the empty one
\* comes when the reader has them all.
LEMMA ChunksRead ==
    ASSUME Types, NEW e \in Ends, loop[e] = "read", wire[Other(e)] # <<>>,
           NEW m, m = Head(wire[Other(e)]), wire'[Other(e)] = Tail(wire[Other(e)]),
           \/ wire'[e] = wire[e]
           \/ \E r \in Message : r.op # "data" /\ wire'[e] = Append(wire[e], r),
           \A f \in Ends : f # e /\ f # Other(e) => wire'[f] = wire[f],
           UNCHANGED <<got, sent, hsent>>,
           \/ UNCHANGED <<loop, chunk>> /\ (m.op = "data" => m.k = 0)
           \/ \E q \in Objects :
                /\ q[1] = m.try /\ EndOf(q) = e /\ m.op = "data" /\ m.k # 0
                /\ loop' = [loop EXCEPT ![e] = "writing"] /\ chunk' = [chunk EXCEPT ![e] = <<q, m>>],
           NEW o \in Objects, ChunksOf(o)
    PROVE  /\ ChunksOf(o)'
           /\ (EndOf(o) = e /\ m.op = "data" /\ m.try = o[1] /\ m.k = 0) => Len(got[o]) = Length(o)
<1>1. /\ Have(o) \in Nat /\ Emitted(o) \in Nat /\ Length(o) \in Nat /\ Source(o) \in Ends
      /\ wire[Source(o)] \in Seq(Message) /\ EndOf(o) \in Ends /\ Other(Source(o)) = EndOf(o)
      /\ Other(EndOf(o)) = Source(o) /\ Len(got[o]) \in Nat /\ Source(o) # EndOf(o)
  BY ObjectTyped
<1>2. /\ Other(e) \in Ends /\ Other(Other(e)) = e /\ Other(e) # e
  BY OtherEnd
<1>3. Emitted(o)' = Emitted(o) /\ got'[o] = got[o]
  BY DEF Emitted
<1>4. Flow(wire[Source(o)], o[1], Have(o), Emitted(o), Length(o), loop[EndOf(o)] # "exited")
  BY DEF ChunksOf
<1>5. CASE EndOf(o) # e
  <2>1. Source(o) # Other(e)
    BY <1>1, <1>2, <1>5
  <2>2. loop'[EndOf(o)] = loop[EndOf(o)] /\ chunk'[EndOf(o)] = chunk[EndOf(o)]
    BY <1>1, <1>5 DEF Types
  <2>3. Pending(o)' <=> Pending(o)
    BY <2>2 DEF Pending, EndOf, PushEnd, HandlerEnd, Other
  <2>4. \/ wire'[Source(o)] = wire[Source(o)]
        \/ \E r \in Message : /\ wire'[Source(o)] = Append(wire[Source(o)], r)
                              /\ ~(r.op = "data" /\ r.try = o[1])
    BY <1>1, <2>1
  <2>5. ChunksOf(o)'
    BY <1>3, <2>2, <2>3, <2>4, ChunksQuiet
  <2>6. QED
    BY <1>5, <2>5
<1>6. CASE EndOf(o) = e
  <2>1. Source(o) = Other(e) /\ ~Pending(o) /\ wire'[Source(o)] = Tail(wire[Source(o)])
        /\ wire[Source(o)] # <<>> /\ m = Head(wire[Source(o)]) /\ Have(o) = Len(got[o])
    <3>1. Source(o) = Other(e) /\ loop[EndOf(o)] = "read"
      BY <1>1, <1>6
    <3>2. ~Pending(o)
      BY <3>1 DEF Pending
    <3>3. PICK n \in Nat : n = Len(got[o])
      BY <1>1, Zenon
    <3>4. Have(o) = n + 0
      BY <3>2, <3>3 DEF Have
    <3>5. Have(o) = Len(got[o])
      BY <3>3, <3>4
    <3>6. wire'[Source(o)] = Tail(wire[Source(o)]) /\ wire[Source(o)] # <<>> /\ m = Head(wire[Source(o)])
      BY <3>1, Zenon
    <3>7. QED
      BY <3>1, <3>2, <3>5, <3>6
  <2>2. loop'[EndOf(o)] # "exited" /\ loop[EndOf(o)] # "exited"
    BY <1>1, <1>6 DEF Types
  <2>3. CASE ~(m.op = "data" /\ m.try = o[1])
    <3>1. ~Pending(o)'
      <4>1. CASE UNCHANGED <<loop, chunk>>
        BY <1>6, <2>1, <4>1 DEF Pending, EndOf, PushEnd, HandlerEnd, Other
      <4>2. CASE \E q \in Objects :
                   /\ q[1] = m.try /\ m.op = "data" /\ chunk' = [chunk EXCEPT ![e] = <<q, m>>]
        <5>1. PICK q \in Objects :
                   /\ q[1] = m.try /\ m.op = "data" /\ chunk' = [chunk EXCEPT ![e] = <<q, m>>]
          BY <4>2
        <5>2. chunk'[EndOf(o)][1] = q /\ q # o
          BY <1>6, <2>3, <5>1 DEF Types
        <5>3. QED
          BY <5>2 DEF Pending, EndOf, PushEnd, HandlerEnd, Other
      <4>3. QED
        BY <4>1, <4>2
    <3>2. ChunksOf(o)'
      BY <1>3, <2>1, <2>2, <2>3, <3>1, ChunksQuiet
    <3>3. QED
      BY <2>3, <3>2
  <2>4. CASE m.op = "data" /\ m.try = o[1]
    <3>1. (loop[EndOf(o)] # "exited") = TRUE /\ (loop'[EndOf(o)] # "exited") = TRUE
      BY <2>2
    <3>2. Flow(wire[Source(o)], o[1], Have(o), Emitted(o), Length(o), TRUE)
      BY <1>4, <3>1
    <3>3. /\ m.k # 0 => /\ m.k = Have(o) + 1
                        /\ Flow(wire'[Source(o)], o[1], Have(o) + 1, Emitted(o), Length(o), TRUE)
          /\ m.k = 0 => /\ Have(o) = Length(o)
                        /\ Flow(wire'[Source(o)], o[1], Have(o), Emitted(o), Length(o), TRUE)
      <4>1. PICK s \in Seq(Message) : s = wire[Source(o)]
        BY <1>1, Zenon
      <4>2. PICK h, n, len \in Nat : h = Have(o) /\ n = Emitted(o) /\ len = Length(o)
        BY <1>1, Zenon
      <4>3. s # <<>> /\ Head(s).op = "data" /\ Head(s).try = o[1] /\ Flow(s, o[1], h, n, len, TRUE)
            /\ m = Head(s) /\ wire'[Source(o)] = Tail(s)
        BY <2>1, <2>4, <3>2, <4>1, <4>2, Zenon
      <4>4. /\ Head(s).k # 0 => Head(s).k = h + 1 /\ Flow(Tail(s), o[1], h + 1, n, len, TRUE)
            /\ Head(s).k = 0 => h = len /\ Flow(Tail(s), o[1], h, n, len, TRUE)
        BY <4>3, FlowTake, Zenon
      <4>5. QED
        BY <4>2, <4>3, <4>4, Zenon
    <3>4. CASE m.k = 0
      <4>1. UNCHANGED <<loop, chunk>>
        BY <3>4
      <4>2. ~Pending(o)' /\ Have(o)' = Have(o)
        BY <2>1, <4>1 DEF Pending, Have, EndOf, PushEnd, HandlerEnd, Other
      <4>3. Flow(wire'[Source(o)], o[1], Have(o)', Emitted(o)', Length(o), loop'[EndOf(o)] # "exited")
        BY <1>3, <3>1, <3>3, <3>4, <4>2
      <4>4. ChunksOf(o)'
        BY <4>2, <4>3 DEF ChunksOf, Source, Length, EndOf, PushEnd, HandlerEnd, Other
      <4>5. QED
        BY <2>1, <3>3, <3>4, <4>4
    <3>5. CASE m.k # 0
      <4>1. PICK q \in Objects :
                /\ q[1] = m.try /\ EndOf(q) = e
                /\ loop' = [loop EXCEPT ![e] = "writing"] /\ chunk' = [chunk EXCEPT ![e] = <<q, m>>]
        BY <2>4, <3>5
      <4>2. q = o
        <5>1. q = <<q[1], q[2]>> /\ o = <<o[1], o[2]>> /\ q[2] \in {"out", "in"} /\ o[2] \in {"out", "in"}
              /\ o[1] \in Tries
          BY ObjectEnds
        <5>2. PushEnd(o[1]) # HandlerEnd(o[1])
          BY <5>1, TryEnds, OtherEnd
        <5>3. q[2] = o[2]
          BY <1>6, <2>4, <4>1, <5>1, <5>2 DEF EndOf
        <5>4. QED
          BY <2>4, <4>1, <5>1, <5>3
      <4>3. chunk'[EndOf(o)] = <<o, m>> /\ loop'[EndOf(o)] = "writing"
        BY <1>6, <4>1, <4>2 DEF Types
      <4>4. Pending(o)' /\ chunk'[EndOf(o)][2] = m
        BY <4>3 DEF Pending, EndOf, PushEnd, HandlerEnd, Other
      <4>5. Have(o)' = Have(o) + 1
        BY <2>1, <4>4 DEF Have
      <4>6. Flow(wire'[Source(o)], o[1], Have(o)', Emitted(o)', Length(o), loop'[EndOf(o)] # "exited")
        BY <1>3, <3>1, <3>3, <3>5, <4>5
      <4>7. m.try = o[1] /\ m.k = Len(got'[o]) + 1
        BY <1>3, <2>1, <2>4, <3>3, <3>5
      <4>8. ChunksOf(o)'
        BY <4>4, <4>6, <4>7 DEF ChunksOf, Source, Length, EndOf, PushEnd, HandlerEnd, Other
      <4>9. QED
        BY <3>5, <4>8
    <3>6. QED
      BY <3>4, <3>5
  <2>5. QED
    BY <2>3, <2>4
<1>7. QED
  BY <1>5, <1>6

\* A read loop ends.
LEMMA ChunksEnd ==
    ASSUME Types, NEW e \in Ends, Exit(e), UNCHANGED <<got, sent, hsent>>,
           UNCHANGED chunk \/ chunk' = [chunk EXCEPT ![e] = None], NEW o \in Objects, ChunksOf(o)
    PROVE  ChunksOf(o)'
<1>1. /\ Source(o) \in Ends /\ EndOf(o) \in Ends /\ Other(Source(o)) = EndOf(o)
      /\ Other(EndOf(o)) = Source(o) /\ Other(Other(e)) = e
  BY ObjectTyped, OtherEnd
<1>2. /\ wire'[Other(e)] = <<>> /\ (\A f \in Ends : f # Other(e) => wire'[f] = wire[f])
      /\ loop' = [loop EXCEPT ![e] = "exited"]
  BY HeldExit
<1>3. Emitted(o)' = Emitted(o) /\ got'[o] = got[o]
  BY DEF Emitted
<1>4. CASE EndOf(o) = e
  <2>1. loop'[EndOf(o)] = "exited"
    BY <1>2, <1>4 DEF Types
  <2>2. QED
    BY <1>1, <1>2, <1>3, <1>4, <2>1, ChunksExit
<1>5. CASE EndOf(o) # e
  <2>1. loop'[EndOf(o)] = loop[EndOf(o)] /\ chunk'[EndOf(o)] = chunk[EndOf(o)]
    BY <1>1, <1>2, <1>5 DEF Types
  <2>2. Pending(o)' <=> Pending(o)
    BY <2>1 DEF Pending, EndOf, PushEnd, HandlerEnd, Other
  <2>3. wire'[Source(o)] = wire[Source(o)]
    BY <1>1, <1>2, <1>5
  <2>4. QED
    BY <1>3, <2>1, <2>2, <2>3, ChunksQuiet
<1>6. QED
  BY <1>4, <1>5

-----------------------------------------------------------------------------
\* Every step keeps the chunks in order.

\* What a step of Push does to its state: it never goes back behind the header.
Moves(p, q, c) ==
    /\ ppc' = [ppc EXCEPT ![p] = q] /\ cur' = [cur EXCEPT ![p] = c]
    /\ q \in {"try", "header", "body", "wait", "reading", "done", "failed"}
    /\ ppc[p] \in {"body", "wait", "reading", "done", "failed"} =>
          q \in {"body", "wait", "reading", "done", "failed"} /\ c = cur[p]
    /\ q = "body" => ppc[p] \in {"header", "body"} /\ c = cur[p]

\* Every step of Push is such a step.
LEMMA PushMoves ==
    ASSUME Types, NEW p \in Requests, NodePush(p) \/ Push(p) \/ BodyFails(p) \/ UserLeaves(p)
    PROVE  \E q, c : Moves(p, q, c)
<1>0. ppc = [ppc EXCEPT ![p] = ppc[p]] /\ cur = [cur EXCEPT ![p] = cur[p]]
  BY DEF Types
<1>1. CASE \E c \in Conns : NextStream(p, c)
  <2>1. PICK c \in Conns : NextStream(p, c)
    BY <1>1
  <2>2. Moves(p, "header", c)
    BY <2>1 DEF NextStream, Moves
  <2>3. QED
    BY <2>2
<1>2. CASE UserReads(p)
  <2>1. /\ ppc[p] = "reading" /\ UNCHANGED cur
        /\ ppc' = [ppc EXCEPT ![p] = "reading"] \/ ppc' = [ppc EXCEPT ![p] = "done"]
    BY <1>0, <1>2 DEF UserReads
  <2>2. QED
    BY <1>0, <2>1 DEF Moves
<1>3. CASE /\ ~UserReads(p)
           /\ ~\E c \in Conns : NextStream(p, c)
  <2>1. UNCHANGED cur
    BY <1>3 DEF NodePush, Push, BodyFails, UserLeaves, NoProviderLeft, PushHeader, PushChunk,
                PushFails, PushReturn
  <2>2. PICK q \in {"try", "body", "wait", "reading", "done", "failed"} :
            /\ ppc' = [ppc EXCEPT ![p] = q]
            /\ ppc[p] \in {"body", "wait", "reading", "done", "failed"} => q # "try"
            /\ q = "body" => ppc[p] \in {"header", "body"}
    BY <1>3 DEF NodePush, Push, BodyFails, UserLeaves, NoProviderLeft, PushHeader, PushChunk,
                PushFails, PushReturn, AfterFailure, Returned
  <2>3. QED
    BY <1>0, <2>1, <2>2 DEF Moves
<1>4. QED
  BY <1>1, <1>2, <1>3

\* What is committed stays so.
LEMMA CommittedMoves ==
    ASSUME Types, NEW p \in Requests, NEW q, NEW c, Moves(p, q, c), NEW x \in Tries, Committed(x)
    PROVE  Committed(x)'
BY TryEnds DEF Types, Moves, Committed

\* Drained, when something is sent, read by the reader or by HandleMessage, or ended.
LEMMA DrainedSend ==
    ASSUME Types, Drained, NEW e \in Ends, NEW m \in Message, Send(e, m), UNCHANGED <<life, loop>>
    PROVE  Drained'
<1>1. ASSUME NEW f \in Ends, loop[f] = "exited" PROVE wire'[Other(f)] = <<>>
  <2>1. Other(f) \in Ends /\ Other(Other(f)) = f /\ wire[Other(f)] = <<>>
    BY <1>1, OtherEnd DEF Drained
  <2>2. CASE Other(f) = e
    BY <1>1, <2>1, <2>2 DEF Send, Sent
  <2>3. CASE Other(f) # e
    BY <2>1, <2>3 DEF Types, Send, Sent
  <2>4. QED
    BY <2>2, <2>3
<1>2. QED
  BY <1>1 DEF Drained

\* A reader takes a chunk.
LEMMA DrainedTake ==
    ASSUME Types, Pushing, Drained, NEW o \in Objects, TakeChunk(o), UNCHANGED <<life, wire>>
    PROVE  Drained'
<1>1. EndOf(o) \in Ends /\ loop[EndOf(o)] = "writing" /\ loop' = [loop EXCEPT ![EndOf(o)] = "read"]
  BY ObjectEnds DEF TakeChunk, Offered
<1>2. \A f \in Ends : loop'[f] = "exited" <=> loop[f] = "exited"
  BY <1>1 DEF Types
<1>3. QED
  BY <1>2 DEF Drained

\* HandleMessage takes a message.
LEMMA DrainedRead ==
    ASSUME Types, Drained, NEW e \in Ends, loop[e] = "read", UNCHANGED life,
           loop[Other(e)] = "exited" => wire'[e] = wire[e],
           \A f \in Ends : f # e /\ f # Other(e) => wire'[f] = wire[f],
           UNCHANGED loop \/ loop' = [loop EXCEPT ![e] = "writing"]
    PROVE  Drained'
<1>1. \A f \in Ends : loop'[f] = "exited" <=> (loop[f] = "exited" /\ f # e)
  BY DEF Types
<1>2. ASSUME NEW f \in Ends, loop[f] = "exited", f # e PROVE wire'[Other(f)] = <<>>
  <2>1. /\ Other(f) \in Ends /\ Other(Other(f)) = f /\ wire[Other(f)] = <<>>
        /\ Other(f) # Other(e)
    BY <1>2, OtherEnd DEF Drained
  <2>2. QED
    BY <1>2, <2>1
<1>3. \A f \in Ends : life'[f] = "closed" => loop'[f] = "exited"
  BY <1>1 DEF Drained
<1>4. QED
  BY <1>1, <1>2, <1>3 DEF Drained

\* A read loop ends.
LEMMA DrainedExit ==
    ASSUME Types, Drained, NEW e \in Ends, Exit(e)
    PROVE  Drained'
<1>1. /\ wire'[Other(e)] = <<>> /\ (\A f \in Ends : f # Other(e) => wire'[f] = wire[f])
      /\ loop' = [loop EXCEPT ![e] = "exited"] /\ life' = [life EXCEPT ![e] = "closing"]
  BY HeldExit
<1>2. ASSUME NEW f \in Ends
      PROVE  (loop'[f] = "exited" => wire'[Other(f)] = <<>>) /\ (life'[f] = "closed" => loop'[f] = "exited")
  <2>1. CASE f = e
    BY <1>1, <2>1 DEF Types
  <2>2. CASE f # e
    <3>1. Other(f) \in Ends /\ Other(f) # Other(e)
      BY <2>2, OtherEnd
    <3>2. QED
      BY <1>1, <2>2, <3>1 DEF Types, Drained
  <2>3. QED
    BY <2>1, <2>2
<1>3. QED
  BY <1>2 DEF Drained
\* The steps of Push: the header before the body, the chunks one after the other.
LEMMA PushChunks ==
    ASSUME ChunkInv, NEW p \in Requests, NodePush(p) \/ Push(p) \/ BodyFails(p) \/ UserLeaves(p)
    PROVE  Chunks'
<1>0. /\ Types /\ Pushing /\ Sending /\ Drained /\ \A o \in Objects : ChunksOf(o)
  BY DEF ChunkInv, Chunks, AnswerInv, IdsInv, HandlingInv
<1>1. PICK q, c : Moves(p, q, c)
  BY <1>0, PushMoves
<1>2. \A x \in Tries : Committed(x) => Committed(x)'
  BY <1>0, <1>1, CommittedMoves
<1>3. UNCHANGED <<life, hpc, hsent>>
  BY DEF NodePush, Push, BodyFails, UserLeaves, NextStream, NoProviderLeft, PushHeader, PushChunk,
         PushFails, PushReturn, UserReads, connVars, hndlVars
<1>4. \A r \in Requests : r # p => ppc'[r] = ppc[r] /\ cur'[r] = cur[r]
  BY <1>0, <1>1 DEF Types, Moves
<1>5. ppc'[p] = q /\ cur'[p] = c
  BY <1>0, <1>1 DEF Types, Moves
<1>6. ASSUME ppc[p] \in {"header", "body", "wait", "reading"}
      PROVE  /\ Try(p) \in Tries /\ PushEnd(Try(p)) \in Ends /\ <<Try(p), "out">> \in Objects
             /\ Try(p)[1] = p /\ Try(p)[2] = cur[p] /\ sent[Try(p)] \in Nat /\ Body[p] \in Nat
  <2>1. Try(p) \in Tries /\ Try(p)[1] = p /\ Try(p)[2] = cur[p]
    BY <1>0, <1>6 DEF Pushing, Active, Try, Tries
  <2>2. QED
    BY <1>0, <2>1, TryEnds, StreamsAssumption DEF Types
<1>7. CASE UNCHANGED <<wire, sent>> /\ ~(q = "body") /\ ~PushHeader(p) /\ ~PushChunk(p)
  <2>1. Sending'
    <3>1. \A x \in Tries : ~Committed(x)' => sent'[x] = 0
      BY <1>0, <1>2, <1>7 DEF Sending
    <3>2. \A r \in Requests : ppc'[r] = "body" => sent'[Try(r)'] <= Body[r]
      BY <1>0, <1>4, <1>5, <1>7 DEF Sending, Try
    <3>3. QED
      BY <1>0, <1>3, <3>1, <3>2 DEF Sending, LastOf
  <2>2. CASE UNCHANGED <<got, loop, chunk>>
    <3>1. Drained'
      BY <1>0, <1>3, <1>7, <2>2 DEF Drained
    <3>2. ASSUME NEW o \in Objects PROVE ChunksOf(o)'
      BY <1>0, <1>3, <1>7, <2>2, ChunksIdle
    <3>3. QED
      BY <2>1, <3>1, <3>2 DEF Chunks
  <2>3. CASE ppc[p] = "reading" /\ TakeChunk(<<Try(p), "out">>)
    <3>1. PICK o \in Objects : o = <<Try(p), "out">> /\ TakeChunk(o)
      BY <1>6, <2>3
    <3>2. Drained'
      BY <1>0, <1>3, <1>7, <3>1, DrainedTake
    <3>3. ASSUME NEW z \in Objects PROVE ChunksOf(z)'
      BY <1>0, <1>3, <1>7, <3>1, ChunksTake
    <3>4. QED
      BY <2>1, <3>2, <3>3 DEF Chunks
  <2>4. UNCHANGED <<got, loop, chunk>> \/ (ppc[p] = "reading" /\ TakeChunk(<<Try(p), "out">>))
    BY <1>7 DEF NodePush, Push, BodyFails, UserLeaves, NextStream, NoProviderLeft,
            PushFails, PushReturn, UserReads, ReadEOF, Leave, connVars, pipeVars
  <2>5. QED
    BY <2>2, <2>3, <2>4
<1>8. CASE PushHeader(p)
  <2>1. PICK x \in Tries : x = Try(p)
    BY <1>6, <1>8 DEF PushHeader
  <2>2. PICK m : m = Msg("request", x, 0)
    OBVIOUS
  <2>3. /\ m \in Message /\ m.op = "request" /\ Send(PushEnd(x), m) /\ PushEnd(x) \in Ends
        /\ UNCHANGED <<got, loop, chunk, sent, hsent>> /\ ppc[p] = "header" /\ UNCHANGED cur
    BY <1>0, <1>6, <1>8, <2>1, <2>2 DEF PushHeader, Types, Message, Msg, pipeVars, hndlVars
  <2>4. Drained'
    BY <1>0, <1>3, <2>3, DrainedSend
  <2>5. ASSUME NEW o \in Objects PROVE ChunksOf(o)'
    <3>1. Emitted(o)' = Emitted(o)
      BY <2>3 DEF Emitted
    <3>2. QED
      BY <1>0, <2>3, <3>1, ChunksSend
  <2>6. Sending'
    <3>1. \A y \in Tries : ~Committed(y)' => sent'[y] = 0
      BY <1>0, <1>2, <2>3 DEF Sending
    <3>2. ~Committed(x)
      BY <1>6, <2>1, <2>3 DEF Committed
    <3>3. sent[x] <= Body[p]
      BY <1>0, <1>6, <2>3, <3>2 DEF Sending
    <3>4. \A r \in Requests : ppc'[r] = "body" => sent'[Try(r)'] <= Body[r]
      BY <1>0, <1>4, <2>1, <2>3, <3>3 DEF Sending, Try
    <3>5. QED
      BY <1>0, <1>3, <3>1, <3>4 DEF Sending, LastOf
  <2>7. QED
    BY <2>4, <2>5, <2>6 DEF Chunks
<1>9. CASE PushChunk(p)
  <2>1. PICK x \in Tries : x = Try(p)
    BY <1>6, <1>9 DEF PushChunk
  <2>2. PICK n, b \in Nat : n = sent[x] /\ b = Body[p]
    BY <1>6, <1>9, <2>1 DEF PushChunk
  <2>3. PICK m : m = Msg("data", x, IF n + 1 > b THEN 0 ELSE n + 1)
    OBVIOUS
  <2>4. /\ ppc[p] = "body" /\ Send(PushEnd(x), m) /\ sent' = [sent EXCEPT ![x] = n + 1]
        /\ ppc' = [ppc EXCEPT ![p] = IF n + 1 > b THEN "wait" ELSE "body"]
        /\ UNCHANGED <<got, loop, chunk, cur>>
    BY <1>9, <2>1, <2>2, <2>3 DEF PushChunk, pipeVars
  <2>5. /\ m \in Message /\ m.op = "data" /\ m.try = x /\ m.k = (IF n + 1 > b THEN 0 ELSE n + 1)
        /\ PushEnd(x) \in Ends /\ x[1] = p
    BY <1>0, <1>6, <2>1, <2>3, <2>4 DEF Types, Message, Msg
  <2>6. sent'[x] = n + 1 /\ \A y \in Tries : y # x => sent'[y] = sent[y]
    BY <1>0, <2>4 DEF Types
  <2>7. n <= b
    BY <1>0, <2>1, <2>2, <2>4 DEF Sending
  <2>8. Drained'
    BY <1>0, <1>3, <2>4, <2>5, DrainedSend, TryEnds
  <2>9. ASSUME NEW o \in Objects PROVE ChunksOf(o)'
    <3>1. o[1] \in Tries /\ o[2] \in {"out", "in"} /\ o = <<o[1], o[2]>>
      BY ObjectEnds
    <3>2. CASE o[1] = x /\ o[2] = "in"
      <4>1. Source(o) = PushEnd(x) /\ Emitted(o) = n /\ Length(o) = b
        BY <2>2, <2>5, <3>1, <3>2, SourceOf DEF Emitted, Length
      <4>2. Emitted(o)' = n + 1
        BY <2>6, <3>2 DEF Emitted
      <4>3. m.k = IF Emitted(o) + 1 <= Length(o) THEN Emitted(o) + 1 ELSE 0
        BY <2>2, <2>5, <4>1
      <4>4. QED
        BY <1>0, <2>4, <2>5, <2>7, <3>2, <4>1, <4>2, <4>3, ChunksSend
    <3>3. CASE ~(o[1] = x /\ o[2] = "in")
      <4>1. Emitted(o)' = Emitted(o)
        BY <1>3, <2>6, <3>1, <3>3 DEF Emitted
      <4>2. ~(Source(o) = PushEnd(x) /\ m.op = "data" /\ m.try = o[1])
        <5>1. CASE o[1] = x
          <6>1. Source(o) = HandlerEnd(x) /\ HandlerEnd(x) # PushEnd(x)
            <7>1. o = <<x, "out">> /\ x \in Tries
              BY <3>1, <3>3, <5>1
            <7>2. Source(<<x, "out">>) = HandlerEnd(x)
              BY <7>1, SourceOf
            <7>3. HandlerEnd(x) = Other(PushEnd(x)) /\ Other(PushEnd(x)) # PushEnd(x)
              BY <7>1, TryEnds, OtherEnd
            <7>4. QED
              BY <7>1, <7>2, <7>3
          <6>2. QED
            BY <6>1
        <5>2. CASE o[1] # x
          BY <2>5, <5>2
        <5>3. QED
          BY <5>1, <5>2
      <4>3. QED
        BY <1>0, <2>4, <2>5, <4>1, <4>2, ChunksSend
    <3>4. QED
      BY <3>2, <3>3
  <2>10. Sending'
    <3>1. Committed(x)'
      <4>1. Committed(x)
        BY <1>6, <2>1, <2>4 DEF Committed
      <4>2. QED
        BY <1>2, <4>1
    <3>2. \A y \in Tries : ~Committed(y)' => sent'[y] = 0
      BY <1>0, <1>2, <2>6, <3>1 DEF Sending
    <3>3. ASSUME NEW r \in Requests, ppc'[r] = "body" PROVE sent'[Try(r)'] <= Body[r]
      <4>1. CASE r = p
        <5>1. Try(r)' = x /\ n + 1 <= b
          BY <1>0, <2>1, <2>4, <3>3, <4>1 DEF Try, Types
        <5>2. QED
          BY <2>2, <2>6, <4>1, <5>1
      <4>2. CASE r # p
        <5>1. ppc[r] = "body" /\ Try(r)' = Try(r)
          BY <1>4, <3>3, <4>2 DEF Try
        <5>2. Try(r) \in Tries /\ Try(r)[1] = r
          BY <1>0, <5>1 DEF Pushing, Active, Try, Tries
        <5>3. sent'[Try(r)] = sent[Try(r)]
          BY <2>5, <2>6, <4>2, <5>2
        <5>4. QED
          BY <1>0, <5>1, <5>3 DEF Sending
      <4>3. QED
        BY <4>1, <4>2
    <3>4. QED
      BY <1>0, <1>3, <3>2, <3>3 DEF Sending, LastOf
  <2>11. QED
    BY <2>8, <2>9, <2>10 DEF Chunks
<1>10. ASSUME ~PushHeader(p), ~PushChunk(p) PROVE UNCHANGED <<wire, sent>> /\ ~(q = "body")
  <2>1. UNCHANGED <<wire, sent>>
    BY <1>10 DEF NodePush, Push, BodyFails, UserLeaves, NextStream, NoProviderLeft,
            PushFails, PushReturn, UserReads, connVars
  <2>2. ppc'[p] # "body"
    <3>1. CASE UserReads(p)
      BY <1>0, <3>1 DEF UserReads, Types
    <3>2. CASE ~UserReads(p)
      <4>1. PICK v \in {"try", "header", "wait", "reading", "done", "failed"} : ppc' = [ppc EXCEPT ![p] = v]
        BY <1>10, <3>2 DEF NodePush, Push, BodyFails, UserLeaves, NextStream, NoProviderLeft,
            PushFails, PushReturn, AfterFailure, Returned
      <4>2. QED
        BY <1>0, <4>1 DEF Types
    <3>3. QED
      BY <3>1, <3>2
  <2>3. QED
    BY <1>5, <2>1, <2>2
<1>11. QED
  BY <1>7, <1>8, <1>9, <1>10

\* The steps of a handler: the header of the response, its chunks, the empty one.
LEMMA HandlerChunks ==
    ASSUME ChunkInv, NEW x \in Tries, Handler(x)
    PROVE  Chunks'
<1>0. /\ Types /\ Pushing /\ Answering /\ Sending /\ Drained /\ \A o \in Objects : ChunksOf(o)
  BY DEF ChunkInv, Chunks, AnswerInv, IdsInv, HandlingInv
<1>1. UNCHANGED <<life, ppc, cur, sent>>
  BY DEF Handler, HandlerStarts, HandlerReads, HandlerWrites, HandlerFails,
         connVars, pushVars
<1>2. /\ \A y \in Tries : ~Committed(y)' => sent'[y] = 0
      /\ \A p \in Requests : ppc'[p] = "body" => sent'[Try(p)'] <= Body[p]
  BY <1>0, <1>1 DEF Sending, Committed, Try
<1>3. PICK n \in Nat, l \in Nat, r \in Nat : n = hsent[x] /\ l = LastOf(x) /\ r = Reply[x[1]]
  <2>1. hsent[x] \in Nat /\ Reply[x[1]] \in Nat
    BY <1>0, TryEnds, StreamsAssumption DEF Types
  <2>2. LastOf(x) \in Nat
    BY <2>1 DEF LastOf
  <2>3. QED
    BY <2>1, <2>2
<1>4. l = IF r = 0 THEN 0 ELSE r + 1
  BY <1>3 DEF LastOf
<1>5. CASE HandlerWrites(x)
  <2>1. <<hconn[x], HandlerEnd(x)[2]>> = HandlerEnd(x) /\ HandlerEnd(x) \in Ends
    <3>1. hconn[x] = HandlerEnd(x)[1] /\ HandlerEnd(x) \in Ends
      BY <1>0, TryEnds DEF Answering
    <3>2. HandlerEnd(x) = <<HandlerEnd(x)[1], HandlerEnd(x)[2]>>
      BY <3>1, OtherEnd
    <3>3. QED
      BY <3>1, <3>2
  <2>2. PICK m : m = Msg(ReplyOp(n), x, IF n = l THEN 0 ELSE n)
    OBVIOUS
  <2>3. /\ hpc[x] = "reply" /\ Send(HandlerEnd(x), m) /\ hsent' = [hsent EXCEPT ![x] = n + 1]
        /\ n # l => hpc' = [hpc EXCEPT ![x] = "body"] \/ hpc' = [hpc EXCEPT ![x] = "reply"]
        /\ n = l => hpc' = [hpc EXCEPT ![x] = "done"]
        /\ UNCHANGED <<got, loop, chunk>>
    BY <1>3, <1>5, <2>1, <2>2 DEF HandlerWrites, HandlerGoes
  <2>4. /\ m \in Message /\ m.op = (IF n = 0 THEN "response" ELSE "data") /\ m.try = x
        /\ m.k = (IF n = l THEN 0 ELSE n)
    BY <1>0, <2>2 DEF Types, Message, Msg, ReplyOp
  <2>5. hsent'[x] = n + 1 /\ \A y \in Tries : y # x => hsent'[y] = hsent[y]
    BY <1>0, <2>3 DEF Types
  <2>6. n <= l
    BY <1>0, <1>3, <2>3 DEF Sending
  <2>7. Drained'
    BY <1>0, <1>1, <2>1, <2>3, <2>4, DrainedSend
  <2>8. ASSUME NEW o \in Objects PROVE ChunksOf(o)'
    <3>1. o[1] \in Tries /\ o[2] \in {"out", "in"} /\ o = <<o[1], o[2]>>
      BY ObjectEnds
    <3>2. CASE o[1] = x /\ o[2] = "out"
      <4>1. Source(o) = HandlerEnd(x) /\ Length(o) = r
        BY <1>3, <3>1, <3>2, SourceOf DEF Length
      <4>2. Emitted(o) = (IF n = 0 THEN 0 ELSE n - 1) /\ Emitted(o)' = (n + 1) - 1
        BY <1>3, <2>5, <3>2 DEF Emitted
      <4>3. CASE n = 0
        <5>1. Emitted(o)' = Emitted(o) /\ m.op = "response"
          BY <2>4, <4>2, <4>3
        <5>2. QED
          BY <1>0, <2>1, <2>3, <2>4, <5>1, ChunksSend
      <4>4. CASE n # 0
        <5>1. l = r + 1
          BY <1>4, <2>6, <4>4
        <5>2. /\ Emitted(o)' = Emitted(o) + 1 /\ Emitted(o) <= Length(o) /\ m.op = "data"
              /\ m.k = IF Emitted(o) + 1 <= Length(o) THEN Emitted(o) + 1 ELSE 0
          BY <2>4, <2>6, <4>1, <4>2, <4>4, <5>1
        <5>3. QED
          BY <1>0, <2>1, <2>3, <2>4, <3>2, <4>1, <5>2, ChunksSend
      <4>5. QED
        BY <4>3, <4>4
    <3>3. CASE ~(o[1] = x /\ o[2] = "out")
      <4>1. Emitted(o)' = Emitted(o)
        BY <1>1, <2>5, <3>1, <3>3 DEF Emitted
      <4>2. ~(Source(o) = HandlerEnd(x) /\ m.op = "data" /\ m.try = o[1])
        <5>1. CASE o[1] = x
          <6>1. o = <<x, "in">>
            BY <3>1, <3>3, <5>1
          <6>2. Source(<<x, "in">>) = PushEnd(x)
            BY SourceOf
          <6>3. HandlerEnd(x) = Other(PushEnd(x)) /\ Other(PushEnd(x)) # PushEnd(x)
            BY TryEnds, OtherEnd
          <6>4. QED
            BY <6>1, <6>2, <6>3
        <5>2. CASE o[1] # x
          BY <2>4, <5>2
        <5>3. QED
          BY <5>1, <5>2
      <4>3. QED
        BY <1>0, <2>1, <2>3, <2>4, <4>1, <4>2, ChunksSend
    <3>4. QED
      BY <3>2, <3>3
  <2>9. \A y \in Tries : hpc'[y] # "done" => hsent'[y] <= LastOf(y)
    <3>1. ASSUME hpc'[x] # "done" PROVE hsent'[x] <= LastOf(x)
      <4>1. n # l
        BY <1>0, <2>3, <3>1 DEF Types
      <4>2. QED
        BY <1>3, <2>5, <2>6, <4>1
    <3>2. ASSUME NEW y \in Tries, y # x, hpc'[y] # "done" PROVE hsent'[y] <= LastOf(y)
      BY <1>0, <2>3, <2>5, <3>2 DEF Types, Sending
    <3>3. QED
      BY <3>1, <3>2
  <2>10. Sending'
    BY <1>2, <2>9 DEF Sending, LastOf
  <2>11. QED
    BY <2>7, <2>8, <2>10 DEF Chunks
<1>6. CASE ~HandlerWrites(x)
  <2>1. /\ UNCHANGED <<wire, hsent>>
        /\ UNCHANGED <<got, loop, chunk>> \/ TakeChunk(<<x, "in">>)
    BY <1>6 DEF Handler, HandlerStarts, HandlerReads, HandlerFails, ReadEOF,
         connVars, pipeVars, hndlVars
  <2>2. hpc[x] # "done" /\ \E v : hpc' = [hpc EXCEPT ![x] = v]
    BY <1>6 DEF Handler, HandlerStarts, HandlerReads, HandlerFails, HandlerGoes
  <2>3. \A y \in Tries : hpc'[y] # "done" => hpc[y] # "done"
    BY <1>0, <2>2 DEF Types
  <2>4. Sending'
    BY <1>0, <1>2, <2>1, <2>3 DEF Sending, LastOf
  <2>5. CASE UNCHANGED <<got, loop, chunk>>
    <3>1. Drained'
      BY <1>0, <1>1, <2>1, <2>5 DEF Drained
    <3>2. ASSUME NEW o \in Objects PROVE ChunksOf(o)'
      BY <1>0, <1>1, <2>1, <2>5, ChunksIdle
    <3>3. QED
      BY <2>4, <3>1, <3>2 DEF Chunks
  <2>6. CASE TakeChunk(<<x, "in">>)
    <3>1. PICK o \in Objects : o = <<x, "in">> /\ TakeChunk(o)
      BY <2>6, TryEnds
    <3>2. Drained'
      BY <1>0, <1>1, <2>1, <3>1, DrainedTake
    <3>3. ASSUME NEW z \in Objects PROVE ChunksOf(z)'
      BY <1>0, <1>1, <2>1, <3>1, ChunksTake
    <3>4. QED
      BY <2>4, <3>2, <3>3 DEF Chunks
  <2>7. QED
    BY <2>1, <2>5, <2>6
<1>7. QED
  BY <1>5, <1>6

\* A request is handled for the first time.
LEMMA FirstHandled ==
    ASSUME IdsInv, NEW e \in Ends, HandleRequest(e)
    PROVE  \A x \in Tries : hpc[x] = "done" => hpc'[x] = "done"
<1>0. Types /\ Other(e) \in Ends
  BY OtherEnd DEF IdsInv, HandlingInv
<1>1. PICK m : m = Head(wire[Other(e)])
  OBVIOUS
<1>2. wire[Other(e)] # <<>> /\ m.op = "request"
  BY <1>1 DEF HandleRequest, Received
<1>3. m \in Held(Other(e)) /\ m.try \in Tries
  BY <1>0, <1>1, <1>2, HeldConsumed, HeldTyped
<1>4. PICK S \in SUBSET Tries : Addressed(S) /\ Running(S)
  BY DEF IdsInv, IdsOf
<1>5. PushEnd(m.try) = Other(e)
  BY <1>0, <1>2, <1>3, <1>4 DEF Addressed
<1>6. Requested(m.try)
  BY <1>2, <1>3, <1>5 DEF Requested
<1>7. hpc[m.try] = "none"
  BY <1>3, <1>4, <1>6 DEF Running
<1>8. UNCHANGED hpc \/ hpc' = [hpc EXCEPT ![m.try] = "spawned"]
  BY <1>1 DEF HandleRequest
<1>9. QED
  BY <1>0, <1>3, <1>7, <1>8 DEF Types

\* The steps of an end: every chunk goes to the reader of its own stream.
LEMMA LoopChunks ==
    ASSUME ~ContextReuse, ChunkInv, NEW e \in Ends,
           ReadLoop(e) \/ ReadFails(e) \/ ProviderClose(e) \/ NetworkFails(e) \/ CloseWriter(e)
    PROVE  Chunks'
<1>0. /\ Types /\ Pushing /\ IdsInv /\ Answering /\ Sending /\ Drained
      /\ (\A o \in Objects : ChunksOf(o)) /\ Other(e) \in Ends /\ Other(e) # e
  BY OtherEnd DEF ChunkInv, Chunks, AnswerInv, IdsInv, HandlingInv
<1>1. UNCHANGED <<ppc, cur, sent, hsent, got>>
  BY Zenon DEF ReadLoop, HandleRequest, HandleResponse, HandleData, HandleUnknown, WriteFails,
         MessageRefused, ReadFails, ProviderClose, NetworkFails, CloseWriter, pushVars, hndlVars, pipeVars
<1>2. \A x \in Tries : hpc'[x] # "done" => hpc[x] # "done"
  <2>1. CASE HandleRequest(e)
    BY <1>0, <2>1, FirstHandled
  <2>2. CASE ~HandleRequest(e)
    <3>1. UNCHANGED hpc
      BY <2>2, Zenon DEF ReadLoop, HandleResponse, HandleData, HandleUnknown, WriteFails,
         MessageRefused, ReadFails, ProviderClose, NetworkFails, CloseWriter, hndlVars
    <3>2. QED
      BY <3>1
  <2>3. QED
    BY <2>1, <2>2
<1>3. Sending'
  BY <1>0, <1>1, <1>2 DEF Sending, Committed, Try, LastOf
<1>4. CASE Exit(e) /\ (UNCHANGED chunk \/ chunk' = [chunk EXCEPT ![e] = None])
  <2>1. Drained'
    BY <1>0, <1>4, DrainedExit
  <2>2. ASSUME NEW o \in Objects PROVE ChunksOf(o)'
    BY <1>0, <1>1, <1>4, ChunksEnd
  <2>3. QED
    BY <1>3, <2>1, <2>2 DEF Chunks
<1>5. CASE ProviderClose(e) \/ CloseWriter(e)
  <2>1. /\ UNCHANGED <<wire, loop, chunk>>
        /\ \/ life' = [life EXCEPT ![e] = "closed"] /\ loop[e] = "exited"
           \/ life' = [life EXCEPT ![e] = "closing"]
    BY <1>5 DEF ProviderClose, CloseWriter
  <2>2. Drained'
    BY <1>0, <2>1 DEF Types, Drained
  <2>3. ASSUME NEW o \in Objects PROVE ChunksOf(o)'
    BY <1>0, <1>1, <2>1, ChunksIdle
  <2>4. QED
    BY <1>3, <2>2, <2>3 DEF Chunks
<1>6. ASSUME NEW m, m = Head(wire[Other(e)]), wire[Other(e)] # <<>>, loop[e] = "read", UNCHANGED life,
             \/ wire' = Consumed(e)
             \/ \E r \in Message : r.op # "data" /\ wire' = Sent(Consumed(e), e, r),
             \/ UNCHANGED <<loop, chunk>> /\ (m.op = "data" => m.k = 0)
             \/ \E q \in Objects :
                  /\ q[1] = m.try /\ EndOf(q) = e /\ m.op = "data" /\ m.k # 0
                  /\ loop' = [loop EXCEPT ![e] = "writing"] /\ chunk' = [chunk EXCEPT ![e] = <<q, m>>]
      PROVE  Chunks'
  <2>1. /\ Consumed(e) \in [Ends -> Seq(Message)] /\ Consumed(e)[Other(e)] = Tail(wire[Other(e)])
        /\ \A f \in Ends : f # Other(e) => Consumed(e)[f] = wire[f]
    BY <1>0, <1>6, HeldConsumed
  <2>2. /\ wire'[Other(e)] = Tail(wire[Other(e)])
        /\ \A f \in Ends : f # e /\ f # Other(e) => wire'[f] = wire[f]
        /\ \/ wire'[e] = wire[e]
           \/ /\ loop[Other(e)] # "exited"
              /\ \E r \in Message : r.op # "data" /\ wire'[e] = Append(wire[e], r)
    <3>1. CASE wire' = Consumed(e)
      BY <1>0, <2>1, <3>1
    <3>2. CASE \E r \in Message : r.op # "data" /\ wire' = Sent(Consumed(e), e, r)
      <4>1. PICK r \in Message : r.op # "data" /\ wire' = Sent(Consumed(e), e, r)
        BY <3>2
      <4>2. CASE loop[Other(e)] = "exited"
        BY <1>0, <2>1, <4>1, <4>2 DEF Sent
      <4>3. CASE loop[Other(e)] # "exited"
        <5>1. wire' = [Consumed(e) EXCEPT ![e] = Append(@, r)]
          BY <4>1, <4>3 DEF Sent
        <5>2. QED
          BY <1>0, <2>1, <4>1, <4>3, <5>1
      <4>4. QED
        BY <4>2, <4>3
    <3>3. QED
      BY <1>6, <3>1, <3>2
  <2>3. Drained'
    BY <1>0, <1>6, <2>2, DrainedRead
  <2>4. ASSUME NEW o \in Objects PROVE ChunksOf(o)'
    BY <1>0, <1>1, <1>6, <2>2, ChunksRead
  <2>5. QED
    BY <1>3, <2>3, <2>4 DEF Chunks
<1>7. CASE HandleRequest(e) /\ ~Exit(e)
  <2>1. PICK m : m = Head(wire[Other(e)])
    OBVIOUS
  <2>2. wire[Other(e)] # <<>> /\ m.op = "request" /\ loop[e] = "read" /\ UNCHANGED <<loop, chunk, life>>
    BY <1>7, <2>1 DEF HandleRequest, Received
  <2>3. m \in Message
    BY <1>0, <2>1, <2>2, HeldConsumed
  <2>4. PICK r : r = [m EXCEPT !.op = "response", !.handled = FALSE]
    OBVIOUS
  <2>5. r \in Message /\ r.op = "response"
    BY <2>3, <2>4 DEF Message
  <2>6. wire' = Consumed(e) \/ wire' = Sent(Consumed(e), e, r)
    BY <1>7, <2>1, <2>4 DEF HandleRequest
  <2>7. QED
    BY <1>6, <2>1, <2>2, <2>5, <2>6
<1>8. CASE HandleResponse(e)
  BY <1>6, <1>8 DEF HandleResponse, Received
<1>9. CASE HandleData(e) /\ ~Exit(e)
  <2>1. PICK m, o : m = Head(wire[Other(e)]) /\ o = streams[e][m.id]
    OBVIOUS
  <2>2. wire[Other(e)] # <<>> /\ Exists(e) /\ m.op = "data" /\ loop[e] = "read"
    BY <1>9, <2>1 DEF HandleData, Received
  <2>3. o \in Objects /\ o[1] = m.try /\ EndOf(o) = e
    BY <1>0, <2>1, <2>2, Found
  <2>4. /\ wire' = Consumed(e) /\ UNCHANGED life
        /\ \/ m.k = 0 /\ UNCHANGED <<loop, chunk>>
           \/ /\ m.k # 0 /\ loop' = [loop EXCEPT ![e] = "writing"]
              /\ chunk' = [chunk EXCEPT ![e] = <<o, m>>]
    BY <1>9, <2>1 DEF HandleData, MessageRefused
  <2>5. QED
    BY <1>6, <2>1, <2>2, <2>3, <2>4
<1>10. ASSUME ~(HandleRequest(e) /\ ~Exit(e)), ~HandleResponse(e), ~(HandleData(e) /\ ~Exit(e)),
              ~ProviderClose(e), ~CloseWriter(e)
       PROVE  Exit(e) /\ (UNCHANGED chunk \/ chunk' = [chunk EXCEPT ![e] = None])
  <2>1. CASE HandleRequest(e) \/ HandleUnknown(e) \/ WriteFails(e) \/ ReadFails(e) \/ NetworkFails(e)
    BY <1>10, <2>1 DEF HandleRequest, HandleUnknown, MessageRefused, WriteFails, ReadFails, NetworkFails
  <2>2. CASE HandleData(e)
    <3>1. Exit(e) /\ loop[e] = "read"
      BY <1>10, <2>2 DEF HandleData, Received
    <3>2. loop'[e] = "exited"
      BY <1>0, <3>1 DEF Types, Exit
    <3>3. UNCHANGED chunk
      <4>1. CASE UNCHANGED chunk
        BY <4>1
      <4>2. CASE loop' = [loop EXCEPT ![e] = "writing"]
        BY <1>0, <3>2, <4>2 DEF Types
      <4>3. QED
        BY <2>2, <4>1, <4>2 DEF HandleData, MessageRefused
    <3>4. QED
      BY <3>1, <3>3
  <2>3. QED
    BY <1>10, <2>1, <2>2 DEF ReadLoop
<1>11. QED
  BY <1>4, <1>5, <1>7, <1>8, <1>9, <1>10

\* Chunks come in order in every state, unless a Context is reused too early.
LEMMA ChunkInvariance == ASSUME ~ContextReuse PROVE Spec => []ChunkInv
<1>1. Init => ChunkInv
  <2> SUFFICES ASSUME Init PROVE ChunkInv
    OBVIOUS
  <2>1. AnswerInv /\ Types
    <3>1. Init => Answering
      BY DEF Init, Answering, Held
    <3>2. QED
      BY <3>1, IdsInit DEF AnswerInv, IdsInv, HandlingInv
  <2>2. Sending
    <3>1. \A x \in Tries : LastOf(x) \in Nat
      <4>1. ASSUME NEW x \in Tries PROVE LastOf(x) \in Nat
        <5>1. Reply[x[1]] \in Nat
          BY TryEnds, StreamsAssumption
        <5>2. QED
          BY <5>1 DEF LastOf
      <4>2. QED
        BY <4>1
    <3>2. QED
      BY <3>1 DEF Init, Sending
  <2>3. Drained
    BY OtherEnd DEF Init, Drained
  <2>4. ASSUME NEW o \in Objects PROVE ChunksOf(o)
    <3>1. /\ Length(o) \in Nat /\ Source(o) \in Ends /\ EndOf(o) \in Ends /\ o[1] \in Tries
      BY <2>1, ObjectTyped, ObjectEnds
    <3>2. got[o] = <<>> /\ wire[Source(o)] = <<>> /\ loop[EndOf(o)] = "read" /\ Emitted(o) = 0
      BY <3>1 DEF Init, Emitted
    <3>3. ~Pending(o) /\ Have(o) = 0
      BY <3>2 DEF Pending, Have
    <3>4. PICK b \in BOOLEAN : b = (loop[EndOf(o)] # "exited")
      OBVIOUS
    <3>5. Flow(<<>>, o[1], 0, 0, Length(o), b)
      BY <3>1 DEF Flow, DataIn
    <3>6. QED
      BY <3>2, <3>3, <3>4, <3>5 DEF ChunksOf
  <2>5. QED
    BY <2>1, <2>2, <2>3, <2>4 DEF ChunkInv, Chunks
<1>2. AnswerInv' /\ ChunkInv /\ [Next]_vars => ChunkInv'
  <2> SUFFICES ASSUME AnswerInv', ChunkInv, [Next]_vars PROVE Chunks'
    BY DEF ChunkInv
  <2>1. CASE UNCHANGED vars
    <3>1. /\ UNCHANGED <<got, loop, chunk, wire, sent, hsent, life, ppc, cur, hpc>>
          /\ Sending /\ Drained /\ \A o \in Objects : ChunksOf(o)
      BY <2>1 DEF vars, connVars, pipeVars, pushVars, hndlVars, ChunkInv, Chunks
    <3>2. Sending' /\ Drained'
      BY <3>1 DEF Sending, Drained, Committed, Try, LastOf
    <3>3. ASSUME NEW o \in Objects PROVE ChunksOf(o)'
      BY <3>1, ChunksIdle
    <3>4. QED
      BY <3>2, <3>3 DEF Chunks
  <2>2. CASE Next
    BY <2>2, PushChunks, HandlerChunks, LoopChunks DEF Next, Progress
  <2>3. QED
    BY <2>1, <2>2
<1>3. QED
  BY <1>1, <1>2, AnswerInvariance, PTL DEF Spec
-----------------------------------------------------------------------------
\* An honest EOF.

\* What keeps EofOf.
LEMMA EofKept ==
    ASSUME ChunkInv, ChunkInv', NEW o \in Objects, EofOf(o),
           life[EndOf(o)] = "closed" => life'[EndOf(o)] = "closed",
           Gone(o) => Gone(o)',
           got'[o] = got[o] \/ Len(got'[o]) = Len(got[o]) + 1,
           left'[o] => left[o] \/ Gone(o)',
           closed'[o] => \/ closed[o] \/ Len(got[o]) = Length(o)
                         \/ life'[EndOf(o)] = "closed" \/ Gone(o)',
           eof'[o] => eof[o] \/ (closed[o] /\ ~Gone(o))
    PROVE  EofOf(o)'
<1>1. Types /\ ChunksOf(o) /\ Types' /\ ChunksOf(o)'
  BY DEF ChunkInv, Chunks, AnswerInv, IdsInv, HandlingInv
<1>2. Len(got[o]) \in Nat /\ Length(o) \in Nat
  BY <1>1, ObjectTyped
<1>3. Length(o)' = Length(o) /\ EndOf(o)' = EndOf(o)
  BY DEF Length, EndOf, PushEnd, HandlerEnd, Other
<1>4. Len(got'[o]) <= Length(o)
  <2>1. PICK n, l \in Nat : n = Len(got'[o]) /\ l = Length(o)
    BY <1>1, <1>2 DEF Types
  <2>2. Have(o)' = n + IF Pending(o)' THEN 1 ELSE 0
    BY <2>1 DEF Have
  <2>3. Have(o)' <= l
    BY <1>1, <1>3, <2>1 DEF ChunksOf, Flow
  <2>4. n <= l
    BY <2>2, <2>3
  <2>5. QED
    BY <2>1, <2>4
<1>5. Len(got[o]) = Length(o) => Len(got'[o]) = Length(o)
  BY <1>2, <1>4
<1>6. QED
  BY <1>3, <1>5 DEF EofOf

\* The steps of Push: it gives a stream up for good, and reads EOF only from its own.
LEMMA PushEof ==
    ASSUME EofInv, ChunkInv', NEW p \in Requests,
           NodePush(p) \/ Push(p) \/ BodyFails(p) \/ UserLeaves(p),
           NEW o \in Objects
    PROVE  EofOf(o)'
<1>0. /\ Types /\ Pushing /\ ChunkInv /\ EofOf(o) /\ IdsInv
  BY DEF EofInv, ChunkInv, Chunks, AnswerInv, IdsInv, HandlingInv
<1>1. o[1] \in Tries /\ o[2] \in {"out", "in"} /\ o = <<o[1], o[2]>> /\ o[1] = <<o[1][1], o[1][2]>>
      /\ o[1][1] \in Requests /\ o[1][2] \in Conns
  BY ObjectEnds, TryEnds
<1>2. UNCHANGED <<life, hpc>>
  BY DEF NodePush, Push, BodyFails, UserLeaves, NextStream, NoProviderLeft, PushHeader, PushChunk,
         PushFails, PushReturn, UserReads, connVars, hndlVars
<1>3. ASSUME ppc[p] \in {"header", "body", "wait", "reading"}
      PROVE  /\ Try(p) \in Tries /\ <<Try(p), "out">> \in Objects
             /\ Try(p)[1] = p /\ Try(p)[2] = cur[p] /\ cur[p] \notin todo[p]
  <2>1. Try(p) \in Tries /\ Try(p)[1] = p /\ Try(p)[2] = cur[p]
    BY <1>0, <1>3 DEF Pushing, Active, Try, Tries
  <2>2. PICK S \in SUBSET Tries : Numbered(S)
    BY <1>0 DEF IdsInv, IdsOf
  <2>3. Try(p) \in S
    BY <1>3, <2>2 DEF Numbered, Active
  <2>4. QED
    BY <2>1, <2>2, <2>3, TryEnds DEF Numbered
<1>4. ASSUME Gone(o) PROVE Gone(o)'
  <2>1. CASE o[2] = "in"
    BY <1>2, <1>4, <2>1 DEF Gone
  <2>2. CASE o[2] = "out"
    <3>1. PICK r \in Requests, d \in Conns : r = o[1][1] /\ d = o[1][2]
      BY <1>1
    <3>2. /\ ppc[r] # "idle" /\ d \notin todo[r]
          /\ ~(cur[r] = d /\ ppc[r] \in {"header", "body", "wait", "reading"})
      BY <1>4, <2>2, <3>1 DEF Gone
    <3>3. /\ ppc'[r] # "idle" /\ d \notin todo'[r]
          /\ ~(cur'[r] = d /\ ppc'[r] \in {"header", "body", "wait", "reading"})
      <4>1. CASE r # p
        <5>1. /\ \E q : ppc' = [ppc EXCEPT ![p] = q] \/ UNCHANGED ppc
              /\ \E q : cur' = [cur EXCEPT ![p] = q] \/ UNCHANGED cur
              /\ \E q : todo' = [todo EXCEPT ![p] = q] \/ UNCHANGED todo
          BY DEF NodePush, Push, BodyFails, UserLeaves, NextStream, NoProviderLeft,
             PushHeader, PushChunk, PushFails, PushReturn, UserReads
        <5>2. ppc'[r] = ppc[r] /\ cur'[r] = cur[r] /\ todo'[r] = todo[r]
          BY <1>0, <4>1, <5>1 DEF Types
        <5>3. QED
          BY <3>2, <5>2
      <4>2. CASE r = p
        <5>1. CASE \E c \in Conns : NextStream(p, c)
          BY <1>0, <3>2, <4>2, <5>1 DEF Types, NextStream
        <5>2. CASE NodePush(p)
          BY <3>2, <4>2, <5>2 DEF NodePush
        <5>3. CASE NoProviderLeft(p)
          BY <1>0, <3>2, <4>2, <5>3 DEF Types, NoProviderLeft
        <5>4. CASE ~NoProviderLeft(p) /\ ~NodePush(p) /\ ~\E c \in Conns : NextStream(p, c)
          <6>1. ppc[p] \in {"header", "body", "wait", "reading"} /\ UNCHANGED <<cur, todo>>
            BY <5>4 DEF Push, BodyFails, UserLeaves, PushHeader, PushChunk, PushFails, PushReturn, UserReads
          <6>2. ppc'[p] # "idle"
            <7>1. PICK q, c : Moves(p, q, c)
              BY <1>0, PushMoves
            <7>2. QED
              BY <1>0, <7>1 DEF Types, Moves
          <6>3. QED
            BY <3>2, <4>2, <6>1, <6>2
        <5>5. QED
          BY <5>1, <5>2, <5>3, <5>4
      <4>3. QED
        BY <4>1, <4>2
    <3>4. QED
      BY <2>2, <3>1, <3>3 DEF Gone
  <2>3. QED
    BY <1>1, <2>1, <2>2
<1>5. ASSUME ppc[p] \in {"header", "body", "wait", "reading"}, o = <<Try(p), "out">>, UNCHANGED <<cur, todo>>,
             NEW q \in {"try", "done", "failed"}, ppc' = [ppc EXCEPT ![p] = q]
      PROVE  Gone(o)'
  <2>1. o[1][1] = p /\ o[1][2] = cur[p] /\ o[2] = "out" /\ cur[p] \notin todo[p]
    BY <1>3, <1>5
  <2>2. ppc'[p] = q
    BY <1>0, <1>5 DEF Types
  <2>3. QED
    BY <1>5, <2>1, <2>2 DEF Gone
<1>6. ASSUME UNCHANGED <<got, closed, left, eof>> PROVE EofOf(o)'
  BY <1>0, <1>2, <1>4, <1>6, EofKept
<1>7. CASE PushFails(p) \/ BodyFails(p)
  <2>1. /\ CloseStream(<<Try(p), "out">>) /\ UNCHANGED <<got, left, eof, cur, todo>>
        /\ ppc[p] \in {"header", "body", "wait", "reading"}
        /\ \E q \in {"try", "done", "failed"} : ppc' = [ppc EXCEPT ![p] = q]
    BY <1>7 DEF PushFails, BodyFails, AfterFailure
  <2>2. closed'[o] => closed[o] \/ Gone(o)'
    <3>1. CASE o = <<Try(p), "out">>
      BY <1>5, <2>1, <3>1
    <3>2. CASE o # <<Try(p), "out">>
      BY <1>0, <1>3, <2>1, <3>2, CloseTyped
    <3>3. QED
      BY <3>1, <3>2
  <2>3. QED
    BY <1>0, <1>2, <1>4, <2>1, <2>2, EofKept
<1>8. CASE UserLeaves(p)
  <2>1. /\ left' = [left EXCEPT ![<<Try(p), "out">>] = TRUE] /\ UNCHANGED <<got, closed, eof, cur, todo>>
        /\ ppc[p] = "reading" /\ ppc' = [ppc EXCEPT ![p] = "done"]
    BY <1>8 DEF UserLeaves, Leave
  <2>2. left'[o] => left[o] \/ Gone(o)'
    <3>1. CASE o = <<Try(p), "out">>
      BY <1>5, <2>1, <3>1
    <3>2. CASE o # <<Try(p), "out">>
      BY <1>0, <2>1, <3>2 DEF Types
    <3>3. QED
      BY <3>1, <3>2
  <2>3. QED
    BY <1>0, <1>2, <1>4, <2>1, <2>2, EofKept
<1>9. CASE UserReads(p)
  <2>1. ppc[p] = "reading" /\ (TakeChunk(<<Try(p), "out">>) \/ ReadEOF(<<Try(p), "out">>))
    BY <1>9 DEF UserReads
  <2>2. CASE TakeChunk(<<Try(p), "out">>)
    <3>1. got'[o] = got[o] \/ \E m \in Message : got'[o] = Append(got[o], m)
      <4>1. PICK z \in Objects : z = <<Try(p), "out">> /\ TakeChunk(z)
        BY <1>3, <2>1, <2>2
      <4>2. EndOf(z) \in Ends /\ chunk[EndOf(z)] \in Objects \X Message
        BY <1>0, <4>1, ObjectEnds DEF TakeChunk, Offered, Pushing
      <4>3. QED
        BY <1>0, <4>1, <4>2 DEF TakeChunk, Types
    <3>2. got'[o] = got[o] \/ Len(got'[o]) = Len(got[o]) + 1
      <4>1. got[o] \in Seq(Message)
        BY <1>0 DEF Types
      <4>2. QED
        BY <3>1, <4>1, AppendAt
    <3>3. UNCHANGED <<closed, left, eof>>
      BY <2>2 DEF TakeChunk
    <3>4. QED
      BY <1>0, <1>2, <1>4, <3>2, <3>3, EofKept
  <2>3. CASE ReadEOF(<<Try(p), "out">>)
    <3>1. closed[<<Try(p), "out">>] /\ eof' = [eof EXCEPT ![<<Try(p), "out">>] = TRUE]
          /\ UNCHANGED <<closed, left, got>>
      BY <2>3 DEF ReadEOF
    <3>2. ASSUME o = <<Try(p), "out">> PROVE closed[o] /\ ~Gone(o)
      BY <1>3, <2>1, <3>1, <3>2 DEF Gone
    <3>3. eof'[o] => eof[o] \/ (closed[o] /\ ~Gone(o))
      <4>1. CASE o = <<Try(p), "out">>
        BY <3>2, <4>1
      <4>2. CASE o # <<Try(p), "out">>
        BY <1>0, <3>1, <4>2 DEF Types
      <4>3. QED
        BY <4>1, <4>2
    <3>4. QED
      BY <1>0, <1>2, <1>4, <3>1, <3>3, EofKept
  <2>4. QED
    BY <2>1, <2>2, <2>3
<1>10. QED
  BY <1>6, <1>7, <1>8, <1>9 DEF NodePush, Push, NextStream, NoProviderLeft, PushHeader, PushChunk,
         PushReturn, pipeVars

\* The steps of a handler: it closes the body when it has returned.
LEMMA HandlerEof ==
    ASSUME EofInv, ChunkInv', NEW x \in Tries, Handler(x), NEW o \in Objects
    PROVE  EofOf(o)'
<1>0. /\ Types /\ Pushing /\ ChunkInv /\ EofOf(o) /\ <<x, "in">> \in Objects
  BY TryEnds DEF EofInv, ChunkInv, Chunks, AnswerInv, IdsInv, HandlingInv
<1>1. o[1] \in Tries /\ o[2] \in {"out", "in"} /\ o = <<o[1], o[2]>>
  BY ObjectEnds
<1>2. UNCHANGED <<life, ppc, cur, todo>>
  BY DEF Handler, HandlerStarts, HandlerReads, HandlerWrites, HandlerFails,
         connVars, pushVars
<1>3. hpc[x] # "done" /\ \E v : hpc' = [hpc EXCEPT ![x] = v]
  BY DEF Handler, HandlerStarts, HandlerReads, HandlerWrites, HandlerFails, HandlerGoes
<1>4. ASSUME Gone(o) PROVE Gone(o)'
  <2>1. \A y \in Tries : hpc[y] = "done" => hpc'[y] = "done"
    BY <1>0, <1>3 DEF Types
  <2>2. QED
    BY <1>1, <1>2, <1>4, <2>1 DEF Gone
<1>5. ASSUME hpc' = [hpc EXCEPT ![x] = "done"], o = <<x, "in">> PROVE Gone(o)'
  BY <1>0, <1>5 DEF Types, Gone
<1>6. CASE HandlerStarts(x)
  BY <1>0, <1>2, <1>4, <1>6, EofKept DEF HandlerStarts, pipeVars
<1>7. CASE HandlerWrites(x)
  <2>1. PICK last \in BOOLEAN :
           /\ last => hpc' = [hpc EXCEPT ![x] = "done"]
           /\ left' = [left EXCEPT ![<<x, "in">>] = left[<<x, "in">>] \/ last]
           /\ UNCHANGED <<got, closed, eof>>
    BY <1>7 DEF HandlerWrites
  <2>2. left'[o] => left[o] \/ Gone(o)'
    <3>1. CASE o = <<x, "in">>
      <4>1. CASE last
        BY <1>5, <2>1, <3>1, <4>1
      <4>2. CASE ~last
        BY <1>0, <2>1, <3>1, <4>2 DEF Types
      <4>3. QED
        BY <4>1, <4>2
    <3>2. CASE o # <<x, "in">>
      BY <1>0, <2>1, <3>2 DEF Types
    <3>3. QED
      BY <3>1, <3>2
  <2>3. QED
    BY <1>0, <1>2, <1>4, <2>1, <2>2, EofKept
<1>8. CASE HandlerFails(x)
  <2>1. /\ CloseStream(<<x, "in">>) /\ left' = [left EXCEPT ![<<x, "in">>] = TRUE]
        /\ hpc' = [hpc EXCEPT ![x] = "done"] /\ UNCHANGED <<got, eof>>
    BY <1>8 DEF HandlerFails
  <2>2. (left'[o] => left[o] \/ Gone(o)') /\ (closed'[o] => closed[o] \/ Gone(o)')
    <3>1. CASE o = <<x, "in">>
      BY <1>5, <2>1, <3>1
    <3>2. CASE o # <<x, "in">>
      <4>1. closed'[o] = closed[o]
        BY <1>0, <2>1, <3>2, CloseTyped
      <4>2. left'[o] = left[o]
        BY <1>0, <2>1, <3>2 DEF Types
      <4>3. QED
        BY <4>1, <4>2
    <3>3. QED
      BY <3>1, <3>2
  <2>3. QED
    BY <1>0, <1>2, <1>4, <2>1, <2>2, EofKept
<1>9. CASE HandlerReads(x)
  <2>1. hpc[x] = "body" /\ (TakeChunk(<<x, "in">>) \/ ReadEOF(<<x, "in">>))
    BY <1>9 DEF HandlerReads
  <2>2. CASE TakeChunk(<<x, "in">>)
    <3>1. got'[o] = got[o] \/ \E m \in Message : got'[o] = Append(got[o], m)
      <4>1. PICK z \in Objects : z = <<x, "in">> /\ TakeChunk(z)
        BY <1>0, <2>2
      <4>2. EndOf(z) \in Ends /\ chunk[EndOf(z)] \in Objects \X Message
        BY <1>0, <4>1, ObjectEnds DEF TakeChunk, Offered, Pushing
      <4>3. QED
        BY <1>0, <4>1, <4>2 DEF TakeChunk, Types
    <3>2. got'[o] = got[o] \/ Len(got'[o]) = Len(got[o]) + 1
      <4>1. got[o] \in Seq(Message)
        BY <1>0 DEF Types
      <4>2. QED
        BY <3>1, <4>1, AppendAt
    <3>3. UNCHANGED <<closed, left, eof>>
      BY <2>2 DEF TakeChunk
    <3>4. QED
      BY <1>0, <1>2, <1>4, <3>2, <3>3, EofKept
  <2>3. CASE ReadEOF(<<x, "in">>)
    <3>1. closed[<<x, "in">>] /\ eof' = [eof EXCEPT ![<<x, "in">>] = TRUE]
          /\ UNCHANGED <<closed, left, got>>
      BY <2>3 DEF ReadEOF
    <3>2. eof'[o] => eof[o] \/ (closed[o] /\ ~Gone(o))
      <4>1. CASE o = <<x, "in">>
        BY <2>1, <3>1, <4>1 DEF Gone
      <4>2. CASE o # <<x, "in">>
        BY <1>0, <3>1, <4>2 DEF Types
      <4>3. QED
        BY <4>1, <4>2
    <3>3. QED
      BY <1>0, <1>2, <1>4, <3>1, <3>2, EofKept
  <2>4. QED
    BY <2>1, <2>2, <2>3
<1>10. QED
  BY <1>6, <1>7, <1>8, <1>9 DEF Handler

\* The steps of an end: a stream is closed behind its last chunk, after its reader has
\* gone, or with the connection.
LEMMA LoopEof ==
    ASSUME EofInv, ChunkInv', NEW e \in Ends,
           ReadLoop(e) \/ ReadFails(e) \/ ProviderClose(e) \/ NetworkFails(e) \/ CloseWriter(e),
           NEW o \in Objects
    PROVE  EofOf(o)'
<1>0. /\ Types /\ Pushing /\ ChunkInv /\ IdsInv /\ Answering /\ Drained /\ EofOf(o)
      /\ (\A q \in Objects : ChunksOf(q)) /\ Other(e) \in Ends /\ EndOf(o) \in Ends
      /\ (\A q \in Objects : EofOf(q))
  BY OtherEnd, ObjectEnds DEF EofInv, ChunkInv, Chunks, AnswerInv, IdsInv, HandlingInv
<1>1. UNCHANGED <<ppc, cur, todo, sent, hsent, got, left, eof>>
  BY Zenon DEF ReadLoop, HandleRequest, HandleResponse, HandleData, HandleUnknown, WriteFails,
         MessageRefused, ReadFails, ProviderClose, NetworkFails, CloseWriter, pushVars, hndlVars, pipeVars
<1>2. \A x \in Tries : hpc[x] = "done" => hpc'[x] = "done"
  <2>1. CASE HandleRequest(e)
    BY <1>0, <2>1, FirstHandled
  <2>2. CASE ~HandleRequest(e)
    BY <2>2, Zenon DEF ReadLoop, HandleResponse, HandleData, HandleUnknown, WriteFails,
         MessageRefused, ReadFails, ProviderClose, NetworkFails, CloseWriter, hndlVars
  <2>3. QED
    BY <2>1, <2>2
<1>3. Gone(o) => Gone(o)'
  BY <1>1, <1>2, ObjectEnds DEF Gone
<1>4. ASSUME life[EndOf(o)] = "closed" PROVE life'[EndOf(o)] = "closed"
  <2>1. loop[EndOf(o)] = "exited"
    BY <1>0, <1>4 DEF Drained
  <2>2. \/ UNCHANGED life
        \/ life' = [life EXCEPT ![e] = "closing"] /\ (loop[e] # "exited" \/ life[e] = "up")
        \/ life' = [life EXCEPT ![e] = "closed"]
    BY Zenon DEF ReadLoop, HandleRequest, HandleResponse, HandleData, HandleUnknown, WriteFails, Received,
         MessageRefused, Exit, ReadFails, ProviderClose, NetworkFails, CloseWriter
  <2>3. QED
    BY <1>0, <1>4, <2>1, <2>2 DEF Types
<1>5. ASSUME closed'[o] => \/ closed[o] \/ Len(got[o]) = Length(o)
                           \/ life'[EndOf(o)] = "closed" \/ Gone(o)
      PROVE  EofOf(o)'
  BY <1>0, <1>1, <1>3, <1>4, <1>5, EofKept
<1>6. ASSUME NEW q \in Objects, CloseStream(q),
             Len(got[q]) = Length(q) \/ Broken(q)
      PROVE  EofOf(o)'
  <2>1. CASE o = q
    BY <1>0, <1>5, <1>6, <2>1 DEF Broken, EofOf
  <2>2. CASE o # q
    <3>1. closed'[o] = closed[o]
      BY <1>0, <1>6, <2>2, CloseTyped
    <3>2. QED
      BY <1>5, <3>1
  <2>3. QED
    BY <2>1, <2>2
<1>7. CASE ProviderClose(e)
  <2>1. life'[e] = "closed"
    BY <1>0, <1>7 DEF ProviderClose, Types
  <2>2. closed'[o] = (closed[o] \/ \E i \in Ids : streams[e][i] = o)
    BY <1>7 DEF ProviderClose
  <2>3. ASSUME NEW i \in Ids, streams[e][i] = o PROVE EndOf(o) = e
    BY <1>0, <2>3, StreamsAssumption DEF IdsInv, IdsOf, Entries
  <2>4. QED
    BY <1>5, <2>1, <2>2, <2>3
<1>8. CASE WriteFails(e)
  <2>1. PICK q \in Objects : q = chunk[e][1]
    BY <1>0, <1>8 DEF WriteFails, Pushing
  <2>2. CloseStream(q) /\ Broken(q)
    BY <1>8, <2>1 DEF WriteFails
  <2>3. QED
    BY <1>6, <2>2
<1>9. CASE HandleData(e)
  <2>1. PICK m, q : m = Head(wire[Other(e)]) /\ q = streams[e][m.id]
    OBVIOUS
  <2>2. wire[Other(e)] # <<>> /\ Exists(e) /\ m.op = "data" /\ loop[e] = "read"
    BY <1>9, <2>1 DEF HandleData, Received
  <2>3. q \in Objects /\ q[1] = m.try /\ EndOf(q) = e
    BY <1>0, <2>1, <2>2, Found
  <2>4. CASE m.k = 0 /\ CloseStream(q) /\ wire' = Consumed(e) /\ UNCHANGED <<loop, chunk>>
    <3>1. /\ wire'[Other(e)] = Tail(wire[Other(e)])
          /\ \A f \in Ends : f # Other(e) => wire'[f] = wire[f]
      BY <1>0, <2>2, <2>4, HeldConsumed
    <3>2. wire'[e] = wire[e] /\ \A f \in Ends : f # e /\ f # Other(e) => wire'[f] = wire[f]
      BY <3>1, OtherEnd
    <3>3. ChunksOf(q)
      BY <1>0, <2>3
    <3>4. Len(got[q]) = Length(q)
      BY <1>0, <1>1, <2>1, <2>2, <2>3, <2>4, <3>1, <3>2, <3>3, ChunksRead
    <3>5. QED
      BY <1>6, <2>3, <2>4, <3>4
  <2>5. CASE UNCHANGED closed
    BY <1>5, <2>5
  <2>6. CASE CloseStream(q) /\ Broken(q)
    BY <1>6, <2>3, <2>6
  <2>7. QED
    BY <1>9, <2>1, <2>4, <2>5, <2>6 DEF HandleData, pipeVars
<1>10. ASSUME ~HandleData(e), ~WriteFails(e), ~ProviderClose(e) PROVE EofOf(o)'
  <2>1. UNCHANGED closed
    BY <1>10, Zenon DEF ReadLoop, HandleRequest, HandleResponse, HandleUnknown,
         ReadFails, NetworkFails, CloseWriter, pipeVars
  <2>2. QED
    BY <1>5, <2>1
<1>11. QED
  BY <1>7, <1>8, <1>9, <1>10

\* A stream that ends has been read to its end.
LEMMA EofInvariance == ASSUME ~ContextReuse PROVE Spec => []EofInv
<1>1. Init => \A o \in Objects : EofOf(o)
  BY DEF Init, EofOf
<1>2. ChunkInv' /\ EofInv /\ [Next]_vars => EofInv'
  <2> SUFFICES ASSUME ChunkInv', EofInv, [Next]_vars, NEW o \in Objects PROVE EofOf(o)'
    BY DEF EofInv
  <2>1. CASE UNCHANGED vars
    <3>1. EofOf(o) /\ UNCHANGED <<left, closed, eof, got, life, hpc, ppc, todo, cur>>
      BY <2>1 DEF EofInv, vars, connVars, pipeVars, pushVars, hndlVars
    <3>2. QED
      BY <3>1 DEF EofOf, Gone, Length, EndOf, PushEnd, HandlerEnd, Other
  <2>2. CASE Next
    BY <2>2, PushEof, HandlerEof, LoopEof DEF Next, Progress
  <2>3. QED
    BY <2>1, <2>2
<1>3. QED
  BY <1>1, <1>2, ChunkInvariance, PTL DEF Spec, EofInv

\* A reader that sees io.EOF has read the whole stream, or its own end of the connection
\* is closed, if no Context is reused while a handler still has to read it.
THEOREM EofHonestCorrect == ASSUME ~ContextReuse PROVE Spec => []EofHonest
<1>1. EofInv => EofHonest
  BY DEF EofInv, EofOf, EofHonest
<1>2. QED
  BY <1>1, EofInvariance, PTL
-----------------------------------------------------------------------------
\* Sockets hold what fits, and an answer to each refused request.

\* The refused requests of a connection are finitely many.
LEMMA RefusedFinite ==
    ASSUME NEW A \in SUBSET Tries, NEW e \in Ends
    PROVE  IsFiniteSet(Refused(A, e)) /\ Cardinality(Refused(A, e)) \in Nat
<1>1. Refused(A, e) \subseteq Requests \X {e[1]}
  <2>1. ASSUME NEW x \in A, HandlerEnd(x) = e PROVE x \in Requests \X {e[1]}
    <3>1. x = <<x[1], x[2]>> /\ x[1] \in Requests /\ x[2] = e[1]
      BY <2>1, TryEnds
    <3>2. QED
      BY <3>1
  <2>2. QED
    BY <2>1 DEF Refused
<1>2. IsFiniteSet(Requests \X {e[1]})
  BY StreamsAssumption, FS_Singleton, FS_Product
<1>3. IsFiniteSet(Refused(A, e))
  BY <1>1, <1>2, FS_Subset
<1>4. QED
  BY <1>3, FS_CardinalityType

\* What keeps the bound: no refused request is sent again, and who sends has room.
LEMMA SocketsKept ==
    ASSUME Types, Types', NEW A \in SUBSET Tries, BoundedBy(A),
           \A x \in Tries : Committed(x) => Committed(x)',
           \A f \in Ends : \A m \in Held(f)' : m.op = "request" => m \in Held(f) \/ ~Committed(m.try),
           \A f \in Ends : Len(wire'[f]) <= Len(wire[f]) \/ Len(wire'[f]) <= Cap
    PROVE  BoundedBy(A)'
<1>1. ASSUME NEW x \in A PROVE Committed(x)' /\ ~Requested(x)'
  <2>1. Committed(x) /\ ~Requested(x) /\ x \in Tries /\ PushEnd(x) \in Ends
    BY TryEnds DEF BoundedBy
  <2>2. SUFFICES ASSUME Requested(x)' PROVE FALSE
    BY <2>1
  <2>3. PICK m \in Held(PushEnd(x))' : m.op = "request" /\ m.try = x
    BY <2>2 DEF Requested, PushEnd
  <2>4. m \in Held(PushEnd(x))
    BY <2>1, <2>3
  <2>5. QED
    BY <2>1, <2>3, <2>4 DEF Requested
<1>2. ASSUME NEW e \in Ends PROVE Len(wire'[e]) <= Cap + Cardinality(Refused(A, e))
  <2>1. PICK n, l, k, c \in Nat : /\ n = Len(wire'[e]) /\ l = Len(wire[e])
                                  /\ k = Cardinality(Refused(A, e)) /\ c = Cap
    <3>1. Len(wire'[e]) \in Nat /\ Len(wire[e]) \in Nat
      BY DEF Types
    <3>2. Cardinality(Refused(A, e)) \in Nat /\ Cap \in Nat
      BY RefusedFinite, StreamsAssumption
    <3>3. QED
      BY <3>1, <3>2
  <2>2. l <= c + k /\ (n <= l \/ n <= c)
    BY <2>1 DEF BoundedBy
  <2>3. n <= c + k
    BY <2>2
  <2>4. QED
    BY <2>1, <2>3
<1>3. QED
  BY <1>1, <1>2 DEF BoundedBy, Refused, HandlerEnd, PushEnd, Other

\* A Send that has room.
LEMMA SocketSend ==
    ASSUME Types, NEW e \in Ends, NEW m \in Message, Send(e, m), CanSend(e)
    PROVE  \A f \in Ends : Len(wire'[f]) <= Len(wire[f]) \/ Len(wire'[f]) <= Cap
<1>1. wire \in [Ends -> Seq(Message)] /\ \A f \in Ends : Len(wire[f]) \in Nat
  BY DEF Types
<1>2. CASE wire' = wire
  BY <1>1, <1>2
<1>3. CASE wire' = [wire EXCEPT ![e] = Append(@, m)]
  <2>1. Len(wire'[e]) = Len(wire[e]) + 1 /\ \A f \in Ends : f # e => wire'[f] = wire[f]
    BY <1>1, <1>3, AppendAt
  <2>2. Len(wire'[e]) <= Cap
    BY <1>1, <2>1, StreamsAssumption DEF CanSend
  <2>3. QED
    BY <1>1, <2>1, <2>2
<1>4. QED
  BY <1>2, <1>3 DEF Send, Sent

\* The steps of Push.
LEMMA PushSockets ==
    ASSUME IdsInv, Types', NEW p \in Requests, NodePush(p) \/ Push(p) \/ BodyFails(p) \/ UserLeaves(p),
           NEW A \in SUBSET Tries, BoundedBy(A)
    PROVE  BoundedBy(A)'
<1>0. Types /\ Pushing
  BY DEF IdsInv, HandlingInv
<1>1. PICK q, c : Moves(p, q, c)
  BY <1>0, PushMoves
<1>2. \A x \in Tries : Committed(x) => Committed(x)'
  BY <1>0, <1>1, CommittedMoves
<1>3. CASE UNCHANGED wire
  <2>1. \A f \in Ends : Held(f)' = Held(f) /\ Len(wire'[f]) <= Len(wire[f])
    BY <1>0, <1>3 DEF Held, Types
  <2>2. QED
    BY <1>0, <1>2, <2>1, SocketsKept
<1>4. CASE PushHeader(p) \/ PushChunk(p)
  <2>1. PICK x \in Tries : x = Try(p) /\ x[1] = p
    BY <1>0, <1>4 DEF PushHeader, PushChunk, Pushing, Active, Try, Tries
  <2>2. sent[x] \in Nat /\ Body[p] \in Nat /\ PushEnd(x) \in Ends
    <3>1. sent[x] \in Nat /\ PushEnd(x) \in Ends
      BY <1>0, TryEnds DEF Types
    <3>2. Body[p] \in Nat
      BY StreamsAssumption
    <3>3. QED
      BY <3>1, <3>2
  <2>3. PICK op \in {"request", "data"}, k \in Nat :
           /\ Send(PushEnd(x), Msg(op, x, k)) /\ CanSend(PushEnd(x))
           /\ op = "request" => ppc[p] = "header"
    BY <1>4, <2>1, <2>2 DEF PushHeader, PushChunk
  <2>4. PICK m : m = Msg(op, x, k)
    OBVIOUS
  <2>5. m \in Message /\ m.try = x /\ m.op = op /\ Send(PushEnd(x), m)
    BY <1>0, <2>3, <2>4 DEF Types, Message, Msg
  <2>6. \A f \in Ends : \A n \in Held(f)' : n \in Held(f) \/ (f = PushEnd(x) /\ n = m)
    BY <1>0, <2>2, <2>5, HeldSend
  <2>7. op = "request" => ~Committed(x)
    BY <2>1, <2>3 DEF Committed
  <2>8. \A f \in Ends : \A n \in Held(f)' : n.op = "request" => n \in Held(f) \/ ~Committed(n.try)
    BY <2>5, <2>6, <2>7, Zenon
  <2>9. \A f \in Ends : Len(wire'[f]) <= Len(wire[f]) \/ Len(wire'[f]) <= Cap
    BY <1>0, <2>2, <2>3, <2>5, SocketSend
  <2>10. QED
    BY <1>0, <1>2, <2>8, <2>9, SocketsKept
<1>5. QED
  BY <1>3, <1>4 DEF NodePush, Push, BodyFails, UserLeaves, NextStream, NoProviderLeft, PushFails,
                    PushReturn, UserReads, connVars

\* The steps of a handler.
LEMMA HandlerSockets ==
    ASSUME IdsInv, Types', NEW x \in Tries, Handler(x),
           NEW A \in SUBSET Tries, BoundedBy(A)
    PROVE  BoundedBy(A)'
<1>0. Types
  BY DEF IdsInv, HandlingInv
<1>2. \A y \in Tries : Committed(y) => Committed(y)'
  BY DEF Committed, Handler, HandlerStarts, HandlerReads, HandlerWrites, HandlerFails,
         pushVars
<1>3. CASE UNCHANGED wire
  <2>1. \A f \in Ends : Held(f)' = Held(f) /\ Len(wire'[f]) <= Len(wire[f])
    BY <1>0, <1>3 DEF Held, Types
  <2>2. QED
    BY <1>0, <1>2, <2>1, SocketsKept
<1>4. CASE HandlerWrites(x)
  <2>1. PICK e \in Ends : e = <<hconn[x], HandlerEnd(x)[2]>>
    BY <1>0, TryEnds DEF Types, Ends
  <2>2. hsent[x] \in Nat
    BY <1>0 DEF Types
  <2>3. PICK op \in {"response", "data"}, k \in Nat : Send(e, Msg(op, x, k)) /\ CanSend(e)
    BY <1>4, <2>1, <2>2 DEF HandlerWrites, ReplyOp
  <2>4. PICK m : m = Msg(op, x, k)
    OBVIOUS
  <2>5. m \in Message /\ m.op # "request" /\ Send(e, m)
    BY <1>0, <2>3, <2>4 DEF Types, Message, Msg
  <2>6. \A f \in Ends : \A n \in Held(f)' : n.op = "request" => n \in Held(f)
    BY <1>0, <2>5, HeldSend
  <2>7. \A f \in Ends : Len(wire'[f]) <= Len(wire[f]) \/ Len(wire'[f]) <= Cap
    BY <1>0, <2>3, <2>5, SocketSend
  <2>8. QED
    BY <1>0, <1>2, <2>6, <2>7, SocketsKept
<1>5. QED
  BY <1>3, <1>4 DEF Handler, HandlerStarts, HandlerReads, HandlerFails, connVars

\* The steps of an end: SendNoWait is used once for each refused request.
LEMMA LoopSockets ==
    ASSUME IdsInv, Types', NEW e \in Ends,
           ReadLoop(e) \/ ReadFails(e) \/ ProviderClose(e) \/ NetworkFails(e) \/ CloseWriter(e),
           NEW A \in SUBSET Unserved, BoundedBy(A)
    PROVE  \E B \in SUBSET Unserved : BoundedBy(B)'
<1>0. Types /\ Other(e) \in Ends /\ Other(e) # e /\ A \in SUBSET Tries
  BY OtherEnd, StreamsAssumption DEF IdsInv, HandlingInv
<1>1. \A x \in Tries : Committed(x) => Committed(x)'
  BY Zenon DEF Committed, ReadLoop, HandleRequest, HandleResponse, HandleData, HandleUnknown, WriteFails,
         MessageRefused, ReadFails, ProviderClose, NetworkFails, CloseWriter, pushVars
<1>2. \A f \in Ends : Len(wire[f]) \in Nat
  BY <1>0 DEF Types
<1>3. CASE UNCHANGED wire \/ (wire[Other(e)] # <<>> /\ wire' = Consumed(e)) \/ Exit(e)
  <2>1. \A f \in Ends : (\A n \in Held(f)' : n \in Held(f)) /\ Len(wire'[f]) <= Len(wire[f])
    <3>1. CASE UNCHANGED wire
      BY <1>2, <3>1 DEF Held
    <3>2. CASE wire[Other(e)] # <<>> /\ wire' = Consumed(e)
      <4>1. \A f \in Ends : \A n \in Held(f)' : n \in Held(f)
        BY <1>0, <3>2, HeldConsumes
      <4>2. \A f \in Ends : Len(wire'[f]) <= Len(wire[f])
        BY <1>0, <1>2, <3>2, HeldConsumed
      <4>3. QED
        BY <4>1, <4>2
    <3>3. CASE Exit(e)
      <4>1. /\ \A f \in Ends : \A n \in Held(f)' : n \in Held(f)
            /\ wire'[Other(e)] = <<>> /\ \A f \in Ends : f # Other(e) => wire'[f] = wire[f]
        BY <1>0, <3>3, HeldExit
      <4>2. \A f \in Ends : Len(wire'[f]) <= Len(wire[f])
        BY <1>2, <4>1
      <4>3. QED
        BY <4>1, <4>2
    <3>4. QED
      BY <1>3, <3>1, <3>2, <3>3
  <2>2. BoundedBy(A)'
    BY <1>0, <1>1, <2>1, SocketsKept
  <2>3. QED
    BY <2>2
<1>4. CASE /\ HandleRequest(e) /\ Head(wire[Other(e)]).try \in Unserved
           /\ wire' = Sent(Consumed(e), e, [Head(wire[Other(e)]) EXCEPT !.op = "response", !.handled = FALSE])
  <2>1. PICK m, x : m = Head(wire[Other(e)]) /\ x = m.try
    OBVIOUS
  <2>2. wire[Other(e)] # <<>> /\ m.op = "request" /\ x \in Unserved
    BY <1>4, <2>1 DEF HandleRequest, Received
  <2>3. m \in Held(Other(e)) /\ m \in Message /\ x \in Tries
    BY <1>0, <2>1, <2>2, HeldConsumed, HeldTyped
  <2>4. PICK S \in SUBSET Tries : Addressed(S) /\ Running(S)
    BY DEF IdsInv, IdsOf
  <2>5. PushEnd(x) = Other(e) /\ HandlerEnd(x) = e /\ Committed(x) /\ Requested(x)
    <3>1. PushEnd(x) = Other(e) /\ Committed(x)
      BY <1>0, <2>1, <2>2, <2>3, <2>4 DEF Addressed, IdsInv, HandlingInv, Handling
    <3>2. HandlerEnd(x) = e
      BY <2>3, <3>1, TryEnds, OtherEnd
    <3>3. QED
      BY <2>1, <2>2, <2>3, <3>1, <3>2 DEF Requested
  <2>6. x \notin A
    BY <2>5 DEF BoundedBy
  <2>7. PICK r : r = [m EXCEPT !.op = "response", !.handled = FALSE]
    OBVIOUS
  <2>8. r \in Message /\ r.op = "response" /\ wire' = Sent(Consumed(e), e, r)
    BY <1>4, <2>1, <2>3, <2>7 DEF Message
  <2>9. /\ wire'[Other(e)] = Consumed(e)[Other(e)]
        /\ wire'[e] = wire[e] \/ wire'[e] = Append(wire[e], r)
        /\ \A f \in Ends : f # Other(e) /\ f # e => wire'[f] = wire[f]
        /\ \A f \in Ends : \A n \in Held(f)' : n \in Held(f) \/ (f = e /\ n = r)
    BY <1>0, <2>2, <2>8, HeldAnswer
  <2>10. ~Requested(x)'
    <3>1. SUFFICES ASSUME NEW n \in Held(Other(e))', n.op = "request", n.try = x PROVE FALSE
      BY <2>5 DEF Requested, PushEnd
    <3>2. PICK i \in 1 .. Len(wire'[Other(e)]) : n = wire'[Other(e)][i]
      BY <3>1 DEF Held
    <3>3. \A j \in 1 .. Len(Consumed(e)[Other(e)]) :
             Consumed(e)[Other(e)][j].op = "request" => Consumed(e)[Other(e)][j].try # x
      BY <1>0, <2>1, <2>2, <2>4, UniqueConsumed DEF Running
    <3>4. QED
      BY <2>9, <3>1, <3>2, <3>3
  <2>11. PICK B : B = A \cup {x}
    OBVIOUS
  <2>12. ASSUME NEW y \in B PROVE Committed(y)' /\ ~Requested(y)'
    <3>1. CASE y = x
      BY <1>1, <2>3, <2>5, <2>10, <3>1
    <3>2. CASE y \in A
      <4>1. Committed(y) /\ ~Requested(y) /\ y \in Tries /\ PushEnd(y) \in Ends
        BY <1>0, <3>2, TryEnds DEF BoundedBy
      <4>2. SUFFICES ASSUME NEW n \in Held(PushEnd(y))', n.op = "request", n.try = y PROVE FALSE
        BY <1>1, <4>1 DEF Requested, PushEnd
      <4>3. n \in Held(PushEnd(y))
        BY <2>8, <2>9, <4>1, <4>2
      <4>4. QED
        BY <4>1, <4>2, <4>3 DEF Requested
    <3>3. QED
      BY <2>11, <3>1, <3>2
  <2>13. ASSUME NEW f \in Ends PROVE Len(wire'[f]) <= Cap + Cardinality(Refused(B, f))
    <3>1. PICK l, k, c \in Nat : /\ l = Len(wire[f]) /\ k = Cardinality(Refused(A, f)) /\ c = Cap
      BY <1>0, <1>2, RefusedFinite, StreamsAssumption
    <3>2. l <= c + k
      BY <3>1 DEF BoundedBy
    <3>3. IsFiniteSet(Refused(A, f))
      BY <1>0, RefusedFinite
    <3>4. CASE f = e
      <4>1. Refused(B, f) = Refused(A, f) \cup {x} /\ x \notin Refused(A, f)
        BY <2>5, <2>6, <2>11, <3>4 DEF Refused
      <4>2. Cardinality(Refused(B, f)) = k + 1
        BY <3>1, <3>3, <4>1, FS_AddElement
      <4>3. Len(wire'[f]) = l \/ Len(wire'[f]) = l + 1
        <5>1. wire[e] \in Seq(Message)
          BY <1>0 DEF Types
        <5>2. QED
          BY <2>8, <2>9, <3>1, <3>4, <5>1, AppendAt
      <4>4. QED
        BY <3>1, <3>2, <4>2, <4>3
    <3>5. CASE f # e
      <4>1. Refused(B, f) = Refused(A, f)
        BY <2>5, <2>11, <3>5 DEF Refused
      <4>2. Len(wire'[f]) = l \/ Len(wire'[f]) = l - 1
        BY <1>0, <2>2, <2>9, <3>1, <3>5, HeldConsumed, SMTT(30)
      <4>3. QED
        BY <3>1, <3>2, <4>1, <4>2
    <3>6. QED
      BY <3>4, <3>5
  <2>14. BoundedBy(B)'
    BY <2>12, <2>13 DEF BoundedBy, Refused, HandlerEnd, PushEnd, Other
  <2>15. B \in SUBSET Unserved
    BY <2>2, <2>11
  <2>16. QED
    BY <2>14, <2>15
<1>5. \/ UNCHANGED wire \/ (wire[Other(e)] # <<>> /\ wire' = Consumed(e)) \/ Exit(e)
      \/ /\ HandleRequest(e) /\ Head(wire[Other(e)]).try \in Unserved
         /\ wire' = Sent(Consumed(e), e, [Head(wire[Other(e)]) EXCEPT !.op = "response", !.handled = FALSE])
  <2>1. CASE HandleRequest(e)
    BY <2>1 DEF HandleRequest, Received
  <2>2. CASE ~HandleRequest(e)
    BY <2>2, Zenon DEF ReadLoop, HandleResponse, HandleData, HandleUnknown, WriteFails, Received,
         MessageRefused, ReadFails, ProviderClose, NetworkFails, CloseWriter
  <2>3. QED
    BY <2>1, <2>2
<1>6. QED
  BY <1>3, <1>4, <1>5

\* The bound holds in every state.
LEMMA SocketInvariance == Spec => []SocketInv
<1>1. Init => SocketInv
  <2> SUFFICES ASSUME Init PROVE SocketInv
    OBVIOUS
  <2>1. IdsInv
    BY IdsInit
  <2>2. ASSUME NEW e \in Ends PROVE Len(wire[e]) <= Cap + Cardinality(Refused({}, e))
    <3>1. wire[e] = <<>>
      BY DEF Init
    <3>2. PICK k, c \in Nat : k = Cardinality(Refused({}, e)) /\ c = Cap
      BY RefusedFinite, StreamsAssumption
    <3>3. QED
      BY <3>1, <3>2
  <2>3. BoundedBy({})
    BY <2>2 DEF BoundedBy
  <2>4. QED
    BY <2>1, <2>3 DEF SocketInv
<1>2. SocketInv /\ [Next]_vars => SocketInv'
  <2> SUFFICES ASSUME SocketInv, [Next]_vars PROVE SocketInv'
    OBVIOUS
  <2>1. IdsInv /\ IdsInv' /\ Types'
    BY IdsNext DEF SocketInv, IdsInv, HandlingInv
  <2>2. PICK A \in SUBSET Unserved : BoundedBy(A)
    BY DEF SocketInv
  <2>3. A \in SUBSET Tries
    BY StreamsAssumption
  <2>4. CASE UNCHANGED vars
    <3>1. BoundedBy(A)'
      BY <2>2, <2>4 DEF vars, connVars, pushVars, BoundedBy, Committed, Requested, Held, Refused,
                        HandlerEnd, PushEnd, Other
    <3>2. QED
      BY <2>1, <3>1 DEF SocketInv
  <2>5. CASE Next
    <3>1. \E B \in SUBSET Unserved : BoundedBy(B)'
      <4>1. CASE \E p \in Requests : NodePush(p) \/ Push(p) \/ BodyFails(p) \/ UserLeaves(p)
        BY <2>1, <2>2, <2>3, <4>1, PushSockets
      <4>2. CASE \E x \in Tries : Handler(x)
        BY <2>1, <2>2, <2>3, <4>2, HandlerSockets
      <4>3. CASE \E e \in Ends : ReadLoop(e) \/ ReadFails(e) \/ ProviderClose(e) \/ NetworkFails(e) \/ CloseWriter(e)
        BY <2>1, <2>2, <4>3, LoopSockets
      <4>4. QED
        BY <2>5, <4>1, <4>2, <4>3 DEF Next, Progress
    <3>2. QED
      BY <2>1, <3>1 DEF SocketInv
  <2>6. QED
    BY <2>4, <2>5
<1>3. QED
  BY <1>1, <1>2, PTL DEF Spec

\* All variables have their types, and a socket holds no more than it can: Cap messages
\* and one refusal, sent with SendNoWait, for each request that nobody serves.
THEOREM TypeCorrect == Spec => []TypeOK
<1>1. ASSUME SocketInv PROVE TypeOK
  <2>1. Types
    BY <1>1 DEF SocketInv, IdsInv, HandlingInv
  <2>2. PICK A \in SUBSET Unserved : BoundedBy(A)
    BY <1>1 DEF SocketInv
  <2>3. ASSUME NEW e \in Ends
        PROVE  Len(wire[e]) <= Cap + Cardinality({x \in Unserved : HandlerEnd(x) = e})
    <3>1. /\ Unserved \in SUBSET Tries /\ A \in SUBSET Tries
          /\ Refused(A, e) \subseteq Refused(Unserved, e)
      BY StreamsAssumption DEF Refused
    <3>2. /\ IsFiniteSet(Refused(Unserved, e)) /\ Cardinality(Refused(Unserved, e)) \in Nat
          /\ Cardinality(Refused(A, e)) \in Nat
      BY <3>1, RefusedFinite
    <3>3. PICK n, a, u, c \in Nat :
             /\ n = Len(wire[e]) /\ a = Cardinality(Refused(A, e)) /\ c = Cap
             /\ u = Cardinality(Refused(Unserved, e))
      BY <2>1, <3>2, StreamsAssumption DEF Types
    <3>4. a <= u
      BY <3>1, <3>2, <3>3, FS_Subset
    <3>5. n <= c + a
      BY <2>2, <3>3 DEF BoundedBy
    <3>6. n <= c + u
      BY <3>4, <3>5
    <3>7. QED
      BY <3>3, <3>6 DEF Refused
  <2>4. QED
    BY <2>1, <2>3 DEF Types, TypeOK
<1>2. QED
  BY <1>1, SocketInvariance, PTL

\* Every reader gets the chunks of its own stream, in order, without a gap or a repetition,
\* if no Context is reused while a handler still has to read its connection from it.
THEOREM StreamIntegrityCorrect == ASSUME ~ContextReuse PROVE Spec => []StreamIntegrity
<1>1. ASSUME ChunkInv, TypeOK PROVE StreamIntegrity
  <2>1. Types /\ \A o \in Objects : ChunksOf(o)
    BY <1>1 DEF ChunkInv, Chunks, AnswerInv, IdsInv, HandlingInv
  <2>2. ASSUME NEW o \in Objects
        PROVE  /\ Len(got[o]) <= Length(o)
               /\ \A i \in 1 .. Len(got[o]) : got[o][i].try = o[1] /\ got[o][i].k = i
    <3>1. PICK n, h, l \in Nat : n = Len(got[o]) /\ h = Have(o) /\ l = Length(o) /\ n <= h
      BY <2>1, ObjectTyped
    <3>2. h <= l
      BY <2>1, <3>1 DEF ChunksOf, Flow
    <3>3. Len(got[o]) <= Length(o)
      BY <3>1, <3>2
    <3>4. QED
      BY <2>1, <3>3 DEF ChunksOf
  <2>3. QED
    BY <1>1, <2>2 DEF StreamIntegrity
<1>2. QED
  BY <1>1, ChunkInvariance, TypeCorrect, PTL

=============================================================================

------------------------------ MODULE Streams -------------------------------
(***************************************************************************)
(* Requests and responses as streams of chunks over a connection:          *)
(* streaming_rpc/provider.go, stream.go, io.go, context.go, contextpool.go *)
(* and, of streamnode.go, Push and the service branches of HandleMessage.  *)
(*                                                                         *)
(* One node, the hub, has a connection to each of several peers; requests  *)
(* go both ways.  An end <<c, s>> is one side of connection c: a Provider, *)
(* the read loop that runs HandleMessage, and the outgoing half of the     *)
(* socket.  A try <<p, c>> is one Provider.Push of request p over c; it    *)
(* has a Stream object at each end, <<p, c, "out">> where it is pushed and *)
(* <<p, c, "in">> where it is served.  Modules Conn, Client and Server     *)
(* have the connection itself, Registry the handshake that comes before.   *)
(***************************************************************************)
EXTENDS Naturals, Sequences, FiniteSets

CONSTANTS
    Conns,        \* connections of the hub
    Dialed,       \* those that the hub dialed; the others were accepted
    Requests,     \* calls of StreamNode.Push, one each
    AtHub,        \* requests that the hub makes; a peer makes the others
    Targets,      \* [Requests -> SUBSET Conns], connections that offer the service
    Body, Reply,  \* [Requests -> Nat], chunks of the body and of the response
    Served,       \* tries that the serving node may have a handler for
    Unserved,     \* tries that it may have none for
    ContextReuse, \* may a released st.Context be reused before it is last read?
    IdModulus,    \* width of a stream id: 2^32 in the code
    Cap,          \* messages that fit into a socket
    MaxFaults,    \* bound: times that something goes wrong of its own
    None

Ends  == Conns \X {"hub", "peer"}
Tries == Requests \X Conns
Ids   == 0 .. IdModulus - 1
Other(e) == <<e[1], IF e[2] = "hub" THEN "peer" ELSE "hub">>
Node(e)  == IF e[2] = "hub" THEN "hub" ELSE e[1]

Objects == Tries \X {"out", "in"}
PushEnd(x)   == <<x[2], IF x[1] \in AtHub THEN "hub" ELSE "peer">>
HandlerEnd(x) == Other(PushEnd(x))
EndOf(o)     == IF o[2] = "out" THEN PushEnd(o[1]) ELSE HandlerEnd(o[1])

\* Ids do not come round to a stream that may still be open.
ASSUME StreamsAssumption ==
    /\ Dialed \subseteq Conns /\ AtHub \subseteq Requests /\ Served \cup Unserved = Tries
    /\ Targets \in [Requests -> SUBSET Conns]
    /\ \A p \in Requests \ AtHub : Cardinality(Targets[p]) = 1
    /\ Body \in [Requests -> Nat] /\ Reply \in [Requests -> Nat]
    /\ ContextReuse \in BOOLEAN /\ Cap \in Nat \ {0} /\ MaxFaults \in Nat
    /\ None \notin Objects /\ IsFiniteSet(Requests)
    /\ IdModulus \in Nat \ {0} /\ IdModulus % 2 = 0
    /\ 2 * Cardinality(Requests) <= IdModulus

VARIABLES
    counter, streams,        \* Provider, per end
    wire, life, loop, chunk, \* per end: sent and unread messages; the state of
                             \* the connection; the read loop and the chunk it
                             \* is writing into a pipe
    closed, left, got, eof,  \* per object: the pipe is closed by the provider,
                             \* or by its reader; chunks read; EOF was read
    header, signalled,       \* per try: Stream.Header and Stream.wg of "out"
    ppc, todo, cur, id, sent,\* per request: Push; providers not tried yet, the
                             \* one being tried; per try: its id, chunks sent
    hpc, hconn, hsent,       \* per try: handler goroutine; Context.conn; sent
    faults                   \* connections, bodies and readers that gave up

provVars == <<counter, streams>>
connVars == <<wire, life, loop, chunk>>
pipeVars == <<closed, left, got, eof>>
pushVars == <<ppc, todo, cur, id, sent>>
hndlVars == <<hpc, hconn, hsent>>
vars == <<provVars, connVars, pipeVars, header, signalled, pushVars, hndlVars, faults>>

\* k is the number of the chunk (0: no data), "try" whose message it truly is.
Message == [op : {"request", "response", "data"}, id : Ids, try : Tries, k : Nat,
            handled : BOOLEAN]

TypeOK ==
    /\ counter \in [Ends -> Ids] /\ streams \in [Ends -> [Ids -> Objects \cup {None}]]
    /\ wire \in [Ends -> Seq(Message)]
    /\ \A e \in Ends : Len(wire[e]) <= Cap + Cardinality({x \in Unserved : HandlerEnd(x) = e})
    /\ life \in [Ends -> {"up", "closing", "closed"}]
    /\ loop \in [Ends -> {"read", "writing", "exited"}]
    /\ chunk \in [Ends -> (Objects \X Message) \cup {None}]
    /\ closed \in [Objects -> BOOLEAN] /\ left \in [Objects -> BOOLEAN]
    /\ eof \in [Objects -> BOOLEAN] /\ got \in [Objects -> Seq(Message)]
    /\ header \in [Tries -> {"nil", "handled", "unhandled"}]
    /\ signalled \in [Tries -> BOOLEAN]
    /\ ppc \in [Requests -> {"idle", "try", "header", "body", "wait", "reading",
                             "done", "failed"}]
    /\ todo \in [Requests -> SUBSET Conns] /\ cur \in [Requests -> Conns \cup {None}]
    /\ id \in [Tries -> Ids] /\ sent \in [Tries -> Nat]
    /\ hpc \in [Tries -> {"none", "spawned", "body", "reply", "done"}]
    /\ hconn \in [Tries -> Conns] /\ hsent \in [Tries -> Nat]
    /\ faults \in 0 .. MaxFaults

\* registerProvider: 1 for an outgoing connection, 0 for an incoming one.
FirstId_Zero(e) == 0
FirstId(e) == IF (e[1] \in Dialed) = (e[2] = "hub") THEN 1 ELSE 0

Init ==
    /\ counter = [e \in Ends |-> FirstId(e)]
    /\ streams = [e \in Ends |-> [i \in Ids |-> None]]
    /\ wire = [e \in Ends |-> <<>>] /\ life = [e \in Ends |-> "up"]
    /\ loop = [e \in Ends |-> "read"] /\ chunk = [e \in Ends |-> None]
    /\ closed = [o \in Objects |-> FALSE] /\ left = [o \in Objects |-> FALSE]
    /\ got = [o \in Objects |-> <<>>] /\ eof = [o \in Objects |-> FALSE]
    /\ header = [x \in Tries |-> "nil"] /\ signalled = [x \in Tries |-> FALSE]
    /\ ppc = [p \in Requests |-> "idle"] /\ todo = [p \in Requests |-> {}]
    /\ cur = [p \in Requests |-> None]
    /\ id = [x \in Tries |-> 0] /\ sent = [x \in Tries |-> 0]
    /\ hpc = [x \in Tries |-> "none"] /\ hconn = [x \in Tries |-> x[2]]
    /\ hsent = [x \in Tries |-> 0] /\ faults = 0

-----------------------------------------------------------------------------
\* Conn.Send, as its callers see it: it waits while the socket is full and
\* fails once the writer is closed.  What nobody will read is not kept.
CanSend(e)   == life[e] = "up" /\ Len(wire[e]) < Cap
SendFails(e) == life[e] # "up"
Sent(w, e, m) == IF loop[Other(e)] = "exited" THEN w ELSE [w EXCEPT ![e] = Append(@, m)]
Send(e, m)   == wire' = Sent(wire, e, m)

Msg(op, x, k) == [op |-> op, id |-> id[x], try |-> x, k |-> k, handled |-> TRUE]

\* What a step does that nothing in the model makes happen.
Fault == faults < MaxFaults /\ faults' = faults + 1

Done(O) == [x \in Tries |-> signalled[x] \/ <<x, "out">> \in O]

\* CloseStreamWithError: both halves of the pipe, wg.Done, and the entry.
CloseStream(o) ==
    /\ closed' = [closed EXCEPT ![o] = TRUE]
    /\ signalled' = Done({o})
    /\ streams' = [streams EXCEPT ![EndOf(o)][id[o[1]]] = None]

-----------------------------------------------------------------------------
\* StreamNode.Push: getProviders, then Provider.Push over one after the other,
\* until one does not fail with ErrProviderNotAvailable.

Try(p) == <<p, cur[p]>>

NodePush(p) ==
    /\ ppc[p] = "idle"
    /\ ppc' = [ppc EXCEPT ![p] = "try"]
    /\ todo' = [todo EXCEPT ![p] = {c \in Targets[p] : life[PushEnd(<<p, c>>)] # "closed"}]
    /\ UNCHANGED <<provVars, connVars, pipeVars, header, signalled, cur, id, sent, hndlVars>>

NextId(i) == (i + 2) % IdModulus

\* NextStream.
NextStream(p, c) ==
    LET e == PushEnd(<<p, c>>) IN
    /\ ppc[p] = "try" /\ c \in todo[p]
    /\ ppc' = [ppc EXCEPT ![p] = "header"]
    /\ todo' = [todo EXCEPT ![p] = @ \ {c}]
    /\ cur' = [cur EXCEPT ![p] = c]
    /\ id' = [id EXCEPT ![<<p, c>>] = counter[e]]
    /\ counter' = [counter EXCEPT ![e] = NextId(@)]
    /\ streams' = [streams EXCEPT ![e][counter[e]] = <<<<p, c>>, "out">>]
    /\ UNCHANGED <<connVars, pipeVars, header, signalled, sent, hndlVars>>

NoProviderLeft(p) ==
    /\ ppc[p] = "try" /\ todo[p] = {}
    /\ ppc' = [ppc EXCEPT ![p] = "failed"]
    /\ UNCHANGED <<provVars, connVars, pipeVars, header, signalled, todo, cur, id, sent, hndlVars>>

PushHeader(p) ==
    LET x == Try(p) IN
    /\ ppc[p] = "header" /\ CanSend(PushEnd(x))
    /\ Send(PushEnd(x), Msg("request", x, 0))
    /\ ppc' = [ppc EXCEPT ![p] = "body"]
    /\ UNCHANGED <<provVars, life, loop, chunk, pipeVars, header, signalled, todo, cur, id, sent, hndlVars>>

\* The body chunk by chunk, then an empty chunk.
PushChunk(p) ==
    LET x == Try(p)  k == sent[x] + 1  last == k > Body[p] IN
    /\ ppc[p] = "body" /\ CanSend(PushEnd(x))
    /\ Send(PushEnd(x), Msg("data", x, IF last THEN 0 ELSE k))
    /\ sent' = [sent EXCEPT ![x] = k]
    /\ ppc' = [ppc EXCEPT ![p] = IF last THEN "wait" ELSE "body"]
    /\ UNCHANGED <<provVars, life, loop, chunk, pipeVars, header, signalled, todo, cur, id, hndlVars>>

\* Only the failure to send the header is ErrProviderNotAvailable.
AfterFailure_Retry(p) == "try"
AfterFailure(p) == IF ppc[p] = "header" THEN "try" ELSE "failed"

PushFails(p) ==
    /\ ppc[p] \in {"header", "body"} /\ SendFails(PushEnd(Try(p)))
    /\ CloseStream(<<Try(p), "out">>)
    /\ ppc' = [ppc EXCEPT ![p] = AfterFailure(p)]
    /\ UNCHANGED <<counter, connVars, left, got, eof, header, todo, cur, id, sent, hndlVars>>

\* body.Read fails: the stream is closed here, and the other end not told.
BodyFails(p) ==
    /\ ppc[p] = "body" /\ sent[Try(p)] < Body[p] /\ Fault
    /\ CloseStream(<<Try(p), "out">>)
    /\ ppc' = [ppc EXCEPT ![p] = "failed"]
    /\ UNCHANGED <<counter, connVars, left, got, eof, header, todo, cur, id, sent, hndlVars>>

\* stream.wg.Wait(); a stream without a header, or not handled, is an error.
Returned_NoNilCheck(x) == IF header[x] # "unhandled" THEN "reading" ELSE "failed"
Returned(x) == IF header[x] = "handled" THEN "reading" ELSE "failed"

PushReturn(p) ==
    /\ ppc[p] = "wait" /\ signalled[Try(p)]
    /\ ppc' = [ppc EXCEPT ![p] = Returned(Try(p))]
    /\ UNCHANGED <<provVars, connVars, pipeVars, header, signalled, todo, cur, id, sent, hndlVars>>

-----------------------------------------------------------------------------
\* The pipe of object o, from its reader.

Broken(o)  == closed[o] \/ left[o]
Offered(o) == loop[EndOf(o)] = "writing" /\ chunk[EndOf(o)][1] = o /\ ~closed[o]

TakeChunk(o) ==
    LET e == EndOf(o) IN
    /\ Offered(o)
    /\ got' = [got EXCEPT ![o] = Append(@, chunk[e][2])]
    /\ loop' = [loop EXCEPT ![e] = "read"] /\ chunk' = [chunk EXCEPT ![e] = None]
    /\ UNCHANGED <<closed, left, eof>>

ReadEOF(o) ==
    /\ closed[o]
    /\ eof' = [eof EXCEPT ![o] = TRUE]
    /\ UNCHANGED <<closed, left, got, loop, chunk>>

Leave(o) ==
    /\ left' = [left EXCEPT ![o] = TRUE]
    /\ UNCHANGED <<closed, eof, got, loop, chunk>>

\* The caller reads the response to its end, or closes the reader before.
UserReads(p) ==
    LET o == <<Try(p), "out">> IN
    /\ ppc[p] = "reading"
    /\ \/ TakeChunk(o) /\ UNCHANGED ppc
       \/ ReadEOF(o) /\ ppc' = [ppc EXCEPT ![p] = "done"]
    /\ UNCHANGED <<provVars, wire, life, header, signalled, todo, cur, id, sent, hndlVars>>

UserLeaves(p) ==
    /\ ppc[p] = "reading" /\ Fault
    /\ Leave(<<Try(p), "out">>)
    /\ ppc' = [ppc EXCEPT ![p] = "done"]
    /\ UNCHANGED <<provVars, wire, life, header, signalled, todo, cur, id, sent, hndlVars>>

-----------------------------------------------------------------------------
\* The goroutine of a handler.  Its ctx.Conn() reads the st.Context of the
\* request after HandleMessage has returned it to its pool.

\* The handler reads its body and writes its response in whatever order it likes:
\* it is in a Read ("body") or in a Write ("reply").
HandlerGoes(x) == \E s \in {"body", "reply"} : hpc' = [hpc EXCEPT ![x] = s]

HandlerStarts(x) ==
    /\ hpc[x] = "spawned"
    /\ HandlerGoes(x)
    /\ UNCHANGED <<provVars, connVars, pipeVars, header, signalled, pushVars, hconn, hsent>>

HandlerReads(x) ==
    LET o == <<x, "in">> IN
    /\ hpc[x] = "body"
    /\ \/ TakeChunk(o) /\ HandlerGoes(x)
       \/ ReadEOF(o) /\ hpc' = [hpc EXCEPT ![x] = "reply"]
    /\ UNCHANGED <<provVars, wire, life, header, signalled, pushVars, hconn, hsent>>

\* Context.Write: the header before the first chunk.  When the handler has
\* returned: the header if it wrote nothing, an empty chunk if it did.
ReplyOp(n) == IF n = 0 THEN "response" ELSE "data"
LastOf_TooEarly(x) == Reply[x[1]]
LastOf(x)  == IF Reply[x[1]] = 0 THEN 0 ELSE Reply[x[1]] + 1

HandlerWrites(x) ==
    LET e == <<hconn[x], HandlerEnd(x)[2]>>
        n == hsent[x]
        last == n = LastOf(x) IN
    /\ hpc[x] = "reply" /\ CanSend(e)
    /\ Send(e, Msg(ReplyOp(n), x, IF last THEN 0 ELSE n))
    /\ hsent' = [hsent EXCEPT ![x] = n + 1]
    /\ IF last THEN hpc' = [hpc EXCEPT ![x] = "done"] ELSE HandlerGoes(x)
    /\ left' = [left EXCEPT ![<<x, "in">>] = @ \/ last]      \* ctx.Body.Close()
    /\ UNCHANGED <<provVars, life, loop, chunk, closed, got, eof, header, signalled, pushVars, hconn>>

\* Write fails, and so does every Send after it.
HandlerFails(x) ==
    /\ hpc[x] = "reply" /\ SendFails(<<hconn[x], HandlerEnd(x)[2]>>)
    /\ CloseStream(<<x, "in">>)
    /\ left' = [left EXCEPT ![<<x, "in">>] = TRUE]
    /\ hpc' = [hpc EXCEPT ![x] = "done"]
    /\ UNCHANGED <<counter, connVars, got, eof, header, pushVars, hconn, hsent>>

-----------------------------------------------------------------------------
\* The read loop of end e: HandleMessage.

\* Every call of a handler acquires an st.Context; it may be one that a
\* goroutine at the same node has yet to read its connection from.
AcquireContext(e) ==
    \/ hconn' = hconn
    \/ /\ ContextReuse
       /\ \E x \in Tries :
            /\ hpc[x] = "spawned" /\ Node(HandlerEnd(x)) = Node(e)
            /\ hconn' = [hconn EXCEPT ![x] = e[1]]

Received_NotWaiting(e, op) ==
    /\ loop[e] # "exited" /\ wire[Other(e)] # <<>> /\ Head(wire[Other(e)]).op = op
    /\ AcquireContext(e)
Received(e, op) ==
    /\ loop[e] = "read" /\ wire[Other(e)] # <<>> /\ Head(wire[Other(e)]).op = op
    /\ AcquireContext(e)

Exists(e) == streams[e][Head(wire[Other(e)]).id] # None
Consumed(e) == [wire EXCEPT ![Other(e)] = Tail(@)]

\* The read loop ends and Handle closes the writer.
Exit(e) ==
    /\ loop' = [loop EXCEPT ![e] = "exited"]
    /\ life' = [life EXCEPT ![e] = "closing"]
    /\ wire' = [wire EXCEPT ![Other(e)] = <<>>]

\* An error of HandleMessage ends the read loop.
MessageRefused(e) ==
    /\ Exit(e)
    /\ UNCHANGED <<counter, chunk, left, got, eof, header, pushVars, hpc, hsent>>

\* OpCodeServiceRequest: RegisterStreamWithServiceRequestPacket, and a
\* goroutine for the handler or, with SendNoWait, the answer that there is none.
HandleRequest(e) ==
    LET m == Head(wire[Other(e)])  x == m.try  o == <<x, "in">> IN
    /\ Received(e, "request") /\ ~Exists(e)
    /\ streams' = [streams EXCEPT ![e][m.id] = o]
    /\ \/ /\ x \in Served
          /\ hpc' = [hpc EXCEPT ![x] = "spawned"]
          /\ wire' = Consumed(e) /\ UNCHANGED <<loop, life>>
       \/ /\ x \in Unserved
          /\ UNCHANGED hpc
          /\ \/ /\ ~SendFails(e) /\ UNCHANGED <<loop, life>>
                /\ wire' = Sent(Consumed(e), e, [m EXCEPT !.op = "response", !.handled = FALSE])
             \/ SendFails(e) /\ Exit(e)
    /\ UNCHANGED <<counter, chunk, pipeVars, header, signalled, pushVars, hsent>>

\* OpCodeServiceResponse.
HandleResponse(e) ==
    LET m == Head(wire[Other(e)])  o == streams[e][m.id] IN
    /\ Received(e, "response") /\ Exists(e)
    /\ header' = [header EXCEPT ![o[1]] = IF o[2] = "in" THEN @ ELSE
                                          IF m.handled THEN "handled" ELSE "unhandled"]
    /\ signalled' = Done({o})
    /\ wire' = Consumed(e)
    /\ UNCHANGED <<provVars, life, loop, chunk, pipeVars, pushVars, hpc, hsent>>

\* OpCodeData: an empty chunk closes the stream, another one is written into
\* its pipe, which takes until somebody reads it.
HandleData(e) ==
    LET m == Head(wire[Other(e)])  o == streams[e][m.id] IN
    /\ Received(e, "data") /\ Exists(e)
    /\ \/ /\ m.k = 0 /\ CloseStream(o) /\ wire' = Consumed(e)
          /\ UNCHANGED <<counter, life, loop, chunk, left, got, eof, header, pushVars, hpc, hsent>>
       \/ /\ m.k # 0 /\ ~Broken(o) /\ wire' = Consumed(e)
          /\ loop' = [loop EXCEPT ![e] = "writing"]
          /\ chunk' = [chunk EXCEPT ![e] = <<o, m>>]
          /\ UNCHANGED <<provVars, life, pipeVars, header, signalled, pushVars, hpc, hsent>>
       \/ /\ m.k # 0 /\ Broken(o)
          /\ CloseStream(o) /\ MessageRefused(e)

\* A request for a stream that exists, or anything else for one that does not.
HandleUnknown(e) ==
    /\ \E op \in {"request", "response", "data"} :
          Received(e, op) /\ ((op = "request") = Exists(e))
    /\ MessageRefused(e)
    /\ UNCHANGED <<streams, closed, signalled>>

\* The pipe is closed under the write.
WriteFails(e) ==
    LET o == chunk[e][1] IN
    /\ loop[e] = "writing" /\ Broken(o)
    /\ CloseStream(o)
    /\ Exit(e) /\ chunk' = [chunk EXCEPT ![e] = None]
    /\ UNCHANGED <<counter, left, got, eof, header, pushVars, hndlVars>>

-----------------------------------------------------------------------------
\* The end of a connection, from modules Conn and Registry.

\* The read of the next message fails: because either side has closed the
\* socket, or all by itself.
ReadFails(e) ==
    /\ loop[e] = "read" /\ (life[e] # "up" \/ life[Other(e)] # "up")
    /\ Exit(e)
    /\ UNCHANGED <<provVars, chunk, pipeVars, header, signalled, pushVars, hndlVars>>

NetworkFails(e) ==
    /\ loop[e] = "read" /\ life[e] = "up" /\ Fault
    /\ Exit(e)
    /\ UNCHANGED <<provVars, chunk, pipeVars, header, signalled, pushVars, hndlVars>>

\* Handle: closeWriter while the read loop still runs, because of a shutdown
\* or of a failed write.
CloseWriter(e) ==
    /\ life[e] = "up" /\ Fault
    /\ life' = [life EXCEPT ![e] = "closing"]
    /\ UNCHANGED <<provVars, wire, loop, chunk, pipeVars, header, signalled, pushVars, hndlVars>>

\* deregisterProvider and Provider.Close, once the read loop has ended.
ProviderClose(e) ==
    LET open == {o \in Objects : \E i \in Ids : streams[e][i] = o} IN
    /\ life[e] = "closing" /\ loop[e] = "exited"
    /\ life' = [life EXCEPT ![e] = "closed"]
    /\ closed' = [o \in Objects |-> closed[o] \/ o \in open]
    /\ signalled' = Done(open)
    /\ streams' = [streams EXCEPT ![e] = [i \in Ids |-> None]]
    /\ UNCHANGED <<counter, wire, loop, chunk, left, got, eof, header, pushVars, hndlVars>>

-----------------------------------------------------------------------------
Push(p) ==
    \/ \E c \in Conns : NextStream(p, c)
    \/ NoProviderLeft(p) \/ PushHeader(p) \/ PushChunk(p) \/ PushFails(p)
    \/ PushReturn(p) \/ UserReads(p)

Handler(x) ==
    HandlerStarts(x) \/ HandlerReads(x) \/ HandlerWrites(x) \/ HandlerFails(x)

ReadLoop(e) ==
    HandleRequest(e) \/ HandleResponse(e) \/ HandleData(e) \/ HandleUnknown(e) \/ WriteFails(e)

Progress ==
    /\ \/ \E p \in Requests : Push(p)
       \/ \E x \in Tries : Handler(x)
       \/ \E e \in Ends : ReadLoop(e) \/ ReadFails(e) \/ ProviderClose(e)
    /\ UNCHANGED faults

Next ==
    \/ Progress
    \/ \E p \in Requests : (NodePush(p) /\ UNCHANGED faults) \/ BodyFails(p) \/ UserLeaves(p)
    \/ \E e \in Ends : NetworkFails(e) \/ CloseWriter(e)

Spec == Init /\ [][Next]_vars

\* Goroutines go on, and both sides notice a closed socket.  No step can be
\* undone or repeated, so every behaviour comes to rest and one condition says
\* as much as one for each goroutine.
FairSpec == Spec /\ WF_vars(Progress)

-----------------------------------------------------------------------------
\* Properties.

Length(o) == IF o[2] = "in" THEN Body[o[1][1]] ELSE Reply[o[1][1]]

\* Every reader gets the chunks of its own stream, in order, without a gap or
\* a repetition: HandleMessage finds streams by an id that both ends choose (and
\* all variables have their types, no socket holding more than it can).
StreamIntegrity ==
    /\ TypeOK
    /\ \A o \in Objects :
        /\ Len(got[o]) <= Length(o)
        /\ \A i \in 1 .. Len(got[o]) : got[o][i].try = o[1] /\ got[o][i].k = i

\* A reader that sees io.EOF has read the whole stream, unless its own end of
\* the connection is closed: a body that fails on the other side, a handler
\* that gives up or a refused chunk never looks like the end of a stream.
EofHonest ==
    \A o \in Objects :
        eof[o] => (Len(got[o]) = Length(o) \/ life[EndOf(o)] = "closed")

\* A service request never finds its id in use: the ids of the two ends of a
\* connection differ in parity.
IdsApart ==
    \A e \in Ends :
        (wire[Other(e)] # <<>> /\ Head(wire[Other(e)]).op = "request") => ~Exists(e)

\* StreamNode.Push hands a request to one handler at most: it goes on to
\* another provider only when the first has not seen the request.
HandledOnce ==
    \A p \in Requests : Cardinality({c \in Conns : hpc[<<p, c>>] # "none"}) <= 1

\* Push returns a stream only when the handler of that very request responded.
PushHonest ==
    \A p \in Requests : ppc[p] \in {"reading", "done"} => hsent[Try(p)] > 0

\* Whoever should read the pipe of o does not: nobody serves the request, its
\* handler waits to write, or its Push, whose caller will read, still sends.
Unread(o) ==
    IF o[2] = "in" THEN hpc[o[1]] \in {"none", "reply"} ELSE ppc[o[1][1]] = "body"

\* The read loop of e is in the write of a chunk that is not read.
Jammed(e) == loop[e] = "writing" /\ Unread(chunk[e][1])



=============================================================================

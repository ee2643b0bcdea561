-------------------------------- MODULE Conn --------------------------------
(***************************************************************************)
(* One endpoint of a connection: streaming_transmit/conn.go.               *)
(*                                                                         *)
(* Goroutines: the callers of Send, SendNoWait and Request; the write      *)
(* loop; the read loop, which runs the message handler; and Handle, which  *)
(* starts both loops, waits for the first of them (or for `done`) to end   *)
(* and is followed by close(err) in Client and Server.  A step of the      *)
(* model is one critical section of Conn.mu, or one call on the            *)
(* BufferedConn, or one WaitGroup operation.                               *)
(*                                                                         *)
(* A pendingWrite or pendingRequest has exactly one owner goroutine from   *)
(* acquire to release, and a goroutine owns at most one that it waits      *)
(* for, so the object is identified with its owner: wg[t], perr[t] and     *)
(* dst[t] are the wg, err and dst of the object that t owns.               *)
(* An error is abstracted to whether it is nil: TRUE stands for non-nil.   *)
(*                                                                         *)
(* Operators named X_Y are mutations of X: a slip that the code could have *)
(* had there, kept to show that a property would notice it.  They are not  *)
(* part of the specification.                                              *)
(***************************************************************************)
EXTENDS Naturals, Sequences

CONSTANTS
    Callers,      \* goroutines that call Send, SendNoWait and Request
    Reader,       \* the goroutine of the read loop, which runs the handler
    None,         \* the nil *pendingRequest
    SeqOffset,    \* Conn.SeqOffset after getSeqOffset
    SeqDelta,     \* Conn.SeqDelta after getSeqDelta
    SeqModulus,   \* 2^32 in the code: sequence numbers wrap here
    PeerSeqs,     \* sequence numbers the peer gives to its own requests
    HandlerActs,  \* what the handler may do: a subset of {"ok", "error", "reply"}
    WriteDeadline,\* getWriteTimeout() > 0
    MaxCalls,     \* bound: calls started by all the callers together
    MaxIn         \* bound: messages read from the peer

Threads == Callers \cup {Reader}
Seqs    == 0 .. SeqModulus - 1

ASSUME ConnAssumption ==
    /\ Reader \notin Callers
    /\ None \notin Threads
    /\ SeqModulus \in Nat /\ SeqModulus > 1
    /\ SeqOffset \in Seqs \ {0}
    /\ SeqDelta \in Seqs \ {0}
    /\ PeerSeqs \subseteq Seqs
    /\ HandlerActs \subseteq {"ok", "error", "reply"}
    /\ WriteDeadline \in BOOLEAN
    /\ MaxCalls \in Nat /\ MaxIn \in Nat

VARIABLES
    writerQueue, writerDone, reqs, seq,  \* the fields of Conn, under Conn.mu
    hpc, herr, doneClosed,               \* Handle; the done channel
    wpc, batch, werr,                    \* writeLoop: position, queue, err
    rpc, rmsg, rpr, rerr,                \* readLoop: position, message, pr, err
    pc, cseq, cid, wg, perr, dst,        \* the callers (and Reader in Reply)
    buffered, sent, sockOpen,            \* the BufferedConn
    nAccepted, nCalls, nIn,              \* counters of accepted writes, calls, reads
    panicked                             \* WaitGroup: negative counter

connVars   == <<writerQueue, writerDone, reqs, seq>>
handleVars == <<hpc, herr, doneClosed>>
writeVars  == <<wpc, batch, werr>>
readVars   == <<rpc, rmsg, rpr, rerr>>
callVars   == <<pc, cseq, cid, wg, perr, dst>>
sockVars   == <<buffered, sent, sockOpen>>
countVars  == <<nAccepted, nCalls, nIn>>
vars == <<connVars, handleVars, writeVars, readVars, callVars, sockVars,
          countVars, panicked>>

\* The pendingWrite on writerQueue: its owner, the sequence number at the head
\* of its buffer, its wait flag, and its place in the order of acceptance.
PendingWrite == [from : Threads, seq : Seqs, wait : BOOLEAN, id : Nat]

Message == [seq : Seqs, id : Nat]
NoMessage == [seq |-> 0, id |-> 0]

\* Where a goroutine is inside Send or Reply, or Request.
CallPc == {"idle", "sendWait", "reqSeq", "reqReg", "reqFail", "reqDelete", "reqWait"}

TypeOK ==
    /\ writerQueue \in Seq(PendingWrite) /\ batch \in Seq(PendingWrite)
    /\ buffered \in Seq(PendingWrite) /\ sent \in Seq(PendingWrite)
    /\ writerDone \in BOOLEAN /\ doneClosed \in BOOLEAN /\ sockOpen \in BOOLEAN
    /\ herr \in BOOLEAN /\ werr \in BOOLEAN /\ rerr \in BOOLEAN
    /\ panicked \in BOOLEAN
    /\ reqs \in [Seqs -> Callers \cup {None}]
    /\ seq \in Seqs
    /\ hpc \in {"select", "doneWriter", "readerWriter", "waitReader",
                "returned", "closed"}
    /\ wpc \in {"lock", "cond", "deadline", "write", "flush", "exited"}
    /\ rpc \in {"read", "deliver", "handler", "reply", "exited"}
    /\ rmsg \in Message
    /\ rpr \in Callers \cup {None}
    /\ pc \in [Threads -> CallPc]
    /\ cseq \in [Threads -> Seqs]
    /\ cid \in [Threads -> Nat]
    /\ wg \in [Threads -> Nat]
    /\ perr \in [Threads -> BOOLEAN]
    /\ dst \in [Threads -> Nat]
    /\ nAccepted \in Nat /\ nCalls \in Nat /\ nIn \in Nat

Init ==
    /\ writerQueue = <<>> /\ writerDone = FALSE
    /\ reqs = [s \in Seqs |-> None] /\ seq = 0
    /\ hpc = "select" /\ herr = FALSE /\ doneClosed = FALSE
    /\ wpc = "lock" /\ batch = <<>> /\ werr = FALSE
    /\ rpc = "read" /\ rmsg = NoMessage /\ rpr = None /\ rerr = FALSE
    /\ pc = [t \in Threads |-> "idle"]
    /\ cseq = [t \in Threads |-> 0] /\ cid = [t \in Threads |-> 0]
    /\ wg = [t \in Threads |-> 0] /\ perr = [t \in Threads |-> FALSE]
    /\ dst = [t \in Threads |-> 0]
    /\ buffered = <<>> /\ sent = <<>> /\ sockOpen = TRUE
    /\ nAccepted = 0 /\ nCalls = 0 /\ nIn = 0
    /\ panicked = FALSE

-----------------------------------------------------------------------------
\* Synchronisation: sync.WaitGroup and sync.Cond.

Done_Unchecked(t) ==
    /\ wg' = [wg EXCEPT ![t] = @ - 1]
    /\ panicked' = FALSE

\* wg.Done: a counter below zero panics and takes the process down (every action
\* has the guard ~panicked).
Done(t) ==
    /\ wg' = [wg EXCEPT ![t] = IF @ > 0 THEN @ - 1 ELSE @]
    /\ panicked' = (wg[t] = 0)

\* wg.Done on the objects of all the goroutines of S.
DoneAll(S) ==
    /\ wg' = [t \in Threads |-> IF t \in S /\ wg[t] > 0 THEN wg[t] - 1 ELSE wg[t]]
    /\ panicked' = (\E t \in S : wg[t] = 0)

Signal_Lost == UNCHANGED wpc

\* writerCond.Signal: a write loop asleep in Wait goes on to take the lock.
Signal == wpc' = IF wpc = "cond" THEN "lock" ELSE wpc

\* The goroutines that wait for a pendingWrite of q.
Waiters(q) == {t \in Threads : \E i \in DOMAIN q : q[i].wait /\ q[i].from = t}

Abandoned_WritesOnly == Waiters(writerQueue)

\* close(err) completes every write still queued and every pending request.
Abandoned == Waiters(writerQueue) \cup {t \in Callers : \E s \in Seqs : reqs[s] = t}

-----------------------------------------------------------------------------
\* Calls.

\* preparePendingWrite past its writerDone test.
PreparePendingWrite(t, s, wait) ==
    /\ ~writerDone
    /\ writerQueue' = Append(writerQueue, [from |-> t, seq |-> s, wait |-> wait,
                                           id |-> nAccepted + 1])
    /\ nAccepted' = nAccepted + 1
    /\ Signal

\* Every call counts against the bound.
StartCall(c) ==
    /\ ~panicked /\ pc[c] = "idle" /\ nCalls < MaxCalls
    /\ nCalls' = nCalls + 1

Send(c) ==
    /\ StartCall(c)
    /\ PreparePendingWrite(c, 0, TRUE)
    /\ pc' = [pc EXCEPT ![c] = "sendWait"]
    /\ wg' = [wg EXCEPT ![c] = @ + 1]
    /\ UNCHANGED <<writerDone, reqs, seq, handleVars, batch, werr, readVars,
                   cseq, cid, perr, dst, sockVars, nIn, panicked>>

\* pw.wg.Wait returns; pw goes back to its pool.
SendReturn(c) ==
    /\ ~panicked /\ pc[c] = "sendWait" /\ wg[c] = 0
    /\ pc' = [pc EXCEPT ![c] = "idle"]
    /\ perr' = [perr EXCEPT ![c] = FALSE]
    /\ UNCHANGED <<connVars, handleVars, writeVars, readVars, cseq, cid, wg, dst,
                   sockVars, countVars, panicked>>

SendNoWait(c) ==
    /\ StartCall(c)
    /\ PreparePendingWrite(c, 0, FALSE)
    /\ UNCHANGED <<writerDone, reqs, seq, handleVars, batch, werr, readVars,
                   callVars, sockVars, nIn, panicked>>

\* Send or SendNoWait after closeWriter: "node is shut down".
SendRefused(c) ==
    /\ StartCall(c)
    /\ writerDone
    /\ UNCHANGED <<connVars, handleVars, writeVars, readVars, callVars, sockVars,
                   nAccepted, nIn, panicked>>

NextSeq_NotAdvanced == IF seq = 0 THEN SeqOffset ELSE seq

\* next(): the uint32 addition wraps.
NextSeq == IF seq = 0 THEN SeqOffset ELSE (seq + SeqDelta) % SeqModulus

\* Request, first part: a pendingRequest is acquired and next() gives its number.
RequestNext(c) ==
    /\ StartCall(c)
    /\ seq' = NextSeq
    /\ cseq' = [cseq EXCEPT ![c] = NextSeq]
    /\ wg' = [wg EXCEPT ![c] = @ + 1]
    /\ pc' = [pc EXCEPT ![c] = "reqSeq"]
    /\ UNCHANGED <<writerQueue, writerDone, reqs, handleVars, writeVars, readVars,
                   cid, perr, dst, sockVars, nAccepted, nIn, panicked>>

RequestRegister(c) ==
    /\ ~panicked /\ pc[c] = "reqSeq"
    /\ reqs' = [reqs EXCEPT ![cseq[c]] = c]
    /\ pc' = [pc EXCEPT ![c] = "reqReg"]
    /\ UNCHANGED <<writerQueue, writerDone, seq, handleVars, writeVars, readVars,
                   cseq, cid, wg, perr, dst, sockVars, countVars, panicked>>

RequestSend(c) ==
    /\ ~panicked /\ pc[c] = "reqReg"
    /\ PreparePendingWrite(c, cseq[c], FALSE)
    /\ cid' = [cid EXCEPT ![c] = nAccepted + 1]
    /\ pc' = [pc EXCEPT ![c] = "reqWait"]
    /\ UNCHANGED <<writerDone, reqs, seq, handleVars, batch, werr, readVars, cseq,
                   wg, perr, dst, sockVars, nCalls, nIn, panicked>>

RequestRefused(c) ==
    /\ ~panicked /\ pc[c] = "reqReg"
    /\ writerDone
    /\ pc' = [pc EXCEPT ![c] = "reqFail"]
    /\ UNCHANGED <<connVars, handleVars, writeVars, readVars, cseq, cid, wg, perr,
                   dst, sockVars, countVars, panicked>>

\* Request's error path: pr.wg.Done() first, outside the lock ...
RequestFail(c) ==
    /\ ~panicked /\ pc[c] = "reqFail"
    /\ Done(c)
    /\ pc' = [pc EXCEPT ![c] = "reqDelete"]
    /\ UNCHANGED <<connVars, handleVars, writeVars, readVars, cseq, cid, perr, dst,
                   sockVars, countVars>>

Unregister_Forgotten(c) == reqs

\* ... then delete(c.reqs, seq) under the lock.
Unregister(c) == [reqs EXCEPT ![cseq[c]] = None]

RequestDelete(c) ==
    /\ ~panicked /\ pc[c] = "reqDelete"
    /\ reqs' = Unregister(c)
    /\ pc' = [pc EXCEPT ![c] = "idle"]
    /\ perr' = [perr EXCEPT ![c] = FALSE]
    /\ cseq' = [cseq EXCEPT ![c] = 0]
    /\ UNCHANGED <<writerQueue, writerDone, seq, handleVars, writeVars, readVars,
                   cid, wg, dst, sockVars, countVars, panicked>>

\* pr.wg.Wait returns; pr.dst and pr.err are the results; pr goes back to its pool.
RequestReturn(c) ==
    /\ ~panicked /\ pc[c] = "reqWait" /\ wg[c] = 0
    /\ pc' = [pc EXCEPT ![c] = "idle"]
    /\ perr' = [perr EXCEPT ![c] = FALSE]
    /\ dst' = [dst EXCEPT ![c] = 0]
    /\ cseq' = [cseq EXCEPT ![c] = 0]
    /\ cid' = [cid EXCEPT ![c] = 0]
    /\ UNCHANGED <<connVars, handleVars, writeVars, readVars, wg, sockVars,
                   countVars, panicked>>

\* What a goroutine inside a call does next: scheduled, hence fair.
CallStep(c) ==
    \/ SendReturn(c) \/ RequestRegister(c) \/ RequestSend(c) \/ RequestRefused(c)
    \/ RequestFail(c) \/ RequestDelete(c) \/ RequestReturn(c)

CallStart(c) == Send(c) \/ SendNoWait(c) \/ SendRefused(c) \/ RequestNext(c)

-----------------------------------------------------------------------------
\* writeLoop.

\* The loop ends when the writer is closed and the batch it took is empty.
Exhausted(q) == writerDone /\ q = <<>>

WriterSleep ==
    /\ ~panicked /\ wpc = "lock" /\ ~writerDone /\ writerQueue = <<>>
    /\ wpc' = "cond"
    /\ UNCHANGED <<connVars, handleVars, batch, werr, readVars, callVars, sockVars,
                   countVars, panicked>>

WriterTake ==
    /\ ~panicked /\ wpc = "lock" /\ (writerDone \/ writerQueue # <<>>)
    /\ batch' = writerQueue
    /\ writerQueue' = <<>>
    /\ wpc' = IF Exhausted(writerQueue) THEN "exited"
              ELSE IF WriteDeadline THEN "deadline" ELSE "write"
    /\ UNCHANGED <<writerDone, reqs, seq, handleVars, werr, readVars, callVars,
                   sockVars, countVars, panicked>>

WriterDeadline ==
    /\ ~panicked /\ wpc = "deadline"
    /\ wpc' = "write"
    /\ UNCHANGED <<connVars, handleVars, batch, werr, readVars, callVars, sockVars,
                   countVars, panicked>>

\* SetWriteDeadline fails: the whole batch is completed with the error.
WriterDeadlineFail ==
    /\ ~panicked /\ wpc = "deadline"
    /\ DoneAll(Waiters(batch))
    /\ perr' = [t \in Threads |-> IF t \in Waiters(batch) THEN TRUE ELSE perr[t]]
    /\ wpc' = "exited" /\ werr' = TRUE /\ batch' = <<>>
    /\ UNCHANGED <<connVars, handleVars, readVars, pc, cseq, cid, dst, sockVars,
                   countVars>>

WriteErr_NotSticky(fail) == fail

\* An error sticks: the rest of the batch is completed with it, unwritten.
WriteErr(fail) == werr \/ fail

\* The bufio.Writer may pass any prefix of its content on to the socket.
Spill(b, k) ==
    /\ sent' = sent \o SubSeq(b, 1, k)
    /\ buffered' = SubSeq(b, k + 1, Len(b))

\* conn.Write of one message of the batch, and the completion of its pendingWrite.
WriterWrite(fail) ==
    /\ ~panicked /\ wpc = "write" /\ batch # <<>>
    /\ werr => ~fail
    /\ LET pw == Head(batch)
           e  == WriteErr(fail)
           b  == IF e THEN buffered ELSE Append(buffered, pw)
       IN  /\ werr' = e
           /\ \E k \in 0 .. Len(b) : (werr => k = 0) /\ Spill(b, k)
           /\ IF pw.wait
              THEN Done(pw.from) /\ perr' = [perr EXCEPT ![pw.from] = e]
              ELSE UNCHANGED <<wg, perr, panicked>>
    /\ batch' = Tail(batch)
    /\ UNCHANGED <<connVars, handleVars, wpc, readVars, pc, cseq, cid, dst, sockOpen,
                   countVars>>

WriterBatchDone ==
    /\ ~panicked /\ wpc = "write" /\ batch = <<>>
    /\ wpc' = IF werr THEN "exited" ELSE "flush"
    /\ UNCHANGED <<connVars, handleVars, batch, werr, readVars, callVars, sockVars,
                   countVars, panicked>>

WriterFlush ==
    /\ ~panicked /\ wpc = "flush"
    /\ Spill(buffered, Len(buffered))
    /\ wpc' = "lock"
    /\ UNCHANGED <<connVars, handleVars, batch, werr, readVars, callVars, sockOpen,
                   countVars, panicked>>

WriterFlushFail ==
    /\ ~panicked /\ wpc = "flush"
    /\ \E k \in 0 .. Len(buffered) - 1 : Spill(buffered, k)
    /\ wpc' = "exited" /\ werr' = TRUE
    /\ UNCHANGED <<connVars, handleVars, batch, readVars, callVars, sockOpen,
                   countVars, panicked>>

WriteLoop ==
    \/ WriterSleep \/ WriterTake \/ WriterDeadline \/ WriterDeadlineFail
    \/ \E fail \in BOOLEAN : WriterWrite(fail)
    \/ WriterBatchDone \/ WriterFlush \/ WriterFlushFail

-----------------------------------------------------------------------------
\* readLoop.

\* What the peer may send: messages and requests of its own, and answers to the
\* requests that reached it (more than one, if its handler replies twice).
Inbound ==
    {[seq |-> s, id |-> 0] : s \in PeerSeqs \cup {0}}
    \cup {[seq |-> sent[i].seq, id |-> sent[i].id] :
             i \in {j \in DOMAIN sent : sent[j].from \in Callers /\ sent[j].seq # 0}}

\* A message answers a request of ours when its number is pending, and is not zero.
IsResponse(m) == m.seq # 0 /\ reqs[m.seq] # None

\* conn.Read, and the look-up and removal of the pending request.
ReadMessage(m) ==
    /\ ~panicked /\ rpc = "read" /\ nIn < MaxIn
    /\ nIn' = nIn + 1
    /\ rmsg' = m
    /\ rpr' = reqs[m.seq]
    /\ reqs' = [reqs EXCEPT ![m.seq] = None]
    /\ rpc' = IF IsResponse(m) THEN "deliver" ELSE "handler"
    /\ UNCHANGED <<writerQueue, writerDone, seq, handleVars, writeVars, rerr,
                   callVars, sockVars, nAccepted, nCalls, panicked>>

\* The response is copied to pr.dst and the caller is woken.
ReadDeliver ==
    /\ ~panicked /\ rpc = "deliver"
    /\ dst' = [dst EXCEPT ![rpr] = rmsg.id]
    /\ Done(rpr)
    /\ rpc' = "read" /\ rpr' = None /\ rmsg' = NoMessage
    /\ UNCHANGED <<connVars, handleVars, writeVars, rerr, pc, cseq, cid, perr,
                   sockVars, countVars>>

ReadLoopErr_Nil == FALSE

\* readLoop wraps whatever ended it: its result is never nil.
ReadLoopErr == TRUE

ReaderExit ==
    /\ rpc' = "exited" /\ rerr' = ReadLoopErr
    /\ rpr' = None /\ rmsg' = NoMessage

\* SetReadDeadline or Read fails (peer gone, time-out, conn closed), or the
\* packet is too short to hold a sequence number.
ReadFail ==
    /\ ~panicked /\ rpc = "read"
    /\ ReaderExit
    /\ UNCHANGED <<connVars, handleVars, writeVars, callVars, sockVars, countVars,
                   panicked>>

HandlerOk ==
    /\ ~panicked /\ rpc = "handler" /\ "ok" \in HandlerActs
    /\ rpc' = "read" /\ rpr' = None /\ rmsg' = NoMessage
    /\ UNCHANGED <<connVars, handleVars, writeVars, rerr, callVars, sockVars,
                   countVars, panicked>>

HandlerError ==
    /\ ~panicked /\ rpc = "handler" /\ "error" \in HandlerActs
    /\ ReaderExit
    /\ UNCHANGED <<connVars, handleVars, writeVars, callVars, sockVars, countVars,
                   panicked>>

\* The handler does `return ctx.Reply(..)`: a Send with the number of the message.
HandlerReply ==
    /\ ~panicked /\ rpc = "handler" /\ "reply" \in HandlerActs
    /\ PreparePendingWrite(Reader, rmsg.seq, TRUE)
    /\ rpc' = "reply"
    /\ pc' = [pc EXCEPT ![Reader] = "sendWait"]
    /\ wg' = [wg EXCEPT ![Reader] = @ + 1]
    /\ UNCHANGED <<writerDone, reqs, seq, handleVars, batch, werr, rmsg, rpr, rerr,
                   cseq, cid, perr, dst, sockVars, nCalls, nIn, panicked>>

HandlerReplyRefused ==
    /\ ~panicked /\ rpc = "handler" /\ "reply" \in HandlerActs
    /\ writerDone
    /\ ReaderExit
    /\ UNCHANGED <<connVars, handleVars, writeVars, callVars, sockVars, countVars,
                   panicked>>

ReplyReturn ==
    /\ ~panicked /\ rpc = "reply" /\ wg[Reader] = 0
    /\ IF perr[Reader] THEN ReaderExit
       ELSE rpc' = "read" /\ rpr' = None /\ rmsg' = NoMessage /\ UNCHANGED rerr
    /\ pc' = [pc EXCEPT ![Reader] = "idle"]
    /\ perr' = [perr EXCEPT ![Reader] = FALSE]
    /\ UNCHANGED <<connVars, handleVars, writeVars, cseq, cid, wg, dst, sockVars,
                   countVars, panicked>>

\* The read loop outside conn.Read.
ReadStep ==
    \/ ReadDeliver \/ HandlerOk \/ HandlerError \/ HandlerReply
    \/ HandlerReplyRefused \/ ReplyReturn

-----------------------------------------------------------------------------
\* Handle, and the close(err) that its callers make with its result.

CloseWriter_NoSignal == writerDone' = TRUE /\ UNCHANGED wpc

CloseWriter == writerDone' = TRUE /\ Signal

\* <-writerDone, which Handle awaits before it closes the socket.
WriterEnded == wpc = "exited"

\* Client.Shutdown or Server.Shutdown closes the done channel.
Shutdown ==
    /\ ~panicked /\ ~doneClosed
    /\ doneClosed' = TRUE
    /\ UNCHANGED <<connVars, hpc, herr, writeVars, readVars, callVars, sockVars,
                   countVars, panicked>>

HandleDone ==
    /\ ~panicked /\ hpc = "select" /\ doneClosed
    /\ CloseWriter
    /\ hpc' = "doneWriter"
    /\ UNCHANGED <<writerQueue, reqs, seq, herr, doneClosed, batch, werr, readVars,
                   callVars, sockVars, countVars, panicked>>

HandleDoneWriter ==
    /\ ~panicked /\ hpc = "doneWriter" /\ WriterEnded
    /\ herr' = werr
    /\ sockOpen' = FALSE
    /\ hpc' = "waitReader"
    /\ UNCHANGED <<connVars, doneClosed, writeVars, readVars, callVars, buffered, sent,
                   countVars, panicked>>

HandleWriter ==
    /\ ~panicked /\ hpc = "select" /\ wpc = "exited"
    /\ CloseWriter
    /\ herr' = werr
    /\ sockOpen' = FALSE
    /\ hpc' = "waitReader"
    /\ UNCHANGED <<writerQueue, reqs, seq, doneClosed, batch, werr, readVars, callVars,
                   buffered, sent, countVars, panicked>>

HandleWaitReader ==
    /\ ~panicked /\ hpc = "waitReader" /\ rpc = "exited"
    /\ herr' = (herr \/ rerr)
    /\ hpc' = "returned"
    /\ UNCHANGED <<connVars, doneClosed, writeVars, readVars, callVars, sockVars,
                   countVars, panicked>>

HandleReader ==
    /\ ~panicked /\ hpc = "select" /\ rpc = "exited"
    /\ CloseWriter
    /\ herr' = rerr
    /\ hpc' = "readerWriter"
    /\ UNCHANGED <<writerQueue, reqs, seq, doneClosed, batch, werr, readVars, callVars,
                   sockVars, countVars, panicked>>

HandleReaderWriter ==
    /\ ~panicked /\ hpc = "readerWriter" /\ WriterEnded
    /\ herr' = (herr \/ werr)
    /\ sockOpen' = FALSE
    /\ hpc' = "returned"
    /\ UNCHANGED <<connVars, doneClosed, writeVars, readVars, callVars, buffered, sent,
                   countVars, panicked>>

Close ==
    /\ ~panicked /\ hpc = "returned"
    /\ DoneAll(Abandoned)
    /\ perr' = [t \in Threads |-> IF t \in Abandoned THEN herr ELSE perr[t]]
    /\ writerQueue' = <<>>
    /\ reqs' = [s \in Seqs |-> None]
    /\ seq' = 0
    /\ hpc' = "closed"
    /\ UNCHANGED <<writerDone, herr, doneClosed, writeVars, readVars, pc, cseq, cid,
                   dst, sockVars, countVars>>

Handle ==
    \/ HandleDone \/ HandleDoneWriter \/ HandleWriter \/ HandleWaitReader
    \/ HandleReader \/ HandleReaderWriter \/ Close

-----------------------------------------------------------------------------
\* The end: the connection is closed and nobody is inside a call.
Quiescent == hpc = "closed" /\ \A t \in Threads : pc[t] = "idle"

Next ==
    \/ \E c \in Callers : CallStart(c) \/ CallStep(c)
    \/ WriteLoop
    \/ \E m \in Inbound : ReadMessage(m)
    \/ ReadFail \/ ReadStep
    \/ Shutdown \/ Handle

Spec == Init /\ [][Next]_vars

\* A goroutine that can run does; the write loop is not held up for ever by its
\* socket; a Read on a closed socket returns; a handler returns.  Nothing obliges
\* a caller to call, the peer to send, or anyone to shut the connection down.
Fairness ==
    /\ \A c \in Callers : WF_vars(CallStep(c))
    /\ WF_vars(WriteLoop)
    /\ WF_vars(ReadStep)
    /\ WF_vars(~sockOpen /\ ReadFail)
    /\ WF_vars(Handle)

FairSpec == Spec /\ Fairness

-----------------------------------------------------------------------------
(***************************************************************************)
(* Properties.                                                             *)
(***************************************************************************)

\* The connection implements the outbox: Send, SendNoWait, Request and Reply
\* feed it, closeWriter stops its intake, the write loop empties it.
Promise == INSTANCE Outbox WITH
    accepted <- nAccepted,
    flushed  <- [i \in DOMAIN sent |-> sent[i].id],
    intake   <- ~writerDone,
    phase    <- IF werr THEN "broken" ELSE IF wpc = "exited" THEN "drained"
                ELSE "running"

\* Accepted messages reach the socket in order, at most once and without gaps,
\* and a shutdown without socket errors hands over every one of them before the
\* socket is closed (writeLoop, closeWriter and Handle together).
ImplementsOutbox == Promise!Spec

\* A caller blocked in Send, Reply or Request can be woken: its pendingWrite is
\* queued or in the batch being written; its pendingRequest is registered under
\* its own number or in the hands of the read loop that is delivering it.
WaitersReachable ==
    \A t \in Threads : wg[t] > 0 =>
        /\ pc[t] = "sendWait" => t \in Waiters(writerQueue) \cup Waiters(batch)
        /\ pc[t] = "reqWait" => reqs[cseq[t]] = t \/ (rpc = "deliver" /\ rpr = t)

\* After close(err) nobody is left blocked in Send, Reply or Request, and nobody
\* can block any more: a call that raced the closing was completed by it or refused.
NobodyStranded ==
    hpc = "closed" =>
        \A t \in Threads : pc[t] \in {"sendWait", "reqWait"} => wg[t] = 0

\* A pendingRequest in Conn.reqs belongs to a Request that is still running and
\* was given that sequence number: none is reachable after its return to the pool.
ReqsOwned ==
    \A s \in Seqs : reqs[s] # None =>
        /\ pc[reqs[s]] \in {"reqReg", "reqFail", "reqDelete", "reqWait"}
        /\ cseq[reqs[s]] = s

\* A Request is woken with an error or with the response to its own message,
\* never with that to another or, by close(err), with neither.
RequestAnswered ==
    \A c \in Callers : pc[c] = "reqWait" /\ wg[c] = 0 =>
        perr[c] \/ dst[c] = cid[c]

\* Handle closes the socket only after the write loop has ended, so no Write or
\* Flush of an accepted message meets a socket that this side has closed.
SocketOutlivesWriter == ~sockOpen => wpc = "exited"

\* Once the connection starts to end (done is closed, or a loop has ended), Handle
\* and close(err) complete and every call in progress returns.
EndCompletes ==
    (doneClosed \/ wpc = "exited" \/ rpc = "exited") ~> (Quiescent \/ panicked)

\* No handler waits for ever in Reply, on the read loop's goroutine.
RepliesReturn == []<>(rpc # "reply")

\* The end of the connection completes whenever a Reply does not stop it: all the
\* other waits, of callers, loops and Handle, come to their end.
EndNeedsReplies == RepliesReturn => EndCompletes

\* A Send always returns, even if nothing ever ends the connection, and unless a Reply
\* stops its end: no wake-up of the write loop is lost.
SendReturns ==
    RepliesReturn =>
        \A c \in Callers : pc[c] = "sendWait" ~> (pc[c] = "idle" \/ panicked)

\* pendingRequest.wg "signals the caller that the response has been received":
\* once, by the read loop, by close(err) or by Request itself.
SignalledOnce == ~panicked

=============================================================================

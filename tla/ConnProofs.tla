----------------------------- MODULE ConnProofs -----------------------------
(***************************************************************************)
(* Theorems about Conn, for any set of callers, any numbering of requests  *)
(* and any number of calls and messages.                                   *)
(***************************************************************************)
EXTENDS Conn, TLAPS

-----------------------------------------------------------------------------
\* Sequences of pending writes.

\* Passing a prefix of the buffer on to the socket keeps both well formed.
LEMMA SpillType ==
    ASSUME NEW b \in Seq(PendingWrite), NEW k \in 0 .. Len(b),
           sent \in Seq(PendingWrite), Spill(b, k)
    PROVE  sent' \in Seq(PendingWrite) /\ buffered' \in Seq(PendingWrite)
<1>1. SubSeq(b, 1, k) \in Seq(PendingWrite)
  OBVIOUS
<1>2. SubSeq(b, k + 1, Len(b)) \in Seq(PendingWrite)
  OBVIOUS
<1>3. QED
  BY <1>1, <1>2 DEF Spill

\* preparePendingWrite queues a well-formed pending write.
LEMMA PreparedType ==
    ASSUME TypeOK, NEW t \in Threads, NEW s \in Seqs, NEW w \in BOOLEAN,
           PreparePendingWrite(t, s, w)
    PROVE  /\ writerQueue' \in Seq(PendingWrite) /\ nAccepted' \in Nat
           /\ wpc' \in {"lock", "cond", "deadline", "write", "flush", "exited"}
BY DEF TypeOK, PreparePendingWrite, PendingWrite, Signal

\* Completing a goroutine's object keeps its counter a natural number.
LEMMA DoneType ==
    ASSUME wg \in [Threads -> Nat], NEW t, Done(t)
    PROVE  wg' \in [Threads -> Nat] /\ panicked' \in BOOLEAN
<1>1. t \in Threads => (IF wg[t] > 0 THEN wg[t] - 1 ELSE wg[t]) \in Nat
  OBVIOUS
<1>2. wg' \in [Threads -> Nat]
  BY <1>1 DEF Done
<1>3. panicked' \in BOOLEAN
  BY DEF Done
<1>4. QED
  BY <1>2, <1>3

\* next() stays within the width of a sequence number.
LEMMA NextSeqType ==
    ASSUME TypeOK
    PROVE  NextSeq \in Seqs
<1>1. ASSUME NEW a \in Nat, NEW m \in Nat, m > 0
      PROVE  a % m \in 0 .. m - 1
  BY <1>1
<1>2. QED
  BY <1>1, ConnAssumption DEF TypeOK, NextSeq, Seqs

-----------------------------------------------------------------------------
(***************************************************************************)
(* Type correctness.  It needs no other invariant: WaitGroup.Done is       *)
(* modelled with its check, and all numbers stay in range.                 *)
(***************************************************************************)

\* What the peer may send is a message, whatever was sent to it.
LEMMA InboundType == TypeOK => Inbound \subseteq Message
<1> SUFFICES ASSUME TypeOK, NEW m \in Inbound
             PROVE  m \in Message
  OBVIOUS
<1>1. \A i \in DOMAIN sent : sent[i] \in PendingWrite
  BY DEF TypeOK
<1>2. \A i \in DOMAIN sent : [seq |-> sent[i].seq, id |-> sent[i].id] \in Message
  BY <1>1 DEF PendingWrite, Message
<1>3. 0 \in Seqs
  BY ConnAssumption DEF Seqs
<1>4. \A s \in PeerSeqs \cup {0} : [seq |-> s, id |-> 0] \in Message
  BY <1>3, ConnAssumption DEF Message
<1>5. QED
  BY <1>2, <1>4 DEF Inbound

\* Every state of a connection is well typed: in particular no WaitGroup counter
\* goes below zero without the panic that Done raises, and next() never leaves
\* the uint32 range.
THEOREM TypeCorrect == Spec => []TypeOK
<1>0. /\ 0 \in Seqs /\ NoMessage \in Message /\ Callers \subseteq Threads
      /\ Reader \in Threads
  BY ConnAssumption DEF Seqs, Message, NoMessage, Threads
<1>1. Init => TypeOK
  <2> SUFFICES ASSUME Init
               PROVE  TypeOK
    OBVIOUS
  <2>1. /\ reqs \in [Seqs -> Callers \cup {None}] /\ rpr \in Callers \cup {None}
        /\ cseq \in [Threads -> Seqs] /\ cid \in [Threads -> Nat]
        /\ wg \in [Threads -> Nat] /\ dst \in [Threads -> Nat]
    BY <1>0 DEF Init
  <2>2. perr \in [Threads -> BOOLEAN]
    BY DEF Init
  <2>3. /\ writerDone \in BOOLEAN /\ doneClosed \in BOOLEAN /\ sockOpen \in BOOLEAN
        /\ herr \in BOOLEAN /\ werr \in BOOLEAN /\ rerr \in BOOLEAN
        /\ panicked \in BOOLEAN
    BY DEF Init
  <2>4. QED
    BY <1>0, <2>1, <2>2, <2>3 DEF Init, TypeOK, CallPc
<1>2. TypeOK /\ [Next]_vars => TypeOK'
  <2> SUFFICES ASSUME TypeOK, [Next]_vars
               PROVE  TypeOK'
    OBVIOUS
  <2> USE DEF connVars, handleVars, writeVars, readVars, callVars, sockVars,
              countVars, CallPc
  <2>1. ASSUME NEW c \in Callers, CallStart(c)
        PROVE  TypeOK'
    <3>0. c \in Threads /\ 0 \in Seqs
      BY <1>0
    <3>1. CASE Send(c)
      <4>1. writerQueue' \in Seq(PendingWrite) /\ nAccepted' \in Nat
              /\ wpc' \in {"lock", "cond", "deadline", "write", "flush", "exited"}
        BY <3>0, <3>1, PreparedType DEF Send
      <4>2. wg' \in [Threads -> Nat]
        BY <3>0, <3>1 DEF Send, TypeOK
      <4>3. nCalls' \in Nat
        BY <3>0, <3>1 DEF Send, StartCall, TypeOK
      <4>4. QED
        BY <3>0, <3>1, <4>1, <4>2, <4>3, SMTT(30) DEF Send, TypeOK
    <3>2. CASE SendNoWait(c)
      <4>1. writerQueue' \in Seq(PendingWrite) /\ nAccepted' \in Nat
              /\ wpc' \in {"lock", "cond", "deadline", "write", "flush", "exited"}
        BY <3>0, <3>2, PreparedType DEF SendNoWait
      <4>2. nCalls' \in Nat
        BY <3>0, <3>2 DEF SendNoWait, StartCall, TypeOK
      <4>3. QED
        BY <3>0, <3>2, <4>1, <4>2 DEF SendNoWait, TypeOK
    <3>3. CASE SendRefused(c)
      BY <3>0, <3>3 DEF SendRefused, StartCall, TypeOK
    <3>4. CASE RequestNext(c)
      BY <3>0, <3>4, NextSeqType, SMTT(30) DEF RequestNext, StartCall, TypeOK
    <3>5. QED
      BY <2>1, <3>1, <3>2, <3>3, <3>4 DEF CallStart
  <2>2. ASSUME NEW c \in Callers, CallStep(c)
        PROVE  TypeOK'
    <3>0. c \in Threads /\ 0 \in Seqs
      BY <1>0
    <3>1. CASE SendReturn(c)
      BY <3>0, <3>1 DEF SendReturn, TypeOK
    <3>2. CASE RequestRegister(c)
      BY <3>0, <3>2 DEF RequestRegister, TypeOK
    <3>3. CASE RequestSend(c)
      <4>1. cseq[c] \in Seqs /\ nAccepted + 1 \in Nat
        BY <3>0 DEF TypeOK
      <4>2. writerQueue' \in Seq(PendingWrite) /\ nAccepted' \in Nat
              /\ wpc' \in {"lock", "cond", "deadline", "write", "flush", "exited"}
        BY <3>0, <3>3, <4>1, PreparedType DEF RequestSend
      <4>3. cid' \in [Threads -> Nat]
        BY <3>0, <3>3, <4>1 DEF RequestSend, TypeOK
      <4>4. QED
        BY <3>0, <3>3, <4>2, <4>3 DEF RequestSend, TypeOK
    <3>4. CASE RequestRefused(c)
      BY <3>0, <3>4 DEF RequestRefused, TypeOK
    <3>5. CASE RequestFail(c)
      BY <3>0, <3>5 DEF RequestFail, Done, TypeOK
    <3>6. CASE RequestDelete(c)
      BY <3>0, <3>6 DEF RequestDelete, Unregister, TypeOK
    <3>7. CASE RequestReturn(c)
      BY <3>0, <3>7 DEF RequestReturn, TypeOK
    <3>8. QED
      BY <2>2, <3>1, <3>2, <3>3, <3>4, <3>5, <3>6, <3>7 DEF CallStep
  <2>3. ASSUME WriteLoop
        PROVE  TypeOK'
    <3>1. CASE WriterSleep
      BY <3>1 DEF WriterSleep, TypeOK
    <3>2. CASE WriterTake
      BY <3>2 DEF WriterTake, Exhausted, TypeOK
    <3>3. CASE WriterDeadline
      BY <3>3 DEF WriterDeadline, TypeOK
    <3>4. CASE WriterDeadlineFail
      <4>1. wg' \in [Threads -> Nat]
        BY <3>4 DEF WriterDeadlineFail, DoneAll, TypeOK
      <4>2. panicked' \in BOOLEAN /\ werr' \in BOOLEAN
        BY <3>4 DEF WriterDeadlineFail, DoneAll
      <4>3. perr' \in [Threads -> BOOLEAN]
        BY <3>4 DEF WriterDeadlineFail, TypeOK
      <4>4. batch' \in Seq(PendingWrite) /\ wpc' = "exited"
        BY <3>4 DEF WriterDeadlineFail
      <4>5. UNCHANGED <<connVars, handleVars, readVars, pc, cseq, cid, dst, sockVars,
                        countVars>>
        BY <3>4 DEF WriterDeadlineFail
      <4>6. QED
        BY <4>1, <4>2, <4>3, <4>4, <4>5 DEF TypeOK
    <3>5. ASSUME NEW fail \in BOOLEAN, WriterWrite(fail)
          PROVE  TypeOK'
      <4> DEFINE pw == Head(batch)
                 b  == IF WriteErr(fail) THEN buffered ELSE Append(buffered, pw)
      <4>0. pw \in PendingWrite /\ batch' \in Seq(PendingWrite)
        BY <3>5 DEF WriterWrite, TypeOK
      <4>1. pw.from \in Threads /\ b \in Seq(PendingWrite)
        <5>1. pw.from \in Threads
          BY <4>0 DEF PendingWrite
        <5>2. QED
          BY <4>0, <5>1 DEF TypeOK
      <4>2. werr' \in BOOLEAN
        BY <3>5 DEF WriterWrite, WriteErr, TypeOK
      <4>3. PICK k \in 0 .. Len(b) : Spill(b, k)
        BY <3>5 DEF WriterWrite
      <4>4. sent' \in Seq(PendingWrite) /\ buffered' \in Seq(PendingWrite)
        BY <4>1, <4>3, SpillType DEF TypeOK
      <4>5. wg' \in [Threads -> Nat]
        BY <3>5, <4>1, DoneType DEF WriterWrite, TypeOK
      <4>5a. panicked' \in BOOLEAN
        BY <3>5 DEF WriterWrite, Done, TypeOK
      <4>6. perr' \in [Threads -> BOOLEAN]
        BY <3>5, <4>1, <4>2 DEF WriterWrite, TypeOK
      <4>7. UNCHANGED <<connVars, handleVars, wpc, readVars, pc, cseq, cid, dst,
                        sockOpen, countVars>>
        BY <3>5 DEF WriterWrite
      <4>8. QED
        BY <4>0, <4>2, <4>4, <4>5, <4>5a, <4>6, <4>7 DEF TypeOK
    <3>6. CASE WriterBatchDone
      BY <3>6 DEF WriterBatchDone, TypeOK
    <3>7. CASE WriterFlush
      BY <3>7, SpillType DEF WriterFlush, TypeOK
    <3>8. CASE WriterFlushFail
      BY <3>8, SpillType DEF WriterFlushFail, TypeOK
    <3>9. QED
      BY <2>3, <3>1, <3>2, <3>3, <3>4, <3>5, <3>6, <3>7, <3>8 DEF WriteLoop
  <2>4. ASSUME NEW m \in Inbound, ReadMessage(m)
        PROVE  TypeOK'
    <3>1. m \in Message
      BY InboundType
    <3>2. reqs[m.seq] \in Callers \cup {None} /\ m.seq \in Seqs
      BY <3>1 DEF Message, TypeOK
    <3>3. QED
      BY <2>4, <3>1, <3>2 DEF ReadMessage, TypeOK
  <2>5. CASE ReadFail
    BY <1>0, <2>5 DEF ReadFail, ReaderExit, ReadLoopErr, TypeOK
  <2>6. ASSUME ReadStep
        PROVE  TypeOK'
    <3>1. CASE ReadDeliver
      <4>1. rmsg.id \in Nat
        BY DEF TypeOK, Message
      <4>2. wg' \in [Threads -> Nat]
        BY <3>1, DoneType DEF ReadDeliver, TypeOK
      <4>3. dst' \in [Threads -> Nat]
        BY <3>1, <4>1 DEF ReadDeliver, TypeOK
      <4>4. panicked' \in BOOLEAN
        BY <3>1 DEF ReadDeliver, Done
      <4>5. QED
        BY <1>0, <3>1, <4>2, <4>3, <4>4, SMTT(30) DEF ReadDeliver, TypeOK
    <3>2. CASE HandlerOk
      BY <1>0, <3>2 DEF HandlerOk, TypeOK
    <3>3. CASE HandlerError
      BY <1>0, <3>3, SMTT(30) DEF HandlerError, ReaderExit, ReadLoopErr, TypeOK
    <3>4. CASE HandlerReply
      <4>1. rmsg.seq \in Seqs
        BY DEF TypeOK, Message
      <4>2. writerQueue' \in Seq(PendingWrite) /\ nAccepted' \in Nat
              /\ wpc' \in {"lock", "cond", "deadline", "write", "flush", "exited"}
        BY <1>0, <3>4, <4>1, PreparedType DEF HandlerReply
      <4>3. wg' \in [Threads -> Nat]
        BY <1>0, <3>4 DEF HandlerReply, TypeOK
      <4>4. QED
        BY <1>0, <3>4, <4>2, <4>3, SMTT(30) DEF HandlerReply, TypeOK
    <3>5. CASE HandlerReplyRefused
      BY <1>0, <3>5 DEF HandlerReplyRefused, ReaderExit, ReadLoopErr, TypeOK
    <3>6. CASE ReplyReturn
      <4>1. rpc' \in {"read", "exited"} /\ rpr' = None /\ rmsg' = NoMessage
        BY <3>6 DEF ReplyReturn, ReaderExit
      <4>2. rerr' \in BOOLEAN
        BY <3>6 DEF ReplyReturn, ReaderExit, ReadLoopErr, TypeOK
      <4>3. QED
        BY <1>0, <3>6, <4>1, <4>2 DEF ReplyReturn, TypeOK
    <3>7. QED
      BY <2>6, <3>1, <3>2, <3>3, <3>4, <3>5, <3>6 DEF ReadStep
  <2>7. CASE Shutdown
    BY <2>7 DEF Shutdown, TypeOK
  <2>8. ASSUME Handle
        PROVE  TypeOK'
    <3>1. CASE HandleDone
      BY <3>1 DEF HandleDone, CloseWriter, Signal, TypeOK
    <3>2. CASE HandleDoneWriter
      BY <3>2, ZenonT(30) DEF HandleDoneWriter, TypeOK
    <3>3. CASE HandleWriter
      BY <3>3 DEF HandleWriter, CloseWriter, Signal, TypeOK
    <3>4. CASE HandleWaitReader
      BY <3>4 DEF HandleWaitReader, TypeOK
    <3>5. CASE HandleReader
      BY <3>5 DEF HandleReader, CloseWriter, Signal, TypeOK
    <3>6. CASE HandleReaderWriter
      BY <3>6, ZenonT(30) DEF HandleReaderWriter, TypeOK
    <3>7. CASE Close
      BY <1>0, <3>7, SMTT(30) DEF Close, DoneAll, TypeOK
    <3>8. QED
      BY <2>8, <3>1, <3>2, <3>3, <3>4, <3>5, <3>6, <3>7 DEF Handle
  <2>9. CASE UNCHANGED vars
    BY <2>9 DEF vars, TypeOK
  <2>10. QED
    BY <2>1, <2>2, <2>3, <2>4, <2>5, <2>6, <2>7, <2>8, <2>9 DEF Next
<1>3. QED
  BY <1>1, <1>2, PTL DEF Spec

-----------------------------------------------------------------------------
(***************************************************************************)
(* The inductive invariant, in four parts.                                 *)
(***************************************************************************)

\* How far Handle has come tells which loops have ended and what is left to write.
Stages ==
    /\ hpc # "select" => writerDone
    /\ hpc \in {"waitReader", "returned", "closed"} => wpc = "exited"
    /\ hpc \in {"readerWriter", "returned", "closed"} => rpc = "exited"
    /\ ~sockOpen => wpc = "exited"
    /\ wpc \notin {"deadline", "write"} => batch = <<>>
    /\ hpc = "closed" => writerQueue = <<>>

\* No goroutine waits for two writes of q.
Distinct(q) ==
    \A i, j \in DOMAIN q :
        q[i].wait /\ q[j].wait /\ q[i].from = q[j].from => i = j

\* A goroutine in Send or Reply waits for exactly one pending write, queued or in
\* the batch, unless that was completed; nobody else has a write to wait for.
SendInv ==
    /\ \A t \in Waiters(writerQueue) \cup Waiters(batch) :
          pc[t] = "sendWait" /\ wg[t] = 1
    /\ Distinct(writerQueue) /\ Distinct(batch)
    /\ Waiters(writerQueue) \cap Waiters(batch) = {}
    /\ \A t \in Threads : pc[t] = "sendWait" /\ wg[t] > 0 =>
          t \in Waiters(writerQueue) \cup Waiters(batch)
    /\ \A t \in Threads : wg[t] \in {0, 1}
    /\ \A t \in Threads : pc[t] \in {"idle", "reqDelete"} => wg[t] = 0
    /\ pc[Reader] = IF rpc = "reply" THEN "sendWait" ELSE "idle"

Pending(c) == \E s \in Seqs : reqs[s] = c

\* A pending request that is registered or being delivered has not been completed,
\* as long as the writer is open or its caller waits.
ReqInv ==
    /\ ReqsOwned
    /\ \A c \in Callers : pc[c] \in {"reqFail", "reqDelete"} => writerDone
    /\ \A c \in Callers : pc[c] = "reqSeq" /\ ~writerDone => wg[c] = 1
    /\ \A c \in Callers : Pending(c) =>
          (pc[c] = "reqWait" \/ (pc[c] = "reqReg" /\ ~writerDone) => wg[c] = 1)
    /\ rpc = "deliver" =>
          /\ rpr \in Callers /\ pc[rpr] # "sendWait"
          /\ pc[rpr] = "reqWait" \/ ~writerDone =>
                pc[rpr] \in {"reqReg", "reqWait"} /\ wg[rpr] = 1 /\ ~Pending(rpr)

\* The next request's number has not wrapped round.
NoWrap == seq + SeqDelta < SeqModulus

InRequest(c) == pc[c] \in {"reqSeq", "reqReg", "reqFail", "reqDelete", "reqWait"}

\* Until close(err), requests in progress have numbers of their own, and one that
\* is not completed can be found by the read loop and by close(err); after it
\* there is none.
SeqInv ==
    /\ hpc # "closed" =>
         /\ \A c \in Callers : InRequest(c) => 0 < cseq[c] /\ cseq[c] <= seq
         /\ \A c, d \in Callers :
               InRequest(c) /\ InRequest(d) /\ cseq[c] = cseq[d] => c = d
         /\ \A c \in Callers : pc[c] \in {"reqReg", "reqWait"} /\ wg[c] > 0 =>
               reqs[cseq[c]] = c \/ (rpc = "deliver" /\ rpr = c)
    /\ hpc = "closed" => \A c \in Callers : pc[c] = "reqWait" => wg[c] = 0

-----------------------------------------------------------------------------
(***************************************************************************)
(* The order in which Handle ends the loops and closes the socket.         *)
(***************************************************************************)

\* Every step of every goroutine keeps the stages in order.
LEMMA StagesStep == TypeOK /\ Stages /\ [Next]_vars => Stages'
<1> SUFFICES ASSUME TypeOK, Stages, [Next]_vars
             PROVE  Stages'
  OBVIOUS
<1> USE DEF Stages, connVars, handleVars, writeVars, readVars, callVars, sockVars,
            countVars
<1>1. ASSUME NEW c \in Callers, CallStart(c)
      PROVE  Stages'
  BY <1>1 DEF CallStart, Send, SendNoWait, SendRefused, RequestNext, StartCall,
              PreparePendingWrite, Signal
<1>2. ASSUME NEW c \in Callers, CallStep(c)
      PROVE  Stages'
  BY <1>2 DEF CallStep, SendReturn, RequestRegister, RequestSend, RequestRefused,
              RequestFail, RequestDelete, RequestReturn, PreparePendingWrite, Signal
<1>3. ASSUME WriteLoop
      PROVE  Stages'
  <2>1. CASE WriterTake
    BY <2>1 DEF WriterTake, Exhausted, TypeOK
  <2>2. ASSUME NEW fail \in BOOLEAN, WriterWrite(fail)
        PROVE  Stages'
    BY <2>2 DEF WriterWrite
  <2>3. CASE WriterSleep \/ WriterDeadline \/ WriterDeadlineFail \/ WriterBatchDone
             \/ WriterFlush \/ WriterFlushFail
    BY <2>3 DEF WriterSleep, WriterDeadline, WriterDeadlineFail, WriterBatchDone,
                WriterFlush, WriterFlushFail, Spill
  <2>4. QED
    BY <1>3, <2>1, <2>2, <2>3 DEF WriteLoop
<1>4. ASSUME NEW m \in Inbound, ReadMessage(m)
      PROVE  Stages'
  BY <1>4 DEF ReadMessage
<1>5. CASE ReadFail
  BY <1>5 DEF ReadFail, ReaderExit
<1>6. CASE ReadStep
  BY <1>6 DEF ReadStep, ReadDeliver, HandlerOk, HandlerError, HandlerReply,
              HandlerReplyRefused, ReplyReturn, ReaderExit, PreparePendingWrite, Signal
<1>7. CASE Shutdown
  BY <1>7 DEF Shutdown
<1>8. CASE Handle
  BY <1>8 DEF Handle, HandleDone, HandleDoneWriter, HandleWriter, HandleWaitReader,
              HandleReader, HandleReaderWriter, Close, CloseWriter, Signal, WriterEnded
<1>9. CASE UNCHANGED vars
  BY <1>9 DEF vars
<1>10. QED
  BY <1>1, <1>2, <1>3, <1>4, <1>5, <1>6, <1>7, <1>8, <1>9 DEF Next

\* Handle closes the socket only after the write loop has ended: in no execution
\* does a Write or a Flush meet a socket that this side has closed.
THEOREM SocketClosedLast == Spec => []SocketOutlivesWriter
<1>1. Init => Stages
  BY DEF Init, Stages
<1>2. Stages => SocketOutlivesWriter
  BY DEF Stages, SocketOutlivesWriter
<1>3. QED
  BY <1>1, <1>2, TypeCorrect, StagesStep, PTL DEF Spec

-----------------------------------------------------------------------------
(***************************************************************************)
(* Who waits for which write.                                              *)
(***************************************************************************)

\* Nobody waits for an empty queue.
LEMMA WaitersEmpty == Waiters(<<>>) = {} /\ Distinct(<<>>)
BY DEF Waiters, Distinct

\* Queueing a write adds its owner, if it is to be waited for.
LEMMA WaitersAppend ==
    ASSUME NEW q \in Seq(PendingWrite), NEW pw \in PendingWrite
    PROVE  /\ Waiters(Append(q, pw)) =
                IF pw.wait THEN Waiters(q) \cup {pw.from} ELSE Waiters(q)
           /\ Distinct(q) /\ (pw.wait => pw.from \notin Waiters(q)) =>
                Distinct(Append(q, pw))
<1> DEFINE r == Append(q, pw)
<1>1. /\ DOMAIN r = DOMAIN q \cup {Len(q) + 1} /\ r[Len(q) + 1] = pw
      /\ \A i \in DOMAIN q : r[i] = q[i] /\ i # Len(q) + 1
  OBVIOUS
<1>2. pw.from \in Threads /\ \A i \in DOMAIN q : q[i].from \in Threads
  <2>1. \A i \in DOMAIN q : q[i] \in PendingWrite
    OBVIOUS
  <2>2. QED
    BY <2>1 DEF PendingWrite
<1> HIDE DEF r
<1>3. Waiters(r) = IF pw.wait THEN Waiters(q) \cup {pw.from} ELSE Waiters(q)
  BY <1>1, <1>2 DEF Waiters
<1>4. Distinct(q) /\ (pw.wait => pw.from \notin Waiters(q)) => Distinct(r)
  BY <1>1, <1>2 DEF Waiters, Distinct
<1>5. QED
  BY <1>3, <1>4 DEF r

\* Taking the first write off a queue takes its owner off the waiters.
LEMMA WaitersTail ==
    ASSUME NEW q \in Seq(PendingWrite), q # <<>>, Distinct(q)
    PROVE  /\ Waiters(Tail(q)) =
                IF Head(q).wait THEN Waiters(q) \ {Head(q).from} ELSE Waiters(q)
           /\ Distinct(Tail(q))
           /\ Head(q).wait => Head(q).from \in Waiters(q)
<1> DEFINE r == Tail(q)
           h == Head(q)
<1>1. /\ h = q[1] /\ 1 \in DOMAIN q
      /\ \A i \in DOMAIN r : r[i] = q[i + 1] /\ i + 1 \in DOMAIN q /\ i + 1 # 1
      /\ \A i \in DOMAIN q : i # 1 => i - 1 \in DOMAIN r /\ r[i - 1] = q[i]
      /\ \A i, j \in DOMAIN r : i + 1 = j + 1 => i = j
  OBVIOUS
<1>2. \A i \in DOMAIN q : q[i].from \in Threads
  <2>1. \A i \in DOMAIN q : q[i] \in PendingWrite
    OBVIOUS
  <2>2. QED
    BY <2>1 DEF PendingWrite
<1> HIDE DEF r, h
<1>3. Distinct(r)
  BY <1>1 DEF Distinct
<1>4. h.wait => h.from \in Waiters(q)
  BY <1>1, <1>2 DEF Waiters
<1>5. Waiters(r) \subseteq Waiters(q)
  BY <1>1 DEF Waiters
<1>6. h.wait => h.from \notin Waiters(r)
  BY <1>1 DEF Waiters, Distinct
<1>7. ASSUME NEW t \in Waiters(q), ~(h.wait /\ t = h.from)
      PROVE  t \in Waiters(r)
  <2>1. PICK i \in DOMAIN q : q[i].wait /\ q[i].from = t
    BY <1>7 DEF Waiters
  <2>2. i # 1
    BY <1>1, <1>7, <2>1
  <2>3. QED
    BY <1>1, <1>7, <2>1, <2>2 DEF Waiters
<1>8. QED
  BY <1>3, <1>4, <1>5, <1>6, <1>7 DEF r, h

\* preparePendingWrite by an idle goroutine, with or without waiting.
LEMMA PreparedWaiters ==
    ASSUME TypeOK, SendInv, NEW t \in Threads, NEW s \in Seqs, NEW w \in BOOLEAN,
           PreparePendingWrite(t, s, w), pc[t] # "sendWait"
    PROVE  /\ Waiters(writerQueue') =
                IF w THEN Waiters(writerQueue) \cup {t} ELSE Waiters(writerQueue)
           /\ Distinct(writerQueue')
           /\ t \notin Waiters(writerQueue) \cup Waiters(batch)
<1> DEFINE pw == [from |-> t, seq |-> s, wait |-> w, id |-> nAccepted + 1]
<1>1. t \notin Waiters(writerQueue) \cup Waiters(batch)
  BY DEF SendInv
<1>2. pw \in PendingWrite /\ pw.wait = w /\ pw.from = t
  BY DEF TypeOK, PendingWrite
<1>3. writerQueue \in Seq(PendingWrite) /\ writerQueue' = Append(writerQueue, pw)
  BY DEF TypeOK, PreparePendingWrite
<1> HIDE DEF pw
<1>4. Distinct(writerQueue)
  BY DEF SendInv
<1>5. QED
  BY <1>1, <1>2, <1>3, <1>4, WaitersAppend

\* The waiters of a queue are goroutines.
LEMMA WaitersThreads == \A q : Waiters(q) \subseteq Threads
BY DEF Waiters

\* Done on a WaitGroup that counts one pending completion, or none, leaves none.
LEMMA DoneZero ==
    ASSUME wg \in [Threads -> Nat], NEW t \in Threads, wg[t] \in {0, 1}, Done(t)
    PROVE  wg' = [wg EXCEPT ![t] = 0]
<1>1. (IF wg[t] > 0 THEN wg[t] - 1 ELSE wg[t]) = 0
  OBVIOUS
<1>2. wg' = [wg EXCEPT ![t] = IF wg[t] > 0 THEN wg[t] - 1 ELSE wg[t]]
  BY DEF Done
<1>3. QED
  BY <1>1, <1>2

\* Every step keeps the account of who waits for which write.
LEMMA SendStep == TypeOK /\ Stages /\ SendInv /\ ReqInv /\ [Next]_vars => SendInv'
<1> SUFFICES ASSUME TypeOK, Stages, SendInv, ReqInv, [Next]_vars
             PROVE  SendInv'
  OBVIOUS
<1> USE DEF connVars, handleVars, writeVars, readVars, callVars, sockVars, countVars
<1>0. /\ Reader \in Threads /\ Callers \subseteq Threads /\ Reader \notin Callers
      /\ 0 \in Seqs
  BY ConnAssumption DEF Threads, Seqs
<1>t. pc \in [Threads -> CallPc] /\ wg \in [Threads -> Nat]
  BY DEF TypeOK
<1>1. ASSUME NEW c \in Callers, CallStart(c)
      PROVE  SendInv'
  <2>0. c \in Threads /\ c # Reader
    BY <1>0
  <2>1. CASE Send(c)
    <3>1. /\ Waiters(writerQueue') = Waiters(writerQueue) \cup {c}
          /\ Distinct(writerQueue')
          /\ c \notin Waiters(writerQueue) \cup Waiters(batch)
      BY <1>0, <2>0, <2>1, PreparedWaiters DEF Send, StartCall
    <3>2. wg[c] = 0
      BY <2>0, <2>1 DEF Send, StartCall, SendInv
    <3>3. /\ wg' = [wg EXCEPT ![c] = 1] /\ pc' = [pc EXCEPT ![c] = "sendWait"]
          /\ batch' = batch /\ rpc' = rpc
      BY <1>t, <2>0, <2>1, <3>2 DEF Send
    <3>4. QED
      BY <1>t, <2>0, <3>1, <3>3, WaitersThreads DEF SendInv
  <2>2. CASE SendNoWait(c)
    <3>1. Waiters(writerQueue') = Waiters(writerQueue) /\ Distinct(writerQueue')
      BY <1>0, <2>0, <2>2, PreparedWaiters DEF SendNoWait, StartCall
    <3>2. QED
      BY <2>2, <3>1 DEF SendNoWait, SendInv
  <2>3. CASE SendRefused(c)
    BY <2>3 DEF SendRefused, SendInv
  <2>4. CASE RequestNext(c)
    <3>0. pc[c] = "idle" /\ wg[c] = 0
      BY <2>0, <2>4 DEF RequestNext, StartCall, SendInv
    <3>1. wg' = [wg EXCEPT ![c] = 1] /\ pc' = [pc EXCEPT ![c] = "reqSeq"]
      BY <1>t, <2>0, <2>4, <3>0 DEF RequestNext
    <3>2. UNCHANGED <<writerQueue, batch, rpc>> /\ pc[c] = "idle"
      BY <2>4, <3>0 DEF RequestNext
    <3>3. QED
      BY <1>t, <2>0, <3>1, <3>2, WaitersThreads DEF SendInv
  <2>5. QED
    BY <1>1, <2>1, <2>2, <2>3, <2>4 DEF CallStart
<1>2. ASSUME NEW c \in Callers, CallStep(c)
      PROVE  SendInv'
  <2>0. c \in Threads /\ c # Reader
    BY <1>0
  <2>1. CASE SendReturn(c)
    BY <1>t, <2>0, <2>1, WaitersThreads DEF SendReturn, SendInv
  <2>2. CASE RequestRegister(c)
    BY <1>t, <2>0, <2>2, WaitersThreads DEF RequestRegister, SendInv
  <2>3. CASE RequestSend(c)
    <3>1. cseq[c] \in Seqs
      BY <2>0 DEF TypeOK
    <3>2. Waiters(writerQueue') = Waiters(writerQueue) /\ Distinct(writerQueue')
      BY <2>0, <2>3, <3>1, PreparedWaiters DEF RequestSend
    <3>3. QED
      BY <1>t, <2>0, <2>3, <3>2, WaitersThreads DEF RequestSend, SendInv
  <2>4. CASE RequestRefused(c)
    BY <1>t, <2>0, <2>4, WaitersThreads DEF RequestRefused, SendInv
  <2>5. CASE RequestFail(c)
    <3>0. wg[c] \in {0, 1}
      BY <2>0 DEF SendInv
    <3>1. wg' = [wg EXCEPT ![c] = 0]
      BY <1>t, <2>0, <2>5, <3>0, DoneZero DEF RequestFail
    <3>2. QED
      BY <1>t, <2>0, <2>5, <3>1, WaitersThreads DEF RequestFail, SendInv
  <2>6. CASE RequestDelete(c)
    BY <1>t, <2>0, <2>6, WaitersThreads DEF RequestDelete, SendInv
  <2>7. CASE RequestReturn(c)
    BY <1>t, <2>0, <2>7, WaitersThreads DEF RequestReturn, SendInv
  <2>8. QED
    BY <1>2, <2>1, <2>2, <2>3, <2>4, <2>5, <2>6, <2>7 DEF CallStep
<1>3. ASSUME WriteLoop
      PROVE  SendInv'
  <2>1. CASE WriterTake
    <3>1. batch = <<>> /\ batch' = writerQueue /\ writerQueue' = <<>>
      BY <2>1 DEF WriterTake, Stages
    <3>2. UNCHANGED <<pc, wg, rpc>>
      BY <2>1 DEF WriterTake
    <3>3. QED
      BY <3>1, <3>2, WaitersEmpty DEF SendInv
  <2>2. CASE WriterDeadlineFail
    <3>1. /\ UNCHANGED <<writerQueue, pc, rpc>> /\ batch' = <<>>
          /\ \A t \in Threads : wg'[t] = IF t \in Waiters(batch) /\ wg[t] > 0
                                         THEN wg[t] - 1 ELSE wg[t]
      BY <2>2 DEF WriterDeadlineFail, DoneAll
    <3>2. QED
      BY <1>t, <3>1, WaitersEmpty, WaitersThreads DEF SendInv
  <2>3. ASSUME NEW fail \in BOOLEAN, WriterWrite(fail)
        PROVE  SendInv'
    <3> DEFINE pw == Head(batch)
    <3>1. /\ UNCHANGED <<writerQueue, pc, rpc>> /\ batch' = Tail(batch)
          /\ batch # <<>>
          /\ IF pw.wait THEN Done(pw.from) ELSE wg' = wg
      BY <2>3 DEF WriterWrite
    <3>2. batch \in Seq(PendingWrite) /\ Distinct(batch)
      BY DEF TypeOK, SendInv
    <3>3. /\ Waiters(batch') =
               IF pw.wait THEN Waiters(batch) \ {pw.from} ELSE Waiters(batch)
          /\ Distinct(batch') /\ (pw.wait => pw.from \in Waiters(batch))
      BY <3>1, <3>2, WaitersTail
    <3> HIDE DEF pw
    <3>4. CASE pw.wait
      <4>1. wg' = [wg EXCEPT ![pw.from] = 0]
        BY <1>t, <3>1, <3>3, <3>4, WaitersThreads DEF Done, SendInv
      <4>2. QED
        BY <1>t, <3>1, <3>3, <3>4, <4>1, WaitersThreads DEF SendInv
    <3>5. CASE ~pw.wait
      BY <3>1, <3>3, <3>5 DEF SendInv
    <3>6. QED
      BY <3>4, <3>5
  <2>4. CASE WriterSleep \/ WriterDeadline \/ WriterBatchDone \/ WriterFlush
             \/ WriterFlushFail
    BY <2>4 DEF WriterSleep, WriterDeadline, WriterBatchDone, WriterFlush,
                WriterFlushFail, SendInv
  <2>5. QED
    BY <1>3, <2>1, <2>2, <2>3, <2>4 DEF WriteLoop
<1>4. ASSUME NEW m \in Inbound, ReadMessage(m)
      PROVE  SendInv'
  BY <1>4 DEF ReadMessage, SendInv
<1>5. CASE ReadFail
  BY <1>5 DEF ReadFail, ReaderExit, SendInv
<1>6. ASSUME ReadStep
      PROVE  SendInv'
  <2>1. CASE ReadDeliver
    <3>1. rpr \in Threads /\ rpr # Reader /\ pc[rpr] # "sendWait"
      BY <1>0, <2>1 DEF ReadDeliver, ReqInv
    <3>0. wg[rpr] \in {0, 1}
      BY <3>1 DEF SendInv
    <3>2. wg' = [wg EXCEPT ![rpr] = 0]
      BY <1>t, <2>1, <3>0, <3>1, DoneZero DEF ReadDeliver
    <3>3. QED
      BY <1>t, <2>1, <3>1, <3>2, WaitersThreads DEF ReadDeliver, SendInv
  <2>2. CASE HandlerOk \/ HandlerError \/ HandlerReplyRefused
    BY <2>2 DEF HandlerOk, HandlerError, HandlerReplyRefused, ReaderExit, SendInv
  <2>3. CASE HandlerReply
    <3>0. pc[Reader] = "idle" /\ wg[Reader] = 0
      BY <1>0, <2>3 DEF HandlerReply, SendInv
    <3>1. rmsg.seq \in Seqs
      BY DEF TypeOK, Message
    <3>2. /\ Waiters(writerQueue') = Waiters(writerQueue) \cup {Reader}
          /\ Distinct(writerQueue')
          /\ Reader \notin Waiters(writerQueue) \cup Waiters(batch)
      BY <1>0, <2>3, <3>0, <3>1, PreparedWaiters DEF HandlerReply
    <3>3. /\ wg' = [wg EXCEPT ![Reader] = 1]
          /\ pc' = [pc EXCEPT ![Reader] = "sendWait"]
          /\ batch' = batch /\ rpc' = "reply"
      BY <1>0, <1>t, <2>3, <3>0 DEF HandlerReply
    <3>4. QED
      BY <1>0, <1>t, <3>2, <3>3, WaitersThreads DEF SendInv
  <2>4. CASE ReplyReturn
    <3>1. rpc' # "reply" /\ wg[Reader] = 0 /\ UNCHANGED <<writerQueue, batch, wg>>
          /\ pc' = [pc EXCEPT ![Reader] = "idle"]
      BY <2>4 DEF ReplyReturn, ReaderExit
    <3>2. QED
      BY <1>0, <1>t, <3>1, WaitersThreads DEF SendInv
  <2>5. QED
    BY <1>6, <2>1, <2>2, <2>3, <2>4 DEF ReadStep
<1>7. CASE Shutdown
  BY <1>7 DEF Shutdown, SendInv
<1>8. ASSUME Handle
      PROVE  SendInv'
  <2>1. CASE Close
    <3>1. /\ UNCHANGED <<batch, pc, rpc>> /\ batch = <<>> /\ writerQueue' = <<>>
          /\ \A t \in Threads : wg'[t] = IF t \in Abandoned /\ wg[t] > 0
                                         THEN wg[t] - 1 ELSE wg[t]
      BY <2>1 DEF Close, DoneAll, Stages
    <3>2. Waiters(writerQueue) \subseteq Abandoned
      BY DEF Abandoned
    <3>3. QED
      BY <1>t, <3>1, <3>2, WaitersEmpty, WaitersThreads DEF SendInv
  <2>2. CASE HandleDone \/ HandleDoneWriter \/ HandleWriter \/ HandleWaitReader
             \/ HandleReader \/ HandleReaderWriter
    BY <2>2 DEF HandleDone, HandleDoneWriter, HandleWriter, HandleWaitReader,
                HandleReader, HandleReaderWriter, SendInv
  <2>3. QED
    BY <1>8, <2>1, <2>2 DEF Handle
<1>9. CASE UNCHANGED vars
  BY <1>9 DEF vars, SendInv
<1>10. QED
  BY <1>1, <1>2, <1>3, <1>4, <1>5, <1>6, <1>7, <1>8, <1>9 DEF Next

-----------------------------------------------------------------------------
(***************************************************************************)
(* Who owns the pending requests.                                          *)
(***************************************************************************)

\* Steps that leave the requests, their callers and the read loop alone.
LEMMA ReqUntouched ==
    ASSUME ReqInv,
           UNCHANGED <<reqs, writerDone, pc, cseq, wg>>,
           rpc' = "deliver" => rpc = "deliver" /\ rpr' = rpr
    PROVE  ReqInv'
BY DEF ReqInv, ReqsOwned, Pending

\* A call that does not touch the requests, made by a goroutine without one.
LEMMA ReqOther ==
    ASSUME TypeOK, SendInv, ReqInv, NEW t \in Threads,
           pc[t] \in {"idle", "sendWait"}, pc'[t] \in {"idle", "sendWait"},
           pc[t] = "idle" \/ pc'[t] = "idle",
           UNCHANGED <<reqs, writerDone, cseq, rpr>>,
           \A u \in Threads \ {t} : pc'[u] = pc[u] /\ wg'[u] = wg[u],
           rpc' = "deliver" => rpc = "deliver" /\ rpr # t
    PROVE  ReqInv'
<1>1. Callers \subseteq Threads
  BY DEF Threads
<1>2. reqs \in [Seqs -> Callers \cup {None}]
  BY DEF TypeOK
<1>3. \A s \in Seqs : reqs[s] # t
  BY ConnAssumption DEF ReqInv, ReqsOwned, Threads
<1>4. QED
  BY <1>1, <1>2, <1>3 DEF ReqInv, ReqsOwned, Pending

\* Every step keeps the requests with the callers they belong to.
LEMMA ReqStep == TypeOK /\ Stages /\ SendInv /\ ReqInv /\ [Next]_vars => ReqInv'
<1> SUFFICES ASSUME TypeOK, Stages, SendInv, ReqInv, [Next]_vars
             PROVE  ReqInv'
  OBVIOUS
<1> USE DEF connVars, handleVars, writeVars, readVars, callVars, sockVars, countVars
<1>0. /\ Reader \in Threads /\ Callers \subseteq Threads /\ Reader \notin Callers
      /\ 0 \in Seqs /\ None \notin Threads
  BY ConnAssumption DEF Threads, Seqs
<1>t. /\ pc \in [Threads -> CallPc] /\ wg \in [Threads -> Nat]
      /\ cseq \in [Threads -> Seqs] /\ reqs \in [Seqs -> Callers \cup {None}]
  BY DEF TypeOK
<1>1. ASSUME NEW c \in Callers, CallStart(c)
      PROVE  ReqInv'
  <2>0. c \in Threads /\ pc[c] = "idle"
    BY <1>0, <1>1 DEF CallStart, Send, SendNoWait, SendRefused, RequestNext, StartCall
  <2>1. CASE Send(c)
    <3>1. ~writerDone /\ UNCHANGED <<reqs, writerDone, cseq, rpc, rpr>>
      BY <2>1 DEF Send, PreparePendingWrite
    <3>2. pc' = [pc EXCEPT ![c] = "sendWait"] /\ wg' = [wg EXCEPT ![c] = wg[c] + 1]
      BY <2>1 DEF Send
    <3>3. rpc = "deliver" => rpr # c
      BY <2>0, <3>1 DEF ReqInv
    <3>4. QED
      BY <1>t, <2>0, <3>1, <3>2, <3>3, ReqOther
  <2>2. CASE SendNoWait(c) \/ SendRefused(c)
    BY <2>2, ReqUntouched DEF SendNoWait, SendRefused
  <2>3. CASE RequestNext(c)
    <3>1. wg[c] = 0
      BY <2>0 DEF SendInv
    <3>2. /\ wg' = [wg EXCEPT ![c] = 1] /\ pc' = [pc EXCEPT ![c] = "reqSeq"]
          /\ cseq' = [cseq EXCEPT ![c] = NextSeq]
      BY <1>t, <2>0, <2>3, <3>1 DEF RequestNext
    <3>3. UNCHANGED <<reqs, writerDone, rpc, rpr>>
      BY <2>3 DEF RequestNext
    <3>4. \A s \in Seqs : reqs[s] # c
      BY <1>0, <2>0 DEF ReqInv, ReqsOwned
    <3>5. rpc = "deliver" /\ rpr = c => writerDone
      BY <2>0 DEF ReqInv
    <3>6. QED
      BY <1>0, <1>t, <2>0, <3>2, <3>3, <3>4, <3>5 DEF ReqInv, ReqsOwned, Pending
  <2>4. QED
    BY <1>1, <2>1, <2>2, <2>3 DEF CallStart
<1>2. ASSUME NEW c \in Callers, CallStep(c)
      PROVE  ReqInv'
  <2>0. c \in Threads
    BY <1>0
  <2>1. CASE SendReturn(c)
    <3>1. /\ pc[c] = "sendWait" /\ pc' = [pc EXCEPT ![c] = "idle"]
          /\ UNCHANGED <<reqs, writerDone, cseq, rpc, rpr, wg>>
      BY <2>1 DEF SendReturn
    <3>2. rpc = "deliver" => rpr # c
      BY <3>1 DEF ReqInv
    <3>3. QED
      BY <1>t, <2>0, <3>1, <3>2, ReqOther
  <2>2. CASE RequestRegister(c)
    <3>1. /\ pc[c] = "reqSeq" /\ pc' = [pc EXCEPT ![c] = "reqReg"]
          /\ reqs' = [reqs EXCEPT ![cseq[c]] = c]
          /\ UNCHANGED <<writerDone, cseq, rpc, rpr, wg>>
      BY <2>2 DEF RequestRegister
    <3>2. rpc = "deliver" /\ rpr = c => writerDone
      BY <3>1 DEF ReqInv
    <3>3. ReqsOwned'
      BY <1>0, <1>t, <2>0, <3>1 DEF ReqInv, ReqsOwned
    <3>4. \A d \in Callers : Pending(d)' => d = c \/ Pending(d)
      BY <1>t, <2>0, <3>1 DEF Pending
    <3>5. QED
      BY <1>0, <1>t, <2>0, <3>1, <3>2, <3>3, <3>4 DEF ReqInv
  <2>3. CASE RequestSend(c)
    <3>1. /\ pc[c] = "reqReg" /\ pc' = [pc EXCEPT ![c] = "reqWait"] /\ ~writerDone
          /\ UNCHANGED <<writerDone, reqs, cseq, rpc, rpr, wg>>
      BY <2>3 DEF RequestSend, PreparePendingWrite
    <3>2. QED
      BY <1>0, <1>t, <2>0, <3>1 DEF ReqInv, ReqsOwned, Pending
  <2>4. CASE RequestRefused(c)
    <3>1. /\ pc[c] = "reqReg" /\ pc' = [pc EXCEPT ![c] = "reqFail"] /\ writerDone
          /\ UNCHANGED <<writerDone, reqs, cseq, rpc, rpr, wg>>
      BY <2>4 DEF RequestRefused
    <3>2. QED
      BY <1>0, <1>t, <2>0, <3>1 DEF ReqInv, ReqsOwned, Pending
  <2>5. CASE RequestFail(c)
    <3>1. wg[c] \in {0, 1}
      BY <2>0 DEF SendInv
    <3>2. /\ pc[c] = "reqFail" /\ pc' = [pc EXCEPT ![c] = "reqDelete"]
          /\ UNCHANGED <<writerDone, reqs, cseq, rpc, rpr>>
          /\ wg' = [wg EXCEPT ![c] = 0]
      BY <1>t, <2>0, <2>5, <3>1, DoneZero DEF RequestFail
    <3>3. QED
      BY <1>0, <1>t, <2>0, <3>2 DEF ReqInv, ReqsOwned, Pending
  <2>6. CASE RequestDelete(c)
    <3>1. /\ pc[c] = "reqDelete" /\ pc' = [pc EXCEPT ![c] = "idle"]
          /\ reqs' = [reqs EXCEPT ![cseq[c]] = None]
          /\ cseq' = [cseq EXCEPT ![c] = 0]
          /\ UNCHANGED <<writerDone, rpc, rpr, wg>>
      BY <2>6 DEF RequestDelete, Unregister
    <3>2. \A s \in Seqs : reqs[s] = c => s = cseq[c]
      BY <1>0, <2>0 DEF ReqInv, ReqsOwned
    <3>3. \A s \in Seqs : reqs'[s] # None => reqs'[s] = reqs[s] /\ reqs[s] # c
      BY <1>t, <2>0, <3>1, <3>2
    <3>4. ReqsOwned'
      BY <1>0, <1>t, <2>0, <3>1, <3>3 DEF ReqInv, ReqsOwned
    <3>5. \A d \in Callers : Pending(d)' => d # c /\ Pending(d)
      BY <1>0, <3>3 DEF Pending
    <3>6. writerDone
      BY <3>1 DEF ReqInv
    <3>7. QED
      BY <1>0, <1>t, <2>0, <3>1, <3>4, <3>5, <3>6 DEF ReqInv
  <2>7. CASE RequestReturn(c)
    <3>1. /\ pc[c] = "reqWait" /\ pc' = [pc EXCEPT ![c] = "idle"] /\ wg[c] = 0
          /\ cseq' = [cseq EXCEPT ![c] = 0]
          /\ UNCHANGED <<writerDone, reqs, rpc, rpr, wg>>
      BY <2>7 DEF RequestReturn
    <3>2. \A s \in Seqs : reqs[s] # c
      BY <3>1 DEF ReqInv, Pending
    <3>3. rpc = "deliver" => rpr # c
      BY <3>1 DEF ReqInv
    <3>4. QED
      BY <1>0, <1>t, <2>0, <3>1, <3>2, <3>3 DEF ReqInv, ReqsOwned, Pending
  <2>8. QED
    BY <1>2, <2>1, <2>2, <2>3, <2>4, <2>5, <2>6, <2>7 DEF CallStep
<1>3. ASSUME WriteLoop
      PROVE  ReqInv'
  <2>1. CASE WriterDeadlineFail
    <3>1. /\ UNCHANGED <<reqs, writerDone, pc, cseq, rpc, rpr>>
          /\ \A t \in Threads : t \notin Waiters(batch) => wg'[t] = wg[t]
      BY <2>1 DEF WriterDeadlineFail, DoneAll
    <3>2. \A t \in Threads : pc[t] # "sendWait" => wg'[t] = wg[t]
      BY <3>1 DEF SendInv
    <3>3. QED
      BY <1>0, <3>1, <3>2 DEF ReqInv, ReqsOwned, Pending
  <2>2. ASSUME NEW fail \in BOOLEAN, WriterWrite(fail)
        PROVE  ReqInv'
    <3> DEFINE pw == Head(batch)
    <3>1. /\ UNCHANGED <<reqs, writerDone, pc, cseq, rpc, rpr>> /\ batch # <<>>
          /\ IF pw.wait THEN Done(pw.from) ELSE wg' = wg
      BY <2>2 DEF WriterWrite
    <3>2. batch \in Seq(PendingWrite) /\ Distinct(batch)
      BY DEF TypeOK, SendInv
    <3>3. pw.wait => pw.from \in Waiters(batch)
      BY <3>1, <3>2, WaitersTail
    <3> HIDE DEF pw
    <3>4. pw.wait => wg' = [wg EXCEPT ![pw.from] = 0] /\ pc[pw.from] = "sendWait"
      BY <1>t, <3>1, <3>3, WaitersThreads, DoneZero DEF SendInv
    <3>5. \A t \in Threads : pc[t] # "sendWait" => wg'[t] = wg[t]
      BY <1>t, <3>1, <3>4
    <3>6. QED
      BY <1>0, <3>1, <3>5 DEF ReqInv, ReqsOwned, Pending
  <2>3. CASE WriterSleep \/ WriterTake \/ WriterDeadline \/ WriterBatchDone
             \/ WriterFlush \/ WriterFlushFail
    BY <2>3, ReqUntouched DEF WriterSleep, WriterTake, WriterDeadline,
            WriterBatchDone, WriterFlush, WriterFlushFail
  <2>4. QED
    BY <1>3, <2>1, <2>2, <2>3 DEF WriteLoop
<1>4. ASSUME NEW m \in Inbound, ReadMessage(m)
      PROVE  ReqInv'
  <2>1. m.seq \in Seqs
    BY InboundType DEF Message
  <2>2. /\ rpc # "deliver" /\ rpr' = reqs[m.seq]
        /\ reqs' = [reqs EXCEPT ![m.seq] = None]
        /\ rpc' = "deliver" => reqs[m.seq] # None
        /\ UNCHANGED <<writerDone, pc, cseq, wg>>
    BY <1>4 DEF ReadMessage, IsResponse
  <2>3. \A s \in Seqs : reqs'[s] # None => reqs'[s] = reqs[s] /\ s # m.seq
    BY <1>t, <2>1, <2>2
  <2>4. ReqsOwned'
    BY <2>2, <2>3 DEF ReqInv, ReqsOwned
  <2>5. \A d \in Callers : Pending(d)' => Pending(d)
    BY <1>0, <2>3 DEF Pending
  <2>6. ASSUME rpc' = "deliver"
        PROVE  /\ rpr' \in Callers /\ Pending(rpr')
               /\ pc[rpr'] \in {"reqReg", "reqFail", "reqDelete", "reqWait"}
               /\ \A s \in Seqs : reqs'[s] # rpr'
    <3>1. rpr' \in Callers /\ Pending(rpr') /\ cseq[rpr'] = m.seq
          /\ pc[rpr'] \in {"reqReg", "reqFail", "reqDelete", "reqWait"}
      BY <1>t, <2>1, <2>2, <2>6 DEF ReqInv, ReqsOwned, Pending
    <3>2. \A s \in Seqs : reqs'[s] # rpr'
      BY <1>0, <2>2, <2>3, <3>1 DEF ReqInv, ReqsOwned
    <3>3. QED
      BY <3>1, <3>2
  <2>7. QED
    BY <2>2, <2>4, <2>5, <2>6 DEF ReqInv, Pending
<1>5. CASE ReadFail
  BY <1>5, ReqUntouched DEF ReadFail, ReaderExit
<1>6. ASSUME ReadStep
      PROVE  ReqInv'
  <2>1. CASE ReadDeliver
    <3>1. rpr \in Callers /\ rpr \in Threads
      BY <1>0, <2>1 DEF ReadDeliver, ReqInv
    <3>2. wg[rpr] \in {0, 1}
      BY <3>1 DEF SendInv
    <3>3. /\ wg' = [wg EXCEPT ![rpr] = 0] /\ rpc = "deliver" /\ rpc' = "read"
          /\ UNCHANGED <<reqs, writerDone, pc, cseq>>
      BY <1>t, <2>1, <3>1, <3>2, DoneZero DEF ReadDeliver
    <3>4. QED
      BY <1>0, <1>t, <3>1, <3>3 DEF ReqInv, ReqsOwned, Pending
  <2>2. CASE HandlerOk \/ HandlerError \/ HandlerReplyRefused
    BY <2>2, ReqUntouched DEF HandlerOk, HandlerError, HandlerReplyRefused, ReaderExit
  <2>3. CASE HandlerReply
    <3>1. /\ rpc' = "reply" /\ UNCHANGED <<reqs, writerDone, cseq, rpr>>
          /\ pc' = [pc EXCEPT ![Reader] = "sendWait"]
          /\ wg' = [wg EXCEPT ![Reader] = wg[Reader] + 1]
      BY <2>3 DEF HandlerReply
    <3>2. pc[Reader] = "idle"
      BY <2>3 DEF HandlerReply, SendInv
    <3>3. QED
      BY <1>0, <1>t, <3>1, <3>2, ReqOther
  <2>4. CASE ReplyReturn
    <3>1. /\ rpc' # "deliver" /\ UNCHANGED <<reqs, writerDone, cseq, wg>>
          /\ pc' = [pc EXCEPT ![Reader] = "idle"]
      BY <2>4 DEF ReplyReturn, ReaderExit
    <3>2. \A c \in Callers : pc'[c] = pc[c] /\ wg'[c] = wg[c]
      BY <1>0, <1>t, <3>1
    <3>3. QED
      BY <1>0, <1>t, <3>1, <3>2 DEF ReqInv, ReqsOwned, Pending
  <2>5. QED
    BY <1>6, <2>1, <2>2, <2>3, <2>4 DEF ReadStep
<1>7. CASE Shutdown
  BY <1>7, ReqUntouched DEF Shutdown
<1>8. ASSUME Handle
      PROVE  ReqInv'
  <2>1. CASE Close
    <3>1. /\ \A s \in Seqs : reqs'[s] = None
          /\ UNCHANGED <<writerDone, pc, rpc>>
          /\ writerDone /\ rpc = "exited"
      BY <2>1 DEF Close, Stages
    <3>2. QED
      BY <1>0, <3>1 DEF ReqInv, ReqsOwned, Pending
  <2>2. CASE HandleDone \/ HandleWriter \/ HandleReader
    <3>1. /\ writerDone' = TRUE
          /\ UNCHANGED <<reqs, pc, cseq, wg, rpc, rpr>>
      BY <2>2 DEF HandleDone, HandleWriter, HandleReader, CloseWriter
    <3>2. QED
      BY <3>1 DEF ReqInv, ReqsOwned, Pending
  <2>3. CASE HandleDoneWriter \/ HandleWaitReader \/ HandleReaderWriter
    BY <2>3, ReqUntouched DEF HandleDoneWriter, HandleWaitReader, HandleReaderWriter
  <2>4. QED
    BY <1>8, <2>1, <2>2, <2>3 DEF Handle
<1>9. CASE UNCHANGED vars
  BY <1>9, ReqUntouched DEF vars
<1>10. QED
  BY <1>1, <1>2, <1>3, <1>4, <1>5, <1>6, <1>7, <1>8, <1>9 DEF Next

\* The initial state of a connection satisfies the whole inductive invariant.
LEMMA InvInit == Init => Stages /\ SendInv /\ ReqInv /\ SeqInv
<1> SUFFICES ASSUME Init
             PROVE  Stages /\ SendInv /\ ReqInv /\ SeqInv
  OBVIOUS
<1>1. Stages
  BY DEF Init, Stages
<1>2. SendInv
  BY WaitersEmpty, ConnAssumption DEF Init, SendInv, Threads
<1>3. ReqInv
  BY ConnAssumption DEF Init, ReqInv, ReqsOwned, Pending, Threads
<1>4. SeqInv
  BY DEF Init, SeqInv, InRequest, Threads
<1>5. QED
  BY <1>1, <1>2, <1>3, <1>4

\* A pending request found by the read loop or by close(err) always belongs to a
\* Request that is still running under that number: none is reachable after it
\* went back to its pool, whatever the peer sends and wherever the numbers wrap.
THEOREM RequestsOwned == Spec => []ReqsOwned
<1>1. ReqInv => ReqsOwned
  BY DEF ReqInv
<1>2. QED
  BY <1>1, InvInit, TypeCorrect, StagesStep, SendStep, ReqStep, PTL DEF Spec

-----------------------------------------------------------------------------
(***************************************************************************)
(* Nobody is left waiting.                                                 *)
(***************************************************************************)

\* As long as the numbers do not wrap, next() gives one above all the earlier ones.
LEMMA NextSeqGrows ==
    ASSUME TypeOK, NoWrap
    PROVE  NextSeq \in Nat /\ seq < NextSeq
<1>1. /\ seq \in Nat /\ SeqOffset \in Nat /\ SeqOffset > 0
      /\ SeqDelta \in Nat /\ SeqDelta > 0 /\ SeqModulus \in Nat /\ SeqModulus > 1
  BY ConnAssumption DEF TypeOK, Seqs
<1>2. (seq + SeqDelta) % SeqModulus = seq + SeqDelta
  BY <1>1 DEF NoWrap
<1>3. QED
  BY <1>1, <1>2 DEF NextSeq

\* Steps that change neither requests nor callers, nor end the connection.
LEMMA SeqUntouched ==
    ASSUME SeqInv,
           UNCHANGED <<reqs, seq, pc, cseq, wg>>,
           hpc' = "closed" <=> hpc = "closed",
           rpc = "deliver" => rpc' = "deliver" /\ rpr' = rpr
    PROVE  SeqInv'
BY DEF SeqInv, InRequest

\* A step of Send or Reply by t, which has no request in progress.
LEMMA SeqOther ==
    ASSUME SeqInv, NEW t \in Threads,
           pc'[t] \in {"idle", "sendWait"},
           \A u \in Threads \ {t} : pc'[u] = pc[u] /\ wg'[u] = wg[u],
           UNCHANGED <<reqs, seq, cseq, hpc>>,
           rpc = "deliver" => rpc' = "deliver" /\ rpr' = rpr
    PROVE  SeqInv'
<1>1. Callers \subseteq Threads
  BY DEF Threads
<1>2. QED
  BY <1>1 DEF SeqInv, InRequest

\* Every step keeps the requests in progress apart and reachable.
LEMMA SeqStep ==
    TypeOK /\ Stages /\ SendInv /\ ReqInv /\ SeqInv /\ NoWrap /\ [Next]_vars => SeqInv'
<1> SUFFICES ASSUME TypeOK, Stages, SendInv, ReqInv, SeqInv, NoWrap, [Next]_vars
             PROVE  SeqInv'
  OBVIOUS
<1> USE DEF connVars, handleVars, writeVars, readVars, callVars, sockVars, countVars
<1>0. /\ Reader \in Threads /\ Callers \subseteq Threads /\ Reader \notin Callers
      /\ 0 \in Seqs /\ None \notin Threads
  BY ConnAssumption DEF Threads, Seqs
<1>t. /\ pc \in [Threads -> CallPc] /\ wg \in [Threads -> Nat]
      /\ cseq \in [Threads -> Seqs] /\ reqs \in [Seqs -> Callers \cup {None}]
  BY DEF TypeOK
<1>n. seq \in Nat /\ \A c \in Callers : cseq[c] \in Nat
  BY <1>0, <1>t, ConnAssumption DEF TypeOK, Seqs
<1>1. ASSUME NEW c \in Callers, CallStart(c)
      PROVE  SeqInv'
  <2>0. c \in Threads /\ pc[c] = "idle"
    BY <1>0, <1>1 DEF CallStart, Send, SendNoWait, SendRefused, RequestNext, StartCall
  <2>1. CASE Send(c)
    <3>1. /\ pc' = [pc EXCEPT ![c] = "sendWait"] /\ wg' = [wg EXCEPT ![c] = wg[c] + 1]
          /\ UNCHANGED <<reqs, seq, cseq, hpc, rpc, rpr>>
      BY <2>1 DEF Send
    <3>2. QED
      BY <1>t, <2>0, <3>1, SeqOther
  <2>2. CASE SendNoWait(c) \/ SendRefused(c)
    BY <2>2, SeqUntouched DEF SendNoWait, SendRefused
  <2>3. CASE RequestNext(c)
    <3>1. /\ pc' = [pc EXCEPT ![c] = "reqSeq"] /\ wg' = [wg EXCEPT ![c] = wg[c] + 1]
          /\ cseq' = [cseq EXCEPT ![c] = NextSeq] /\ seq' = NextSeq
          /\ UNCHANGED <<reqs, hpc, rpc, rpr>>
      BY <2>3 DEF RequestNext
    <3>2. NextSeq \in Nat /\ seq < NextSeq
      BY NextSeqGrows
    <3>3. \A d \in Callers \ {c} : /\ pc'[d] = pc[d] /\ wg'[d] = wg[d]
                                   /\ cseq'[d] = cseq[d]
      BY <1>0, <1>t, <2>0, <3>1
    <3>4. pc'[c] = "reqSeq" /\ cseq'[c] = NextSeq
      BY <1>t, <2>0, <3>1
    <3>5. hpc # "closed" => \A d \in Callers \ {c} :
             InRequest(d)' => 0 < cseq'[d] /\ cseq'[d] < NextSeq
      BY <1>n, <3>2, <3>3 DEF SeqInv, InRequest
    <3>6. hpc' # "closed" => \A d \in Callers :
             InRequest(d)' => 0 < cseq'[d] /\ cseq'[d] <= seq'
      BY <1>n, <3>1, <3>2, <3>4, <3>5
    <3>7. hpc' # "closed" => \A d, e \in Callers :
             InRequest(d)' /\ InRequest(e)' /\ cseq'[d] = cseq'[e] => d = e
      <4> SUFFICES ASSUME hpc # "closed", NEW d \in Callers, NEW e \in Callers,
                          InRequest(d)', InRequest(e)', cseq'[d] = cseq'[e]
                   PROVE  d = e
        BY <3>1
      <4>1. CASE d = c \/ e = c
        BY <1>n, <3>2, <3>3, <3>4, <3>5, <4>1
      <4>2. CASE d # c /\ e # c
        BY <3>3, <4>2 DEF SeqInv, InRequest
      <4>3. QED
        BY <4>1, <4>2
    <3>8. QED
      BY <3>1, <3>3, <3>4, <3>6, <3>7 DEF SeqInv
  <2>4. QED
    BY <1>1, <2>1, <2>2, <2>3 DEF CallStart
<1>2. ASSUME NEW c \in Callers, CallStep(c)
      PROVE  SeqInv'
  <2>0. c \in Threads /\ cseq[c] \in Seqs
    BY <1>0, <1>t
  <2>1. CASE SendReturn(c)
    <3>1. /\ pc' = [pc EXCEPT ![c] = "idle"]
          /\ UNCHANGED <<reqs, seq, cseq, hpc, rpc, rpr, wg>>
      BY <2>1 DEF SendReturn
    <3>2. QED
      BY <1>t, <2>0, <3>1, SeqOther
  <2>2. CASE RequestRegister(c)
    <3>1. /\ pc[c] = "reqSeq" /\ pc' = [pc EXCEPT ![c] = "reqReg"]
          /\ reqs' = [reqs EXCEPT ![cseq[c]] = c]
          /\ UNCHANGED <<seq, cseq, hpc, rpc, rpr, wg>>
      BY <2>2 DEF RequestRegister
    <3>2. QED
      BY <1>0, <1>t, <2>0, <3>1 DEF SeqInv, InRequest
  <2>3. CASE RequestSend(c)
    <3>1. /\ pc[c] = "reqReg" /\ pc' = [pc EXCEPT ![c] = "reqWait"] /\ ~writerDone
          /\ UNCHANGED <<reqs, seq, cseq, hpc, rpc, rpr, wg>>
      BY <2>3 DEF RequestSend, PreparePendingWrite
    <3>2. hpc # "closed"
      BY <3>1 DEF Stages
    <3>3. QED
      BY <1>0, <1>t, <2>0, <3>1, <3>2 DEF SeqInv, InRequest
  <2>4. CASE RequestRefused(c)
    <3>1. /\ pc[c] = "reqReg" /\ pc' = [pc EXCEPT ![c] = "reqFail"]
          /\ UNCHANGED <<reqs, seq, cseq, hpc, rpc, rpr, wg>>
      BY <2>4 DEF RequestRefused
    <3>2. QED
      BY <1>0, <1>t, <2>0, <3>1 DEF SeqInv, InRequest
  <2>5. CASE RequestFail(c)
    <3>1. wg[c] \in {0, 1}
      BY <2>0 DEF SendInv
    <3>2. /\ pc[c] = "reqFail" /\ pc' = [pc EXCEPT ![c] = "reqDelete"]
          /\ UNCHANGED <<reqs, seq, cseq, hpc, rpc, rpr>>
          /\ wg' = [wg EXCEPT ![c] = 0]
      BY <1>t, <2>0, <2>5, <3>1, DoneZero DEF RequestFail
    <3>3. QED
      BY <1>0, <1>t, <2>0, <3>2 DEF SeqInv, InRequest
  <2>6. CASE RequestDelete(c)
    <3>1. /\ pc[c] = "reqDelete" /\ pc' = [pc EXCEPT ![c] = "idle"]
          /\ reqs' = [reqs EXCEPT ![cseq[c]] = None]
          /\ cseq' = [cseq EXCEPT ![c] = 0]
          /\ UNCHANGED <<seq, hpc, rpc, rpr, wg>>
      BY <2>6 DEF RequestDelete, Unregister
    <3>2. QED
      BY <1>0, <1>t, <2>0, <3>1 DEF SeqInv, InRequest
  <2>7. CASE RequestReturn(c)
    <3>1. /\ pc' = [pc EXCEPT ![c] = "idle"] /\ cseq' = [cseq EXCEPT ![c] = 0]
          /\ UNCHANGED <<reqs, seq, hpc, rpc, rpr, wg>>
      BY <2>7 DEF RequestReturn
    <3>2. QED
      BY <1>0, <1>t, <2>0, <3>1 DEF SeqInv, InRequest
  <2>8. QED
    BY <1>2, <2>1, <2>2, <2>3, <2>4, <2>5, <2>6, <2>7 DEF CallStep
<1>3. ASSUME WriteLoop
      PROVE  SeqInv'
  <2>1. CASE WriterDeadlineFail
    <3>1. /\ UNCHANGED <<reqs, seq, pc, cseq, hpc, rpc, rpr>>
          /\ \A t \in Threads : t \notin Waiters(batch) => wg'[t] = wg[t]
      BY <2>1 DEF WriterDeadlineFail, DoneAll
    <3>2. \A t \in Threads : pc[t] # "sendWait" => wg'[t] = wg[t]
      BY <3>1 DEF SendInv
    <3>3. QED
      BY <1>0, <3>1, <3>2 DEF SeqInv, InRequest
  <2>2. ASSUME NEW fail \in BOOLEAN, WriterWrite(fail)
        PROVE  SeqInv'
    <3> DEFINE pw == Head(batch)
    <3>1. /\ UNCHANGED <<reqs, seq, pc, cseq, hpc, rpc, rpr>> /\ batch # <<>>
          /\ IF pw.wait THEN Done(pw.from) ELSE wg' = wg
      BY <2>2 DEF WriterWrite
    <3>2. batch \in Seq(PendingWrite) /\ Distinct(batch)
      BY DEF TypeOK, SendInv
    <3>3. pw.wait => pw.from \in Waiters(batch)
      BY <3>1, <3>2, WaitersTail
    <3> HIDE DEF pw
    <3>4. pw.wait => wg' = [wg EXCEPT ![pw.from] = 0] /\ pc[pw.from] = "sendWait"
      BY <1>t, <3>1, <3>3, WaitersThreads, DoneZero DEF SendInv
    <3>5. \A t \in Threads : pc[t] # "sendWait" => wg'[t] = wg[t]
      BY <1>t, <3>1, <3>4
    <3>6. QED
      BY <1>0, <3>1, <3>5 DEF SeqInv, InRequest
  <2>3. CASE WriterSleep \/ WriterTake \/ WriterDeadline \/ WriterBatchDone
             \/ WriterFlush \/ WriterFlushFail
    BY <2>3, SeqUntouched DEF WriterSleep, WriterTake, WriterDeadline,
            WriterBatchDone, WriterFlush, WriterFlushFail
  <2>4. QED
    BY <1>3, <2>1, <2>2, <2>3 DEF WriteLoop
<1>4. ASSUME NEW m \in Inbound, ReadMessage(m)
      PROVE  SeqInv'
  <2>1. m.seq \in Seqs
    BY InboundType DEF Message
  <2>2. /\ rpc # "deliver" /\ rpr' = reqs[m.seq]
        /\ reqs' = [reqs EXCEPT ![m.seq] = None]
        /\ UNCHANGED <<seq, pc, cseq, wg, hpc>>
    BY <1>4 DEF ReadMessage
  <2>3. ASSUME NEW c \in Callers, reqs[cseq[c]] = c, 0 < cseq[c]
        PROVE  reqs'[cseq[c]] = c \/ (rpc' = "deliver" /\ rpr' = c)
    <3>1. cseq[c] \in Seqs /\ c # None
      BY <1>0, <1>t
    <3>2. CASE cseq[c] = m.seq
      BY <1>4, <2>2, <2>3, <3>1, <3>2, <1>n DEF ReadMessage, IsResponse
    <3>3. CASE cseq[c] # m.seq
      BY <1>t, <2>1, <2>2, <2>3, <3>1, <3>3
    <3>4. QED
      BY <3>2, <3>3
  <2>4. QED
    BY <2>2, <2>3 DEF SeqInv, InRequest
<1>5. CASE ReadFail
  BY <1>5, SeqUntouched DEF ReadFail, ReaderExit
<1>6. ASSUME ReadStep
      PROVE  SeqInv'
  <2>1. CASE ReadDeliver
    <3>1. rpr \in Callers /\ rpr \in Threads
      BY <1>0, <2>1 DEF ReadDeliver, ReqInv
    <3>2. wg[rpr] \in {0, 1}
      BY <3>1 DEF SendInv
    <3>3. /\ wg' = [wg EXCEPT ![rpr] = 0]
          /\ UNCHANGED <<reqs, seq, pc, cseq, hpc>>
      BY <1>t, <2>1, <3>1, <3>2, DoneZero DEF ReadDeliver
    <3>4. QED
      BY <1>0, <1>t, <3>1, <3>3 DEF SeqInv, InRequest
  <2>2. CASE HandlerOk \/ HandlerError \/ HandlerReplyRefused
    BY <2>2, SeqUntouched DEF HandlerOk, HandlerError, HandlerReplyRefused, ReaderExit
  <2>3. CASE HandlerReply
    <3>1. /\ rpc # "deliver" /\ UNCHANGED <<reqs, seq, cseq, hpc>>
          /\ pc' = [pc EXCEPT ![Reader] = "sendWait"]
          /\ wg' = [wg EXCEPT ![Reader] = wg[Reader] + 1]
      BY <2>3 DEF HandlerReply
    <3>2. QED
      BY <1>0, <1>t, <3>1, SeqOther
  <2>4. CASE ReplyReturn
    <3>1. /\ rpc # "deliver" /\ UNCHANGED <<reqs, seq, cseq, hpc, wg>>
          /\ pc' = [pc EXCEPT ![Reader] = "idle"]
      BY <2>4 DEF ReplyReturn
    <3>2. QED
      BY <1>0, <1>t, <3>1, SeqOther
  <2>5. QED
    BY <1>6, <2>1, <2>2, <2>3, <2>4 DEF ReadStep
<1>7. CASE Shutdown
  BY <1>7, SeqUntouched DEF Shutdown
<1>8. ASSUME Handle
      PROVE  SeqInv'
  <2>1. CASE Close
    <3>1. /\ hpc = "returned" /\ hpc' = "closed" /\ pc' = pc /\ rpc = "exited"
          /\ \A t \in Threads : wg'[t] = IF t \in Abandoned /\ wg[t] > 0
                                         THEN wg[t] - 1 ELSE wg[t]
      BY <2>1 DEF Close, DoneAll, Stages
    <3>2. ASSUME NEW c \in Callers, pc[c] = "reqWait"
          PROVE  wg'[c] = 0
      <4>1. c \in Threads /\ wg[c] \in {0, 1} /\ cseq[c] \in Seqs
        BY <1>0, <1>t DEF SendInv
      <4>2. wg[c] > 0 => reqs[cseq[c]] = c
        BY <3>1, <3>2 DEF SeqInv
      <4>3. wg[c] > 0 => c \in Abandoned
        BY <4>1, <4>2 DEF Abandoned
      <4>4. QED
        BY <3>1, <4>1, <4>3
    <3>3. QED
      BY <3>1, <3>2 DEF SeqInv
  <2>2. CASE HandleDone \/ HandleDoneWriter \/ HandleWriter \/ HandleWaitReader
             \/ HandleReader \/ HandleReaderWriter
    BY <2>2, SeqUntouched DEF HandleDone, HandleDoneWriter, HandleWriter,
            HandleWaitReader, HandleReader, HandleReaderWriter
  <2>3. QED
    BY <1>8, <2>1, <2>2 DEF Handle
<1>9. CASE UNCHANGED vars
  BY <1>9, SeqUntouched DEF vars
<1>10. QED
  BY <1>1, <1>2, <1>3, <1>4, <1>5, <1>6, <1>7, <1>8, <1>9 DEF Next

\* A goroutine blocked in Send, Reply or Request can always be woken, by the write
\* loop, the read loop or close(err), as long as the sequence numbers do not wrap.
\* (At the wrap an even number becomes 0, which the read loop takes for a message.)
THEOREM WaitersStayReachable == Spec /\ []NoWrap => []WaitersReachable
<1>1. TypeOK /\ Stages /\ SendInv /\ SeqInv => WaitersReachable
  <2> SUFFICES ASSUME TypeOK, Stages, SendInv, SeqInv, NEW t \in Threads, wg[t] > 0
               PROVE  /\ pc[t] = "sendWait" =>
                           t \in Waiters(writerQueue) \cup Waiters(batch)
                      /\ pc[t] = "reqWait" =>
                           reqs[cseq[t]] = t \/ (rpc = "deliver" /\ rpr = t)
    BY DEF WaitersReachable
  <2>1. pc[t] = "sendWait" => t \in Waiters(writerQueue) \cup Waiters(batch)
    BY DEF SendInv
  <2>2. pc[t] = "reqWait" => t \in Callers
    BY DEF SendInv, Threads
  <2>3. wg[t] # 0
    OBVIOUS
  <2>4. pc[t] = "reqWait" => reqs[cseq[t]] = t \/ (rpc = "deliver" /\ rpr = t)
    BY <2>2, <2>3 DEF SeqInv
  <2>5. QED
    BY <2>1, <2>4
<1>2. QED
  BY <1>1, InvInit, TypeCorrect, StagesStep, SendStep, ReqStep, SeqStep, PTL DEF Spec

\* Once close(err) is through, nobody is left blocked in Send, Reply or Request,
\* however the call raced the closing, as long as the sequence numbers do not wrap.
THEOREM NoneStranded == Spec /\ []NoWrap => []NobodyStranded
<1>1. TypeOK /\ Stages /\ SendInv /\ SeqInv => NobodyStranded
  <2> SUFFICES ASSUME TypeOK, Stages, SendInv, SeqInv, hpc = "closed",
                      NEW t \in Threads, pc[t] \in {"sendWait", "reqWait"}
               PROVE  wg[t] = 0
    BY DEF NobodyStranded
  <2>1. writerQueue = <<>> /\ batch = <<>>
    BY DEF Stages
  <2>2. CASE pc[t] = "sendWait"
    <3>1. wg[t] \in {0, 1} /\ ~(wg[t] > 0)
      BY <2>1, <2>2, WaitersEmpty DEF SendInv
    <3>2. QED
      BY <3>1
  <2>3. CASE pc[t] = "reqWait"
    <3>1. t \in Callers
      BY <2>3 DEF SendInv, Threads
    <3>2. QED
      BY <2>3, <3>1 DEF SeqInv
  <2>4. QED
    BY <2>2, <2>3
<1>2. QED
  BY <1>1, InvInit, TypeCorrect, StagesStep, SendStep, ReqStep, SeqStep, PTL DEF Spec

-----------------------------------------------------------------------------
(***************************************************************************)
(* The refinement: a connection implements the outbox.  The messages of    *)
(* sent, buffered, batch and writerQueue, in this order, are numbered 1 to *)
(* nAccepted, until a socket error makes the write loop drop some.         *)
(***************************************************************************)

\* The writes of q follow the n writes accepted first.
Numbered(q, n) == \A i \in DOMAIN q : q[i].id = n + i

\* Nothing is lost, doubled or out of place between the queue and the socket.
OrderInv ==
    /\ Numbered(sent, 0) /\ Numbered(buffered, Len(sent))
    /\ Len(sent) + Len(buffered) <= nAccepted
    /\ ~werr =>
         /\ Numbered(batch, Len(sent) + Len(buffered))
         /\ Numbered(writerQueue, Len(sent) + Len(buffered) + Len(batch))
         /\ Len(sent) + Len(buffered) + Len(batch) + Len(writerQueue) = nAccepted
         /\ wpc = "exited" => writerDone /\ writerQueue = <<>>
         /\ wpc \notin {"write", "flush"} => buffered = <<>>
    /\ werr => wpc \in {"write", "exited"}

\* A write with the next number extends a numbered queue.
LEMMA NumberedAppend ==
    ASSUME NEW q \in Seq(PendingWrite), NEW n \in Nat, NEW pw \in PendingWrite,
           Numbered(q, n), pw.id = n + Len(q) + 1
    PROVE  Numbered(Append(q, pw), n) /\ Len(Append(q, pw)) = Len(q) + 1
BY DEF Numbered

\* The head of a numbered queue has the next number; its tail follows it.
LEMMA NumberedTail ==
    ASSUME NEW q \in Seq(PendingWrite), NEW n \in Nat, q # <<>>, Numbered(q, n)
    PROVE  /\ Head(q) \in PendingWrite /\ Head(q).id = n + 1
           /\ Numbered(Tail(q), n + 1) /\ Len(Tail(q)) = Len(q) - 1
<1>1. Len(q) \in Nat /\ Len(q) > 0 /\ DOMAIN q = 1 .. Len(q)
  OBVIOUS
<1>2. /\ Len(Tail(q)) = Len(q) - 1 /\ Head(q) = q[1] /\ q[1] \in PendingWrite
      /\ DOMAIN Tail(q) = 1 .. Len(q) - 1
      /\ \A i \in 1 .. Len(q) - 1 : Tail(q)[i] = q[i + 1]
  BY <1>1
<1>3. ASSUME NEW i \in 1 .. Len(q) - 1
      PROVE  q[i + 1].id = n + (i + 1)
  <2>1. i + 1 \in DOMAIN q
    BY <1>1
  <2>2. QED
    BY <2>1 DEF Numbered
<1>4. \A i \in DOMAIN Tail(q) : Tail(q)[i].id = n + 1 + i
  BY <1>1, <1>2, <1>3
<1>5. q[1].id = n + 1
  BY <1>1 DEF Numbered
<1>6. QED
  BY <1>2, <1>4, <1>5 DEF Numbered

\* What the bufio.Writer passes on to the socket continues what is there.
LEMMA NumberedSpill ==
    ASSUME NEW b \in Seq(PendingWrite), NEW k \in 0 .. Len(b),
           sent \in Seq(PendingWrite), Spill(b, k),
           Numbered(sent, 0), Numbered(b, Len(sent))
    PROVE  /\ Numbered(sent', 0) /\ Numbered(buffered', Len(sent'))
           /\ Len(sent') = Len(sent) + k /\ Len(buffered') = Len(b) - k
<1>1. PICK n \in Nat : n = Len(sent)
  OBVIOUS
<1>2. PICK m \in Nat : m = Len(b)
  OBVIOUS
<1>3. k \in Nat /\ k <= m
  BY <1>2
<1>4. /\ SubSeq(b, 1, k) \in Seq(PendingWrite) /\ Len(SubSeq(b, 1, k)) = k
      /\ \A i \in 1 .. k : SubSeq(b, 1, k)[i] = b[i]
  BY <1>2, <1>3
<1>5. /\ SubSeq(b, k + 1, m) \in Seq(PendingWrite) /\ Len(SubSeq(b, k + 1, m)) = m - k
      /\ \A i \in 1 .. m - k : SubSeq(b, k + 1, m)[i] = b[k + i]
  BY <1>2, <1>3
<1>6. /\ Len(sent') = n + k /\ Len(buffered') = m - k
      /\ sent' \in Seq(PendingWrite) /\ buffered' \in Seq(PendingWrite)
  BY <1>1, <1>2, <1>3, <1>4, <1>5 DEF Spill
<1>7. /\ DOMAIN sent = 1 .. n /\ DOMAIN b = 1 .. m
      /\ DOMAIN sent' = 1 .. n + k /\ DOMAIN buffered' = 1 .. m - k
  BY <1>1, <1>2, <1>6
<1>8. ASSUME NEW i \in 1 .. n + k
      PROVE  sent'[i].id = 0 + i
  <2>1. CASE i <= n
    <3>1. sent'[i] = sent[i] /\ i \in DOMAIN sent
      BY <1>1, <1>3, <1>4, <1>7, <2>1 DEF Spill
    <3>2. QED
      BY <3>1 DEF Numbered
  <2>2. CASE i > n
    <3>1. i - n \in 1 .. k /\ i - n \in DOMAIN b
      BY <1>3, <1>7, <2>2
    <3>2. sent'[i] = SubSeq(b, 1, k)[i - n]
      BY <1>1, <1>3, <1>4, <2>2 DEF Spill
    <3>3. b[i - n].id = n + (i - n)
      BY <1>1, <3>1 DEF Numbered
    <3>4. QED
      BY <1>4, <3>1, <3>2, <3>3
  <2>3. QED
    BY <2>1, <2>2
<1>9. ASSUME NEW i \in 1 .. m - k
      PROVE  buffered'[i].id = n + k + i
  <2>1. k + i \in DOMAIN b
    BY <1>3, <1>7
  <2>2. b[k + i].id = n + (k + i)
    BY <1>1, <2>1 DEF Numbered
  <2>3. QED
    BY <1>2, <1>3, <1>5, <2>2 DEF Spill
<1>10. Numbered(sent', 0)
  BY <1>7, <1>8 DEF Numbered
<1>11. Numbered(buffered', Len(sent'))
  BY <1>6, <1>7, <1>9 DEF Numbered
<1>12. QED
  BY <1>1, <1>2, <1>6, <1>10, <1>11

\* Accepting a write gives it the next number.
LEMMA OrderAccept ==
    ASSUME TypeOK, OrderInv, NEW t \in Threads, NEW s \in Seqs, NEW w \in BOOLEAN,
           PreparePendingWrite(t, s, w),
           UNCHANGED <<batch, werr, buffered, sent, writerDone>>
    PROVE  OrderInv'
<1> DEFINE pw == [from |-> t, seq |-> s, wait |-> w, id |-> nAccepted + 1]
<1>1. PICK n \in Nat : n = Len(sent) + Len(buffered) + Len(batch)
  BY DEF TypeOK
<1>2. /\ pw \in PendingWrite /\ pw.id = nAccepted + 1 /\ nAccepted \in Nat
      /\ writerQueue \in Seq(PendingWrite) /\ Len(writerQueue) \in Nat
      /\ Len(sent) + Len(buffered) \in Nat
  <2>1. nAccepted \in Nat /\ nAccepted + 1 \in Nat
    BY DEF TypeOK
  <2>2. pw \in PendingWrite /\ pw.id = nAccepted + 1
    BY <2>1 DEF PendingWrite
  <2>3. /\ writerQueue \in Seq(PendingWrite) /\ Len(writerQueue) \in Nat
        /\ Len(sent) + Len(buffered) \in Nat
    BY DEF TypeOK
  <2>4. QED
    BY <2>1, <2>2, <2>3
<1>3. writerQueue' = Append(writerQueue, pw) /\ nAccepted' = nAccepted + 1
  BY DEF PreparePendingWrite
<1>4. ~werr => /\ Numbered(writerQueue', n)
               /\ Len(writerQueue') = Len(writerQueue) + 1
  <2> HIDE DEF pw
  <2>1. ~werr => pw.id = n + Len(writerQueue) + 1 /\ Numbered(writerQueue, n)
    BY <1>1, <1>2 DEF OrderInv
  <2>2. QED
    BY <1>2, <1>3, <2>1, NumberedAppend
<1>5. /\ ~writerDone /\ wpc' = (IF wpc = "cond" THEN "lock" ELSE wpc)
  BY DEF PreparePendingWrite, Signal
<1>6. ~werr => /\ Len(sent') + Len(buffered') + Len(batch') + Len(writerQueue')
                    = nAccepted'
               /\ Numbered(writerQueue', Len(sent') + Len(buffered') + Len(batch'))
  BY <1>1, <1>2, <1>3, <1>4, SMTT(30) DEF OrderInv
<1>7. Len(sent') + Len(buffered') <= nAccepted'
  BY <1>2, <1>3 DEF OrderInv
<1>8. QED
  BY <1>5, <1>6, <1>7 DEF OrderInv, Numbered

\* A step that moves no write keeps the order, as long as the write loop does not
\* leave the loop and does not start to sleep over a buffer.
LEMMA OrderUntouched ==
    ASSUME OrderInv, UNCHANGED <<writerQueue, batch, buffered, sent, werr, nAccepted>>,
           writerDone => writerDone',
           \/ wpc' = wpc
           \/ wpc = "cond" /\ wpc' = "lock"
           \/ wpc = "lock" /\ wpc' = "cond"
           \/ wpc = "deadline" /\ wpc' = "write"
    PROVE  OrderInv'
BY DEF OrderInv, Numbered

\* Every step of every goroutine keeps the order.
LEMMA OrderStep == TypeOK /\ Stages /\ OrderInv /\ [Next]_vars => OrderInv'
<1> SUFFICES ASSUME TypeOK, Stages, OrderInv, [Next]_vars
             PROVE  OrderInv'
  OBVIOUS
<1> USE DEF connVars, handleVars, writeVars, readVars, callVars, sockVars, countVars
<1>0. /\ Callers \subseteq Threads /\ Reader \in Threads /\ 0 \in Seqs
      /\ TRUE \in BOOLEAN /\ FALSE \in BOOLEAN
  BY ConnAssumption DEF Threads, Seqs
<1>1. ASSUME NEW c \in Callers, CallStart(c)
      PROVE  OrderInv'
  <2>1. CASE Send(c)
    BY <1>0, <2>1, OrderAccept DEF Send
  <2>2. CASE SendNoWait(c)
    BY <1>0, <2>2, OrderAccept DEF SendNoWait
  <2>3. CASE SendRefused(c) \/ RequestNext(c)
    BY <2>3, OrderUntouched DEF SendRefused, RequestNext
  <2>4. QED
    BY <1>1, <2>1, <2>2, <2>3 DEF CallStart
<1>2. ASSUME NEW c \in Callers, CallStep(c)
      PROVE  OrderInv'
  <2>1. CASE RequestSend(c)
    <3>1. cseq[c] \in Seqs
      BY <1>0 DEF TypeOK
    <3>2. QED
      BY <1>0, <2>1, <3>1, OrderAccept DEF RequestSend
  <2>2. CASE SendReturn(c) \/ RequestRegister(c) \/ RequestRefused(c) \/ RequestFail(c)
             \/ RequestDelete(c) \/ RequestReturn(c)
    BY <2>2, OrderUntouched DEF SendReturn, RequestRegister, RequestRefused,
            RequestFail, RequestDelete, RequestReturn
  <2>3. QED
    BY <1>2, <2>1, <2>2 DEF CallStep
<1>3. ASSUME WriteLoop
      PROVE  OrderInv'
  <2>0. PICK ns \in Nat, nb \in Nat, nt \in Nat, nq \in Nat :
          /\ ns = Len(sent) /\ nb = Len(buffered)
          /\ nt = Len(batch) /\ nq = Len(writerQueue)
    BY DEF TypeOK
  <2>n. nAccepted \in Nat
    BY DEF TypeOK
  <2>1. CASE WriterSleep \/ WriterDeadline
    BY <2>1, OrderUntouched DEF WriterSleep, WriterDeadline
  <2>2. CASE WriterTake
    <3>1. /\ wpc = "lock" /\ batch' = writerQueue /\ writerQueue' = <<>>
          /\ wpc' = "exited" => writerDone /\ writerQueue = <<>>
          /\ UNCHANGED <<writerDone, werr, buffered, sent, nAccepted>>
      BY <2>2 DEF WriterTake, Exhausted
    <3>2. ~werr /\ batch = <<>> /\ buffered = <<>>
      BY <3>1 DEF OrderInv, Stages
    <3>3. nt = 0 /\ Len(writerQueue') = 0
      BY <2>0, <3>1, <3>2
    <3>4. /\ Numbered(writerQueue', ns + nb + nq)
          /\ Numbered(batch', ns + nb)
      BY <2>0, <3>1, <3>2, <3>3 DEF OrderInv, Numbered
    <3>5. QED
      BY <2>0, <2>n, <3>1, <3>2, <3>3, <3>4 DEF OrderInv, Numbered
  <2>3. CASE WriterDeadlineFail
    BY <2>3 DEF WriterDeadlineFail, OrderInv, Numbered
  <2>4. ASSUME NEW fail \in BOOLEAN, WriterWrite(fail)
        PROVE  OrderInv'
    <3> DEFINE pw == Head(batch)
               b  == IF WriteErr(fail) THEN buffered ELSE Append(buffered, pw)
    <3>1. /\ wpc = "write" /\ wpc' = "write" /\ batch # <<>> /\ batch' = Tail(batch)
          /\ werr' = (werr \/ fail)
          /\ UNCHANGED <<writerQueue, writerDone, nAccepted>>
      BY <2>4 DEF WriterWrite, WriteErr
    <3>2. PICK k \in 0 .. Len(b) : (werr => k = 0) /\ Spill(b, k)
      BY <2>4 DEF WriterWrite
    <3>3. ~werr => /\ pw \in PendingWrite /\ pw.id = ns + nb + 1
                   /\ Numbered(Tail(batch), ns + nb + 1) /\ Len(Tail(batch)) = nt - 1
                   /\ nt > 0
      <4>1. ns + nb \in Nat /\ batch \in Seq(PendingWrite)
        BY DEF TypeOK
      <4>2. ~werr => Numbered(batch, ns + nb)
        BY <2>0 DEF OrderInv
      <4>3. nt > 0
        BY <2>0, <3>1, <4>1
      <4>4. QED
        BY <2>0, <3>1, <4>1, <4>2, <4>3, NumberedTail
    <3>4. CASE werr'
      <4>1. b = buffered
        BY <3>1, <3>4 DEF WriteErr
      <4>2. /\ Numbered(sent', 0) /\ Numbered(buffered', Len(sent'))
            /\ Len(sent') = ns + k /\ Len(buffered') = nb - k
        BY <2>0, <3>2, <4>1, NumberedSpill DEF OrderInv, TypeOK
      <4>3. Len(sent') + Len(buffered') <= nAccepted'
        BY <2>0, <2>n, <3>1, <3>2, <4>1, <4>2 DEF OrderInv
      <4>4. QED
        BY <3>1, <3>4, <4>2, <4>3 DEF OrderInv
    <3>5. CASE ~werr'
      <4>1. ~werr /\ b = Append(buffered, pw)
        BY <3>1, <3>5 DEF WriteErr
      <4> HIDE DEF pw, b
      <4>2. b \in Seq(PendingWrite) /\ Numbered(b, ns) /\ Len(b) = nb + 1
        <5>1. /\ buffered \in Seq(PendingWrite) /\ pw \in PendingWrite
              /\ Numbered(buffered, ns) /\ pw.id = ns + Len(buffered) + 1
          BY <2>0, <3>3, <4>1 DEF OrderInv, TypeOK
        <5>2. Append(buffered, pw) \in Seq(PendingWrite)
          BY <5>1
        <5>3. QED
          BY <2>0, <4>1, <5>1, <5>2, NumberedAppend
      <4>3. /\ Numbered(sent', 0) /\ Numbered(buffered', Len(sent'))
            /\ Len(sent') = ns + k /\ Len(buffered') = nb + 1 - k
        BY <2>0, <3>2, <4>2, NumberedSpill DEF OrderInv, TypeOK
      <4>4. /\ ns + nb + nt + nq = nAccepted
            /\ Numbered(writerQueue, ns + nb + nt)
        BY <2>0, <4>1 DEF OrderInv
      <4>5. k \in Nat /\ k <= nb + 1
        BY <3>2, <4>2
      <4>6. /\ Len(sent') + Len(buffered') = ns + nb + 1
            /\ Len(sent') + Len(buffered') + Len(batch') = ns + nb + nt
        <5>1. Len(sent') + Len(buffered') = ns + nb + 1
          BY <4>3, <4>5
        <5>2. Len(batch') = nt - 1
          BY <3>1, <3>3, <4>1
        <5>3. QED
          BY <5>1, <5>2
      <4>7. Len(sent') + Len(buffered') <= nAccepted'
        BY <2>0, <2>n, <3>1, <3>3, <4>1, <4>4, <4>6, SMTT(30)
      <4>8. Numbered(batch', ns + nb + 1) /\ Numbered(writerQueue', ns + nb + nt)
        BY <3>1, <3>3, <4>1, <4>4
      <4>9. Len(sent') + Len(buffered') + Len(batch') + Len(writerQueue') = nAccepted'
        BY <2>0, <3>1, <4>4, <4>6
      <4>10. QED
        BY <3>1, <3>5, <4>3, <4>6, <4>7, <4>8, <4>9 DEF OrderInv
    <3>6. QED
      BY <3>4, <3>5
  <2>5. CASE WriterBatchDone
    BY <2>5 DEF WriterBatchDone, OrderInv, Numbered
  <2>6. CASE WriterFlush
    <3>1. /\ wpc = "flush" /\ wpc' = "lock" /\ Spill(buffered, Len(buffered))
          /\ UNCHANGED <<batch, werr, writerQueue, writerDone, nAccepted>>
      BY <2>6 DEF WriterFlush
    <3>2. /\ ~werr /\ ns + nb + nt + nq = nAccepted
          /\ Numbered(writerQueue, ns + nb + nt) /\ Numbered(batch, ns + nb)
      BY <2>0, <3>1 DEF OrderInv
    <3>3. /\ Numbered(sent', 0) /\ Numbered(buffered', Len(sent'))
          /\ Len(sent') = ns + nb /\ Len(buffered') = 0
      BY <2>0, <3>1, NumberedSpill DEF OrderInv, TypeOK
    <3>4. buffered' = <<>>
      BY <3>1 DEF Spill, TypeOK
    <3>5. QED
      BY <2>0, <2>n, <3>1, <3>2, <3>3, <3>4 DEF OrderInv
  <2>7. CASE WriterFlushFail
    <3>1. /\ wpc' = "exited" /\ werr' = TRUE
          /\ UNCHANGED <<batch, writerQueue, writerDone, nAccepted>>
      BY <2>7 DEF WriterFlushFail
    <3>2. PICK k \in 0 .. Len(buffered) - 1 : Spill(buffered, k)
      BY <2>7 DEF WriterFlushFail
    <3>3. k \in 0 .. Len(buffered)
      BY <2>0, <3>2
    <3>4. /\ Numbered(sent', 0) /\ Numbered(buffered', Len(sent'))
          /\ Len(sent') = ns + k /\ Len(buffered') = nb - k
      BY <2>0, <3>2, <3>3, NumberedSpill DEF OrderInv, TypeOK
    <3>5. Len(sent') + Len(buffered') <= nAccepted'
      BY <2>0, <2>n, <3>1, <3>3, <3>4 DEF OrderInv
    <3>6. QED
      BY <3>1, <3>4, <3>5 DEF OrderInv
  <2>8. QED
    BY <1>3, <2>1, <2>2, <2>3, <2>4, <2>5, <2>6, <2>7 DEF WriteLoop
<1>4. ASSUME NEW m \in Inbound, ReadMessage(m)
      PROVE  OrderInv'
  BY <1>4, OrderUntouched DEF ReadMessage
<1>5. CASE ReadFail
  BY <1>5, OrderUntouched DEF ReadFail
<1>6. CASE ReadStep
  <2>1. CASE HandlerReply
    <3>1. rmsg.seq \in Seqs
      BY DEF TypeOK, Message
    <3>2. QED
      BY <1>0, <2>1, <3>1, OrderAccept DEF HandlerReply
  <2>2. CASE ReadDeliver \/ HandlerOk \/ HandlerError \/ HandlerReplyRefused
             \/ ReplyReturn
    BY <2>2, OrderUntouched DEF ReadDeliver, HandlerOk, HandlerError,
            HandlerReplyRefused, ReplyReturn
  <2>3. QED
    BY <1>6, <2>1, <2>2 DEF ReadStep
<1>7. CASE Shutdown
  BY <1>7, OrderUntouched DEF Shutdown
<1>8. CASE Handle
  <2>1. CASE Close
    <3>1. /\ wpc = "exited" /\ writerQueue' = <<>>
          /\ UNCHANGED <<batch, buffered, sent, werr, nAccepted, writerDone, wpc>>
      BY <2>1 DEF Close, Stages
    <3>2. QED
      BY <3>1 DEF OrderInv, Numbered
  <2>2. CASE HandleDone \/ HandleDoneWriter \/ HandleWriter \/ HandleWaitReader
             \/ HandleReader \/ HandleReaderWriter
    BY <2>2, OrderUntouched DEF HandleDone, HandleDoneWriter, HandleWriter,
            HandleWaitReader, HandleReader, HandleReaderWriter, CloseWriter, Signal
  <2>3. QED
    BY <1>8, <2>1, <2>2 DEF Handle
<1>9. CASE UNCHANGED vars
  BY <1>9, OrderUntouched DEF vars
<1>10. QED
  BY <1>1, <1>2, <1>3, <1>4, <1>5, <1>6, <1>7, <1>8, <1>9 DEF Next

\* A numbered socket is, to the outbox, everything up to its last message.
LEMMA FlushedUpTo ==
    ASSUME NEW q \in Seq(PendingWrite), Numbered(q, 0)
    PROVE  /\ [i \in DOMAIN q |-> q[i].id] = Promise!UpTo(Len(q))
           /\ Len([i \in DOMAIN q |-> q[i].id]) = Len(q)
<1>1. Len(q) \in Nat /\ DOMAIN q = 1 .. Len(q)
  OBVIOUS
<1>2. \A i \in DOMAIN q : q[i].id = i
  BY <1>1 DEF Numbered
<1>3. [i \in DOMAIN q |-> q[i].id] = [i \in 1 .. Len(q) |-> i]
  BY <1>1, <1>2
<1>4. Len([i \in 1 .. Len(q) |-> i]) = Len(q)
  BY <1>1
<1>5. QED
  BY <1>3, <1>4 DEF Promise!UpTo

\* Every step of the connection is a step of the outbox or leaves it alone.
LEMMA OutboxStep ==
    TypeOK /\ Stages /\ OrderInv /\ TypeOK' /\ OrderInv' /\ [Next]_vars
      => [Promise!Next]_(Promise!vars)
<1> DEFINE flushed == [i \in DOMAIN sent |-> sent[i].id]
           phase   == IF werr THEN "broken" ELSE IF wpc = "exited" THEN "drained"
                      ELSE "running"
<1> SUFFICES ASSUME TypeOK, Stages, OrderInv, TypeOK', OrderInv', [Next]_vars
             PROVE  Promise!Next \/ UNCHANGED <<nAccepted, flushed, ~writerDone, phase>>
  BY DEF Promise!vars
<1> USE DEF connVars, handleVars, writeVars, readVars, callVars, sockVars, countVars
<1>0. /\ flushed = Promise!UpTo(Len(sent)) /\ Len(flushed) = Len(sent)
      /\ flushed' = Promise!UpTo(Len(sent')) /\ Len(sent) \in Nat /\ Len(sent') \in Nat
  <2>1. sent \in Seq(PendingWrite) /\ Numbered(sent, 0)
    BY DEF TypeOK, OrderInv
  <2>2. sent' \in Seq(PendingWrite) /\ Numbered(sent', 0)
    BY DEF TypeOK, OrderInv
  <2>3. flushed = Promise!UpTo(Len(sent)) /\ Len(flushed) = Len(sent)
    BY <2>1, FlushedUpTo
  <2>4. flushed' = Promise!UpTo(Len(sent'))
    BY <2>2, FlushedUpTo
  <2>5. Len(sent) \in Nat /\ Len(sent') \in Nat
    BY <2>1, <2>2
  <2>6. QED
    BY <2>3, <2>4, <2>5
<1>a. nAccepted \in Nat /\ Len(sent') <= nAccepted'
  BY DEF TypeOK, OrderInv
<1>acc. ASSUME NEW t, NEW s, NEW w, PreparePendingWrite(t, s, w),
               UNCHANGED <<werr, sent, writerDone>>
        PROVE  Promise!Accept
  BY <1>acc DEF Promise!Accept, PreparePendingWrite, Signal
<1>same. ASSUME UNCHANGED <<werr, sent, writerDone, nAccepted>>,
                wpc' = "exited" <=> wpc = "exited"
         PROVE  UNCHANGED <<nAccepted, flushed, ~writerDone, phase>>
  BY <1>same
<1>1. ASSUME NEW c \in Callers, CallStart(c)
      PROVE  Promise!Next \/ UNCHANGED <<nAccepted, flushed, ~writerDone, phase>>
  <2>1. CASE Send(c) \/ SendNoWait(c)
    BY <2>1, <1>acc DEF Send, SendNoWait, Promise!Next
  <2>2. CASE SendRefused(c) \/ RequestNext(c)
    BY <2>2, <1>same DEF SendRefused, RequestNext
  <2>3. QED
    BY <1>1, <2>1, <2>2 DEF CallStart
<1>2. ASSUME NEW c \in Callers, CallStep(c)
      PROVE  Promise!Next \/ UNCHANGED <<nAccepted, flushed, ~writerDone, phase>>
  <2>1. CASE RequestSend(c)
    BY <2>1, <1>acc DEF RequestSend, Promise!Next
  <2>2. CASE SendReturn(c) \/ RequestRegister(c) \/ RequestRefused(c) \/ RequestFail(c)
             \/ RequestDelete(c) \/ RequestReturn(c)
    BY <2>2, <1>same DEF SendReturn, RequestRegister, RequestRefused, RequestFail,
            RequestDelete, RequestReturn
  <2>3. QED
    BY <1>2, <2>1, <2>2 DEF CallStep
<1>3. ASSUME WriteLoop
      PROVE  Promise!Next \/ UNCHANGED <<nAccepted, flushed, ~writerDone, phase>>
  <2>1. CASE WriterSleep \/ WriterDeadline
    BY <2>1, <1>same DEF WriterSleep, WriterDeadline
  <2>2. CASE WriterTake
    <3>1. /\ wpc = "lock" /\ batch = <<>> /\ UNCHANGED <<werr, sent, writerDone, nAccepted>>
          /\ wpc' = "exited" => writerDone /\ writerQueue = <<>>
      BY <2>2 DEF WriterTake, Exhausted, Stages
    <3>2. CASE wpc' = "exited"
      <4>1. ~werr /\ buffered = <<>> /\ Len(sent) + 0 + 0 + 0 = nAccepted
        BY <3>1, <3>2 DEF OrderInv
      <4>2. Len(flushed) = nAccepted /\ phase = "running" /\ phase' = "drained"
        BY <1>0, <3>1, <3>2, <4>1
      <4>3. Promise!Drain
        BY <3>1, <3>2, <4>1, <4>2 DEF Promise!Drain
      <4>4. QED
        BY <4>3 DEF Promise!Next
    <3>3. CASE wpc' # "exited"
      BY <3>1, <3>3, <1>same
    <3>4. QED
      BY <3>2, <3>3
  <2>b. ASSUME ~werr, wpc # "exited", werr', UNCHANGED <<writerDone, nAccepted>>,
               Len(sent) <= Len(sent')
        PROVE  Promise!Next
    <3>1. phase = "running" /\ phase' = "broken"
      BY <2>b
    <3>2. Len(sent') \in Len(flushed) .. nAccepted
      BY <1>0, <1>a, <2>b
    <3>3. Promise!Break
      BY <1>0, <2>b, <3>1, <3>2 DEF Promise!Break
    <3>4. QED
      BY <3>3 DEF Promise!Next
  <2>h. ASSUME ~werr, wpc # "exited", wpc' # "exited", ~werr',
               UNCHANGED <<writerDone, nAccepted>>, Len(sent) <= Len(sent')
        PROVE  Promise!Next
    <3>1. phase = "running" /\ phase' = "running"
      BY <2>h
    <3>2. Len(sent') \in Len(flushed) .. nAccepted
      BY <1>0, <1>a, <2>h
    <3>3. Promise!HandOver
      BY <1>0, <2>h, <3>1, <3>2 DEF Promise!HandOver
    <3>4. QED
      BY <3>3 DEF Promise!Next
  <2>s. ASSUME NEW b \in Seq(PendingWrite), NEW k \in 0 .. Len(b), Spill(b, k)
        PROVE  Len(sent) <= Len(sent')
    BY <2>s DEF Spill, TypeOK
  <2>3. CASE WriterDeadlineFail
    <3>1. /\ wpc = "deadline" /\ werr' /\ UNCHANGED <<sent, writerDone, nAccepted>>
      BY <2>3 DEF WriterDeadlineFail
    <3>2. ~werr /\ Len(sent) <= Len(sent')
      BY <1>0, <3>1 DEF OrderInv
    <3>3. QED
      BY <2>b, <3>1, <3>2
  <2>4. ASSUME NEW fail \in BOOLEAN, WriterWrite(fail)
        PROVE  Promise!Next \/ UNCHANGED <<nAccepted, flushed, ~writerDone, phase>>
    <3> DEFINE b == IF WriteErr(fail) THEN buffered ELSE Append(buffered, Head(batch))
    <3>1. /\ wpc = "write" /\ wpc' = "write" /\ batch # <<>>
          /\ werr => werr'
          /\ UNCHANGED <<writerDone, nAccepted>>
      BY <2>4 DEF WriterWrite, WriteErr
    <3>2. PICK k \in 0 .. Len(b) : (werr => k = 0) /\ Spill(b, k)
      BY <2>4 DEF WriterWrite
    <3>3. CASE werr
      <4>1. sent' = sent /\ werr'
        <5>1. k = 0 /\ b = buffered
          BY <3>2, <3>3 DEF WriteErr
        <5>2. QED
          BY <3>1, <3>2, <3>3, <5>1 DEF Spill, TypeOK
      <4>2. QED
        BY <3>1, <3>3, <4>1
    <3>4. CASE ~werr
      <4>1. b \in Seq(PendingWrite)
        BY <3>1 DEF TypeOK
      <4>2. Len(sent) <= Len(sent')
        BY <2>s, <3>2, <4>1
      <4>3. QED
        BY <2>b, <2>h, <3>1, <3>4, <4>2
    <3>5. QED
      BY <3>3, <3>4
  <2>5. CASE WriterBatchDone
    <3>1. /\ wpc = "write" /\ (wpc' = "exited" => werr)
          /\ UNCHANGED <<werr, sent, writerDone, nAccepted>>
      BY <2>5 DEF WriterBatchDone
    <3>2. QED
      BY <3>1
  <2>6. CASE WriterFlush
    <3>1. /\ wpc = "flush" /\ wpc' = "lock" /\ Spill(buffered, Len(buffered))
          /\ UNCHANGED <<werr, writerDone, nAccepted>>
      BY <2>6 DEF WriterFlush
    <3>2. ~werr /\ buffered \in Seq(PendingWrite) /\ Len(buffered) \in 0 .. Len(buffered)
      BY <3>1 DEF OrderInv, TypeOK
    <3>3. QED
      BY <2>h, <2>s, <3>1, <3>2
  <2>7. CASE WriterFlushFail
    <3>1. /\ wpc = "flush" /\ werr' /\ UNCHANGED <<writerDone, nAccepted>>
      BY <2>7 DEF WriterFlushFail
    <3>2. PICK k \in 0 .. Len(buffered) - 1 : Spill(buffered, k)
      BY <2>7 DEF WriterFlushFail
    <3>3. ~werr /\ buffered \in Seq(PendingWrite) /\ k \in 0 .. Len(buffered)
      BY <3>1, <3>2 DEF OrderInv, TypeOK
    <3>4. QED
      BY <2>b, <2>s, <3>1, <3>2, <3>3
  <2>8. QED
    BY <1>3, <2>1, <2>2, <2>3, <2>4, <2>5, <2>6, <2>7 DEF WriteLoop
<1>4. ASSUME NEW m \in Inbound, ReadMessage(m)
      PROVE  Promise!Next \/ UNCHANGED <<nAccepted, flushed, ~writerDone, phase>>
  BY <1>4, <1>same DEF ReadMessage
<1>5. CASE ReadFail
  BY <1>5, <1>same DEF ReadFail
<1>6. CASE ReadStep
  <2>1. CASE HandlerReply
    BY <2>1, <1>acc DEF HandlerReply, Promise!Next
  <2>2. CASE ReadDeliver \/ HandlerOk \/ HandlerError \/ HandlerReplyRefused
             \/ ReplyReturn
    BY <2>2, <1>same DEF ReadDeliver, HandlerOk, HandlerError, HandlerReplyRefused,
            ReplyReturn
  <2>3. QED
    BY <1>6, <2>1, <2>2 DEF ReadStep
<1>7. CASE Shutdown
  BY <1>7, <1>same DEF Shutdown
<1>8. CASE Handle
  <2>1. CASE HandleDone \/ HandleWriter \/ HandleReader
    <3>1. /\ writerDone' = TRUE /\ (wpc' = "exited" <=> wpc = "exited")
          /\ UNCHANGED <<werr, sent, nAccepted>>
      BY <2>1 DEF HandleDone, HandleWriter, HandleReader, CloseWriter, Signal
    <3>2. Promise!Stop
      BY <3>1 DEF Promise!Stop
    <3>3. QED
      BY <3>2 DEF Promise!Next
  <2>2. CASE HandleDoneWriter \/ HandleWaitReader \/ HandleReaderWriter \/ Close
    BY <2>2, <1>same DEF HandleDoneWriter, HandleWaitReader, HandleReaderWriter, Close
  <2>3. QED
    BY <1>8, <2>1, <2>2 DEF Handle
<1>9. CASE UNCHANGED vars
  BY <1>9, <1>same DEF vars
<1>10. QED
  BY <1>1, <1>2, <1>3, <1>4, <1>5, <1>6, <1>7, <1>8, <1>9 DEF Next

\* The connection implements the outbox: whatever Send, SendNoWait, Request and
\* Reply hand to it reaches the socket in the order of acceptance, at most once and
\* without gaps; and the write loop ends either broken by a socket error or with
\* every accepted message handed over.
THEOREM OutboxImplemented == Spec => ImplementsOutbox
<1>1. Init => Promise!Init
  BY DEF Init, Promise!Init
<1>2. Init => OrderInv
  BY DEF Init, OrderInv, Numbered
<1>3. Init => Stages
  BY DEF Init, Stages
<1>4. QED
  BY <1>1, <1>2, <1>3, TypeCorrect, StagesStep, OrderStep, OutboxStep, PTL
     DEF Spec, ImplementsOutbox, Promise!Spec

-----------------------------------------------------------------------------
(***************************************************************************)
(* A request is woken with its own answer.  A response is matched by its   *)
(* number alone, so the argument follows a request's number from next()    *)
(* through the queue, the buffer and the socket to the peer and back.      *)
(***************************************************************************)

\* The numbers next() can give: the least set with SeqOffset that is closed under
\* adding SeqDelta, up to the wrap.
ClosedSeqs(S) ==
    /\ SeqOffset \in S
    /\ \A s \in S : s + SeqDelta < SeqModulus => s + SeqDelta \in S

OurSeqs == {s \in Seqs : \A S \in SUBSET Seqs : ClosedSeqs(S) => s \in S}

\* The peer numbers its own requests differently (SeqOffset 1 and SeqDelta 2 at a
\* client, 2 and 2 at a server).
NumbersApart == OurSeqs \cap PeerSeqs = {}

InSeq(pw, q) == \E i \in DOMAIN q : q[i] = pw

\* The writes on their way to the peer, or already with it.
Carried == {pw \in PendingWrite : \/ InSeq(pw, writerQueue) \/ InSeq(pw, batch)
                                  \/ InSeq(pw, buffered) \/ InSeq(pw, sent)}

\* A request that was carried off has a number that next() has given, and whoever
\* holds that number now is waiting for the answer to this very message.
Traced(pw) ==
    pw.from \in Callers /\ pw.seq # 0 =>
        /\ pw.seq <= seq
        /\ \A c \in Callers : InRequest(c) /\ cseq[c] = pw.seq =>
              pc[c] = "reqWait" /\ cid[c] = pw.id

TraceInv ==
    hpc # "closed" =>
        /\ \A pw \in Carried : Traced(pw)
        /\ seq # 0 => seq \in OurSeqs
        /\ \A c \in Callers : InRequest(c) => cseq[c] \in OurSeqs

\* Whatever ended the read loop is an error, and Handle returns it.
ErrInv ==
    /\ rpc = "exited" => rerr
    /\ hpc \in {"readerWriter", "returned", "closed"} => herr

\* The read loop delivers to a caller that waits, and the answer to its message; a
\* request is not completed before it is sent, unless the writer is closed.
WakeInv ==
    /\ rpc = "deliver" => pc[rpr] = "reqWait" /\ rmsg.id = cid[rpr]
    /\ \A c \in Callers : pc[c] = "reqReg" /\ ~writerDone => wg[c] = 1
    /\ RequestAnswered

\* OurSeqs contains the first number and, with a number, the next one.
LEMMA OurSeqsClosed == ClosedSeqs(OurSeqs)
<1>1. SeqOffset \in OurSeqs
  BY ConnAssumption DEF OurSeqs, ClosedSeqs
<1>2. ASSUME NEW s \in OurSeqs, s + SeqDelta < SeqModulus
      PROVE  s + SeqDelta \in OurSeqs
  <2>1. s + SeqDelta \in Seqs
    BY <1>2, ConnAssumption DEF OurSeqs, Seqs
  <2>2. ASSUME NEW S \in SUBSET Seqs, ClosedSeqs(S)
        PROVE  s + SeqDelta \in S
    BY <1>2, <2>2 DEF OurSeqs, ClosedSeqs
  <2>3. QED
    BY <2>1, <2>2 DEF OurSeqs
<1>3. QED
  BY <1>1, <1>2 DEF ClosedSeqs

\* next() gives one of OurSeqs, as long as it does not wrap.
LEMMA NextSeqOurs ==
    ASSUME TypeOK, NoWrap, seq # 0 => seq \in OurSeqs
    PROVE  NextSeq \in OurSeqs
<1>1. seq \in Nat /\ SeqDelta \in Nat /\ SeqModulus \in Nat /\ SeqModulus > 1
  BY ConnAssumption DEF TypeOK, Seqs
<1>2. (seq + SeqDelta) % SeqModulus = seq + SeqDelta
  BY <1>1 DEF NoWrap
<1>3. CASE seq = 0
  BY <1>3, OurSeqsClosed DEF NextSeq, ClosedSeqs
<1>4. CASE seq # 0
  <2>1. seq + SeqDelta \in OurSeqs
    BY <1>4, OurSeqsClosed DEF ClosedSeqs, NoWrap
  <2>2. QED
    BY <1>2, <1>4, <2>1 DEF NextSeq
<1>5. QED
  BY <1>3, <1>4

\* preparePendingWrite carries off one more write.
LEMMA CarriedPrepared ==
    ASSUME TypeOK, NEW t \in Threads, NEW s \in Seqs, NEW w \in BOOLEAN,
           PreparePendingWrite(t, s, w), UNCHANGED <<batch, buffered, sent>>,
           NEW pw \in Carried'
    PROVE  pw \in Carried \/ (pw.from = t /\ pw.seq = s /\ pw.id = nAccepted + 1)
<1> DEFINE new == [from |-> t, seq |-> s, wait |-> w, id |-> nAccepted + 1]
<1>1. writerQueue' = Append(writerQueue, new) /\ writerQueue \in Seq(PendingWrite)
  BY DEF PreparePendingWrite, TypeOK
<1>2. new.from = t /\ new.seq = s /\ new.id = nAccepted + 1
  OBVIOUS
<1> HIDE DEF new
<1>3. pw \in PendingWrite
  BY DEF Carried
<1>4. CASE InSeq(pw, writerQueue')
  <2>1. PICK i \in DOMAIN writerQueue' : writerQueue'[i] = pw
    BY <1>4 DEF InSeq
  <2>2. \/ i \in DOMAIN writerQueue /\ writerQueue[i] = pw
        \/ pw = new
    BY <1>1, <2>1
  <2>3. QED
    BY <1>2, <1>3, <2>2 DEF Carried, InSeq
<1>5. CASE ~InSeq(pw, writerQueue')
  <2>1. InSeq(pw, batch) \/ InSeq(pw, buffered) \/ InSeq(pw, sent)
    BY <1>5 DEF Carried, InSeq
  <2>2. QED
    BY <1>3, <2>1 DEF Carried
<1>6. QED
  BY <1>4, <1>5

\* The bufio.Writer passes on only what it holds.
LEMMA CarriedSpill ==
    ASSUME NEW b \in Seq(PendingWrite), NEW k \in 0 .. Len(b),
           sent \in Seq(PendingWrite), Spill(b, k), NEW pw
    PROVE  /\ InSeq(pw, sent') => InSeq(pw, sent) \/ InSeq(pw, b)
           /\ InSeq(pw, buffered') => InSeq(pw, b)
<1>1. ASSUME NEW i \in DOMAIN sent'
      PROVE  \/ i \in DOMAIN sent /\ sent'[i] = sent[i]
             \/ i - Len(sent) \in DOMAIN b /\ sent'[i] = b[i - Len(sent)]
  BY DEF Spill
<1>2. ASSUME NEW i \in DOMAIN buffered'
      PROVE  k + i \in DOMAIN b /\ buffered'[i] = b[k + i]
  BY DEF Spill
<1>3. QED
  BY <1>1, <1>2 DEF InSeq

\* The write loop carries off nothing that was not queued.
LEMMA CarriedWritten == TypeOK /\ WriteLoop => Carried' \subseteq Carried
<1> SUFFICES ASSUME TypeOK, WriteLoop, NEW pw \in Carried'
             PROVE  pw \in Carried
  OBVIOUS
<1> USE DEF connVars, handleVars, writeVars, readVars, callVars, sockVars, countVars
<1>0. /\ pw \in PendingWrite /\ ~InSeq(pw, <<>>)
      /\ \/ InSeq(pw, writerQueue') \/ InSeq(pw, batch')
         \/ InSeq(pw, buffered') \/ InSeq(pw, sent')
  BY DEF Carried, InSeq
<1>1. CASE WriterSleep \/ WriterDeadline \/ WriterBatchDone
  BY <1>0, <1>1 DEF WriterSleep, WriterDeadline, WriterBatchDone, Carried, InSeq
<1>2. CASE WriterTake
  <2>1. batch' = writerQueue /\ writerQueue' = <<>> /\ UNCHANGED <<buffered, sent>>
    BY <1>2 DEF WriterTake
  <2>2. QED
    BY <1>0, <2>1 DEF Carried, InSeq
<1>3. CASE WriterDeadlineFail
  <2>1. batch' = <<>> /\ UNCHANGED <<writerQueue, buffered, sent>>
    BY <1>3 DEF WriterDeadlineFail
  <2>2. QED
    BY <1>0, <2>1 DEF Carried, InSeq
<1>s. ASSUME NEW b \in Seq(PendingWrite), NEW k \in 0 .. Len(b), Spill(b, k),
             InSeq(pw, b) => InSeq(pw, batch) \/ InSeq(pw, buffered),
             InSeq(pw, batch') => InSeq(pw, batch), writerQueue' = writerQueue
      PROVE  pw \in Carried
  <2>1. sent \in Seq(PendingWrite)
    BY DEF TypeOK
  <2>2. InSeq(pw, sent') \/ InSeq(pw, buffered') => InSeq(pw, sent) \/ InSeq(pw, b)
    BY <1>s, <2>1, CarriedSpill
  <2>3. InSeq(pw, writerQueue') => InSeq(pw, writerQueue)
    BY <1>s
  <2>4. QED
    BY <1>0, <1>s, <2>2, <2>3 DEF Carried
<1>4. ASSUME NEW fail \in BOOLEAN, WriterWrite(fail)
      PROVE  pw \in Carried
  <2> DEFINE b == IF WriteErr(fail) THEN buffered ELSE Append(buffered, Head(batch))
  <2>1. batch # <<>> /\ batch' = Tail(batch) /\ writerQueue' = writerQueue
    BY <1>4 DEF WriterWrite
  <2>2. PICK k \in 0 .. Len(b) : Spill(b, k)
    BY <1>4 DEF WriterWrite
  <2>3. /\ batch \in Seq(PendingWrite) /\ buffered \in Seq(PendingWrite)
        /\ Head(batch) \in PendingWrite /\ b \in Seq(PendingWrite)
        /\ Head(batch) = batch[1] /\ 1 \in DOMAIN batch
    BY <2>1 DEF TypeOK
  <2>4. InSeq(pw, batch') => InSeq(pw, batch)
    <3>1. \A i \in DOMAIN Tail(batch) : i + 1 \in DOMAIN batch
                                         /\ Tail(batch)[i] = batch[i + 1]
      BY <2>1, <2>3
    <3>2. QED
      BY <2>1, <3>1 DEF InSeq
  <2>5. InSeq(pw, b) => InSeq(pw, batch) \/ InSeq(pw, buffered)
    <3>1. \A i \in DOMAIN Append(buffered, Head(batch)) :
             \/ i \in DOMAIN buffered
                /\ Append(buffered, Head(batch))[i] = buffered[i]
             \/ Append(buffered, Head(batch))[i] = Head(batch)
      BY <2>3
    <3>2. QED
      BY <2>3, <3>1 DEF InSeq
  <2> HIDE DEF b
  <2>6. QED
    BY <1>s, <2>1, <2>2, <2>3, <2>4, <2>5
<1>5. CASE WriterFlush \/ WriterFlushFail
  <2>1. PICK k \in 0 .. Len(buffered) : Spill(buffered, k)
    BY <1>5 DEF WriterFlush, WriterFlushFail, TypeOK
  <2>2. batch' = batch /\ writerQueue' = writerQueue /\ buffered \in Seq(PendingWrite)
    BY <1>5 DEF WriterFlush, WriterFlushFail, TypeOK
  <2>3. InSeq(pw, batch') => InSeq(pw, batch)
    BY <2>2
  <2>4. QED
    BY <1>s, <2>1, <2>2, <2>3
<1>6. QED
  BY <1>1, <1>2, <1>3, <1>4, <1>5 DEF WriteLoop

\* Every step keeps the errors of the read loop and of Handle.
LEMMA ErrStep == TypeOK /\ Stages /\ ErrInv /\ [Next]_vars => ErrInv'
<1> SUFFICES ASSUME TypeOK, Stages, ErrInv, [Next]_vars
             PROVE  ErrInv'
  OBVIOUS
<1> USE DEF ErrInv, connVars, handleVars, writeVars, readVars, callVars, sockVars,
            countVars
<1>1. ASSUME NEW c \in Callers, CallStart(c) \/ CallStep(c)
      PROVE  ErrInv'
  BY <1>1 DEF CallStart, Send, SendNoWait, SendRefused, RequestNext, CallStep,
              SendReturn, RequestRegister, RequestSend, RequestRefused, RequestFail,
              RequestDelete, RequestReturn
<1>2. CASE WriteLoop
  BY <1>2 DEF WriteLoop, WriterSleep, WriterTake, WriterDeadline, WriterDeadlineFail,
              WriterWrite, WriterBatchDone, WriterFlush, WriterFlushFail
<1>3. ASSUME NEW m \in Inbound, ReadMessage(m)
      PROVE  ErrInv'
  BY <1>3 DEF ReadMessage
<1>4. CASE ReadFail \/ ReadStep
  BY <1>4 DEF ReadFail, ReadStep, ReadDeliver, HandlerOk, HandlerError, HandlerReply,
              HandlerReplyRefused, ReplyReturn, ReaderExit, ReadLoopErr
<1>5. CASE Shutdown \/ Handle
  BY <1>5 DEF Shutdown, Handle, HandleDone, HandleDoneWriter, HandleWriter,
              HandleWaitReader, HandleReader, HandleReaderWriter, Close
<1>6. CASE UNCHANGED vars
  BY <1>6 DEF vars
<1>7. QED
  BY <1>1, <1>2, <1>3, <1>4, <1>5, <1>6 DEF Next

\* A step that starts no request and carries none off: what stays in a request
\* stays there with its number, and what waits goes on to wait for its message.
LEMMA TraceKept ==
    ASSUME TraceInv, seq' = seq, hpc = "closed" => hpc' = "closed",
           \A pw \in Carried' : pw \in Carried \/ pw.from \notin Callers \/ pw.seq = 0,
           \A c \in Callers : InRequest(c)' =>
               /\ InRequest(c) /\ cseq'[c] = cseq[c]
               /\ pc[c] = "reqWait" => pc'[c] = "reqWait" /\ cid'[c] = cid[c]
    PROVE  TraceInv'
<1> SUFFICES ASSUME hpc' # "closed"
             PROVE  /\ \A pw \in Carried' : Traced(pw)'
                    /\ seq' # 0 => seq' \in OurSeqs
                    /\ \A c \in Callers : InRequest(c)' => cseq'[c] \in OurSeqs
  BY DEF TraceInv
<1>1. ASSUME NEW pw \in Carried', pw.from \in Callers, pw.seq # 0
      PROVE  /\ pw.seq <= seq'
             /\ \A c \in Callers : InRequest(c)' /\ cseq'[c] = pw.seq =>
                   pc'[c] = "reqWait" /\ cid'[c] = pw.id
  BY <1>1 DEF TraceInv, Traced
<1>2. \A pw \in Carried' : Traced(pw)'
  BY <1>1 DEF Traced, InRequest
<1>3. QED
  BY <1>2 DEF TraceInv

\* Steps that leave the writes and the callers alone.
LEMMA TraceUntouched ==
    ASSUME TraceInv, hpc = "closed" => hpc' = "closed",
           UNCHANGED <<writerQueue, batch, buffered, sent, pc, cseq, cid, seq>>
    PROVE  TraceInv'
<1>1. Carried' = Carried
  BY DEF Carried, InSeq
<1>2. \A c \in Callers : InRequest(c)' => InRequest(c)
  BY DEF InRequest
<1>3. QED
  BY <1>1, <1>2, TraceKept

\* Every step keeps the trace of the requests' numbers.
LEMMA TraceStep ==
    TypeOK /\ Stages /\ SendInv /\ SeqInv /\ TraceInv /\ NoWrap /\ [Next]_vars
      => TraceInv'
<1> SUFFICES ASSUME TypeOK, Stages, SendInv, SeqInv, TraceInv, NoWrap, [Next]_vars
             PROVE  TraceInv'
  OBVIOUS
<1> USE DEF connVars, handleVars, writeVars, readVars, callVars, sockVars, countVars
<1>0. /\ Reader \in Threads /\ Callers \subseteq Threads /\ Reader \notin Callers
      /\ 0 \in Seqs /\ TRUE \in BOOLEAN /\ FALSE \in BOOLEAN
  BY ConnAssumption DEF Threads, Seqs
<1>t. /\ pc \in [Threads -> CallPc] /\ cid \in [Threads -> Nat]
      /\ cseq \in [Threads -> Seqs] /\ seq \in Nat /\ nAccepted \in Nat
  BY DEF TypeOK, Seqs
<1>c. ASSUME UNCHANGED <<writerQueue, batch, buffered, sent>>
      PROVE  Carried' = Carried
  BY <1>c DEF Carried, InSeq
<1>1. ASSUME NEW c \in Callers, CallStart(c)
      PROVE  TraceInv'
  <2>0. c \in Threads
    BY <1>0
  <2>1. CASE Send(c)
    <3>1. /\ PreparePendingWrite(c, 0, TRUE) /\ pc' = [pc EXCEPT ![c] = "sendWait"]
          /\ UNCHANGED <<batch, buffered, sent, cseq, cid, seq, hpc>>
      BY <2>1 DEF Send
    <3>2. \A pw \in Carried' : pw \in Carried \/ pw.seq = 0
      BY <1>0, <2>0, <3>1, CarriedPrepared
    <3>3. \A d \in Callers : InRequest(d)' => InRequest(d) /\ pc'[d] = pc[d]
      BY <1>0, <1>t, <3>1 DEF InRequest
    <3>4. QED
      BY <3>1, <3>2, <3>3, TraceKept
  <2>2. CASE SendNoWait(c)
    <3>1. /\ PreparePendingWrite(c, 0, FALSE)
          /\ UNCHANGED <<batch, buffered, sent, pc, cseq, cid, seq, hpc>>
      BY <2>2 DEF SendNoWait
    <3>2. \A pw \in Carried' : pw \in Carried \/ pw.seq = 0
      BY <1>0, <2>0, <3>1, CarriedPrepared
    <3>3. \A d \in Callers : InRequest(d)' => InRequest(d) /\ pc'[d] = pc[d]
      BY <3>1 DEF InRequest
    <3>4. QED
      BY <3>1, <3>2, <3>3, TraceKept
  <2>3. CASE SendRefused(c)
    BY <2>3, TraceUntouched DEF SendRefused
  <2>4. CASE RequestNext(c)
    <3>1. /\ pc[c] = "idle" /\ seq' = NextSeq /\ cseq' = [cseq EXCEPT ![c] = NextSeq]
          /\ pc' = [pc EXCEPT ![c] = "reqSeq"]
          /\ UNCHANGED <<writerQueue, batch, buffered, sent, cid, hpc>>
      BY <2>4 DEF RequestNext, StartCall
    <3>2. CASE hpc' = "closed"
      BY <3>2 DEF TraceInv
    <3>3. CASE hpc' # "closed"
      <4>1. NextSeq \in OurSeqs /\ NextSeq \in Nat /\ seq < NextSeq
        BY <3>1, <3>3, NextSeqOurs, NextSeqGrows DEF TraceInv
      <4>2. \A d \in Callers : InRequest(d)' =>
              \/ d = c /\ cseq'[d] = NextSeq
              \/ d # c /\ InRequest(d) /\ cseq'[d] = cseq[d] /\ pc'[d] = pc[d]
        BY <1>0, <1>t, <3>1 DEF InRequest
      <4>3. ASSUME NEW pw \in Carried', pw.from \in Callers, pw.seq # 0
            PROVE  /\ pw.seq <= seq'
                   /\ \A d \in Callers : InRequest(d)' /\ cseq'[d] = pw.seq =>
                         pc'[d] = "reqWait" /\ cid'[d] = pw.id
        <5>1. pw \in Carried /\ pw.seq \in Nat
          BY <1>c, <3>1, <4>3 DEF Carried, PendingWrite, Seqs
        <5>2. /\ pw.seq <= seq
              /\ \A d \in Callers : InRequest(d) /\ cseq[d] = pw.seq =>
                    pc[d] = "reqWait" /\ cid[d] = pw.id
          BY <3>1, <3>3, <4>3, <5>1 DEF TraceInv, Traced
        <5>3. pw.seq < NextSeq
          BY <1>t, <4>1, <5>1, <5>2
        <5>4. QED
          BY <3>1, <4>1, <4>2, <5>1, <5>2, <5>3
      <4>4. \A pw \in Carried' : Traced(pw)'
        BY <4>3 DEF Traced, InRequest
      <4>5. \A d \in Callers : InRequest(d)' => cseq'[d] \in OurSeqs
        BY <3>1, <3>3, <4>1, <4>2 DEF TraceInv
      <4>6. QED
        BY <3>1, <4>1, <4>4, <4>5 DEF TraceInv
    <3>4. QED
      BY <3>2, <3>3
  <2>5. QED
    BY <1>1, <2>1, <2>2, <2>3, <2>4 DEF CallStart
<1>2. ASSUME NEW c \in Callers, CallStep(c)
      PROVE  TraceInv'
  <2>0. c \in Threads
    BY <1>0
  <2>1. CASE RequestSend(c)
    <3>1. /\ pc[c] = "reqReg" /\ PreparePendingWrite(c, cseq[c], FALSE)
          /\ cid' = [cid EXCEPT ![c] = nAccepted + 1]
          /\ pc' = [pc EXCEPT ![c] = "reqWait"]
          /\ UNCHANGED <<batch, buffered, sent, cseq, seq, hpc>>
      BY <2>1 DEF RequestSend
    <3>2. CASE hpc' = "closed"
      BY <3>2 DEF TraceInv
    <3>3. CASE hpc' # "closed"
      <4>1. hpc # "closed" /\ InRequest(c)
        BY <3>1, <3>3 DEF InRequest
      <4>2. \A d \in Callers : InRequest(d)' =>
              \/ d = c /\ pc'[d] = "reqWait" /\ cid'[d] = nAccepted + 1
              \/ d # c /\ InRequest(d) /\ pc'[d] = pc[d] /\ cid'[d] = cid[d]
        BY <1>0, <1>t, <3>1 DEF InRequest
      <4>3. ASSUME NEW pw \in Carried', pw.from \in Callers, pw.seq # 0
            PROVE  /\ pw.seq <= seq'
                   /\ \A d \in Callers : InRequest(d)' /\ cseq'[d] = pw.seq =>
                         pc'[d] = "reqWait" /\ cid'[d] = pw.id
        <5>1. CASE pw \in Carried
          <6>1. /\ pw.seq <= seq
                /\ \A d \in Callers : InRequest(d) /\ cseq[d] = pw.seq =>
                      pc[d] = "reqWait" /\ cid[d] = pw.id
            BY <4>1, <4>3, <5>1 DEF TraceInv, Traced
          <6>2. cseq[c] # pw.seq
            BY <3>1, <4>1, <6>1
          <6>3. QED
            BY <3>1, <4>2, <6>1, <6>2
        <5>2. CASE pw \notin Carried
          <6>1. pw.seq = cseq[c] /\ pw.id = nAccepted + 1
            <7>1. cseq[c] \in Seqs
              BY <1>t, <2>0
            <7>2. PICK s \in Seqs : s = cseq[c]
              BY <7>1
            <7>3. PreparePendingWrite(c, s, FALSE) /\ UNCHANGED <<batch, buffered, sent>>
              BY <3>1, <7>2
            <7>4. pw \in Carried \/ (pw.from = c /\ pw.seq = s /\ pw.id = nAccepted + 1)
              BY <1>0, <2>0, <4>3, <7>3, CarriedPrepared
            <7>5. QED
              BY <5>2, <7>2, <7>4
          <6>2. /\ cseq[c] <= seq
                /\ \A d \in Callers : InRequest(d) /\ cseq[d] = cseq[c] => d = c
            BY <4>1 DEF SeqInv
          <6>3. QED
            BY <3>1, <4>2, <6>1, <6>2
        <5>3. QED
          BY <5>1, <5>2
      <4>4. \A pw \in Carried' : Traced(pw)'
        BY <4>3 DEF Traced, InRequest
      <4>5. \A d \in Callers : InRequest(d)' => cseq'[d] \in OurSeqs
        BY <3>1, <4>1, <4>2 DEF TraceInv
      <4>6. QED
        BY <3>1, <4>1, <4>4, <4>5 DEF TraceInv
    <3>4. QED
      BY <3>2, <3>3
  <2>2. CASE SendReturn(c) \/ RequestRegister(c) \/ RequestRefused(c) \/ RequestFail(c)
             \/ RequestDelete(c) \/ RequestReturn(c)
    <3>1. /\ UNCHANGED <<writerQueue, batch, buffered, sent, seq, hpc>>
          /\ \A d \in Callers \ {c} : pc'[d] = pc[d] /\ cseq'[d] = cseq[d]
                                      /\ cid'[d] = cid[d]
      BY <1>0, <1>t, <2>2 DEF SendReturn, RequestRegister, RequestRefused, RequestFail,
              RequestDelete, RequestReturn
    <3>2. InRequest(c)' => InRequest(c) /\ cseq'[c] = cseq[c] /\ pc[c] # "reqWait"
      BY <1>t, <2>0, <2>2 DEF SendReturn, RequestRegister, RequestRefused, RequestFail,
              RequestDelete, RequestReturn, InRequest
    <3>3. \A d \in Callers \ {c} : InRequest(d)' => InRequest(d)
      BY <3>1 DEF InRequest
    <3>4. QED
      BY <1>c, <3>1, <3>2, <3>3, TraceKept
  <2>3. QED
    BY <1>2, <2>1, <2>2 DEF CallStep
<1>3. CASE WriteLoop
  <2>1. UNCHANGED <<pc, cseq, cid, seq, hpc>>
    BY <1>3 DEF WriteLoop, WriterSleep, WriterTake, WriterDeadline, WriterDeadlineFail,
            WriterWrite, WriterBatchDone, WriterFlush, WriterFlushFail
  <2>2. \A d \in Callers : InRequest(d)' => InRequest(d)
    BY <2>1 DEF InRequest
  <2>3. QED
    BY <1>3, <2>1, <2>2, CarriedWritten, TraceKept
<1>4. ASSUME NEW m \in Inbound, ReadMessage(m)
      PROVE  TraceInv'
  BY <1>4, TraceUntouched DEF ReadMessage
<1>5. CASE ReadFail
  BY <1>5, TraceUntouched DEF ReadFail
<1>6. CASE ReadStep
  <2>1. CASE HandlerReply
    <3>1. /\ PreparePendingWrite(Reader, rmsg.seq, TRUE)
          /\ pc' = [pc EXCEPT ![Reader] = "sendWait"]
          /\ UNCHANGED <<batch, buffered, sent, cseq, cid, seq, hpc>>
      BY <2>1 DEF HandlerReply
    <3>2. rmsg.seq \in Seqs
      BY DEF TypeOK, Message
    <3>3. \A pw \in Carried' : pw \in Carried \/ pw.from = Reader
      BY <1>0, <3>1, <3>2, CarriedPrepared
    <3>4. \A d \in Callers : InRequest(d)' => InRequest(d) /\ pc'[d] = pc[d]
      BY <1>0, <1>t, <3>1 DEF InRequest
    <3>5. QED
      BY <1>0, <3>1, <3>3, <3>4, TraceKept
  <2>2. CASE ReplyReturn
    <3>1. /\ UNCHANGED <<writerQueue, batch, buffered, sent, cseq, cid, seq, hpc>>
          /\ pc' = [pc EXCEPT ![Reader] = "idle"]
      BY <2>2 DEF ReplyReturn
    <3>2. \A d \in Callers : InRequest(d)' => InRequest(d) /\ pc'[d] = pc[d]
      BY <1>0, <1>t, <3>1 DEF InRequest
    <3>3. QED
      BY <1>c, <3>1, <3>2, TraceKept
  <2>3. CASE ReadDeliver \/ HandlerOk \/ HandlerError \/ HandlerReplyRefused
    BY <2>3, TraceUntouched DEF ReadDeliver, HandlerOk, HandlerError, HandlerReplyRefused
  <2>4. QED
    BY <1>6, <2>1, <2>2, <2>3 DEF ReadStep
<1>7. CASE Shutdown
  BY <1>7, TraceUntouched DEF Shutdown
<1>8. CASE Handle
  <2>1. CASE Close
    BY <2>1 DEF Close, TraceInv
  <2>2. CASE HandleDone \/ HandleDoneWriter \/ HandleWriter \/ HandleWaitReader
             \/ HandleReader \/ HandleReaderWriter
    BY <2>2, TraceUntouched DEF HandleDone, HandleDoneWriter, HandleWriter,
            HandleWaitReader, HandleReader, HandleReaderWriter
  <2>3. QED
    BY <1>8, <2>1, <2>2 DEF Handle
<1>9. CASE UNCHANGED vars
  BY <1>9, TraceUntouched DEF vars
<1>10. QED
  BY <1>1, <1>2, <1>3, <1>4, <1>5, <1>6, <1>7, <1>8, <1>9 DEF Next

\* A step in which every caller stays as it is, or is not one that waits for a
\* response or is about to send a request, before and after.
LEMMA WakeKept ==
    ASSUME WakeInv, ReqInv, writerDone => writerDone',
           rpc' = "deliver" => rpc = "deliver" /\ rpr' = rpr /\ rmsg' = rmsg,
           \A c \in Callers :
               \/ /\ pc'[c] = pc[c] /\ cid'[c] = cid[c] /\ wg'[c] = wg[c]
                  /\ dst'[c] = dst[c] /\ perr'[c] = perr[c]
               \/ pc[c] # "reqWait" /\ pc'[c] \notin {"reqReg", "reqWait"}
    PROVE  WakeInv'
<1>1. rpc' = "deliver" => pc'[rpr'] = "reqWait" /\ rmsg'.id = cid'[rpr']
  BY DEF WakeInv, ReqInv
<1>2. \A c \in Callers : pc'[c] = "reqReg" /\ ~writerDone' => wg'[c] = 1
  BY DEF WakeInv
<1>3. RequestAnswered'
  BY DEF WakeInv, RequestAnswered
<1>4. QED
  BY <1>1, <1>2, <1>3 DEF WakeInv

\* Every step keeps what the callers of Request are woken with.
LEMMA WakeStep ==
    ASSUME NumbersApart
    PROVE  TypeOK /\ Stages /\ SendInv /\ ReqInv /\ SeqInv /\ TraceInv /\ ErrInv
             /\ WakeInv /\ [Next]_vars => WakeInv'
<1> SUFFICES ASSUME TypeOK, Stages, SendInv, ReqInv, SeqInv, TraceInv, ErrInv, WakeInv,
                    [Next]_vars
             PROVE  WakeInv'
  OBVIOUS
<1> USE DEF connVars, handleVars, writeVars, readVars, callVars, sockVars, countVars
<1>0. /\ Reader \in Threads /\ Callers \subseteq Threads /\ Reader \notin Callers
      /\ 0 \in Seqs /\ None \notin Callers
  BY ConnAssumption DEF Threads, Seqs
<1>t. /\ pc \in [Threads -> CallPc] /\ cid \in [Threads -> Nat]
      /\ cseq \in [Threads -> Seqs] /\ wg \in [Threads -> Nat]
      /\ dst \in [Threads -> Nat] /\ perr \in [Threads -> BOOLEAN]
  BY DEF TypeOK
<1>d. rpc = "deliver" => /\ rpr \in Callers /\ rpr \in Threads /\ pc[rpr] = "reqWait"
                         /\ rmsg.id = cid[rpr] /\ wg[rpr] = 1
  BY <1>0 DEF WakeInv, ReqInv
<1>1. ASSUME NEW c \in Callers, CallStart(c)
      PROVE  WakeInv'
  <2>1. /\ UNCHANGED <<writerDone, rpc, rpr, rmsg>> /\ pc[c] = "idle"
        /\ \/ pc'[c] \in {"sendWait", "reqSeq"}
           \/ pc'[c] = pc[c] /\ UNCHANGED <<cid, wg, dst, perr>>
        /\ \A d \in Callers \ {c} :
              /\ pc'[d] = pc[d] /\ cid'[d] = cid[d] /\ wg'[d] = wg[d]
              /\ dst'[d] = dst[d] /\ perr'[d] = perr[d]
    BY <1>0, <1>1, <1>t DEF CallStart, Send, SendNoWait, SendRefused, RequestNext,
            StartCall
  <2>2. QED
    BY <2>1, WakeKept
<1>2. ASSUME NEW c \in Callers, CallStep(c)
      PROVE  WakeInv'
  <2>0. c \in Threads
    BY <1>0
  <2>1. CASE SendReturn(c) \/ RequestRefused(c) \/ RequestFail(c) \/ RequestDelete(c)
    <3>1. /\ UNCHANGED <<writerDone, rpc, rpr, rmsg>> /\ pc[c] # "reqWait"
          /\ pc'[c] \notin {"reqReg", "reqWait"}
          /\ \A d \in Callers \ {c} :
                /\ pc'[d] = pc[d] /\ cid'[d] = cid[d] /\ wg'[d] = wg[d]
                /\ dst'[d] = dst[d] /\ perr'[d] = perr[d]
      BY <1>0, <1>t, <2>0, <2>1 DEF SendReturn, RequestRefused, RequestFail,
              RequestDelete, Done
    <3>2. QED
      BY <3>1, WakeKept
  <2>2. CASE RequestRegister(c)
    <3>1. /\ UNCHANGED <<writerDone, rpc, rpr, rmsg, cid, wg, dst, perr>>
          /\ pc[c] = "reqSeq" /\ pc' = [pc EXCEPT ![c] = "reqReg"]
      BY <2>2 DEF RequestRegister
    <3>2. ~writerDone => wg[c] = 1
      BY <3>1 DEF ReqInv
    <3>3. \A d \in Threads : pc'[d] = IF d = c THEN "reqReg" ELSE pc[d]
      BY <1>t, <3>1
    <3>4. RequestAnswered'
      BY <1>0, <3>1, <3>3 DEF WakeInv, RequestAnswered
    <3>5. QED
      BY <1>0, <1>d, <3>1, <3>2, <3>3, <3>4 DEF WakeInv
  <2>3. CASE RequestSend(c)
    <3>1. /\ UNCHANGED <<writerDone, rpc, rpr, rmsg, wg, dst, perr>> /\ ~writerDone
          /\ pc[c] = "reqReg" /\ pc' = [pc EXCEPT ![c] = "reqWait"]
          /\ cid' = [cid EXCEPT ![c] = nAccepted + 1]
      BY <2>3 DEF RequestSend, PreparePendingWrite
    <3>2. wg[c] = 1
      BY <3>1 DEF WakeInv
    <3>3. \A d \in Threads : /\ pc'[d] = IF d = c THEN "reqWait" ELSE pc[d]
                             /\ d # c => cid'[d] = cid[d]
      BY <1>t, <3>1
    <3>4. RequestAnswered'
      BY <1>0, <3>1, <3>2, <3>3 DEF WakeInv, RequestAnswered
    <3>5. QED
      BY <1>0, <1>d, <3>1, <3>2, <3>3, <3>4 DEF WakeInv
  <2>4. CASE RequestReturn(c)
    <3>1. /\ UNCHANGED <<writerDone, rpc, rpr, rmsg, wg>> /\ pc[c] = "reqWait"
          /\ wg[c] = 0 /\ pc'[c] = "idle"
          /\ \A d \in Threads \ {c} :
                /\ pc'[d] = pc[d] /\ cid'[d] = cid[d]
                /\ dst'[d] = dst[d] /\ perr'[d] = perr[d]
      BY <1>0, <1>t, <2>0, <2>4 DEF RequestReturn
    <3>2. RequestAnswered'
      BY <1>0, <3>1 DEF WakeInv, RequestAnswered
    <3>3. rpc = "deliver" => rpr # c
      BY <1>d, <3>1
    <3>4. QED
      BY <1>0, <1>d, <3>1, <3>2, <3>3 DEF WakeInv
  <2>5. QED
    BY <1>2, <2>1, <2>2, <2>3, <2>4 DEF CallStep
<1>3. ASSUME WriteLoop
      PROVE  WakeInv'
  <2>0. UNCHANGED <<writerDone, rpc, rpr, rmsg, pc, cid, dst>>
    BY <1>3 DEF WriteLoop, WriterSleep, WriterTake, WriterDeadline, WriterDeadlineFail,
            WriterWrite, WriterBatchDone, WriterFlush, WriterFlushFail
  <2>1. \A c \in Callers : pc[c] # "sendWait" => wg'[c] = wg[c] /\ perr'[c] = perr[c]
    <3>1. CASE WriterDeadlineFail
      <4>1. ASSUME NEW c \in Callers, pc[c] # "sendWait"
            PROVE  c \notin Waiters(batch) /\ c \in Threads
        BY <1>0, <4>1 DEF SendInv
      <4>2. QED
        BY <3>1, <4>1 DEF WriterDeadlineFail, DoneAll
    <3>2. ASSUME NEW fail \in BOOLEAN, WriterWrite(fail)
          PROVE  \A c \in Callers : pc[c] # "sendWait" =>
                     wg'[c] = wg[c] /\ perr'[c] = perr[c]
      <4>1. CASE ~Head(batch).wait
        BY <3>2, <4>1 DEF WriterWrite
      <4>2. CASE Head(batch).wait
        <5>1. batch \in Seq(PendingWrite) /\ batch # <<>>
          BY <3>2 DEF WriterWrite, TypeOK
        <5>2. Distinct(batch)
          BY DEF SendInv
        <5>3. Head(batch).from \in Waiters(batch)
          BY <4>2, <5>1, <5>2, WaitersTail
        <5>4. pc[Head(batch).from] = "sendWait"
          BY <5>3 DEF SendInv
        <5>5. PICK e : /\ Done(Head(batch).from)
                       /\ perr' = [perr EXCEPT ![Head(batch).from] = e]
          BY <3>2, <4>2 DEF WriterWrite
        <5>6. QED
          BY <1>0, <1>t, <5>4, <5>5 DEF Done
      <4>3. QED
        BY <4>1, <4>2
    <3>3. CASE WriterSleep \/ WriterTake \/ WriterDeadline \/ WriterBatchDone
               \/ WriterFlush \/ WriterFlushFail
      BY <3>3 DEF WriterSleep, WriterTake, WriterDeadline, WriterBatchDone, WriterFlush,
              WriterFlushFail
    <3>4. QED
      BY <1>3, <3>1, <3>2, <3>3 DEF WriteLoop
  <2>2. QED
    BY <2>0, <2>1, WakeKept
<1>4. ASSUME NEW m \in Inbound, ReadMessage(m)
      PROVE  WakeInv'
  <2>1. /\ rpc = "read" /\ rmsg' = m /\ rpr' = reqs[m.seq]
        /\ rpc' = (IF m.seq # 0 /\ reqs[m.seq] # None THEN "deliver" ELSE "handler")
        /\ UNCHANGED <<writerDone, pc, cid, wg, dst, perr>>
    BY <1>4 DEF ReadMessage, IsResponse
  <2>2. m \in Message /\ m.seq \in Seqs
    BY InboundType DEF Message
  <2>3. ASSUME rpc' = "deliver"
        PROVE  pc[rpr'] = "reqWait" /\ m.id = cid[rpr']
    <3>1. m.seq # 0 /\ reqs[m.seq] # None
      BY <2>1, <2>3
    <3>2. PICK c \in Callers : c = reqs[m.seq]
      BY <2>2, <3>1 DEF TypeOK
    <3>3. InRequest(c) /\ cseq[c] = m.seq
      BY <2>2, <3>1, <3>2 DEF ReqInv, ReqsOwned, InRequest
    <3>4. hpc # "closed"
      BY <2>1 DEF Stages
    <3>5. m.seq \notin PeerSeqs \cup {0}
      BY <3>1, <3>3, <3>4 DEF TraceInv, NumbersApart
    <3>6. PICK i \in DOMAIN sent : /\ sent[i].from \in Callers /\ sent[i].seq # 0
                                   /\ m = [seq |-> sent[i].seq, id |-> sent[i].id]
      <4>1. m \notin {[seq |-> s, id |-> 0] : s \in PeerSeqs \cup {0}}
        BY <3>5
      <4>2. QED
        BY <4>1 DEF Inbound
    <3>7. sent[i] \in Carried
      <4>1. sent[i] \in PendingWrite
        BY <3>6 DEF TypeOK
      <4>2. QED
        BY <3>6, <4>1 DEF Carried, InSeq
    <3>8. Traced(sent[i])
      BY <3>4, <3>7 DEF TraceInv
    <3>9. m.seq = sent[i].seq /\ m.id = sent[i].id
      BY <3>6
    <3>10. QED
      BY <2>1, <3>2, <3>3, <3>6, <3>8, <3>9 DEF Traced
  <2>4. RequestAnswered'
    BY <2>1 DEF WakeInv, RequestAnswered
  <2>5. QED
    BY <2>1, <2>3, <2>4 DEF WakeInv
<1>5. CASE ReadFail
  BY <1>5, WakeKept DEF ReadFail, ReaderExit
<1>6. ASSUME ReadStep
      PROVE  WakeInv'
  <2>1. CASE ReadDeliver
    <3>1. /\ rpc = "deliver" /\ rpc' = "read" /\ Done(rpr)
          /\ dst' = [dst EXCEPT ![rpr] = rmsg.id]
          /\ UNCHANGED <<writerDone, pc, cid, perr>>
      BY <2>1 DEF ReadDeliver
    <3>2. \A d \in Threads : d # rpr => wg'[d] = wg[d] /\ dst'[d] = dst[d]
      BY <1>t, <3>1 DEF Done
    <3>3. dst'[rpr] = cid'[rpr]
      BY <1>d, <1>t, <3>1
    <3>4. RequestAnswered'
      BY <1>0, <3>1, <3>2, <3>3 DEF WakeInv, RequestAnswered
    <3>5. \A c \in Callers : pc'[c] = "reqReg" /\ ~writerDone' => wg'[c] = 1
      BY <1>0, <1>d, <3>1, <3>2 DEF WakeInv
    <3>6. QED
      BY <3>1, <3>4, <3>5 DEF WakeInv
  <2>2. CASE HandlerOk \/ HandlerError \/ HandlerReplyRefused
    BY <2>2, WakeKept DEF HandlerOk, HandlerError, HandlerReplyRefused, ReaderExit
  <2>3. CASE HandlerReply
    <3>1. /\ rpc' = "reply" /\ pc' = [pc EXCEPT ![Reader] = "sendWait"]
          /\ wg' = [wg EXCEPT ![Reader] = wg[Reader] + 1]
          /\ UNCHANGED <<writerDone, cid, dst, perr>>
      BY <2>3 DEF HandlerReply
    <3>2. \A c \in Callers : pc'[c] = pc[c] /\ wg'[c] = wg[c]
      BY <1>0, <1>t, <3>1
    <3>3. QED
      BY <3>1, <3>2, WakeKept
  <2>4. CASE ReplyReturn
    <3>1. /\ rpc' # "deliver" /\ pc' = [pc EXCEPT ![Reader] = "idle"]
          /\ perr' = [perr EXCEPT ![Reader] = FALSE]
          /\ UNCHANGED <<writerDone, cid, dst, wg>>
      BY <2>4 DEF ReplyReturn, ReaderExit
    <3>2. \A c \in Callers : pc'[c] = pc[c] /\ perr'[c] = perr[c]
      BY <1>0, <1>t, <3>1
    <3>3. QED
      BY <3>1, <3>2, WakeKept
  <2>5. QED
    BY <1>6, <2>1, <2>2, <2>3, <2>4 DEF ReadStep
<1>7. CASE Shutdown
  BY <1>7, WakeKept DEF Shutdown
<1>8. ASSUME Handle
      PROVE  WakeInv'
  <2>1. CASE Close
    <3>1. /\ hpc = "returned" /\ rpc = "exited" /\ rpc' = rpc /\ writerDone'
          /\ UNCHANGED <<pc, cid, dst>>
          /\ \A t \in Threads : wg'[t] = IF t \in Abandoned /\ wg[t] > 0
                                         THEN wg[t] - 1 ELSE wg[t]
          /\ \A t \in Threads : perr'[t] = IF t \in Abandoned THEN herr ELSE perr[t]
      BY <2>1 DEF Close, DoneAll, Stages
    <3>2. ASSUME NEW c \in Callers, pc[c] = "reqWait"
          PROVE  perr'[c] \/ dst'[c] = cid'[c]
      <4>1. c \in Threads /\ wg[c] \in {0, 1} /\ cseq[c] \in Seqs
        BY <1>0, <1>t DEF SendInv
      <4>2. CASE wg[c] = 0
        <5>1. perr[c] \/ dst[c] = cid[c]
          BY <3>2, <4>2 DEF WakeInv, RequestAnswered
        <5>2. herr
          BY <3>1 DEF ErrInv
        <5>3. QED
          BY <3>1, <4>1, <5>1, <5>2
      <4>3. CASE wg[c] = 1
        <5>1. reqs[cseq[c]] = c
          BY <3>1, <3>2, <4>3 DEF SeqInv
        <5>2. c \in Abandoned
          BY <4>1, <5>1 DEF Abandoned
        <5>3. QED
          BY <3>1, <4>1, <5>2 DEF ErrInv
      <4>4. QED
        BY <4>1, <4>2, <4>3
    <3>3. RequestAnswered'
      BY <3>1, <3>2 DEF RequestAnswered
    <3>4. QED
      BY <3>1, <3>3 DEF WakeInv
  <2>2. CASE HandleDone \/ HandleDoneWriter \/ HandleWriter \/ HandleWaitReader
             \/ HandleReader \/ HandleReaderWriter
    BY <2>2, WakeKept DEF HandleDone, HandleDoneWriter, HandleWriter, HandleWaitReader,
            HandleReader, HandleReaderWriter, CloseWriter
  <2>3. QED
    BY <1>8, <2>1, <2>2 DEF Handle
<1>9. CASE UNCHANGED vars
  BY <1>9, WakeKept DEF vars
<1>10. QED
  BY <1>1, <1>2, <1>3, <1>4, <1>5, <1>6, <1>7, <1>8, <1>9 DEF Next

\* Whoever is woken in Request finds an error or the response to its own message:
\* never a response to a request that had its number before, never one meant for
\* another caller, and never, after close(err), nothing at all.  It holds as long as
\* this side's numbers do not wrap and the peer numbers its own requests apart.
THEOREM RequestsAnswered ==
    ASSUME NumbersApart
    PROVE  Spec /\ []NoWrap => []RequestAnswered
<1>1. Init => TraceInv /\ ErrInv /\ WakeInv
  <2> SUFFICES ASSUME Init
               PROVE  TraceInv /\ ErrInv /\ WakeInv
    OBVIOUS
  <2>1. Carried = {} /\ seq = 0
    BY DEF Init, Carried, InSeq
  <2>2. \A c \in Callers : pc[c] = "idle"
    BY DEF Init, Threads
  <2>3. rpc = "read" /\ hpc = "select"
    BY DEF Init
  <2>4. QED
    BY <2>1, <2>2, <2>3 DEF TraceInv, InRequest, ErrInv, WakeInv, RequestAnswered
<1>2. WakeInv => RequestAnswered
  BY DEF WakeInv
<1>3. TypeOK /\ Stages /\ SendInv /\ ReqInv /\ SeqInv /\ TraceInv /\ ErrInv
        /\ WakeInv /\ [Next]_vars => WakeInv'
  BY WakeStep
<1>4. QED
  BY <1>1, <1>2, <1>3, InvInit, TypeCorrect, StagesStep, SendStep, ReqStep, SeqStep,
     TraceStep, ErrStep, PTL DEF Spec

-----------------------------------------------------------------------------
(***************************************************************************)
(* How long the numbers last.  Every Request takes one number and counts   *)
(* as one call, so a bound on the calls bounds the numbers, also when the  *)
(* connection is closed and next() starts over.                            *)
(***************************************************************************)

\* Where n calls can at most take the number after the next.
Reach(n) == SeqOffset + SeqDelta * n

\* The numbers last for all the calls: in the code, about 2^31 on one connection.
NumbersSuffice == MaxCalls \in Nat /\ Reach(MaxCalls) < SeqModulus

Budget ==
    /\ nCalls <= MaxCalls
    /\ seq # 0 => seq + SeqDelta <= Reach(nCalls)

\* One more call reaches SeqDelta further.
LEMMA ReachFacts ==
    ASSUME NEW n \in Nat
    PROVE  /\ Reach(n) \in Nat
           /\ Reach(n + 1) = Reach(n) + SeqDelta
           /\ SeqOffset <= Reach(n)
           /\ \A m \in Nat : n <= m => Reach(n) <= Reach(m)
<1>1. SeqOffset \in Nat /\ SeqDelta \in Nat
  BY ConnAssumption DEF Seqs
<1>2. \A k, j \in Nat : k * j \in Nat /\ k * (j + 1) = k * j + k
  OBVIOUS
<1>3. SeqDelta * n \in Nat /\ SeqDelta * (n + 1) = SeqDelta * n + SeqDelta
  BY <1>1, <1>2
<1>4. ASSUME NEW m \in Nat, n <= m
      PROVE  SeqDelta * n <= SeqDelta * m
  <2>1. \A k \in Nat, i \in Nat, j \in Nat : k * (i + j) = k * i + k * j /\ k * j \in Nat
    OBVIOUS
  <2>2. m - n \in Nat /\ m = n + (m - n)
    BY <1>4
  <2>3. SeqDelta * m = SeqDelta * n + SeqDelta * (m - n) /\ SeqDelta * (m - n) \in Nat
    BY <1>1, <2>1, <2>2
  <2>4. QED
    BY <1>3, <2>3
<1>5. ASSUME NEW m \in Nat
      PROVE  SeqDelta * m \in Nat
  BY <1>1, <1>2
<1>6. QED
  BY <1>1, <1>3, <1>4, <1>5 DEF Reach

\* Only next() and close(err) touch the number; next() is part of a call.
LEMMA BudgetStep == NumbersSuffice /\ TypeOK /\ Budget /\ [Next]_vars => Budget'
<1> SUFFICES ASSUME NumbersSuffice, TypeOK, Budget, [Next]_vars
             PROVE  Budget'
  OBVIOUS
<1>1. /\ seq \in Nat /\ nCalls \in Nat /\ MaxCalls \in Nat
      /\ SeqOffset \in Nat /\ SeqDelta \in Nat /\ SeqModulus \in Nat /\ SeqModulus > 1
  BY ConnAssumption DEF TypeOK, Seqs, NumbersSuffice
<1>2. /\ Reach(nCalls) \in Nat /\ SeqOffset <= Reach(nCalls)
      /\ Reach(nCalls + 1) = Reach(nCalls) + SeqDelta
  BY <1>1, ReachFacts
<1>3. CASE seq' = seq /\ nCalls' = nCalls
  BY <1>3 DEF Budget
<1>4. CASE seq' = seq /\ nCalls' = nCalls + 1 /\ nCalls < MaxCalls
  <2>1. nCalls + 1 <= MaxCalls
    BY <1>1, <1>4
  <2>2. Reach(nCalls') = Reach(nCalls) + SeqDelta
    BY <1>2, <1>4
  <2>3. seq # 0 => seq + SeqDelta <= Reach(nCalls) + SeqDelta
    BY <1>1, <1>2 DEF Budget
  <2>4. QED
    BY <1>4, <2>1, <2>2, <2>3 DEF Budget, Reach
<1>5. CASE seq' = NextSeq /\ nCalls' = nCalls + 1 /\ nCalls < MaxCalls
  <2>1. nCalls + 1 <= MaxCalls
    BY <1>1, <1>5
  <2>2. Reach(nCalls') = Reach(nCalls) + SeqDelta
    BY <1>2, <1>5
  <2>3. CASE seq = 0
    <3>1. seq' + SeqDelta <= Reach(nCalls) + SeqDelta
      BY <1>1, <1>2, <1>5, <2>3 DEF NextSeq
    <3>2. QED
      BY <1>5, <2>1, <2>2, <3>1 DEF Budget, Reach
  <2>4. CASE seq # 0
    <3>1. Reach(nCalls) <= Reach(MaxCalls) /\ Reach(MaxCalls) \in Nat
      BY <1>1, <1>5, ReachFacts
    <3>2. seq + SeqDelta <= Reach(nCalls) /\ seq + SeqDelta < SeqModulus
      BY <1>1, <1>2, <2>4, <3>1 DEF Budget, NumbersSuffice
    <3>3. (seq + SeqDelta) % SeqModulus = seq + SeqDelta
      BY <1>1, <3>2
    <3>4. seq' = seq + SeqDelta
      BY <1>5, <2>4, <3>3 DEF NextSeq
    <3>5. seq' + SeqDelta <= Reach(nCalls) + SeqDelta
      BY <1>1, <1>2, <3>2, <3>4
    <3>6. QED
      BY <1>5, <2>1, <2>2, <3>5 DEF Budget, Reach
  <2>5. QED
    BY <2>3, <2>4
<1>6. CASE seq' = 0 /\ nCalls' = nCalls
  BY <1>6 DEF Budget
<1>7. ASSUME NEW c \in Callers, CallStart(c)
      PROVE  Budget'
  <2>1. CASE Send(c) \/ SendNoWait(c) \/ SendRefused(c)
    BY <1>4, <2>1 DEF Send, SendNoWait, SendRefused, StartCall, connVars
  <2>2. CASE RequestNext(c)
    BY <1>5, <2>2 DEF RequestNext, StartCall
  <2>3. QED
    BY <1>7, <2>1, <2>2 DEF CallStart
<1>8. ASSUME NEW c \in Callers, CallStep(c)
      PROVE  Budget'
  BY <1>3, <1>8 DEF CallStep, SendReturn, RequestRegister, RequestSend, RequestRefused,
     RequestFail, RequestDelete, RequestReturn, connVars, countVars
<1>9. CASE WriteLoop
  BY <1>3, <1>9 DEF WriteLoop, WriterSleep, WriterTake, WriterDeadline, WriterDeadlineFail,
     WriterWrite, WriterBatchDone, WriterFlush, WriterFlushFail, connVars, countVars
<1>10. CASE \E m \in Inbound : ReadMessage(m)
  BY <1>3, <1>10 DEF ReadMessage, connVars, countVars
<1>11. CASE ReadFail \/ ReadStep \/ Shutdown
  BY <1>3, <1>11 DEF ReadFail, ReadStep, ReadDeliver, HandlerOk, HandlerError,
     HandlerReply, HandlerReplyRefused, ReplyReturn, Shutdown, connVars, countVars
<1>12. CASE Handle
  <2>1. CASE Close
    BY <1>6, <2>1 DEF Close, countVars
  <2>2. CASE HandleDone \/ HandleDoneWriter \/ HandleWriter \/ HandleWaitReader
             \/ HandleReader \/ HandleReaderWriter
    BY <1>3, <2>2 DEF HandleDone, HandleDoneWriter, HandleWriter, HandleWaitReader,
       HandleReader, HandleReaderWriter, CloseWriter, connVars, countVars
  <2>3. QED
    BY <1>12, <2>1, <2>2 DEF Handle
<1>13. CASE UNCHANGED vars
  BY <1>3, <1>13 DEF vars, connVars, countVars
<1>14. QED
  BY <1>7, <1>8, <1>9, <1>10, <1>11, <1>12, <1>13 DEF Next

\* While fewer calls are made on a connection than there are numbers, next() does
\* not come round the modulus: the counter is never raised but for a new call, and
\* close(err) starts it over.
THEOREM NumbersLast ==
    ASSUME NumbersSuffice
    PROVE  Spec => []NoWrap
<1>1. Init => Budget
  BY DEF Init, Budget, NumbersSuffice
<1>2. TypeOK /\ Budget => NoWrap
  <2> SUFFICES ASSUME TypeOK, Budget
               PROVE  NoWrap
    OBVIOUS
  <2>1. /\ seq \in Nat /\ nCalls \in Nat /\ MaxCalls \in Nat
        /\ SeqDelta \in Nat /\ SeqModulus \in Nat /\ SeqDelta < SeqModulus
    BY ConnAssumption DEF TypeOK, Seqs, NumbersSuffice
  <2>2. /\ Reach(nCalls) \in Nat /\ Reach(MaxCalls) \in Nat
        /\ Reach(nCalls) <= Reach(MaxCalls)
    BY <2>1, ReachFacts DEF Budget
  <2>3. QED
    BY <2>1, <2>2 DEF Budget, NumbersSuffice, NoWrap
<1>3. TypeOK /\ Budget /\ [Next]_vars => Budget'
  BY BudgetStep
<1>4. QED
  BY <1>1, <1>2, <1>3, TypeCorrect, PTL DEF Spec

\* While the numbers last and the peer numbers its requests apart, a goroutine
\* blocked in Send, Reply or Request can be woken, nobody is left blocked after
\* close(err), and whoever is woken in Request has its own answer or an error.
THEOREM CallsCorrect ==
    ASSUME NumbersSuffice, NumbersApart
    PROVE  Spec => [](WaitersReachable /\ NobodyStranded /\ RequestAnswered)
<1>1. Spec => []NoWrap
  BY NumbersLast
<1>2. Spec /\ []NoWrap => []RequestAnswered
  BY RequestsAnswered
<1>3. QED
  BY <1>1, <1>2, WaitersStayReachable, NoneStranded, PTL

=============================================================================

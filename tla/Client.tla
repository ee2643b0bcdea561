------------------------------- MODULE Client -------------------------------
(***************************************************************************)
(* The pool of outgoing connections: streaming_transmit/client.go.         *)
(*                                                                         *)
(* Goroutines: the callers of Get, Send, SendNoWait and Request, and one   *)
(* per clientConn, which dials, hands shakes, runs the connection to its   *)
(* end and removes it from the pool.  A step is one critical section of    *)
(* Client.mu or of Conn.mu, or one call on the network; the scan of the    *)
(* pool in getClientConn holds Client.mu but takes each Conn.mu in turn,   *)
(* so it is one step per connection looked at.                             *)
(*                                                                         *)
(* clientConns are numbered in the order of their creation.  Of each Conn  *)
(* only what Client sees is kept: the number of pending writes and whether *)
(* its writer has been closed (module Conn has the rest).                  *)
(***************************************************************************)
EXTENDS Naturals, Sequences, Functions

CONSTANTS
    Getters,         \* goroutines that call Get, Send, SendNoWait or Request
    Nobody,          \* Client.mu is free
    MaxConns,        \* getMaxConns()
    NumDialAttempts, \* getNumDialAttempts()
    MaxDials,        \* bound: clientConns ever created
    MaxPending,      \* bound: pending writes of one connection
    MaxFailures      \* bound: attempts that fail

Ids == 1 .. MaxDials

ASSUME ClientAssumption ==
    /\ Nobody \notin Getters
    /\ MaxConns \in Nat \ {0} /\ NumDialAttempts \in Nat \ {0}
    /\ MaxDials \in Nat \ {0} /\ MaxPending \in Nat \ {0} /\ MaxFailures \in Nat

VARIABLES
    conns, mu, doneClosed,   \* the fields of Client; who holds Client.mu
    created,                 \* clientConns created so far
    st, ready, err,          \* goroutine of a clientConn: position; its fields
    attempt, hasConn, open,  \* failed attempts; conn # nil; sockets open
    pending, writerDone,     \* its Conn: len(writerQueue), writerDone
    reported,                \* the ConnStates reported to ConnState, in order
    gpc, gcc, gi, gmc, gmp   \* a caller: position, its cc; scan: i, mc, mp

poolVars == <<conns, mu, doneClosed, created>>
dialVars == <<ready, err, attempt, hasConn, open>>
connVars == <<pending, writerDone, reported>>
getVars  == <<gpc, gcc, gi, gmc, gmp>>
vars == <<poolVars, st, dialVars, connVars, getVars>>

TypeOK ==
    /\ conns \in Seq(Ids) /\ mu \in Getters \cup {Nobody}
    /\ doneClosed \in BOOLEAN /\ created \in 0 .. MaxDials
    /\ st \in [Ids -> {"unused", "dial", "handshake", "giveUp", "ready", "new",
                       "handling", "ended", "delete", "gone"}]
    /\ ready \in [Ids -> BOOLEAN] /\ err \in [Ids -> BOOLEAN]
    /\ attempt \in [Ids -> 0 .. NumDialAttempts]
    /\ hasConn \in [Ids -> BOOLEAN] /\ open \in [Ids -> 0 .. NumDialAttempts]
    /\ pending \in [Ids -> 0 .. MaxPending] /\ writerDone \in [Ids -> BOOLEAN]
    /\ reported \in [Ids -> Seq({"StateNew", "StateClosed"})]
    /\ gpc \in [Getters -> {"idle", "scan", "wait", "use"}]
    /\ gcc \in [Getters -> Ids \cup {0}] /\ gmc \in [Getters -> Ids \cup {0}]
    /\ gi \in [Getters -> Nat] /\ gmp \in [Getters -> 0 .. MaxPending]

Init ==
    /\ conns = <<>> /\ mu = Nobody /\ doneClosed = FALSE /\ created = 0
    /\ st = [i \in Ids |-> "unused"]
    /\ ready = [i \in Ids |-> FALSE] /\ err = [i \in Ids |-> FALSE]
    /\ attempt = [i \in Ids |-> 0] /\ hasConn = [i \in Ids |-> FALSE]
    /\ open = [i \in Ids |-> 0]
    /\ pending = [i \in Ids |-> 0] /\ writerDone = [i \in Ids |-> FALSE]
    /\ reported = [i \in Ids |-> <<>>]
    /\ gpc = [g \in Getters |-> "idle"] /\ gcc = [g \in Getters |-> 0]
    /\ gi = [g \in Getters |-> 0] /\ gmc = [g \in Getters |-> 0]
    /\ gmp = [g \in Getters |-> 0]

-----------------------------------------------------------------------------
\* Get: getClientConn under Client.mu, then the wait for cc.ready.

\* newClientConn: the new clientConn joins the pool before its goroutine runs.
NewClientConn(g) ==
    /\ created' = created + 1
    /\ conns' = Append(conns, created + 1)
    /\ st' = [st EXCEPT ![created + 1] = "dial"]
    /\ gcc' = [gcc EXCEPT ![g] = created + 1]

\* getClientConn returns: Client.mu is released and the caller waits for ready.
Chosen(g) ==
    /\ mu' = Nobody
    /\ gpc' = [gpc EXCEPT ![g] = "wait"]
    /\ gi' = [gi EXCEPT ![g] = 0] /\ gmc' = [gmc EXCEPT ![g] = 0]
    /\ gmp' = [gmp EXCEPT ![g] = 0]

\* The bound on dials keeps callers out, rather than holding one up inside.
GetLock(g) ==
    /\ gpc[g] = "idle" /\ mu = Nobody /\ created < MaxDials
    /\ UNCHANGED <<doneClosed, dialVars, connVars>>

GetFirst(g) ==
    /\ GetLock(g)
    /\ conns = <<>>
    /\ NewClientConn(g)
    /\ Chosen(g)

GetScan(g) ==
    /\ GetLock(g)
    /\ conns # <<>>
    /\ mu' = g
    /\ gpc' = [gpc EXCEPT ![g] = "scan"]
    /\ gi' = [gi EXCEPT ![g] = 1]
    /\ UNCHANGED <<conns, created, st, gcc, gmc, gmp>>

CanGrow == Len(conns) < MaxConns

\* The pending writes of the connection under the scan, read under its Conn.mu.
ScanStep(g) ==
    /\ gpc[g] = "scan"
    /\ UNCHANGED <<doneClosed, dialVars, connVars>>
    /\ LET cc   == conns[gi[g]]
           cp   == pending[cc]
           less == gi[g] = 1 \/ cp < gmp[g]
           best == IF less THEN cc ELSE gmc[g]
       IN  \/ /\ cp = 0
              /\ gcc' = [gcc EXCEPT ![g] = cc]
              /\ Chosen(g)
              /\ UNCHANGED <<conns, created, st>>
           \/ /\ cp # 0 /\ gi[g] < Len(conns)
              /\ gi' = [gi EXCEPT ![g] = @ + 1]
              /\ gmc' = [gmc EXCEPT ![g] = best]
              /\ gmp' = [gmp EXCEPT ![g] = IF less THEN cp ELSE @]
              /\ UNCHANGED <<conns, mu, created, st, gpc, gcc>>
           \/ /\ cp # 0 /\ gi[g] = Len(conns) /\ CanGrow
              /\ NewClientConn(g)
              /\ Chosen(g)
           \/ /\ cp # 0 /\ gi[g] = Len(conns) /\ ~CanGrow
              /\ gcc' = [gcc EXCEPT ![g] = best]
              /\ Chosen(g)
              /\ UNCHANGED <<conns, created, st>>

\* <-cc.ready, and the test of cc.err.
GetReturn(g) ==
    /\ gpc[g] = "wait" /\ ready[gcc[g]]
    /\ IF err[gcc[g]]
       THEN gpc' = [gpc EXCEPT ![g] = "idle"] /\ gcc' = [gcc EXCEPT ![g] = 0]
       ELSE gpc' = [gpc EXCEPT ![g] = "use"] /\ UNCHANGED gcc
    /\ UNCHANGED <<poolVars, st, dialVars, connVars, gi, gmc, gmp>>

\* Send, SendNoWait and Request go on to preparePendingWrite of the connection,
\* which refuses once its writer is closed.
Use(g) ==
    /\ gpc[g] = "use"
    /\ \/ writerDone[gcc[g]] /\ UNCHANGED pending
       \/ /\ ~writerDone[gcc[g]] /\ pending[gcc[g]] < MaxPending
          /\ pending' = [pending EXCEPT ![gcc[g]] = @ + 1]
    /\ gpc' = [gpc EXCEPT ![g] = "idle"] /\ gcc' = [gcc EXCEPT ![g] = 0]
    /\ UNCHANGED <<poolVars, st, dialVars, writerDone, reported, gi, gmc, gmp>>

\* The caller of Get itself may keep the connection and not write to it now.
Keep(g) ==
    /\ gpc[g] = "use"
    /\ gpc' = [gpc EXCEPT ![g] = "idle"] /\ gcc' = [gcc EXCEPT ![g] = 0]
    /\ UNCHANGED <<poolVars, st, dialVars, connVars, gi, gmc, gmp>>

Caller(g) == GetFirst(g) \/ GetScan(g) \/ Use(g) \/ Keep(g)

-----------------------------------------------------------------------------
\* The goroutine of a clientConn.

Goto(i, s) == st' = [st EXCEPT ![i] = s]

CanRetry(i) == attempt[i] + 1 < NumDialAttempts

AttemptFailed_ErrLost(i) ==
    /\ attempt' = [attempt EXCEPT ![i] = @ + 1]
    /\ Goto(i, IF CanRetry(i) THEN "dial" ELSE "giveUp")
    /\ UNCHANGED err

Failures == FoldFunction(+, 0, attempt)

\* One round of the loop of attempts fails: another, or the loop ends in error.
AttemptFailed(i) ==
    /\ Failures < MaxFailures
    /\ err' = [err EXCEPT ![i] = TRUE]
    /\ attempt' = [attempt EXCEPT ![i] = @ + 1]
    /\ Goto(i, IF CanRetry(i) THEN "dial" ELSE "giveUp")

DialOk(i) ==
    /\ st[i] = "dial"
    /\ hasConn' = [hasConn EXCEPT ![i] = TRUE]
    /\ open' = [open EXCEPT ![i] = @ + 1]
    /\ err' = [err EXCEPT ![i] = FALSE]
    /\ Goto(i, "handshake")
    /\ UNCHANGED <<poolVars, ready, attempt, connVars, getVars>>

\* dialer.Dial fails (its time-out included): conn becomes nil.
DialFail(i) ==
    /\ st[i] = "dial"
    /\ hasConn' = [hasConn EXCEPT ![i] = FALSE]
    /\ AttemptFailed(i)
    /\ UNCHANGED <<poolVars, ready, open, connVars, getVars>>

\* SetDeadline, Handshake and SetDeadline(zeroTime) all succeed.
HandshakeOk(i) ==
    /\ st[i] = "handshake"
    /\ Goto(i, "ready")
    /\ UNCHANGED <<poolVars, dialVars, connVars, getVars>>

\* One of them fails, or the handshake's deadline passes: conn stays open.
HandshakeFail(i) ==
    /\ st[i] = "handshake"
    /\ AttemptFailed(i)
    /\ UNCHANGED <<poolVars, ready, hasConn, open, connVars, getVars>>

CloseReady_Never(i) == UNCHANGED ready

CloseReady(i) == ready' = [ready EXCEPT ![i] = TRUE]

CloseSocket_Never(i) == UNCHANGED open

CloseSocket(i) == open' = [open EXCEPT ![i] = IF hasConn[i] THEN @ - 1 ELSE @]

GiveUp(i) ==
    /\ st[i] = "giveUp"
    /\ CloseSocket(i)
    /\ CloseReady(i)
    /\ Goto(i, "delete")
    /\ UNCHANGED <<poolVars, err, attempt, hasConn, connVars, getVars>>

Ready(i) ==
    /\ st[i] = "ready"
    /\ CloseReady(i)
    /\ Goto(i, "new")
    /\ UNCHANGED <<poolVars, err, attempt, hasConn, open, connVars, getVars>>

ReportNew(i) ==
    /\ st[i] = "new"
    /\ reported' = [reported EXCEPT ![i] = Append(@, "StateNew")]
    /\ Goto(i, "handling")
    /\ UNCHANGED <<poolVars, dialVars, pending, writerDone, getVars>>

\* Conn.Handle: the write loop takes what is queued ...
WriteLoop(i) ==
    /\ st[i] = "handling" /\ pending[i] > 0
    /\ pending' = [pending EXCEPT ![i] = 0]
    /\ UNCHANGED <<poolVars, st, dialVars, writerDone, reported, getVars>>

\* ... until a loop fails or the peer leaves ...
ConnFails(i) ==
    /\ st[i] = "handling" /\ ~writerDone[i]
    /\ writerDone' = [writerDone EXCEPT ![i] = TRUE]
    /\ UNCHANGED <<poolVars, st, dialVars, pending, reported, getVars>>

HandleSees_Nothing(i) == FALSE

\* ... or the done channel, which all connections of the Client share, is closed.
HandleSees(i) == doneClosed

HandleDone(i) == HandleSees(i) /\ ConnFails(i)

\* Handle closes the socket and returns; close(err) empties the queue.
ConnClose(i) ==
    /\ st[i] = "handling" /\ writerDone[i]
    /\ open' = [open EXCEPT ![i] = @ - 1]
    /\ pending' = [pending EXCEPT ![i] = 0]
    /\ Goto(i, "ended")
    /\ UNCHANGED <<poolVars, ready, err, attempt, hasConn, writerDone, reported,
                   getVars>>

ReportClosed(i) ==
    /\ st[i] = "ended"
    /\ reported' = [reported EXCEPT ![i] = Append(@, "StateClosed")]
    /\ Goto(i, "delete")
    /\ UNCHANGED <<poolVars, dialVars, pending, writerDone, getVars>>

Without_First(i) == Tail(conns)

\* deleteClientConn filters c.conns in place, keeping the order: kept[k] is what
\* its loop has kept of the first k entries.
Without(i) ==
    LET kept[k \in 0 .. Len(conns)] ==
            IF k = 0 THEN <<>>
            ELSE IF conns[k] = i THEN kept[k - 1] ELSE Append(kept[k - 1], conns[k])
    IN  kept[Len(conns)]

Delete(i) ==
    /\ st[i] = "delete" /\ mu = Nobody
    /\ conns' = Without(i)
    /\ Goto(i, "gone")
    /\ UNCHANGED <<mu, doneClosed, created, dialVars, connVars, getVars>>

\* What the goroutine does next, whatever the network answers.
Goroutine(i) ==
    \/ DialOk(i) \/ DialFail(i) \/ HandshakeOk(i) \/ HandshakeFail(i)
    \/ GiveUp(i) \/ Ready(i) \/ ReportNew(i) \/ HandleDone(i) \/ ConnClose(i)
    \/ ReportClosed(i) \/ Delete(i)

Shutdown ==
    /\ ~doneClosed
    /\ doneClosed' = TRUE
    /\ UNCHANGED <<conns, mu, created, st, dialVars, connVars, getVars>>

-----------------------------------------------------------------------------
Next ==
    \/ \E g \in Getters : Caller(g) \/ ScanStep(g) \/ GetReturn(g)
    \/ \E i \in Ids : Goroutine(i) \/ WriteLoop(i) \/ ConnFails(i)
    \/ Shutdown

Spec == Init /\ [][Next]_vars

\* Goroutines that can run do; Client.mu is handed on fairly (a sync.Mutex is
\* starvation free), so a connection that waits for it to leave the pool gets it;
\* dials and handshakes end by their deadlines, which a Client always sets.
Fairness ==
    /\ \A g \in Getters : WF_vars(ScanStep(g)) /\ WF_vars(GetReturn(g))
    /\ \A i \in Ids :
         WF_vars(Goroutine(i)) /\ WF_vars(WriteLoop(i)) /\ SF_vars(Delete(i))

FairSpec == Spec /\ Fairness

-----------------------------------------------------------------------------
(***************************************************************************)
(* Properties.                                                             *)
(***************************************************************************)

InPool(i) == \E k \in DOMAIN conns : conns[k] = i

\* Client.conns is exactly the list of clientConns whose goroutine is running, each
\* once: none is lost to the in-place filter of deleteClientConn, none stays after
\* its end to be handed out by Get.  And however Gets, failed dials and removals
\* interleave, there are at most MaxConns (and all variables have their types).
PoolExact ==
    /\ TypeOK
    /\ Len(conns) <= MaxConns
    /\ \A i \in Ids : InPool(i) <=> st[i] \notin {"unused", "gone"}
    /\ \A j, k \in DOMAIN conns : conns[j] = conns[k] => j = k

\* Get returns without error only connections whose handshake succeeded: cc.err is
\* settled when cc.ready is closed, over all attempts and all callers that wait.
GetHonest ==
    \A g \in Getters : gpc[g] = "use" =>
        st[gcc[g]] \in {"new", "handling", "ended", "delete", "gone"}
        /\ attempt[gcc[g]] < NumDialAttempts

\* A ConnState handler sees StateNew then StateClosed for every connection that
\* came up, nothing for one that did not, and StateClosed only after close(err)
\* has emptied the queue for good.
LifecycleReported ==
    \A i \in Ids :
        /\ st[i] = "gone" =>
             reported[i] = IF err[i] THEN <<>> ELSE <<"StateNew", "StateClosed">>
        /\ Len(reported[i]) = 2 => writerDone[i] /\ pending[i] = 0

\* When the goroutine of a clientConn has ended, only the sockets of attempts that
\* failed before the last one can be left open (client.go:156 dials again without
\* closing them): the last one is closed whether it failed or served.
SocketsClosed ==
    \A i \in Ids : st[i] = "gone" => open[i] <= attempt[i] - (IF err[i] THEN 1 ELSE 0)

\* Every Get returns: cc.ready is closed on every path of the dialing goroutine.
GetReturns ==
    \A g \in Getters : gpc[g] \in {"scan", "wait"} ~> gpc[g] \in {"idle", "use"}

\* After Shutdown (the channel stays closed) every connection ends and leaves the
\* pool, those that were still being dialed and those a Get raced in included.
ShutdownDrains == []<>doneClosed => <>[](conns = <<>>)

=============================================================================

------------------------------- MODULE Server -------------------------------
(***************************************************************************)
(* The accepting side: streaming_transmit/server.go.                       *)
(*                                                                         *)
(* Goroutines: Serve, which accepts connections and admits them under a    *)
(* semaphore of MaxConns slots; one per admitted connection, which hands   *)
(* shakes, runs the connection to its end and closes its socket; and the   *)
(* caller of Shutdown, which closes `done` and waits for the others.       *)
(* A step is one channel operation or one network call; those of the       *)
(* WaitGroup are split where another goroutine can come between.           *)
(*                                                                         *)
(* Time is abstract: a timer that is running may have fired at any moment, *)
(* which also covers a stale tick left in a timer of the timer pool.       *)
(***************************************************************************)
EXTENDS Naturals, FiniteSets

CONSTANTS
    Conns,            \* the connections that peers open
    None,             \* Serve has no connection in hand
    MaxConns,         \* getMaxConns(): capacity of sem
    MaxAcceptErrors   \* bound: temporary errors of Accept

ASSUME ServerAssumption ==
    /\ None \notin Conns /\ IsFiniteSet(Conns)
    /\ MaxConns \in Nat \ {0} /\ MaxAcceptErrors \in Nat

VARIABLES
    sem, wg, doneClosed,  \* the fields of Server: len(sem), wg's counter, done
    listening,            \* the listener is open
    HandshakeTimeout,     \* getHandshakeTimeout() # 0: handshakes have a deadline
    spc, cur,             \* Serve: position, conn
    nErrors,              \* temporary errors of Accept so far
    cpc, sock,            \* a connection: its goroutine's position, its socket
    wpc,                  \* the caller of Shutdown: position in wg.Wait
    panicked              \* a WaitGroup has panicked, and the process with it

semVars   == <<sem, wg>>
userVars  == <<listening, HandshakeTimeout>>
serveVars == <<spc, cur, nErrors>>
connVars  == <<cpc, sock>>
waitVars  == <<wpc, panicked>>
vars == <<semVars, doneClosed, userVars, serveVars, connVars, waitVars>>

TypeOK ==
    /\ sem \in 0 .. MaxConns /\ wg \in Nat
    /\ doneClosed \in BOOLEAN /\ listening \in BOOLEAN /\ HandshakeTimeout \in BOOLEAN
    /\ spc \in {"accept", "backoff", "admit", "full", "add", "spawn", "returned"}
    /\ cur \in Conns \cup {None} /\ nErrors \in 0 .. MaxAcceptErrors
    /\ cpc \in [Conns -> {"none", "start", "handshake", "new", "handling", "ended",
                          "release", "close", "done", "wake", "exited"}]
    /\ sock \in [Conns -> {"none", "open", "closed"}]
    /\ wpc \in {"idle", "wait", "asleep", "woken", "returned"} /\ panicked \in BOOLEAN

\* HandshakeTimeout is a field that the user of a Server sets before Serve.
Init ==
    /\ HandshakeTimeout \in BOOLEAN
    /\ sem = 0 /\ wg = 0 /\ doneClosed = FALSE /\ listening = TRUE
    /\ spc = "accept" /\ cur = None /\ nErrors = 0
    /\ cpc = [c \in Conns |-> "none"] /\ sock = [c \in Conns |-> "none"]
    /\ wpc = "idle" /\ panicked = FALSE

-----------------------------------------------------------------------------
\* Serve.

Accept(c) ==
    /\ spc = "accept" /\ listening /\ sock[c] = "none"
    /\ cur' = c
    /\ sock' = [sock EXCEPT ![c] = "open"]
    /\ spc' = "admit"
    /\ UNCHANGED <<semVars, doneClosed, userVars, nErrors, cpc, waitVars>>

\* A temporary error of Accept: s.wait(100ms).
AcceptError ==
    /\ spc = "accept" /\ listening /\ nErrors < MaxAcceptErrors
    /\ nErrors' = nErrors + 1
    /\ spc' = "backoff"
    /\ UNCHANGED <<semVars, doneClosed, userVars, cur, connVars, waitVars>>

\* The timer fires, or done is closed: then Serve returns.
Backoff ==
    /\ spc = "backoff"
    /\ spc' \in {"accept"} \cup (IF doneClosed THEN {"returned"} ELSE {})
    /\ UNCHANGED <<semVars, doneClosed, userVars, cur, nErrors, connVars, waitVars>>

\* "use of closed network connection", or an error that is not temporary.
AcceptFails ==
    /\ spc = "accept"
    /\ spc' = "returned"
    /\ UNCHANGED <<semVars, doneClosed, userVars, cur, nErrors, connVars, waitVars>>

HasSlot == sem < MaxConns

\* serverAvailable, s.sem <- struct{}{}: in the first select or in the second.
\* A select with several ready cases takes any, so a slot may be taken although
\* done is closed.
TakeSlot ==
    /\ spc \in {"admit", "full"} /\ HasSlot
    /\ sem' = sem + 1
    /\ spc' = "add"
    /\ UNCHANGED <<wg, doneClosed, userVars, cur, nErrors, connVars, waitVars>>

\* Neither case of the first select is ready: the second, with a timer.
Full ==
    /\ spc = "admit" /\ ~HasSlot /\ ~doneClosed
    /\ spc' = "full"
    /\ UNCHANGED <<semVars, doneClosed, userVars, cur, nErrors, connVars, waitVars>>

Refuse_SocketKept ==
    /\ \/ spc \in {"admit", "full"} /\ doneClosed
       \/ spc = "full"
    /\ cur' = None /\ spc' = "accept"
    /\ UNCHANGED <<semVars, doneClosed, userVars, nErrors, connVars, waitVars>>

\* done is closed, or the timer fires in the second select: conn.Close().
Refuse ==
    /\ \/ spc \in {"admit", "full"} /\ doneClosed
       \/ spc = "full"
    /\ sock' = [sock EXCEPT ![cur] = "closed"]
    /\ cur' = None /\ spc' = "accept"
    /\ UNCHANGED <<semVars, doneClosed, userVars, nErrors, cpc, waitVars>>

\* s.wg.Add(1) panics when it finds the counter at zero and a waiter that has not
\* been woken yet: "WaitGroup misuse: Add called concurrently with Wait".
AddClient ==
    /\ spc = "add"
    /\ wg' = wg + 1
    /\ panicked' = (wg = 0 /\ wpc = "asleep")
    /\ spc' = "spawn"
    /\ UNCHANGED <<sem, doneClosed, userVars, cur, nErrors, connVars, wpc>>

SpawnClient ==
    /\ spc = "spawn"
    /\ cpc' = [cpc EXCEPT ![cur] = "start"]
    /\ cur' = None /\ spc' = "accept"
    /\ UNCHANGED <<semVars, doneClosed, userVars, nErrors, sock, waitVars>>

\* The owner of the listener closes it.
ListenerClose ==
    /\ listening
    /\ listening' = FALSE
    /\ UNCHANGED <<semVars, doneClosed, HandshakeTimeout, serveVars, connVars, waitVars>>

-----------------------------------------------------------------------------
\* client(conn), in a goroutine of its own.

Goto(c, s) == cpc' = [cpc EXCEPT ![c] = s]

Stay == UNCHANGED <<doneClosed, userVars, serveVars, waitVars>>

SetDeadline(c) ==
    /\ cpc[c] = "start"
    /\ Goto(c, "handshake")
    /\ Stay /\ UNCHANGED <<semVars, sock>>

SetDeadlineFail(c) ==
    /\ cpc[c] = "start" /\ HandshakeTimeout
    /\ Goto(c, "release")
    /\ Stay /\ UNCHANGED <<semVars, sock>>

HandshakeOk(c) ==
    /\ cpc[c] = "handshake"
    /\ Goto(c, "new")
    /\ Stay /\ UNCHANGED <<semVars, sock>>

\* Handshake, or SetDeadline(zeroTime) after it, fails: the peer misbehaves or leaves.
HandshakeFail(c) ==
    /\ cpc[c] = "handshake"
    /\ Goto(c, "release")
    /\ Stay /\ UNCHANGED <<semVars, sock>>

Deadline_Never(c) == FALSE

\* The deadline ends a handshake whose peer stays silent.
Deadline(c) == HandshakeTimeout

HandshakeTimesOut(c) == Deadline(c) /\ HandshakeFail(c)

\* HandleConnState(cc, StateNew).
ReportNew(c) ==
    /\ cpc[c] = "new"
    /\ Goto(c, "handling")
    /\ Stay /\ UNCHANGED <<semVars, sock>>

\* cc.close(cc.Handle(..)): Handle closes the socket (module Conn).
ConnEnds(c) ==
    /\ cpc[c] = "handling"
    /\ sock' = [sock EXCEPT ![c] = "closed"]
    /\ Goto(c, "ended")
    /\ Stay /\ UNCHANGED semVars

\* HandleConnState(cc, StateClosed).
ReportClosed(c) ==
    /\ cpc[c] = "ended"
    /\ Goto(c, "release")
    /\ Stay /\ UNCHANGED <<semVars, sock>>

ReleaseSlot_Twice(c) ==
    /\ sem' = IF sem > 1 THEN sem - 2 ELSE sem - 1
    /\ Goto(c, "close")

\* The deferred <-s.sem.
ReleaseSlot(c) ==
    /\ sem > 0
    /\ sem' = sem - 1
    /\ Goto(c, "close")

Release(c) ==
    /\ cpc[c] = "release"
    /\ ReleaseSlot(c)
    /\ Stay /\ UNCHANGED <<wg, sock>>

CloseSocket(c) ==
    /\ cpc[c] = "close"
    /\ sock' = [sock EXCEPT ![c] = "closed"]
    /\ Goto(c, "done")
    /\ Stay /\ UNCHANGED semVars

ClientDone_Twice(c) ==
    /\ cpc[c] = "done"
    /\ wg' = IF wg > 1 THEN wg - 2 ELSE 0
    /\ panicked' = (wg < 2)
    /\ Goto(c, IF wg = 2 /\ wpc = "asleep" THEN "wake" ELSE "exited")
    /\ UNCHANGED <<sem, doneClosed, userVars, serveVars, sock, wpc>>

\* The deferred s.wg.Done(), which panics below zero: whoever brings the counter
\* to zero wakes the waiter.
ClientDone(c) ==
    /\ cpc[c] = "done"
    /\ wg' = IF wg > 0 THEN wg - 1 ELSE wg
    /\ panicked' = (wg = 0)
    /\ Goto(c, IF wg = 1 /\ wpc = "asleep" THEN "wake" ELSE "exited")
    /\ UNCHANGED <<sem, doneClosed, userVars, serveVars, sock, wpc>>

Wake(c) ==
    /\ cpc[c] = "wake"
    /\ wpc' = "woken"
    /\ Goto(c, "exited")
    /\ UNCHANGED <<semVars, doneClosed, userVars, serveVars, sock, panicked>>

\* What the goroutine of a connection does next, whatever its peer does.
Client(c) ==
    \/ SetDeadline(c) \/ HandshakeTimesOut(c) \/ ReportNew(c) \/ ReportClosed(c)
    \/ Release(c) \/ CloseSocket(c) \/ ClientDone(c) \/ Wake(c)

-----------------------------------------------------------------------------
\* Shutdown is called at most once: a second close of done panics.
Shutdown ==
    /\ wpc = "idle"
    /\ doneClosed' = TRUE
    /\ wpc' = "wait"
    /\ UNCHANGED <<semVars, userVars, serveVars, connVars, panicked>>

AllDone_AtMostOne == wg <= 1
AllDone == wg = 0

\* s.wg.Wait: it returns if the counter is zero, or becomes a waiter.
WaitTest ==
    /\ wpc = "wait"
    /\ wpc' = IF AllDone THEN "returned" ELSE "asleep"
    /\ UNCHANGED <<semVars, doneClosed, userVars, serveVars, connVars, panicked>>

\* The waiter runs again, and panics if the counter has left zero meanwhile:
\* "WaitGroup is reused before previous Wait has returned".
WaitReturns ==
    /\ wpc = "woken"
    /\ IF wg = 0 THEN wpc' = "returned" /\ UNCHANGED panicked
                 ELSE panicked' = TRUE /\ UNCHANGED wpc
    /\ UNCHANGED <<semVars, doneClosed, userVars, serveVars, connVars>>

Waiter == WaitTest \/ WaitReturns

Serve == Backoff \/ TakeSlot \/ Full \/ Refuse \/ AddClient \/ SpawnClient

Next ==
    /\ ~panicked
    /\ \/ \E c \in Conns : Accept(c)
       \/ AcceptError \/ AcceptFails \/ Serve \/ ListenerClose
       \/ \E c \in Conns : Client(c) \/ SetDeadlineFail(c) \/ HandshakeOk(c)
                           \/ HandshakeFail(c) \/ ConnEnds(c)
       \/ Shutdown \/ Waiter

Spec == Init /\ [][Next]_vars

\* Goroutines that can run do, timers fire, Accept on a closed listener fails.
\* Nothing obliges a peer to connect, to complete a handshake or to leave, nor
\* Handle to return (module Conn).
Fairness ==
    /\ WF_vars(~panicked /\ Serve)
    /\ WF_vars(~panicked /\ ~listening /\ AcceptFails)
    /\ \A c \in Conns : WF_vars(~panicked /\ Client(c))
    /\ WF_vars(~panicked /\ Waiter)

FairSpec == Spec /\ Fairness

-----------------------------------------------------------------------------
(***************************************************************************)
(* Properties.                                                             *)
(***************************************************************************)

\* Connections whose slot of sem is taken and not yet given back.
HoldsSlot(c) ==
    \/ cpc[c] \in {"start", "handshake", "new", "handling", "ended", "release"}
    \/ cur = c /\ spc \in {"add", "spawn"}

\* Every slot of sem belongs to exactly one admitted connection, so that none is
\* lost on any path through client() and at most MaxConns are served at a time
\* (and all variables have their types, sem included).
SlotsAccounted == TypeOK /\ sem = Cardinality({c \in Conns : HoldsSlot(c)})

\* The goroutines that Shutdown waits for are exactly those between wg.Add and
\* wg.Done: the counter cannot go below zero, nor stay above it.
GoroutinesAccounted ==
    wg = Cardinality({c \in Conns :
             \/ cpc[c] \notin {"none", "wake", "exited"}
             \/ cur = c /\ spc = "spawn"})

\* A socket that Accept returned is closed, or somebody is still responsible for
\* closing it: Serve has it in hand, or the connection's goroutine runs.
SocketsOwned ==
    \A c \in Conns : sock[c] = "open" =>
        \/ cur = c /\ spc \in {"admit", "full", "add", "spawn"}
        \/ cpc[c] \in {"start", "handshake", "new", "handling", "release", "close"}

\* Shutdown returns only at a moment when no goroutine of a connection is running:
\* all those that were being served when it was called have closed their sockets.
ShutdownWaits ==
    [][wpc # "returned" /\ wpc' = "returned" =>
         \A c \in Conns : cpc[c] \in {"none", "exited"}]_vars

\* The WaitGroup panics neither when it counts nor when it wakes the caller of
\* Shutdown, provided that Shutdown is called only when Serve has returned.  The
\* proviso is needed: Serve goes on admitting connections after Shutdown.
ShutdownSafe == [](doneClosed => spc = "returned") => []~panicked

\* The goroutine of c waits for what nothing here brings about: for its handshake,
\* without a deadline, or for Handle, which has been told to end, to return.
Hangs(c) ==
    \/ cpc[c] = "handshake" /\ ~HandshakeTimeout
    \/ cpc[c] = "handling" /\ doneClosed

\* Unless some connection hangs, Shutdown returns, or the process panics, however
\* many connections are being admitted, shake hands or are served when it is called.
ShutdownReturns ==
    (\A c \in Conns : []<>~Hangs(c)) =>
        (wpc = "wait" ~> wpc = "returned" \/ panicked)

\* Every accepted connection that does not hang ends after Shutdown, the late
\* admitted included, and its socket is closed.
LateConnectionsEnd ==
    \A c \in Conns :
        []<>~Hangs(c) => ((doneClosed /\ sock[c] = "open") ~> sock[c] = "closed" \/ panicked)

=============================================================================

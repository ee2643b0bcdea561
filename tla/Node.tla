-------------------------------- MODULE Node --------------------------------
(***************************************************************************)
(* The life of a StreamNode: Start, Shutdown and Bootstrap of              *)
(* streaming_rpc/streamnode.go.                                            *)
(*                                                                         *)
(* Bootstrap walks over the peers that its routing table and the peers     *)
(* themselves name.  Its loop hands every peer of the bounded channel      *)
(* queue to a goroutine, at most cap(busy) at a time; the goroutine probes *)
(* the peer, asks it for more, and sends those not seen before to queue    *)
(* while it holds mu.  Start and Shutdown may be called by any goroutine.  *)
(***************************************************************************)
EXTENDS Naturals, Sequences, FiniteSets

CONSTANTS
    Peers,       \* the nodes of the network, by public key
    Closest,     \* what the routing table may name when Bootstrap begins
    Answers,     \* [Peers -> ..], what each peer may name when it is asked
    Self,        \* n.KadId.Pub, which a peer may also name
    BucketSize,  \* kademlia.DefaultBucketSize
    Callers,     \* goroutines that call Start or Shutdown
    Nobody       \* mu is free; the loop holds no peer

ASSUME NodeAssumption ==
    /\ IsFiniteSet(Peers) /\ Self \notin Peers /\ Nobody \notin Peers \cup {Self}
    /\ BucketSize \in Nat \ {0}
    /\ Closest \subseteq SUBSET Peers
    /\ Answers \in [Peers -> SUBSET SUBSET (Peers \cup {Self})]

VARIABLES
    loop, held,               \* the loop of Bootstrap, and the peer it has taken
    queue, busy, visited, mu, \* channels (busy: its length), map and mutex
    work, found,              \* per peer: its goroutine; peers it has yet to send
    startOnce, stopOnce,      \* the sync.Onces of the node: has Do run?
    srv, shutdowns, call      \* n.Srv; calls of n.Srv.Shutdown; the callers

bootVars == <<loop, held, queue, busy, visited, mu, work, found>>
lifeVars == <<startOnce, stopOnce, srv, shutdowns, call>>
vars == <<bootVars, lifeVars>>

TypeOK ==
    /\ loop \in {"idle", "testQueue", "testBusy", "select", "enter", "returned"}
    /\ held \in Peers \cup {Nobody}
    /\ queue \in Seq(Peers) /\ Len(queue) <= BucketSize /\ busy \in 0 .. BucketSize
    /\ visited \subseteq Peers \cup {Self} /\ mu \in Peers \cup {Nobody}
    /\ work \in [Peers -> {"none", "call", "lock", "send", "leave", "done"}]
    /\ found \in [Peers -> SUBSET (Peers \cup {Self})]
    /\ startOnce \in BOOLEAN /\ stopOnce \in BOOLEAN
    /\ srv \in {"nil", "set"} /\ shutdowns \in Nat
    /\ call \in [Callers -> {"idle", "setServer", "stop", "shutdown", "started",
                             "refused", "stopped", "panic"}]

Init ==
    /\ loop = "idle" /\ held = Nobody
    /\ queue = <<>> /\ busy = 0 /\ visited = {} /\ mu = Nobody
    /\ work = [p \in Peers |-> "none"] /\ found = [p \in Peers |-> {}]
    /\ startOnce = FALSE /\ stopOnce = FALSE /\ srv = "nil" /\ shutdowns = 0
    /\ call = [c \in Callers |-> "idle"]

-----------------------------------------------------------------------------
\* Bootstrap.

Bootstrap ==
    /\ loop = "idle"
    /\ \E kids \in Closest :
        /\ Cardinality(kids) <= BucketSize
        /\ visited' = IF kids = {} THEN {} ELSE kids \cup {Self}
        /\ queue' \in {q \in [1 .. Cardinality(kids) -> kids] :
                          \A i, j \in DOMAIN q : q[i] = q[j] => i = j}
        /\ loop' = IF kids = {} THEN "returned" ELSE "testQueue"
    /\ UNCHANGED <<held, busy, mu, work, found, lifeVars>>

\* len(queue) > 0 || len(busy) > 0, one length after the other.
TestQueue ==
    /\ loop = "testQueue"
    /\ loop' = IF queue # <<>> THEN "select" ELSE "testBusy"
    /\ UNCHANGED <<held, queue, busy, visited, mu, work, found, lifeVars>>

Idle_NotAsked(n) == TRUE
Idle(n) == n = 0

TestBusy ==
    /\ loop = "testBusy"
    /\ loop' = IF Idle(busy) THEN "returned" ELSE "select"
    /\ UNCHANGED <<held, queue, busy, visited, mu, work, found, lifeVars>>

\* select: a peer of the queue, or else a sleep.
Select ==
    /\ loop = "select"
    /\ \/ /\ queue # <<>>
          /\ held' = Head(queue) /\ queue' = Tail(queue) /\ loop' = "enter"
       \/ /\ queue = <<>>
          /\ loop' = "testQueue" /\ UNCHANGED <<held, queue>>
    /\ UNCHANGED <<busy, visited, mu, work, found, lifeVars>>

\* busy <- struct{}{}, and the goroutine.
HasPlace_Always(n) == TRUE
HasPlace(n) == n < BucketSize

Enter ==
    /\ loop = "enter" /\ HasPlace(busy)
    /\ busy' = busy + 1
    /\ work' = [work EXCEPT ![held] = "call"]
    /\ held' = Nobody /\ loop' = "testQueue"
    /\ UNCHANGED <<queue, visited, mu, found, lifeVars>>

\* Get, probe and FindNode of the goroutine for peer p: one of them fails, or
\* the peer names others; nothing bounds how many.
Call(p) ==
    /\ work[p] = "call"
    /\ \/ work' = [work EXCEPT ![p] = "leave"] /\ UNCHANGED found
       \/ /\ work' = [work EXCEPT ![p] = "lock"]
          /\ \E kids \in Answers[p] : found' = [found EXCEPT ![p] = kids]
    /\ UNCHANGED <<loop, held, queue, busy, visited, mu, lifeVars>>

\* Peers that have been seen are skipped, and those that it names twice.
Unseen_Any(p) == found[p] \ {Self}
Unseen(p) == found[p] \ visited

Free_NotAsked(m) == TRUE
Free(m) == m = Nobody

Lock(p) ==
    /\ work[p] = "lock" /\ Free(mu)
    /\ mu' = p /\ work' = [work EXCEPT ![p] = "send"]
    /\ found' = [found EXCEPT ![p] = Unseen(p)]
    /\ UNCHANGED <<loop, held, queue, busy, visited, lifeVars>>

\* The next peer of res.Closest is marked and sent.
SendPeer(p) ==
    /\ work[p] = "send" /\ Len(queue) < BucketSize
    /\ \E kid \in found[p] :
        /\ visited' = visited \cup {kid}
        /\ queue' = Append(queue, kid)
        /\ found' = [found EXCEPT ![p] = @ \ {kid}]
    /\ UNCHANGED <<loop, held, busy, mu, work, lifeVars>>

Unlocked_StillHeld(p) == p
Unlocked(p) == Nobody

Unlock(p) ==
    /\ work[p] = "send" /\ found[p] = {}
    /\ mu' = Unlocked(p) /\ work' = [work EXCEPT ![p] = "leave"]
    /\ UNCHANGED <<loop, held, queue, busy, visited, found, lifeVars>>

\* defer func() { <-busy }()
Left(n) == n - 1

Leave(p) ==
    /\ work[p] = "leave"
    /\ busy' = Left(busy) /\ work' = [work EXCEPT ![p] = "done"]
    /\ UNCHANGED <<loop, held, queue, visited, mu, found, lifeVars>>

-----------------------------------------------------------------------------
\* Start and Shutdown: a Once runs its function for the first caller only.

Start(c) ==
    /\ call[c] = "idle"
    /\ call' = [call EXCEPT ![c] = IF startOnce THEN "refused" ELSE "setServer"]
    /\ startOnce' = TRUE
    /\ UNCHANGED <<stopOnce, srv, shutdowns, bootVars>>

SetStreamTransmitServer(c) ==
    /\ call[c] = "setServer"
    /\ srv' = "set" /\ call' = [call EXCEPT ![c] = "started"]
    /\ UNCHANGED <<startOnce, stopOnce, shutdowns, bootVars>>

\* A Shutdown before any Start uses up the start Once and returns.
Shutdown(c) ==
    /\ call[c] = "idle"
    /\ call' = [call EXCEPT ![c] = IF startOnce THEN "stop" ELSE "stopped"]
    /\ startOnce' = TRUE
    /\ UNCHANGED <<stopOnce, srv, shutdowns, bootVars>>

First_Always(once) == TRUE
First(once) == ~once

StopOnce(c) ==
    /\ call[c] = "stop"
    /\ call' = [call EXCEPT ![c] = IF First(stopOnce) THEN "shutdown" ELSE "stopped"]
    /\ stopOnce' = TRUE
    /\ UNCHANGED <<startOnce, srv, shutdowns, bootVars>>

\* n.Srv.Shutdown(): Srv is still nil if Start has not come to set it.
ShutdownServer(c) ==
    /\ call[c] = "shutdown"
    /\ \/ /\ srv = "set"
          /\ shutdowns' = shutdowns + 1 /\ call' = [call EXCEPT ![c] = "stopped"]
       \/ /\ srv = "nil"
          /\ call' = [call EXCEPT ![c] = "panic"] /\ UNCHANGED shutdowns
    /\ UNCHANGED <<startOnce, stopOnce, srv, bootVars>>

-----------------------------------------------------------------------------
Loop == TestQueue \/ TestBusy \/ Select \/ Enter
Goroutine(p) == Lock(p) \/ SendPeer(p) \/ Unlock(p) \/ Leave(p)
CallGoesOn(c) == SetStreamTransmitServer(c) \/ StopOnce(c) \/ ShutdownServer(c)

Bootstrapping == Bootstrap \/ Loop \/ \E p \in Peers : Call(p) \/ Goroutine(p)
Calling == \E c \in Callers : Start(c) \/ Shutdown(c) \/ CallGoesOn(c)

Next == Bootstrapping \/ Calling

Spec == Init /\ [][Next]_vars

\* The scheduler runs every goroutine.  Nothing makes Get and Request return: a
\* peer may never answer, and a Client without a ReadTimeout sets no deadline.
Fairness == WF_vars(Loop) /\ \A p \in Peers : WF_vars(Goroutine(p))

FairSpec == Spec /\ Fairness

-----------------------------------------------------------------------------
\* Properties.

Working(p) == work[p] \in {"call", "lock", "send", "leave"}
Queued == {queue[i] : i \in DOMAIN queue}

\* No peer is probed twice: a peer is in the queue, in the loop's hands or with
\* a goroutine, and in one of them only (and all variables have their types, no
\* channel holding more than it can).
ProbedOnce ==
    /\ TypeOK
    /\ Cardinality(Queued) = Len(queue)
    /\ \A p \in Queued : work[p] = "none" /\ p # held
    /\ held # Nobody => work[held] = "none"

\* busy counts the goroutines, whichever way each of them ends, so that Bootstrap
\* does not return before the last of them has left, although it looks at the
\* two channels one after the other.
NoneOutlives ==
    /\ busy = Cardinality({p \in Peers : Working(p)})
    /\ loop = "returned" => \A p \in Peers : ~Working(p)

\* The loop waits for a place in busy, and the owner of mu for one in queue.
Standstill ==
    /\ loop = "enter" /\ busy = BucketSize
    /\ Len(queue) = BucketSize /\ \E p \in Peers : work[p] = "send" /\ found[p] # {}

\* The peers that Bootstrap has come to know.
Discovered == (visited \cup UNION {found[p] : p \in {p \in Peers : work[p] = "send"}}) \ {Self}

\* The channels are large enough for 2 * BucketSize + 1 peers: loop and goroutines
\* do not wait for each other before Bootstrap has discovered one more than that.
StandstillNeedsPeers == Standstill => Cardinality(Discovered) >= 2 * BucketSize + 2

\* Nobody will leave busy: every goroutine waits for mu, whose owner waits too.
Deadlocked == Standstill /\ \A p \in Peers : Working(p) => work[p] \in {"lock", "send"}

\* Such a standstill is for good, and Bootstrap never returns: no timeout or failure
\* of a call ends it.
DeadlockStays == [][Deadlocked => Deadlocked']_vars

\* If every call of a peer returns, then so does Bootstrap, unless it deadlocks; that
\* is all that can keep it from it.
BootstrapReturns ==
    (\A p \in Peers : []<>(work[p] # "call")) =>
        (loop = "testQueue" ~> loop = "returned" \/ Deadlocked)

\* Server.Shutdown, which closes a channel and panics the second time
\* (server.go:255), is called once at most, whatever callers do.
ServerShutdownOnce == shutdowns <= 1

=============================================================================

----------------------------- MODULE NodeProofs -----------------------------
(***************************************************************************)
(* Theorems about Node: Bootstrap over any finite network, and Start and   *)
(* Shutdown for any set of callers.                                        *)
(*                                                                         *)
(* A peer enters queue at most once because it is marked in visited, under *)
(* mu, by the one goroutine that sends it.  From there the peers in queue, *)
(* in the loop's hands, with a goroutine and about to be sent are distinct *)
(* ones; counting them gives the number of peers that loop and goroutines  *)
(* need to wait for each other, which they then do for good.               *)
(***************************************************************************)
EXTENDS Node, SeqProofs

Workers == {p \in Peers : Working(p)}

\* The loop of Bootstrap: before its first step nothing has happened, after its
\* return no goroutine runs.
LoopShape ==
    /\ loop = "enter" <=> held # Nobody
    /\ loop = "idle" => queue = <<>> /\ mu = Nobody /\ \A p \in Peers : work[p] = "none"
    /\ loop = "returned" => \A p \in Peers : ~Working(p)

\* Peers that are queued, held or with a goroutine have been visited, are distinct,
\* and a peer is sent for the first time.
Once ==
    /\ Distinct(queue)
    /\ \A i \in DOMAIN queue :
         queue[i] \in visited /\ work[queue[i]] = "none" /\ queue[i] # held
    /\ held # Nobody => held \in visited /\ work[held] = "none"
    /\ \A p \in Peers : work[p] # "none" => p \in visited
    /\ loop \notin {"idle", "returned"} => Self \in visited
    /\ \A p \in Peers : Working(p) => Self \in visited

\* mu belongs to the goroutine that sends, and those it sends are unseen.
Locked ==
    \A p \in Peers :
        /\ work[p] = "send" <=> mu = p
        /\ work[p] = "send" => found[p] \cap visited = {}

Counted == busy = Cardinality(Workers)

\* Of all calls of Shutdown one passes stopOnce, and it alone calls n.Srv.Shutdown.
StopShape ==
    /\ ~stopOnce => shutdowns = 0 /\ \A c \in Callers : call[c] # "shutdown"
    /\ \A c \in Callers : call[c] = "shutdown" => shutdowns = 0
    /\ \A c, d \in Callers : call[c] = "shutdown" /\ call[d] = "shutdown" => c = d
    /\ shutdowns <= 1

IInv == TypeOK /\ LoopShape /\ Once /\ Locked /\ Counted /\ StopShape

-----------------------------------------------------------------------------
\* Counting.

\* A set of peers is finite, and its size a natural number.
LEMMA PeersFinite ==
    ASSUME NEW S \in SUBSET Peers
    PROVE  IsFiniteSet(S) /\ Cardinality(S) \in Nat /\ Cardinality(S) <= Cardinality(Peers)
BY NodeAssumption, FS_Subset, FS_CardinalityType

-----------------------------------------------------------------------------
\* The invariant is inductive.

\* It holds in a node on which nothing has been called.
LEMMA InitIInv == Init => IInv
<1> SUFFICES ASSUME Init
             PROVE  IInv
  OBVIOUS
<1>1. startOnce \in BOOLEAN /\ stopOnce \in BOOLEAN
  BY DEF Init
<1>2. TypeOK
  BY <1>1, NodeAssumption DEF Init, TypeOK
<1>3. LoopShape /\ Once /\ StopShape
  BY DEF Init, LoopShape, Once, StopShape, Working, Distinct
<1>4. Locked
  BY NodeAssumption DEF Init, Locked
<1>5. Workers = {}
  BY DEF Init, Workers, Working
<1>6. QED
  BY <1>2, <1>3, <1>4, <1>5, FS_EmptySet DEF Init, IInv, Counted

\* Bootstrap queues the peers of its routing table, each of them once.
LEMMA BootstrapStep ==
    ASSUME IInv, Bootstrap
    PROVE  IInv'
<1>0. TypeOK /\ LoopShape /\ Once /\ Locked /\ Counted /\ StopShape
  BY DEF IInv
<1>1. PICK kids \in SUBSET Peers :
        /\ Cardinality(kids) <= BucketSize
        /\ visited' = IF kids = {} THEN {} ELSE kids \cup {Self}
        /\ queue' \in [1 .. Cardinality(kids) -> kids]
        /\ Distinct(queue')
        /\ loop' = IF kids = {} THEN "returned" ELSE "testQueue"
  BY NodeAssumption DEF Bootstrap, Distinct
<1>2. loop = "idle" /\ UNCHANGED <<held, busy, mu, work, found, lifeVars>>
  BY DEF Bootstrap
<1>3. queue' \in Seq(kids) /\ Len(queue') <= BucketSize
      /\ DOMAIN queue' = 1 .. Cardinality(kids)
  <2>1. Cardinality(kids) \in Nat
    BY PeersFinite
  <2>2. QED
    BY <1>1, <2>1, FunctionIsSeq
<1>4. queue' \in Seq(Peers)
  BY <1>3
<1>5. TypeOK'
  BY <1>0, <1>1, <1>2, <1>3, <1>4 DEF TypeOK, lifeVars
<1>6. held = Nobody /\ mu = Nobody /\ \A p \in Peers : work[p] = "none"
  BY <1>0, <1>2 DEF LoopShape
<1>7. LoopShape' /\ Locked'
  BY <1>1, <1>2, <1>6, NodeAssumption DEF LoopShape, Locked, Working
<1>8. \A i \in DOMAIN queue' : queue'[i] \in kids
  BY <1>1, <1>3
<1>9. Once'
  <2>1. \A i \in DOMAIN queue' :
          queue'[i] \in visited' /\ work'[queue'[i]] = "none" /\ queue'[i] # held'
    BY <1>1, <1>2, <1>6, <1>8, NodeAssumption
  <2>2. loop' \notin {"idle", "returned"} => Self \in visited'
    BY <1>1
  <2>3. QED
    BY <1>1, <1>2, <1>6, <2>1, <2>2 DEF Once, Working
<1>10. Counted' /\ StopShape'
  BY <1>0, <1>2 DEF Counted, Workers, Working, StopShape, lifeVars
<1>11. QED
  BY <1>5, <1>7, <1>9, <1>10 DEF IInv

\* The steps of the loop.
LEMMA LoopSteps ==
    ASSUME IInv, Loop
    PROVE  IInv'
<1> USE DEF lifeVars
<1>0. TypeOK /\ LoopShape /\ Once /\ Locked /\ Counted /\ StopShape
  BY DEF IInv
<1>1. CASE TestQueue \/ TestBusy
  <2>1. UNCHANGED <<held, queue, busy, visited, mu, work, found, startOnce, stopOnce, srv,
                    shutdowns, call>>
    BY <1>1 DEF TestQueue, TestBusy
  <2>2. loop \in {"testQueue", "testBusy"} /\ loop' \in {"testBusy", "select", "returned"}
    BY <1>1 DEF TestQueue, TestBusy
  <2>3. TypeOK'
    BY <1>0, <2>1, <2>2 DEF TypeOK
  <2>4. loop' = "returned" => \A p \in Peers : ~Working(p)
    <3>1. SUFFICES ASSUME loop' = "returned"
                   PROVE  \A p \in Peers : ~Working(p)
      OBVIOUS
    <3>2. Cardinality(Workers) = 0
      BY <1>0, <1>1, <3>1 DEF TestQueue, TestBusy, Idle, Counted
    <3>3. Workers = {}
      BY <3>2, PeersFinite, FS_EmptySet DEF Workers
    <3>4. QED
      BY <3>3 DEF Workers
  <2>5. LoopShape'
    BY <1>0, <2>1, <2>2, <2>4 DEF LoopShape, Working
  <2>6. Once' /\ Locked'
    BY <1>0, <2>1, <2>2 DEF Once, Locked, Working
  <2>7. Counted' /\ StopShape'
    BY <1>0, <2>1 DEF Counted, Workers, Working, StopShape
  <2>8. QED
    BY <2>3, <2>5, <2>6, <2>7 DEF IInv
<1>2. CASE Select /\ queue # <<>>
  <2>1. /\ held' = Head(queue) /\ queue' = Tail(queue) /\ loop' = "enter"
        /\ UNCHANGED <<busy, visited, mu, work, found, startOnce, stopOnce, srv, shutdowns,
                       call>>
        /\ loop = "select"
    BY <1>2 DEF Select
  <2>2. /\ Head(queue) = queue[1] /\ 1 \in DOMAIN queue /\ Head(queue) \in Peers
        /\ Tail(queue) \in Seq(Peers) /\ Len(Tail(queue)) = Len(queue) - 1
        /\ \A i \in DOMAIN Tail(queue) :
             i + 1 \in DOMAIN queue /\ i + 1 # 1 /\ Tail(queue)[i] = queue[i + 1]
        /\ DOMAIN Tail(queue) \subseteq Nat
    BY <1>0, <1>2 DEF TypeOK
  <2>3. TypeOK'
    BY <1>0, <2>1, <2>2, NodeAssumption DEF TypeOK
  <2>4. held' # Nobody
    BY <2>1, <2>2, NodeAssumption
  <2>5. LoopShape' /\ Locked'
    BY <1>0, <2>1, <2>4 DEF LoopShape, Locked, Working
  <2>6. Distinct(queue')
    <3>1. ASSUME NEW i \in DOMAIN queue', NEW j \in DOMAIN queue', queue'[i] = queue'[j]
          PROVE  i = j
      <4>1. queue[i + 1] = queue[j + 1] /\ i + 1 \in DOMAIN queue /\ j + 1 \in DOMAIN queue
        BY <2>1, <2>2, <3>1
      <4>2. i + 1 = j + 1 /\ i \in Nat /\ j \in Nat
        BY <1>0, <2>1, <2>2, <4>1 DEF Once, Distinct
      <4>3. QED
        BY <4>2
    <3>2. QED
      BY <3>1 DEF Distinct
  <2>7. \A i \in DOMAIN queue' :
          queue'[i] \in visited /\ work[queue'[i]] = "none" /\ queue'[i] # held'
    BY <1>0, <2>1, <2>2 DEF Once, Distinct
  <2>8. held' \in visited /\ work[held'] = "none"
    BY <1>0, <2>1, <2>2 DEF Once
  <2>9. Once'
    BY <1>0, <2>1, <2>6, <2>7, <2>8 DEF Once, Working
  <2>10. Counted' /\ StopShape'
    BY <1>0, <2>1 DEF Counted, Workers, Working, StopShape
  <2>11. QED
    BY <2>3, <2>5, <2>9, <2>10 DEF IInv
<1>3. CASE Select /\ queue = <<>>
  <2>1. UNCHANGED <<held, queue, busy, visited, mu, work, found, startOnce, stopOnce, srv,
                    shutdowns, call>>
    BY <1>3 DEF Select
  <2>2. loop = "select" /\ loop' = "testQueue"
    BY <1>3 DEF Select
  <2>3. TypeOK' /\ LoopShape'
    BY <1>0, <2>1, <2>2 DEF TypeOK, LoopShape
  <2>4. Once' /\ Locked'
    BY <1>0, <2>1, <2>2 DEF Once, Locked, Working
  <2>5. Counted' /\ StopShape'
    BY <1>0, <2>1 DEF Counted, Workers, Working, StopShape
  <2>6. QED
    BY <2>3, <2>4, <2>5 DEF IInv
<1>4. CASE Enter
  <2>1. held \in Peers /\ work[held] = "none" /\ held \in visited /\ Self \in visited
    BY <1>0, <1>4 DEF TypeOK, LoopShape, Once, Enter
  <2>2. TypeOK'
    BY <1>0, <1>4, <2>1, NodeAssumption DEF TypeOK, Enter, HasPlace
  <2>3. work' = [work EXCEPT ![held] = "call"] /\ work \in [Peers -> {"none", "call", "lock",
                   "send", "leave", "done"}]
    BY <1>0, <1>4 DEF TypeOK, Enter
  <2>4. LoopShape'
    BY <1>4, <2>1, <2>3 DEF LoopShape, Enter
  <2>5. Locked'
    BY <1>0, <1>4, <2>1, <2>3 DEF Locked, Enter
  <2>6. \A i \in DOMAIN queue : queue[i] \in Peers
    BY <1>0 DEF TypeOK
  <2>7. Once'
    BY <1>0, <1>4, <2>1, <2>3, <2>6, NodeAssumption DEF Once, Enter, Working
  <2>8. Workers' = Workers \cup {held} /\ held \notin Workers
    BY <2>1, <2>3 DEF Workers, Working
  <2>9. Cardinality(Workers \cup {held}) = Cardinality(Workers) + 1
    BY <2>8, PeersFinite, FS_AddElement DEF Workers
  <2>10. Counted' /\ StopShape'
    BY <1>0, <1>4, <2>8, <2>9 DEF Counted, Enter, StopShape
  <2>11. QED
    BY <2>2, <2>4, <2>5, <2>7, <2>10 DEF IInv
<1>5. QED
  BY <1>1, <1>2, <1>3, <1>4 DEF Loop, Select

\* The steps of the goroutine of a peer.
LEMMA GoroutineSteps ==
    ASSUME IInv, NEW p \in Peers, Call(p) \/ Goroutine(p)
    PROVE  IInv'
<1> USE DEF lifeVars
<1>0. /\ TypeOK /\ LoopShape /\ Once /\ Locked /\ Counted /\ StopShape
      /\ work \in [Peers -> {"none", "call", "lock", "send", "leave", "done"}]
      /\ found \in [Peers -> SUBSET (Peers \cup {Self})]
  BY DEF IInv, TypeOK
<1>1. Working(p)
  BY DEF Goroutine, Call, Lock, SendPeer, Unlock, Leave, Working
<1>2. /\ p \in visited /\ Self \in visited /\ p # held /\ \A i \in DOMAIN queue : queue[i] # p
      /\ loop # "idle" /\ loop # "returned"
  BY <1>0, <1>1, NodeAssumption DEF Once, LoopShape, Working
<1>3. CASE Call(p)
  <2>1. PICK s \in {"leave", "lock"} : work' = [work EXCEPT ![p] = s]
    BY <1>3 DEF Call
  <2>2. /\ work[p] = "call"
        /\ UNCHANGED <<loop, held, queue, busy, visited, mu, startOnce, stopOnce, srv,
                       shutdowns, call>>
    BY <1>3 DEF Call
  <2>3. \A q \in Peers : q # p => found'[q] = found[q]
    BY <1>0, <1>3 DEF Call
  <2>4. found' \in [Peers -> SUBSET (Peers \cup {Self})]
    <3>1. Answers[p] \subseteq SUBSET (Peers \cup {Self})
      BY NodeAssumption
    <3>2. QED
      BY <1>0, <1>3, <3>1 DEF Call
  <2>5. TypeOK'
    BY <1>0, <2>1, <2>2, <2>4 DEF TypeOK
  <2>6. LoopShape' /\ Once'
    BY <1>0, <1>2, <2>1, <2>2 DEF LoopShape, Once, Working
  <2>7. Locked'
    BY <1>0, <2>1, <2>2, <2>3 DEF Locked
  <2>8. Workers' = Workers
    BY <1>0, <2>1, <2>2 DEF Workers, Working
  <2>9. QED
    BY <1>0, <2>2, <2>5, <2>6, <2>7, <2>8 DEF IInv, Counted, StopShape
<1>4. CASE Lock(p)
  <2>1. /\ work[p] = "lock" /\ mu = Nobody /\ mu' = p
        /\ work' = [work EXCEPT ![p] = "send"]
        /\ found' = [found EXCEPT ![p] = Unseen(p)]
        /\ UNCHANGED <<loop, held, queue, busy, visited, startOnce, stopOnce, srv,
                       shutdowns, call>>
    BY <1>4 DEF Lock, Free
  <2>2. Unseen(p) \subseteq Peers \cup {Self} /\ Unseen(p) \cap visited = {}
    BY <1>0 DEF Unseen
  <2>3. TypeOK'
    BY <1>0, <2>1, <2>2 DEF TypeOK
  <2>4. LoopShape' /\ Once'
    BY <1>0, <1>2, <2>1 DEF LoopShape, Once, Working
  <2>5. Locked'
    BY <1>0, <2>1, <2>2, NodeAssumption DEF Locked
  <2>6. Workers' = Workers
    BY <1>0, <2>1 DEF Workers, Working
  <2>7. QED
    BY <1>0, <2>1, <2>3, <2>4, <2>5, <2>6 DEF IInv, Counted, StopShape
<1>5. CASE SendPeer(p)
  <2>1. PICK kid \in found[p] :
          /\ visited' = visited \cup {kid}
          /\ queue' = Append(queue, kid)
          /\ found' = [found EXCEPT ![p] = @ \ {kid}]
    BY <1>5 DEF SendPeer
  <2>2. /\ work[p] = "send" /\ Len(queue) < BucketSize
        /\ UNCHANGED <<loop, held, busy, mu, work, startOnce, stopOnce, srv, shutdowns, call>>
    BY <1>5 DEF SendPeer
  <2>3. kid \notin visited /\ kid # Self /\ kid \in Peers
    BY <1>0, <1>2, <2>1, <2>2 DEF Locked
  <2>4. work[kid] = "none" /\ kid # held /\ \A i \in DOMAIN queue : queue[i] # kid
    BY <1>0, <2>3, NodeAssumption DEF Once, TypeOK
  <2>5. /\ queue' \in Seq(Peers) /\ Len(queue') = Len(queue) + 1
        /\ DOMAIN queue' = 1 .. Len(queue) + 1 /\ DOMAIN queue = 1 .. Len(queue)
        /\ Len(queue) \in Nat
        /\ \A i \in DOMAIN queue : queue'[i] = queue[i]
        /\ queue'[Len(queue) + 1] = kid
    BY <1>0, <2>1, <2>3 DEF TypeOK
  <2>6. TypeOK'
    BY <1>0, <2>1, <2>2, <2>3, <2>5, NodeAssumption DEF TypeOK
  <2>7. LoopShape'
    BY <1>0, <1>2, <2>2 DEF LoopShape, Working
  <2>8. \A i \in DOMAIN queue' : i \in DOMAIN queue \/ i = Len(queue) + 1
    BY <2>5
  <2>9. Distinct(queue')
    BY <1>0, <2>4, <2>5, <2>8 DEF Once, Distinct
  <2>10. \A i \in DOMAIN queue' :
           queue'[i] \in visited' /\ work'[queue'[i]] = "none" /\ queue'[i] # held'
    BY <1>0, <2>1, <2>2, <2>4, <2>5, <2>8 DEF Once
  <2>11. Once'
    BY <1>0, <2>1, <2>2, <2>9, <2>10 DEF Once, Working
  <2>12. Locked'
    BY <1>0, <2>1, <2>2 DEF Locked
  <2>13. Workers' = Workers
    BY <2>2 DEF Workers, Working
  <2>14. QED
    BY <1>0, <2>2, <2>6, <2>7, <2>11, <2>12, <2>13 DEF IInv, Counted, StopShape
<1>6. CASE Unlock(p)
  <2>1. /\ work[p] = "send" /\ mu' = Nobody
        /\ work' = [work EXCEPT ![p] = "leave"]
        /\ UNCHANGED <<loop, held, queue, busy, visited, found, startOnce, stopOnce, srv,
                       shutdowns, call>>
    BY <1>6 DEF Unlock, Unlocked
  <2>2. TypeOK'
    BY <1>0, <2>1 DEF TypeOK
  <2>3. LoopShape' /\ Once'
    BY <1>0, <1>2, <2>1 DEF LoopShape, Once, Working
  <2>4. Locked'
    BY <1>0, <2>1, NodeAssumption DEF Locked
  <2>5. Workers' = Workers
    BY <1>0, <2>1 DEF Workers, Working
  <2>6. QED
    BY <1>0, <2>1, <2>2, <2>3, <2>4, <2>5 DEF IInv, Counted, StopShape
<1>7. CASE Leave(p)
  <2>1. /\ work[p] = "leave" /\ busy' = busy - 1
        /\ work' = [work EXCEPT ![p] = "done"]
        /\ UNCHANGED <<loop, held, queue, visited, mu, found, startOnce, stopOnce, srv,
                       shutdowns, call>>
    BY <1>7 DEF Leave, Left
  <2>2. Workers' = Workers \ {p} /\ p \in Workers
    BY <1>0, <1>1, <2>1 DEF Workers, Working
  <2>3. /\ Cardinality(Workers \ {p}) = Cardinality(Workers) - 1
        /\ Cardinality(Workers \ {p}) \in Nat
    <3>1. Workers \in SUBSET Peers /\ Workers \ {p} \in SUBSET Peers
      BY DEF Workers
    <3>2. QED
      BY <2>2, <3>1, PeersFinite, FS_RemoveElement
  <2>4. TypeOK'
    <3>1. busy' \in 0 .. BucketSize
      BY <1>0, <2>1, <2>3, NodeAssumption DEF TypeOK, Counted
    <3>2. QED
      BY <1>0, <2>1, <3>1 DEF TypeOK
  <2>5. LoopShape' /\ Once'
    BY <1>0, <1>2, <2>1 DEF LoopShape, Once, Working
  <2>6. Locked'
    BY <1>0, <2>1 DEF Locked
  <2>7. QED
    BY <1>0, <2>1, <2>2, <2>3, <2>4, <2>5, <2>6 DEF IInv, Counted, StopShape
<1>8. QED
  BY <1>3, <1>4, <1>5, <1>6, <1>7 DEF Goroutine

\* The steps of a caller of Start or Shutdown.
LEMMA CallerSteps ==
    ASSUME IInv, NEW c \in Callers, Start(c) \/ Shutdown(c) \/ CallGoesOn(c)
    PROVE  IInv'
<1>0. /\ TypeOK /\ LoopShape /\ Once /\ Locked /\ Counted /\ StopShape
      /\ call \in [Callers -> {"idle", "setServer", "stop", "shutdown", "started",
                               "refused", "stopped", "panic"}]
  BY DEF IInv, TypeOK
<1>1. UNCHANGED <<loop, held, queue, busy, visited, mu, work, found>>
  BY DEF Start, Shutdown, CallGoesOn, SetStreamTransmitServer, StopOnce, ShutdownServer,
         bootVars
<1>2. LoopShape' /\ Once' /\ Locked' /\ Counted'
  BY <1>0, <1>1 DEF LoopShape, Once, Locked, Counted, Workers, Working
<1>3. CASE Start(c) \/ Shutdown(c)
  <2>1. PICK s \in {"refused", "setServer", "stop", "stopped"} :
          call' = [call EXCEPT ![c] = s]
    BY <1>3 DEF Start, Shutdown
  <2>2. startOnce' \in BOOLEAN /\ UNCHANGED <<stopOnce, srv, shutdowns>>
    BY <1>3 DEF Start, Shutdown
  <2>3. TypeOK'
    BY <1>0, <1>1, <2>1, <2>2 DEF TypeOK
  <2>4. StopShape'
    BY <1>0, <2>1, <2>2 DEF StopShape
  <2>5. QED
    BY <1>2, <2>3, <2>4 DEF IInv
<1>4. CASE SetStreamTransmitServer(c)
  <2>1. TypeOK' /\ StopShape'
    BY <1>0, <1>1, <1>4 DEF TypeOK, SetStreamTransmitServer, StopShape
  <2>2. QED
    BY <1>2, <2>1 DEF IInv
<1>5. CASE StopOnce(c)
  <2>1. stopOnce' \in BOOLEAN
    BY <1>5 DEF StopOnce
  <2>2. TypeOK'
    BY <1>0, <1>1, <1>5, <2>1 DEF TypeOK, StopOnce, First
  <2>3. StopShape'
    BY <1>0, <1>5 DEF StopOnce, First, StopShape
  <2>4. QED
    BY <1>2, <2>2, <2>3 DEF IInv
<1>6. CASE ShutdownServer(c)
  <2>1. TypeOK'
    BY <1>0, <1>1, <1>6 DEF TypeOK, ShutdownServer
  <2>2. shutdowns = 0 /\ stopOnce
    BY <1>0, <1>6 DEF StopShape, ShutdownServer
  <2>3. \A d \in Callers : call'[d] # "shutdown"
    BY <1>0, <1>6 DEF StopShape, ShutdownServer
  <2>4. shutdowns' <= 1 /\ stopOnce' = stopOnce
    BY <1>6, <2>2 DEF ShutdownServer
  <2>5. StopShape'
    BY <2>2, <2>3, <2>4 DEF StopShape
  <2>6. QED
    BY <1>2, <2>1, <2>5 DEF IInv
<1>7. QED
  BY <1>3, <1>4, <1>5, <1>6 DEF CallGoesOn

\* Every step of the node keeps the invariant.
LEMMA NextIInv == IInv /\ [Next]_vars => IInv'
<1> SUFFICES ASSUME IInv, [Next]_vars
             PROVE  IInv'
  OBVIOUS
<1>1. CASE UNCHANGED vars
  BY <1>1 DEF vars, bootVars, lifeVars, IInv, TypeOK, LoopShape, Once, Locked, Counted,
              Workers, Working, StopShape
<1>2. QED
  BY <1>1, BootstrapStep, LoopSteps, GoroutineSteps, CallerSteps
     DEF Next, Bootstrapping, Calling

\* The invariant holds in every reachable state.
LEMMA Inductive == Spec => []IInv
BY InitIInv, NextIInv, PTL DEF Spec

-----------------------------------------------------------------------------
\* What Bootstrap, Start and Shutdown promise.

\* The peers in queue, in the loop's hands and with goroutines are all different,
\* so that none is probed twice, and no channel holds more than its capacity.
THEOREM ProbedOnceCorrect == Spec => []ProbedOnce
<1>1. IInv => ProbedOnce
  <2> SUFFICES ASSUME IInv
               PROVE  ProbedOnce
    OBVIOUS
  <2>1. Cardinality(Queued) = Len(queue)
    BY DistinctCount DEF IInv, TypeOK, Once, Queued
  <2>2. QED
    BY <2>1 DEF IInv, Once, Queued, ProbedOnce
<1>2. QED
  BY <1>1, Inductive, PTL

\* The length of busy is the number of goroutines, and when Bootstrap returns it is
\* zero: none outlives the call.
THEOREM NoneOutlivesCorrect == Spec => []NoneOutlives
<1>1. IInv => NoneOutlives
  BY DEF IInv, Counted, Workers, LoopShape, NoneOutlives
<1>2. QED
  BY <1>1, Inductive, PTL

\* The loop, waiting for a place in busy, and the owner of mu, waiting for one in
\* queue, do not wait at the same time in a network that Bootstrap has found to have
\* at most 2 * BucketSize + 1 peers.
THEOREM StandstillNeedsPeersCorrect == Spec => []StandstillNeedsPeers
<1>1. IInv => StandstillNeedsPeers
  <2> SUFFICES ASSUME IInv, loop = "enter", busy = BucketSize, Len(queue) = BucketSize,
                      NEW p \in Peers, work[p] = "send", found[p] # {}
               PROVE  Cardinality(Discovered) >= 2 * BucketSize + 2
    BY DEF StandstillNeedsPeers, Standstill
  <2>0. TypeOK /\ LoopShape /\ Once /\ Locked /\ Counted
    BY DEF IInv
  <2>1. PICK kid \in found[p] : TRUE
    OBVIOUS
  <2>2. kid \in Peers /\ kid \notin visited
    <3>1. Self \in visited /\ kid \notin visited
      BY <2>0, <2>1 DEF Once, Locked
    <3>2. QED
      BY <2>0, <2>1, <3>1 DEF TypeOK
  <2>3. held \in Peers /\ held \in visited /\ work[held] = "none"
    BY <2>0 DEF TypeOK, LoopShape, Once
  <2>4. /\ Queued \in SUBSET Peers /\ Workers \in SUBSET Peers
        /\ Queued \cap Workers = {}
        /\ held \notin Queued \cup Workers
        /\ kid \notin Queued \cup Workers \cup {held}
    BY <2>0, <2>2, <2>3 DEF TypeOK, Once, Queued, Workers, Working
  <2>5. Cardinality(Queued) = BucketSize /\ Cardinality(Workers) = BucketSize
    BY <2>0, DistinctCount DEF TypeOK, Once, Queued, Counted
  <2>6. Cardinality(Queued \cup Workers) = 2 * BucketSize
    <3>1. IsFiniteSet(Queued) /\ IsFiniteSet(Workers)
      BY <2>4, PeersFinite
    <3>2. Cardinality(Queued \cup Workers) =
            Cardinality(Queued) + Cardinality(Workers) - Cardinality({})
      BY <2>4, <3>1, FS_Union
    <3>3. Cardinality({}) = 0 /\ BucketSize \in Nat
      BY FS_EmptySet, NodeAssumption
    <3>4. QED
      BY <2>5, <3>2, <3>3
  <2>7. Cardinality(Queued \cup Workers \cup {held}) = 2 * BucketSize + 1
    BY <2>4, <2>6, PeersFinite, FS_AddElement
  <2>8. Cardinality(Queued \cup Workers \cup {held} \cup {kid}) = 2 * BucketSize + 2
    <3>1. Queued \cup Workers \cup {held} \in SUBSET Peers
      BY <2>3, <2>4
    <3>2. IsFiniteSet(Queued \cup Workers \cup {held})
      BY <3>1, PeersFinite
    <3>3. Cardinality(Queued \cup Workers \cup {held} \cup {kid}) =
            Cardinality(Queued \cup Workers \cup {held}) + 1
      BY <2>4, <3>2, FS_AddElement
    <3>4. QED
      BY <2>7, <3>3, NodeAssumption
  <2>9. Discovered \in SUBSET Peers
    BY <2>0 DEF TypeOK, Discovered
  <2>10. Queued \cup Workers \cup {held} \cup {kid} \subseteq Discovered
    <3>1. Queued \subseteq visited /\ Workers \subseteq visited
      BY <2>0 DEF Once, Queued, Workers, Working
    <3>2. kid \in UNION {found[q] : q \in {q \in Peers : work[q] = "send"}}
      BY <2>1
    <3>3. QED
      BY <2>2, <2>3, <2>4, <3>1, <3>2, NodeAssumption DEF Discovered
  <2>11. Cardinality(Queued \cup Workers \cup {held} \cup {kid}) <= Cardinality(Discovered)
    BY <2>9, <2>10, PeersFinite, FS_Subset
  <2>12. Cardinality(Discovered) \in Nat /\ BucketSize \in Nat
    BY <2>9, PeersFinite, NodeAssumption
  <2>13. QED
    BY <2>8, <2>11, <2>12
<1>2. QED
  BY <1>1, Inductive, PTL

\* When loop and goroutines do wait for each other, nothing in the node ends it: the
\* loop finds no place, mu is not free, and its owner finds no place either.
THEOREM DeadlockStaysCorrect == Spec => DeadlockStays
<1>1. IInv /\ [Next]_vars => [Deadlocked => Deadlocked']_vars
  <2> SUFFICES ASSUME IInv, Next, Deadlocked
               PROVE  Deadlocked'
    OBVIOUS
  <2>1. PICK s \in Peers : work[s] = "send" /\ found[s] # {}
    BY DEF Deadlocked, Standstill
  <2>2. /\ loop = "enter" /\ busy = BucketSize /\ Len(queue) = BucketSize
        /\ \A p \in Peers : Working(p) => work[p] \in {"lock", "send"}
    BY DEF Deadlocked, Standstill
  <2>3. mu = s /\ s # Nobody /\ BucketSize \in Nat
    BY <2>1, NodeAssumption DEF IInv, Locked
  <2>4. ~Bootstrap /\ ~Loop
    BY <2>2, <2>3 DEF Bootstrap, Loop, TestQueue, TestBusy, Select, Enter, HasPlace
  <2>5. ASSUME NEW p \in Peers
        PROVE  ~Call(p) /\ ~Goroutine(p)
    <3>1. ~Call(p) /\ ~Leave(p)
      BY <2>2 DEF Call, Leave, Working
    <3>2. ~Lock(p) /\ ~SendPeer(p)
      BY <2>2, <2>3 DEF Lock, Free, SendPeer
    <3>3. ~Unlock(p)
      BY <2>1, <2>3 DEF Unlock, IInv, Locked
    <3>4. QED
      BY <3>1, <3>2, <3>3 DEF Goroutine
  <2>6. UNCHANGED bootVars
    BY <2>4, <2>5 DEF Next, Bootstrapping, Calling, Start, Shutdown, CallGoesOn,
                      SetStreamTransmitServer, StopOnce, ShutdownServer
  <2>7. QED
    BY <2>6 DEF bootVars, Deadlocked, Standstill, Working
<1>2. QED
  BY <1>1, Inductive, PTL DEF Spec, DeadlockStays

\* n.Srv.Shutdown, whose second call would close a closed channel, is called at most
\* once, whatever goroutines call Start and Shutdown in whatever order.
THEOREM ServerShutdownOnceCorrect == Spec => []ServerShutdownOnce
<1>1. IInv => ServerShutdownOnce
  BY DEF IInv, StopShape, ServerShutdownOnce
<1>2. QED
  BY <1>1, Inductive, PTL
=============================================================================

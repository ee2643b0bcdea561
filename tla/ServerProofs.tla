---------------------------- MODULE ServerProofs ----------------------------
(***************************************************************************)
(* Theorems about Server, for any finite set of connections, any capacity  *)
(* of the semaphore and any number of errors of Accept.                    *)
(*                                                                         *)
(* The counters sem and wg are compared with sets: the connections that    *)
(* hold a slot, and those whose goroutine Shutdown waits for.  The proof   *)
(* first settles which step adds which connection to which set (Shape is   *)
(* what makes the additions and removals real), and then counts.  Whether  *)
(* Wait returns at the right moment also rests on who may wake it: Waking. *)
(***************************************************************************)
EXTENDS Server, FiniteSetTheorems, TLAPS

Slots == {c \in Conns : HoldsSlot(c)}

\* The goroutines between wg.Add and wg.Done.
Running == {c \in Conns : cpc[c] \notin {"none", "wake", "exited"} \/ (cur = c /\ spc = "spawn")}

InHand == {"admit", "full", "add", "spawn"}

\* Serve has a connection in hand exactly between Accept and the end of the
\* iteration; that connection has an open socket and no goroutine yet.
Shape ==
    /\ cur # None <=> spc \in InHand
    /\ cur # None => cpc[cur] = "none" /\ sock[cur] = "open"
    /\ \A c \in Conns : sock[c] = "none" => cpc[c] = "none"
    /\ SocketsOwned

Counted == sem = Cardinality(Slots) /\ wg = Cardinality(Running)

\* One goroutine at a time is waking the caller of Shutdown, which then still
\* sleeps, and nobody has been added since the counter came to zero.
Waking ==
    \A c \in Conns : cpc[c] = "wake" =>
        /\ wpc = "asleep" /\ (wg = 0 \/ panicked)
        /\ \A d \in Conns : cpc[d] = "wake" => d = c

IInv == TypeOK /\ Shape /\ Counted /\ Waking

-----------------------------------------------------------------------------
\* Counting.

\* A set of connections is finite, and its size a natural number.
LEMMA ConnsFinite ==
    ASSUME NEW S \in SUBSET Conns
    PROVE  IsFiniteSet(S) /\ Cardinality(S) \in Nat
BY ServerAssumption, FS_Subset, FS_CardinalityType

\* A connection that joins a set of connections adds one to its size.
LEMMA OneMore ==
    ASSUME NEW S \in SUBSET Conns, NEW c \in Conns \ S
    PROVE  Cardinality(S \cup {c}) = Cardinality(S) + 1
BY ConnsFinite, FS_AddElement

\* One that leaves takes one away; there was one to take away.
LEMMA OneLess ==
    ASSUME NEW S \in SUBSET Conns, NEW c \in S
    PROVE  Cardinality(S \ {c}) = Cardinality(S) - 1 /\ Cardinality(S) > 0
<1>1. Cardinality(S \ {c}) = Cardinality(S) - 1
  BY ConnsFinite, FS_RemoveElement
<1>2. Cardinality(S \ {c}) \in Nat /\ Cardinality(S) \in Nat
  BY ConnsFinite
<1>3. QED
  BY <1>1, <1>2

-----------------------------------------------------------------------------
\* The four steps that change a counter, and what they do to the sets.

\* The connection that Serve admits takes its slot.
LEMMA TakeSlotCounts ==
    ASSUME IInv, TakeSlot
    PROVE  cur \in Conns \ Slots /\ Slots' = Slots \cup {cur} /\ Running' = Running
<1>1. cur \in Conns /\ cpc[cur] = "none"
  BY DEF IInv, TypeOK, Shape, InHand, TakeSlot
<1>2. cur \notin Slots
  BY <1>1 DEF TakeSlot, Slots, HoldsSlot
<1>3. \A c \in Conns : HoldsSlot(c)' <=> HoldsSlot(c) \/ c = cur
  BY <1>1 DEF TakeSlot, HoldsSlot, connVars
<1>4. Running' = Running
  BY DEF TakeSlot, Running, connVars
<1>5. QED
  BY <1>1, <1>2, <1>3, <1>4 DEF Slots

\* The deferred <-s.sem gives back the slot of the connection that ends.
LEMMA ReleaseCounts ==
    ASSUME IInv, NEW c \in Conns, Release(c)
    PROVE  c \in Slots /\ Slots' = Slots \ {c} /\ Running' = Running
<1>1. c # cur /\ c \in Slots
  BY ServerAssumption DEF IInv, TypeOK, Shape, Release, Slots, HoldsSlot
<1>2. cpc' = [cpc EXCEPT ![c] = "close"] /\ cur' = cur /\ spc' = spc
  BY DEF Release, ReleaseSlot, Goto, Stay, serveVars
<1>3. cpc \in [Conns -> {"none", "start", "handshake", "new", "handling", "ended",
                         "release", "close", "done", "wake", "exited"}]
  BY DEF IInv, TypeOK
<1>4. \A d \in Conns : HoldsSlot(d)' <=> HoldsSlot(d) /\ d # c
  BY <1>1, <1>2, <1>3 DEF HoldsSlot
<1>5. Running' = Running
  BY <1>2, <1>3 DEF Running, Release
<1>6. QED
  BY <1>1, <1>4, <1>5 DEF Slots

\* wg.Add counts the goroutine that is about to be started.
LEMMA AddClientCounts ==
    ASSUME IInv, AddClient
    PROVE  cur \in Conns \ Running /\ Running' = Running \cup {cur} /\ Slots' = Slots
<1>1. cur \in Conns /\ cpc[cur] = "none"
  BY DEF IInv, TypeOK, Shape, InHand, AddClient
<1>2. cur \notin Running
  BY <1>1 DEF AddClient, Running
<1>3. \A c \in Conns : c \in Running' <=> c \in Running \/ c = cur
  BY <1>1 DEF AddClient, Running, connVars
<1>4. Slots' = Slots
  BY DEF AddClient, Slots, HoldsSlot, connVars
<1>5. QED
  BY <1>1, <1>2, <1>3, <1>4 DEF Running

\* wg.Done discounts a goroutine that was counted.
LEMMA ClientDoneCounts ==
    ASSUME IInv, NEW c \in Conns, ClientDone(c)
    PROVE  c \in Running /\ Running' = Running \ {c} /\ Slots' = Slots
<1>1. c # cur /\ c \in Running
  BY ServerAssumption DEF IInv, TypeOK, Shape, ClientDone, Running
<1>2. /\ cpc' = [cpc EXCEPT ![c] = "wake"] \/ cpc' = [cpc EXCEPT ![c] = "exited"]
      /\ cur' = cur /\ spc' = spc
  BY DEF ClientDone, Goto, Stay, serveVars
<1>3. cpc \in [Conns -> {"none", "start", "handshake", "new", "handling", "ended",
                         "release", "close", "done", "wake", "exited"}]
  BY DEF IInv, TypeOK
<1>4. \A d \in Conns : d \in Running' <=> d \in Running /\ d # c
  BY <1>1, <1>2, <1>3 DEF Running
<1>5. \A d \in Conns : HoldsSlot(d)' <=> HoldsSlot(d)
  BY <1>1, <1>2, <1>3 DEF HoldsSlot, ClientDone
<1>6. QED
  BY <1>1, <1>4, <1>5 DEF Running, Slots

-----------------------------------------------------------------------------
\* The invariant is inductive.

\* It holds when Serve starts: no connection has been accepted.
LEMMA InitIInv == Init => IInv
<1> SUFFICES ASSUME Init
             PROVE  IInv
  OBVIOUS
<1>1. TypeOK
  <2>1. doneClosed \in BOOLEAN /\ listening \in BOOLEAN /\ HandshakeTimeout \in BOOLEAN
    BY DEF Init
  <2>2. sem \in 0 .. MaxConns /\ wg \in Nat /\ nErrors \in 0 .. MaxAcceptErrors
    BY ServerAssumption DEF Init
  <2>3. QED
    BY <2>1, <2>2 DEF Init, TypeOK
<1>2. Shape
  BY DEF Init, Shape, InHand, SocketsOwned
<1>3. Slots = {} /\ Running = {}
  BY DEF Init, Slots, HoldsSlot, Running
<1>4. Waking
  BY DEF Init, Waking
<1>5. QED
  BY <1>1, <1>2, <1>3, <1>4, FS_EmptySet DEF Init, IInv, Counted

\* Steps of a connection's goroutine between Serve's go statement and the slot's
\* release: the counters and what they count stay as they are.
LEMMA ServedSteps ==
    ASSUME IInv, NEW c \in Conns,
           \/ SetDeadline(c) \/ SetDeadlineFail(c) \/ HandshakeOk(c) \/ HandshakeFail(c)
           \/ ReportNew(c) \/ ConnEnds(c) \/ ReportClosed(c)
    PROVE  IInv'
<1>1. PICK s \in {"handshake", "new", "handling", "ended", "release"} :
         cpc' = [cpc EXCEPT ![c] = s]
  BY DEF SetDeadline, SetDeadlineFail, HandshakeOk, HandshakeFail, ReportNew, ConnEnds,
         ReportClosed, Goto
<1>2. /\ cpc[c] \in {"start", "handshake", "new", "handling", "ended"}
      /\ \/ sock' = sock /\ s # "ended" /\ cpc[c] # "ended"
         \/ sock' = [sock EXCEPT ![c] = "closed"]
         \/ sock' = sock /\ s = "release"
  BY <1>1 DEF IInv, TypeOK, SetDeadline, SetDeadlineFail, HandshakeOk, HandshakeFail,
         ReportNew, ConnEnds, ReportClosed, Goto
<1>3. UNCHANGED <<sem, wg, doneClosed, listening, HandshakeTimeout, spc, cur, nErrors, wpc,
               panicked>>
  BY DEF SetDeadline, SetDeadlineFail, HandshakeOk, HandshakeFail, ReportNew, ConnEnds,
         ReportClosed, Stay, semVars, serveVars, waitVars, userVars
<1>4. TypeOK'
  BY <1>1, <1>2, <1>3 DEF IInv, TypeOK
<1>5. c # cur
  BY <1>2, ServerAssumption DEF IInv, Shape
<1>6. Shape'
  BY <1>1, <1>2, <1>3, <1>5 DEF IInv, TypeOK, Shape, InHand, SocketsOwned
<1>7. Slots' = Slots /\ Running' = Running
  BY <1>1, <1>2, <1>3, <1>5 DEF IInv, TypeOK, Slots, HoldsSlot, Running
<1>8. Waking'
  BY <1>1, <1>3 DEF IInv, TypeOK, Waking
<1>9. QED
  BY <1>3, <1>4, <1>6, <1>7, <1>8 DEF IInv, Counted

\* Every step keeps the counters equal to what they count.
LEMMA NextIInv == IInv /\ [Next]_vars => IInv'
<1> SUFFICES ASSUME IInv, [Next]_vars
             PROVE  IInv'
  OBVIOUS
<1> USE DEF semVars, serveVars, connVars, waitVars, userVars
<1>0. /\ Slots \in SUBSET Conns /\ Running \in SUBSET Conns
      /\ TypeOK /\ Shape /\ Counted /\ Waking
  BY DEF Slots, Running, IInv
<1>a. ASSUME UNCHANGED <<cpc, wg, wpc, panicked>>
      PROVE  Waking'
  BY <1>0, <1>a DEF Waking
<1>b. ASSUME NEW c \in Conns, NEW t \in {"start", "close", "done"},
             cpc' = [cpc EXCEPT ![c] = t], UNCHANGED <<wg, wpc, panicked>>
      PROVE  Waking'
  BY <1>0, <1>b DEF Waking, TypeOK
<1>1. ASSUME NEW c \in Conns, Accept(c)
      PROVE  IInv'
  <2>1. TypeOK'
    BY <1>0, <1>1 DEF TypeOK, Accept
  <2>2. cpc[c] = "none" /\ cur = None
    BY <1>0, <1>1 DEF Shape, InHand, Accept
  <2>3. Shape'
    BY <1>0, <1>1, <2>2, ServerAssumption DEF TypeOK, Shape, InHand, Accept, SocketsOwned
  <2>4. Slots' = Slots /\ Running' = Running
    BY <1>0, <1>1 DEF Accept, Slots, HoldsSlot, Running
  <2>5. QED
    BY <1>0, <1>a, <1>1, <2>1, <2>3, <2>4 DEF IInv, Counted, Accept
<1>2. CASE AcceptError \/ Backoff \/ AcceptFails \/ Full
  <2>1. TypeOK'
    BY <1>0, <1>2, ServerAssumption DEF TypeOK, AcceptError, Backoff, AcceptFails, Full
  <2>2. UNCHANGED <<sem, wg, cpc, sock, cur>>
    BY <1>2 DEF AcceptError, Backoff, AcceptFails, Full
  <2>3. spc' \notin {"add", "spawn"} /\ spc \notin {"add", "spawn"}
    BY <1>2 DEF AcceptError, Backoff, AcceptFails, Full
  <2>4. spc \in {"admit", "full"} <=> spc' \in {"admit", "full"}
    BY <1>2 DEF AcceptError, Backoff, AcceptFails, Full
  <2>5. Shape'
    BY <1>0, <2>2, <2>3, <2>4 DEF Shape, InHand, SocketsOwned
  <2>6. Slots' = Slots /\ Running' = Running
    BY <2>2, <2>3 DEF Slots, HoldsSlot, Running
  <2>7. QED
    BY <1>0, <1>a, <1>2, <2>1, <2>2, <2>5, <2>6
       DEF IInv, Counted, AcceptError, Backoff, AcceptFails, Full
<1>3. CASE Refuse
  <2>1. cur \in Conns
    BY <1>0, <1>3 DEF TypeOK, Shape, InHand, Refuse
  <2>2. TypeOK'
    BY <1>0, <1>3, <2>1 DEF TypeOK, Refuse
  <2>3. Shape'
    BY <1>0, <1>3, <2>1 DEF TypeOK, Shape, InHand, Refuse, SocketsOwned
  <2>4. Slots' = Slots /\ Running' = Running
    BY <1>3 DEF Refuse, Slots, HoldsSlot, Running
  <2>5. QED
    BY <1>0, <1>a, <1>3, <2>2, <2>3, <2>4 DEF IInv, Counted, Refuse
<1>4. CASE TakeSlot
  <2>1. sem' = Cardinality(Slots)' /\ wg' = Cardinality(Running)'
    BY <1>0, <1>4, TakeSlotCounts, OneMore DEF Counted, TakeSlot
  <2>2. TypeOK'
    BY <1>0, <1>4, ServerAssumption DEF TypeOK, TakeSlot, HasSlot
  <2>3. Shape'
    BY <1>0, <1>4 DEF Shape, InHand, TakeSlot, SocketsOwned
  <2>4. QED
    BY <1>a, <1>4, <2>1, <2>2, <2>3 DEF IInv, Counted, TakeSlot
<1>5. CASE AddClient /\ ~panicked
  <2>1. sem' = Cardinality(Slots)' /\ wg' = Cardinality(Running)'
    BY <1>0, <1>5, AddClientCounts, OneMore DEF Counted, AddClient
  <2>2. TypeOK'
    BY <1>0, <1>5 DEF TypeOK, AddClient
  <2>3. Shape'
    BY <1>0, <1>5 DEF Shape, InHand, AddClient, SocketsOwned
  <2>4. Waking'
    BY <1>0, <1>5 DEF Waking, AddClient
  <2>5. QED
    BY <2>1, <2>2, <2>3, <2>4 DEF IInv, Counted
<1>6. CASE SpawnClient
  <2>1. cur \in Conns /\ cpc[cur] = "none"
    BY <1>0, <1>6 DEF TypeOK, Shape, InHand, SpawnClient
  <2>2. TypeOK'
    BY <1>0, <1>6, <2>1 DEF TypeOK, SpawnClient
  <2>3. Shape'
    BY <1>0, <1>6, <2>1 DEF TypeOK, Shape, InHand, SpawnClient, SocketsOwned
  <2>4. Slots' = Slots /\ Running' = Running
    BY <1>0, <1>6, <2>1, ServerAssumption DEF TypeOK, SpawnClient, Slots, HoldsSlot, Running
  <2>5. Waking'
    BY <1>b, <1>0, <1>6, <2>1 DEF TypeOK, SpawnClient
  <2>6. QED
    BY <1>0, <1>6, <2>2, <2>3, <2>4, <2>5 DEF IInv, Counted, SpawnClient
<1>7. CASE ListenerClose \/ Shutdown \/ Waiter \/ UNCHANGED vars
  <2>1. UNCHANGED <<sem, wg, cpc, sock, cur, spc>>
    BY <1>7 DEF ListenerClose, Shutdown, Waiter, WaitTest, WaitReturns, vars
  <2>2. TypeOK'
    BY <1>0, <1>7 DEF TypeOK, ListenerClose, Shutdown, Waiter, WaitTest, WaitReturns, vars
  <2>3. Shape' /\ Slots' = Slots /\ Running' = Running
    BY <1>0, <2>1 DEF Shape, InHand, SocketsOwned, Slots, HoldsSlot, Running
  <2>4. wpc = "asleep" => UNCHANGED <<wpc, panicked>>
    BY <1>7 DEF ListenerClose, Shutdown, Waiter, WaitTest, WaitReturns, vars
  <2>5. Waking'
    BY <1>0, <2>1, <2>4 DEF Waking
  <2>6. QED
    BY <1>0, <2>1, <2>2, <2>3, <2>5 DEF IInv, Counted
<1>8. ASSUME NEW c \in Conns, Release(c)
      PROVE  IInv'
  <2>1. sem' = Cardinality(Slots)' /\ wg' = Cardinality(Running)'
    BY <1>0, <1>8, ReleaseCounts, OneLess DEF Counted, Release, ReleaseSlot
  <2>2. TypeOK'
    BY <1>0, <1>8, ServerAssumption DEF TypeOK, Release, ReleaseSlot, Goto, Stay
  <2>3. c # cur
    BY <1>0, <1>8, ServerAssumption DEF Shape, Release
  <2>4. Shape'
    BY <1>0, <1>8, <2>3
       DEF TypeOK, Shape, InHand, Release, ReleaseSlot, Goto, Stay, SocketsOwned
  <2>5. Waking'
    BY <1>b, <1>0, <1>8 DEF TypeOK, Release, ReleaseSlot, Goto, Stay
  <2>6. QED
    BY <2>1, <2>2, <2>4, <2>5 DEF IInv, Counted
<1>9. ASSUME NEW c \in Conns, CloseSocket(c)
      PROVE  IInv'
  <2>1. c # cur
    BY <1>0, <1>9, ServerAssumption DEF Shape, CloseSocket
  <2>2. TypeOK'
    BY <1>0, <1>9 DEF TypeOK, CloseSocket, Goto, Stay
  <2>3. Shape'
    BY <1>0, <1>9, <2>1 DEF TypeOK, Shape, InHand, CloseSocket, Goto, Stay, SocketsOwned
  <2>4. Slots' = Slots /\ Running' = Running
    BY <1>0, <1>9 DEF TypeOK, CloseSocket, Goto, Stay, Slots, HoldsSlot, Running
  <2>5. Waking'
    BY <1>b, <1>0, <1>9 DEF TypeOK, CloseSocket, Goto, Stay
  <2>6. QED
    BY <1>0, <1>9, <2>2, <2>3, <2>4, <2>5 DEF IInv, Counted, CloseSocket
<1>10. ASSUME NEW c \in Conns, ClientDone(c), ~panicked
       PROVE  IInv'
  <2>1. sem' = Cardinality(Slots)' /\ wg' = Cardinality(Running)'
    BY <1>0, <1>10, ClientDoneCounts, OneLess DEF Counted, ClientDone
  <2>2. wg > 0 /\ wg \in Nat
    BY <1>0, <1>10, ClientDoneCounts, OneLess DEF Counted, TypeOK
  <2>3. TypeOK'
    BY <1>0, <1>10, <2>2 DEF TypeOK, ClientDone, Goto, Stay
  <2>4. c # cur
    BY <1>0, <1>10, ServerAssumption DEF Shape, ClientDone
  <2>5. Shape'
    BY <1>0, <1>10, <2>4 DEF TypeOK, Shape, InHand, ClientDone, Goto, Stay, SocketsOwned
  <2>6. \A d \in Conns : cpc[d] # "wake"
    BY <1>0, <1>10, <2>2 DEF Waking
  <2>7. Waking'
    BY <1>0, <1>10, <2>2, <2>6 DEF TypeOK, Waking, ClientDone, Goto, Stay
  <2>8. QED
    BY <2>1, <2>3, <2>5, <2>7 DEF IInv, Counted
<1>11. ASSUME NEW c \in Conns, Wake(c)
       PROVE  IInv'
  <2>1. c # cur
    BY <1>0, <1>11, ServerAssumption DEF Shape, Wake
  <2>2. TypeOK'
    BY <1>0, <1>11 DEF TypeOK, Wake, Goto
  <2>3. Shape'
    BY <1>0, <1>11, <2>1 DEF TypeOK, Shape, InHand, Wake, Goto, SocketsOwned
  <2>4. Slots' = Slots /\ Running' = Running
    BY <1>0, <1>11 DEF TypeOK, Wake, Goto, Slots, HoldsSlot, Running
  <2>5. \A d \in Conns : cpc'[d] # "wake"
    BY <1>0, <1>11 DEF TypeOK, Waking, Wake, Goto
  <2>6. QED
    BY <1>0, <1>11, <2>2, <2>3, <2>4, <2>5 DEF IInv, Counted, Waking, Wake
<1>12. QED
  BY <1>1, <1>2, <1>3, <1>4, <1>5, <1>6, <1>7, <1>8, <1>9, <1>10, <1>11, ServedSteps
     DEF Next, Serve, Client, HandshakeTimesOut

\* The invariant holds in every reachable state.
LEMMA Inductive == Spec => []IInv
BY InitIInv, NextIInv, PTL DEF Spec

-----------------------------------------------------------------------------
\* What the server promises.

\* No slot of the semaphore is lost or given back twice on any path through
\* client(), and at most MaxConns connections are served at a time.
THEOREM SlotsCorrect == Spec => []SlotsAccounted
<1>1. IInv => SlotsAccounted
  BY DEF IInv, Counted, Slots, SlotsAccounted
<1>2. QED
  BY <1>1, Inductive, PTL

\* The WaitGroup counts the goroutines of connections exactly: Done never takes it
\* below zero, and it returns to zero once all of them have ended.
THEOREM GoroutinesCorrect == Spec => []GoroutinesAccounted
<1>1. IInv => GoroutinesAccounted
  BY DEF IInv, Counted, Running, GoroutinesAccounted
<1>2. QED
  BY <1>1, Inductive, PTL

\* Serve or a connection's goroutine is responsible for every open socket, whatever
\* path the connection takes: no accepted socket leaks.
THEOREM SocketsCorrect == Spec => []SocketsOwned
<1>1. IInv => SocketsOwned
  BY DEF IInv, Shape
<1>2. QED
  BY <1>1, Inductive, PTL

\* When s.wg.Wait returns in Shutdown, no goroutine of a connection is running.
THEOREM ShutdownCorrect == Spec => ShutdownWaits
<1>1. IInv /\ [Next]_vars =>
        [wpc # "returned" /\ wpc' = "returned" =>
           \A c \in Conns : cpc[c] \in {"none", "exited"}]_vars
  <2> SUFFICES ASSUME IInv, Next, wpc # "returned", wpc' = "returned"
               PROVE  \A c \in Conns : cpc[c] \in {"none", "exited"}
    OBVIOUS
  <2>1. Waiter
    BY DEF Next, Accept, AcceptError, AcceptFails, Serve, Backoff, TakeSlot, Full, Refuse,
           AddClient, SpawnClient, ListenerClose, Client, SetDeadline, SetDeadlineFail,
           HandshakeTimesOut, HandshakeOk, HandshakeFail, ReportNew, ConnEnds,
           ReportClosed, Release, CloseSocket, ClientDone, Wake, Stay, Shutdown, waitVars
  <2>2. wg = 0 /\ wpc # "asleep"
    BY <2>1 DEF Waiter, WaitTest, WaitReturns, AllDone
  <2>3. Cardinality(Running) = 0 /\ Running \in SUBSET Conns
    BY <2>2 DEF IInv, Counted, Running
  <2>4. Running = {}
    BY <2>3, ConnsFinite, FS_EmptySet
  <2>5. \A c \in Conns : cpc[c] # "wake"
    BY <2>2 DEF IInv, Waking
  <2>6. QED
    BY <2>4, <2>5 DEF Running, IInv, TypeOK
<1>2. QED
  BY <1>1, Inductive, PTL DEF Spec, ShutdownWaits

-----------------------------------------------------------------------------
\* When Shutdown does not panic.

\* The counter stays at zero between the wake-up of Shutdown and its return.
Settled == ~panicked /\ (wpc = "woken" => wg = 0) /\ (doneClosed <=> wpc # "idle")

\* With Serve gone, nobody adds to the WaitGroup of a Server that is shutting down.
LEMMA SettledKept ==
    ASSUME IInv, Settled, doneClosed => spc = "returned", [Next]_vars
    PROVE  Settled'
<1> USE DEF semVars, serveVars, connVars, waitVars, userVars
<1>1. CASE AddClient
  <2>1. ~doneClosed
    BY <1>1 DEF AddClient
  <2>2. QED
    BY <1>1, <2>1 DEF Settled, AddClient
<1>2. ASSUME NEW c \in Conns, ClientDone(c)
      PROVE  Settled'
  <2>1. wg > 0 /\ wg # 0
    <3>1. c \in Running /\ Running \in SUBSET Conns /\ wg = Cardinality(Running)
      BY <1>2, ClientDoneCounts DEF IInv, Counted, Running
    <3>2. wg > 0 /\ wg \in Nat
      BY <3>1, OneLess DEF IInv, TypeOK
    <3>3. QED
      BY <3>2
  <2>2. ~panicked' /\ UNCHANGED <<wpc, doneClosed>>
    BY <1>2, <2>1 DEF ClientDone
  <2>3. QED
    BY <2>1, <2>2 DEF Settled
<1>3. ASSUME NEW c \in Conns, Wake(c)
      PROVE  Settled'
  BY <1>3 DEF IInv, Waking, Settled, Wake
<1>4. CASE Waiter
  BY <1>4 DEF Settled, Waiter, WaitTest, WaitReturns
<1>5. CASE Shutdown
  BY <1>5 DEF Settled, Shutdown
<1>6. CASE UNCHANGED <<wg, waitVars, doneClosed>>
  BY <1>6 DEF Settled
<1>7. QED
  BY <1>1, <1>2, <1>3, <1>4, <1>5, <1>6
     DEF Next, Accept, AcceptError, AcceptFails, Serve, Backoff, TakeSlot, Full, Refuse,
         SpawnClient, ListenerClose, Client, SetDeadline, SetDeadlineFail,
         HandshakeTimesOut, HandshakeOk, HandshakeFail, ReportNew, ConnEnds,
         ReportClosed, Release, ReleaseSlot, CloseSocket, Stay, vars

\* A Shutdown that is called when Serve has returned does not make the WaitGroup
\* panic, in Wait or in the goroutines of connections.
THEOREM ShutdownSafeAfterServe == Spec => ShutdownSafe
<1>1. Init => Settled
  BY DEF Init, Settled
<1>2. Settled => ~panicked
  BY DEF Settled
<1>3. QED
  BY <1>1, <1>2, SettledKept, Inductive, PTL DEF Spec, ShutdownSafe
=============================================================================

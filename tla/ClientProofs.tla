---------------------------- MODULE ClientProofs ----------------------------
(***************************************************************************)
(* Theorems about Client, for any number of callers, connections, dial     *)
(* attempts and failures.                                                  *)
(*                                                                         *)
(* The pool holds the running clientConns because conns changes only under *)
(* Client.mu, and the scan that chose to grow it has held Client.mu since  *)
(* it began.  What Get, ConnState and the sockets show of one clientConn   *)
(* follows from where its goroutine is (LifeOf).                           *)
(***************************************************************************)
EXTENDS Client, SeqProofs

\* Client.conns against the goroutines; clientConns are numbered as created.
Pool ==
    /\ Len(conns) <= MaxConns /\ Distinct(conns)
    /\ \A i \in Ids : InPool(i) <=> st[i] \notin {"unused", "gone"}
    /\ \A i \in Ids : st[i] = "unused" <=> i > created

\* The caller that scans holds Client.mu and is inside the pool; one that waits or
\* got a connection names it.
CallerOf(g) ==
    /\ gpc[g] = "scan" <=> mu = g
    /\ gpc[g] = "scan" =>
         /\ gi[g] \in 1 .. Len(conns) /\ created < MaxDials
         /\ gi[g] > 1 => gmc[g] \in Ids
    /\ gpc[g] \in {"wait", "use"} => gcc[g] \in Ids
    /\ gpc[g] = "use" => ready[gcc[g]] /\ ~err[gcc[g]]

CallersShape == \A g \in Getters : CallerOf(g)

Served == {"ready", "new", "handling", "ended"}

Closed == {"delete", "gone"}

\* cc.ready and cc.err, and the attempts behind them.
DialOf(i) ==
    /\ ready[i] <=> st[i] \in {"new", "handling", "ended"} \cup Closed
    /\ st[i] \in {"unused", "dial", "handshake"} \cup Served => attempt[i] < NumDialAttempts
    /\ st[i] \in {"handshake"} \cup Served => ~err[i]
    /\ st[i] = "giveUp" => err[i] /\ attempt[i] = NumDialAttempts
    /\ st[i] \in Closed => IF err[i] THEN attempt[i] = NumDialAttempts
                           ELSE attempt[i] < NumDialAttempts

\* What ConnState was told, and the queue when it is told the end.
ReportOf(i) ==
    /\ st[i] \in {"unused", "dial", "handshake", "giveUp", "ready", "new"} => reported[i] = <<>>
    /\ st[i] \in {"handling", "ended"} => reported[i] = <<"StateNew">>
    /\ st[i] \in Closed =>
         reported[i] = IF err[i] THEN <<>> ELSE <<"StateNew", "StateClosed">>
    /\ st[i] = "ended" \/ (st[i] \in Closed /\ ~err[i]) => writerDone[i] /\ pending[i] = 0

\* The sockets of the attempts so far, the current one's included while it is open.
SocketsOf(i) ==
    /\ st[i] = "unused" => open[i] = 0
    /\ st[i] = "dial" => open[i] <= attempt[i]
    /\ st[i] \in {"handshake", "ready", "new", "handling"} =>
         hasConn[i] /\ open[i] \in 1 .. attempt[i] + 1
    /\ st[i] = "giveUp" => IF hasConn[i] THEN open[i] \in 1 .. attempt[i]
                           ELSE open[i] <= attempt[i] - 1
    /\ st[i] = "ended" => open[i] <= attempt[i]
    /\ st[i] \in Closed => open[i] <= attempt[i] - (IF err[i] THEN 1 ELSE 0)

LifeOf(i) == DialOf(i) /\ ReportOf(i) /\ SocketsOf(i)

IInv == TypeOK /\ Pool /\ CallersShape /\ \A i \in Ids : LifeOf(i)

-----------------------------------------------------------------------------
\* The pool as a sequence.

\* deleteClientConn keeps every entry but the one it deletes, each once.
LEMMA WithoutKeeps ==
    ASSUME NEW i \in Ids, conns \in Seq(Ids), Distinct(conns)
    PROVE  /\ Without(i) \in Seq(Ids) /\ Distinct(Without(i))
           /\ Len(Without(i)) <= Len(conns)
           /\ \A x \in Ids : (\E j \in DOMAIN Without(i) : Without(i)[j] = x)
                               <=> InPool(x) /\ x # i
<1> DEFINE kept == CHOOSE f : IsFilter(f, conns, i)
<1>1. Without(i) = kept[Len(conns)]
  BY DEF Without, IsFilter
<1>2. IsFilter(kept, conns, i)
  <2>1. \E f : IsFilter(f, conns, i)
    BY FilterExists
  <2>2. QED
    BY <2>1, Zenon
<1> HIDE DEF kept
<1>3. Keeps(kept[Len(conns)], conns, Len(conns), i, Ids)
  BY <1>2, FilterKeeps
<1>4. DOMAIN conns = 1 .. Len(conns)
  OBVIOUS
<1>5. QED
  BY <1>1, <1>3, <1>4, Zenon DEF Keeps, InPool

\* newClientConn puts one new entry at the end of the pool.
LEMMA AppendJoins ==
    ASSUME conns \in Seq(Ids), Distinct(conns), NEW c \in Ids, ~InPool(c),
           conns' = Append(conns, c)
    PROVE  /\ conns' \in Seq(Ids) /\ Distinct(conns') /\ Len(conns') = Len(conns) + 1
           /\ \A x \in Ids : InPool(x)' <=> InPool(x) \/ x = c
<1>1. /\ conns' \in Seq(Ids) /\ Len(conns') = Len(conns) + 1
      /\ DOMAIN conns' = 1 .. Len(conns) + 1 /\ DOMAIN conns = 1 .. Len(conns)
      /\ Len(conns) \in Nat /\ conns'[Len(conns) + 1] = c
      /\ \A k \in DOMAIN conns : conns'[k] = conns[k]
  OBVIOUS
<1>2. \A k \in DOMAIN conns' : k \in DOMAIN conns \/ k = Len(conns) + 1
  BY <1>1
<1>3. Distinct(conns')
  BY <1>1, <1>2 DEF Distinct, InPool
<1>4. \A x \in Ids : InPool(x)' <=> InPool(x) \/ x = c
  BY <1>1, <1>2 DEF InPool
<1>5. QED
  BY <1>1, <1>3, <1>4

\* A list of one entry and another.
LEMMA AppendPair == \A a, b : Append(<<a>>, b) = <<a, b>>
<1> TAKE a, b
<1> DEFINE q == Append(<<a>>, b)
           r == <<a, b>>
<1>1. <<a>> \in Seq({a, b}) /\ Len(<<a>>) = 1
  OBVIOUS
<1>2. q \in Seq({a, b}) /\ Len(q) = 2 /\ q[1] = a /\ q[2] = b
  BY <1>1
<1>3. r \in Seq({a, b}) /\ Len(r) = 2 /\ r[1] = a /\ r[2] = b
  OBVIOUS
<1> HIDE DEF q, r
<1>4. \A k \in 1 .. 2 : q[k] = r[k]
  BY <1>2, <1>3
<1>5. q = r
  BY <1>2, <1>3, <1>4
<1>6. QED
  BY <1>5 DEF q, r

-----------------------------------------------------------------------------
\* Steps of the goroutine of one clientConn.

\* The other clientConns are as they were.
OnlyOf(i) ==
    \A j \in Ids \ {i} :
        /\ st'[j] = st[j] /\ ready'[j] = ready[j] /\ err'[j] = err[j]
        /\ attempt'[j] = attempt[j] /\ hasConn'[j] = hasConn[j] /\ open'[j] = open[j]
        /\ pending'[j] = pending[j] /\ writerDone'[j] = writerDone[j]
        /\ reported'[j] = reported[j]

\* A clientConn that no step touches keeps its part of the invariant.
LEMMA OthersKeep ==
    ASSUME NEW i \in Ids, \A j \in Ids : LifeOf(j), OnlyOf(i), LifeOf(i)'
    PROVE  \A j \in Ids : LifeOf(j)'
<1>1. ASSUME NEW j \in Ids, j # i
      PROVE  LifeOf(j)'
  BY <1>1 DEF OnlyOf, LifeOf, DialOf, ReportOf, SocketsOf
<1>2. QED
  BY <1>1

\* A step of a clientConn that stays in the pool, and that leaves cc.err alone once
\* cc.ready is closed, keeps the invariant if it keeps that clientConn's part of it.
LEMMA StaysInPool ==
    ASSUME IInv, NEW i \in Ids, TypeOK', LifeOf(i)', OnlyOf(i),
           UNCHANGED <<conns, mu, created, getVars>>,
           st[i] \notin {"unused", "gone"}, st'[i] \notin {"unused", "gone"},
           ready[i] => ready'[i] /\ err'[i] = err[i]
    PROVE  IInv'
<1>1. \A j \in Ids : LifeOf(j)'
  BY OthersKeep DEF IInv
<1>2. Pool'
  <2>1. \A j \in Ids : (st'[j] = "unused" <=> st[j] = "unused")
                        /\ (st'[j] = "gone" <=> st[j] = "gone")
    BY DEF OnlyOf
  <2>2. QED
    BY <2>1 DEF IInv, Pool, InPool
<1>3. CallersShape'
  <2>1. ASSUME NEW g \in Getters
        PROVE  CallerOf(g)'
    <3>1. CallerOf(g) /\ gcc[g] \in Ids \cup {0}
      BY DEF IInv, CallersShape, TypeOK
    <3>2. gpc[g] = "use" => ready'[gcc[g]] /\ ~err'[gcc[g]]
      BY <3>1 DEF CallerOf, OnlyOf
    <3>3. QED
      BY <3>1, <3>2 DEF CallerOf, getVars
  <2>2. QED
    BY <2>1 DEF CallersShape
<1>4. QED
  BY <1>1, <1>2, <1>3 DEF IInv

\* An attempt that fails counts, and the last one ends in error.
LEMMA AttemptFailedKeeps ==
    ASSUME IInv, NEW i \in Ids, DialFail(i) \/ HandshakeFail(i)
    PROVE  IInv'
<1>1. TypeOK /\ LifeOf(i)
  BY DEF IInv
<1>2. /\ attempt[i] < NumDialAttempts /\ attempt[i] \in Nat /\ NumDialAttempts \in Nat
      /\ st[i] \in {"dial", "handshake"} /\ ~ready[i] /\ open[i] \in Nat
  <2>1. st[i] \in {"dial", "handshake"}
    BY DEF DialFail, HandshakeFail
  <2>2. QED
    BY <1>1, <2>1, ClientAssumption DEF TypeOK, LifeOf, DialOf, Served, Closed
<1>3. /\ attempt' = [attempt EXCEPT ![i] = @ + 1] /\ err' = [err EXCEPT ![i] = TRUE]
      /\ st' = [st EXCEPT ![i] = IF attempt[i] + 1 < NumDialAttempts THEN "dial" ELSE "giveUp"]
      /\ hasConn' = [hasConn EXCEPT ![i] = IF st[i] = "dial" THEN FALSE ELSE @]
      /\ UNCHANGED <<poolVars, ready, open, connVars, getVars>>
  BY <1>1, <1>2, ZenonT(30) DEF TypeOK, DialFail, HandshakeFail, AttemptFailed, Goto, CanRetry
<1>4. TypeOK'
  <2>1. attempt[i] + 1 \in 0 .. NumDialAttempts
    BY <1>2
  <2>2. attempt' \in [Ids -> 0 .. NumDialAttempts] /\ err' \in [Ids -> BOOLEAN]
    BY <1>1, <1>3, <2>1 DEF TypeOK
  <2>3. QED
    BY <1>1, <1>3, <2>2 DEF TypeOK, poolVars, connVars, getVars
<1>5. OnlyOf(i)
  BY <1>1, <1>3 DEF TypeOK, OnlyOf, connVars
<1>6. /\ attempt'[i] = attempt[i] + 1 /\ err'[i] /\ open'[i] = open[i]
      /\ st'[i] = IF attempt[i] + 1 < NumDialAttempts THEN "dial" ELSE "giveUp"
      /\ ready'[i] = ready[i] /\ reported'[i] = reported[i]
      /\ hasConn'[i] = IF st[i] = "dial" THEN FALSE ELSE hasConn[i]
  BY <1>1, <1>3 DEF TypeOK, connVars
<1>7. LifeOf(i)'
  BY <1>1, <1>2, <1>6 DEF LifeOf, DialOf, ReportOf, SocketsOf, Closed, Served
<1>8. UNCHANGED <<conns, mu, created, getVars>> /\ st'[i] \in {"dial", "giveUp"}
  BY <1>3, <1>6 DEF poolVars
<1>9. QED
  BY <1>2, <1>4, <1>5, <1>7, <1>8, StaysInPool

\* The other steps of the goroutine of a clientConn and of its Conn, up to the last.
LEMMA GoroutineKeeps ==
    ASSUME IInv, NEW i \in Ids,
           \/ DialOk(i) \/ HandshakeOk(i) \/ GiveUp(i) \/ Ready(i) \/ ReportNew(i)
           \/ ConnClose(i) \/ ReportClosed(i) \/ WriteLoop(i) \/ ConnFails(i)
    PROVE  IInv'
<1> USE DEF Goto
<1>0. /\ TypeOK /\ LifeOf(i) /\ DialOf(i) /\ ReportOf(i) /\ SocketsOf(i)
      /\ open[i] \in Nat /\ attempt[i] \in Nat /\ NumDialAttempts \in Nat
  BY ClientAssumption DEF IInv, LifeOf, TypeOK
<1> DEFINE Kept == /\ TypeOK' /\ OnlyOf(i) /\ DialOf(i)' /\ ReportOf(i)' /\ SocketsOf(i)'
                      /\ UNCHANGED <<conns, mu, created, getVars>>
                      /\ st[i] \notin {"unused", "gone"} /\ st'[i] \notin {"unused", "gone"}
                      /\ (ready[i] => ready'[i] /\ err'[i] = err[i])
<1> SUFFICES Kept
  BY StaysInPool DEF LifeOf
<1>1. CASE DialOk(i)
  <2>1. /\ st[i] = "dial" /\ ~ready[i] /\ open[i] <= attempt[i]
        /\ attempt[i] < NumDialAttempts /\ open[i] + 1 \in 0 .. NumDialAttempts
    BY <1>0, <1>1 DEF DialOk, DialOf, SocketsOf, Closed, Served
  <2>2. TypeOK'
    BY <1>0, <1>1, <2>1 DEF TypeOK, DialOk, poolVars, connVars, getVars
  <2>3. OnlyOf(i)
    BY <1>0, <1>1 DEF TypeOK, DialOk, OnlyOf, connVars
  <2>4. /\ st'[i] = "handshake" /\ hasConn'[i] /\ open'[i] = open[i] + 1 /\ ~err'[i]
        /\ ready'[i] = ready[i] /\ attempt'[i] = attempt[i] /\ reported'[i] = reported[i]
    BY <1>0, <1>1 DEF TypeOK, DialOk, connVars
  <2>5. DialOf(i)' /\ ReportOf(i)' /\ SocketsOf(i)'
    BY <1>0, <2>1, <2>4 DEF DialOf, ReportOf, SocketsOf, Closed, Served
  <2>6. UNCHANGED <<conns, mu, created, getVars>>
    BY <1>1 DEF DialOk, poolVars
  <2>7. QED
    BY <2>1, <2>2, <2>3, <2>4, <2>5, <2>6
<1>2. CASE HandshakeOk(i)
  <2>1. st[i] = "handshake" /\ ~ready[i] /\ st' = [st EXCEPT ![i] = "ready"]
    BY <1>0, <1>2 DEF HandshakeOk, DialOf, Closed
  <2>2. UNCHANGED <<poolVars, dialVars, connVars, getVars>>
    BY <1>2 DEF HandshakeOk
  <2>3. TypeOK'
    BY <1>0, <2>1, <2>2 DEF TypeOK, poolVars, dialVars, connVars, getVars
  <2>4. OnlyOf(i) /\ st'[i] = "ready"
    BY <1>0, <2>1, <2>2 DEF TypeOK, OnlyOf, dialVars, connVars
  <2>5. DialOf(i)' /\ ReportOf(i)' /\ SocketsOf(i)'
    BY <1>0, <2>1, <2>2, <2>4
       DEF DialOf, ReportOf, SocketsOf, Closed, Served, dialVars, connVars
  <2>6. UNCHANGED <<conns, mu, created, getVars>>
    BY <2>2 DEF poolVars
  <2>7. QED
    BY <2>1, <2>3, <2>4, <2>5, <2>6
<1>3. CASE GiveUp(i)
  <2>1. /\ st[i] = "giveUp" /\ ~ready[i] /\ err[i] /\ attempt[i] = NumDialAttempts
        /\ IF hasConn[i] THEN open[i] \in 1 .. attempt[i] ELSE open[i] <= attempt[i] - 1
    BY <1>0, <1>3 DEF GiveUp, DialOf, SocketsOf, Closed
  <2>2. /\ ready' = [ready EXCEPT ![i] = TRUE] /\ st' = [st EXCEPT ![i] = "delete"]
        /\ open' = [open EXCEPT ![i] = IF hasConn[i] THEN @ - 1 ELSE @]
        /\ UNCHANGED <<poolVars, err, attempt, hasConn, connVars, getVars>>
    BY <1>3 DEF GiveUp, CloseReady, CloseSocket
  <2>3. (IF hasConn[i] THEN open[i] - 1 ELSE open[i]) \in 0 .. NumDialAttempts - 1
    BY <1>0, <2>1
  <2>4. TypeOK'
    <3>1. open' \in [Ids -> 0 .. NumDialAttempts]
      BY <1>0, <2>2, <2>3 DEF TypeOK
    <3>2. QED
      BY <1>0, <2>2, <3>1 DEF TypeOK, poolVars, connVars, getVars
  <2>5. OnlyOf(i)
    BY <1>0, <2>2 DEF TypeOK, OnlyOf, connVars
  <2>6. /\ st'[i] = "delete" /\ ready'[i] /\ open'[i] = IF hasConn[i] THEN open[i] - 1 ELSE open[i]
        /\ err'[i] = err[i] /\ attempt'[i] = attempt[i] /\ reported'[i] = reported[i]
    BY <1>0, <2>2 DEF TypeOK, connVars
  <2>7. DialOf(i)' /\ ReportOf(i)' /\ SocketsOf(i)'
    BY <1>0, <2>1, <2>3, <2>6 DEF DialOf, ReportOf, SocketsOf, Closed, Served
  <2>8. UNCHANGED <<conns, mu, created, getVars>>
    BY <2>2 DEF poolVars
  <2>9. QED
    BY <2>1, <2>4, <2>5, <2>6, <2>7, <2>8
<1>4. CASE Ready(i)
  <2>1. /\ st[i] = "ready" /\ ~ready[i]
        /\ ready' = [ready EXCEPT ![i] = TRUE] /\ st' = [st EXCEPT ![i] = "new"]
        /\ UNCHANGED <<poolVars, err, attempt, hasConn, open, connVars, getVars>>
    BY <1>0, <1>4 DEF Ready, CloseReady, DialOf, Closed
  <2>2. TypeOK'
    BY <1>0, <2>1 DEF TypeOK, poolVars, connVars, getVars
  <2>3. OnlyOf(i) /\ st'[i] = "new" /\ ready'[i]
    BY <1>0, <2>1 DEF TypeOK, OnlyOf, connVars
  <2>4. DialOf(i)' /\ ReportOf(i)' /\ SocketsOf(i)'
    BY <1>0, <2>1, <2>3 DEF DialOf, ReportOf, SocketsOf, Closed, Served, connVars
  <2>5. UNCHANGED <<conns, mu, created, getVars>>
    BY <2>1 DEF poolVars
  <2>6. QED
    BY <2>1, <2>2, <2>3, <2>4, <2>5
<1>5. CASE ReportNew(i)
  <2>1. /\ st[i] = "new" /\ reported[i] = <<>> /\ st' = [st EXCEPT ![i] = "handling"]
        /\ reported' = [reported EXCEPT ![i] = Append(@, "StateNew")]
        /\ UNCHANGED <<poolVars, dialVars, pending, writerDone, getVars>>
    BY <1>0, <1>5 DEF ReportNew, ReportOf
  <2>2. TypeOK'
    <3>1. reported' \in [Ids -> Seq({"StateNew", "StateClosed"})]
      BY <1>0, <2>1 DEF TypeOK
    <3>2. QED
      BY <1>0, <2>1, <3>1 DEF TypeOK, poolVars, dialVars, getVars
  <2>3. OnlyOf(i) /\ st'[i] = "handling"
    BY <1>0, <2>1 DEF TypeOK, OnlyOf, dialVars
  <2>4. reported'[i] = <<"StateNew">>
    BY <1>0, <2>1 DEF TypeOK
  <2>5. DialOf(i)' /\ ReportOf(i)' /\ SocketsOf(i)'
    BY <1>0, <2>1, <2>3, <2>4 DEF DialOf, ReportOf, SocketsOf, Closed, Served, dialVars
  <2>6. UNCHANGED <<conns, mu, created, getVars>> /\ UNCHANGED <<ready, err>>
    BY <2>1 DEF poolVars, dialVars
  <2>7. QED
    BY <2>1, <2>2, <2>3, <2>5, <2>6
<1>6. CASE ConnClose(i)
  <2>1. /\ st[i] = "handling" /\ writerDone[i] /\ open[i] \in 1 .. attempt[i] + 1
        /\ attempt[i] < NumDialAttempts
        /\ open' = [open EXCEPT ![i] = @ - 1] /\ pending' = [pending EXCEPT ![i] = 0]
        /\ st' = [st EXCEPT ![i] = "ended"]
        /\ UNCHANGED <<poolVars, ready, err, attempt, hasConn, writerDone, reported, getVars>>
    BY <1>0, <1>6 DEF ConnClose, SocketsOf, DialOf, Served
  <2>2. open[i] - 1 \in 0 .. NumDialAttempts /\ open[i] - 1 <= attempt[i]
    BY <1>0, <2>1
  <2>3. TypeOK'
    <3>1. /\ open' \in [Ids -> 0 .. NumDialAttempts] /\ 0 \in 0 .. MaxPending
          /\ pending' \in [Ids -> 0 .. MaxPending]
      BY <1>0, <2>1, <2>2, ClientAssumption DEF TypeOK
    <3>2. QED
      BY <1>0, <2>1, <3>1 DEF TypeOK, poolVars, getVars
  <2>4. /\ OnlyOf(i) /\ st'[i] = "ended" /\ open'[i] = open[i] - 1 /\ pending'[i] = 0
    BY <1>0, <2>1 DEF TypeOK, OnlyOf
  <2>5. DialOf(i)' /\ ReportOf(i)' /\ SocketsOf(i)'
    BY <1>0, <2>1, <2>2, <2>4 DEF DialOf, ReportOf, SocketsOf, Closed, Served
  <2>6. UNCHANGED <<conns, mu, created, getVars>>
    BY <2>1 DEF poolVars
  <2>7. QED
    BY <2>1, <2>3, <2>4, <2>5, <2>6
<1>7. CASE ReportClosed(i)
  <2>1. /\ st[i] = "ended" /\ reported[i] = <<"StateNew">> /\ st' = [st EXCEPT ![i] = "delete"]
        /\ reported' = [reported EXCEPT ![i] = Append(@, "StateClosed")]
        /\ UNCHANGED <<poolVars, dialVars, pending, writerDone, getVars>>
    BY <1>0, <1>7 DEF ReportClosed, ReportOf
  <2>2. TypeOK'
    <3>1. reported' \in [Ids -> Seq({"StateNew", "StateClosed"})]
      BY <1>0, <2>1 DEF TypeOK
    <3>2. QED
      BY <1>0, <2>1, <3>1 DEF TypeOK, poolVars, dialVars, getVars
  <2>3. OnlyOf(i) /\ st'[i] = "delete"
    BY <1>0, <2>1 DEF TypeOK, OnlyOf, dialVars
  <2>4. reported'[i] = <<"StateNew", "StateClosed">>
    <3>1. reported'[i] = Append(<<"StateNew">>, "StateClosed")
      BY <1>0, <2>1 DEF TypeOK
    <3>2. QED
      BY <3>1, AppendPair
  <2>5. DialOf(i)' /\ ReportOf(i)' /\ SocketsOf(i)'
    <3>1. DialOf(i)' /\ SocketsOf(i)' /\ ~err'[i]
      BY <1>0, <2>1, <2>3 DEF DialOf, SocketsOf, Closed, Served, dialVars
    <3>2. writerDone'[i] /\ pending'[i] = 0
      BY <1>0, <2>1 DEF ReportOf
    <3>3. ReportOf(i)'
      BY <2>3, <2>4, <3>1, <3>2 DEF ReportOf, Closed
    <3>4. QED
      BY <3>1, <3>3
  <2>6. UNCHANGED <<conns, mu, created, getVars>> /\ UNCHANGED <<ready, err>>
    BY <2>1 DEF poolVars, dialVars
  <2>7. QED
    BY <2>1, <2>2, <2>3, <2>5, <2>6
<1>8. CASE WriteLoop(i) \/ ConnFails(i)
  <2>1. /\ st[i] = "handling" /\ UNCHANGED <<poolVars, st, dialVars, reported, getVars>>
        /\ \/ pending' = [pending EXCEPT ![i] = 0] /\ UNCHANGED writerDone
           \/ writerDone' = [writerDone EXCEPT ![i] = TRUE] /\ UNCHANGED pending
    BY <1>8 DEF WriteLoop, ConnFails
  <2>2. TypeOK'
    <3>1. 0 \in 0 .. MaxPending
      BY ClientAssumption
    <3>2. writerDone' \in [Ids -> BOOLEAN]
      BY <1>0, <2>1 DEF TypeOK
    <3>3. pending' \in [Ids -> 0 .. MaxPending]
      BY <1>0, <2>1, <3>1 DEF TypeOK
    <3>4. QED
      BY <1>0, <2>1, <3>2, <3>3 DEF TypeOK, poolVars, dialVars, getVars
  <2>3. OnlyOf(i)
    BY <1>0, <2>1 DEF TypeOK, OnlyOf, dialVars
  <2>4. DialOf(i)' /\ ReportOf(i)' /\ SocketsOf(i)'
    BY <1>0, <2>1 DEF DialOf, ReportOf, SocketsOf, Closed, Served, dialVars
  <2>5. UNCHANGED <<conns, mu, created, getVars>> /\ UNCHANGED <<ready, err>>
    BY <2>1 DEF poolVars, dialVars
  <2>6. QED
    BY <2>1, <2>2, <2>3, <2>4, <2>5
<1>9. QED
  BY <1>1, <1>2, <1>3, <1>4, <1>5, <1>6, <1>7, <1>8

\* The last step: the clientConn leaves the pool.
LEMMA DeleteKeeps ==
    ASSUME IInv, NEW i \in Ids, Delete(i)
    PROVE  IInv'
<1>1. /\ TypeOK /\ Pool /\ LifeOf(i) /\ st[i] = "delete" /\ mu = Nobody
      /\ conns \in Seq(Ids) /\ Distinct(conns)
  BY DEF IInv, Delete, Pool, TypeOK
<1>2. /\ conns' = Without(i) /\ st' = [st EXCEPT ![i] = "gone"]
      /\ UNCHANGED <<mu, doneClosed, created, dialVars, connVars, getVars>>
  BY DEF Delete, Goto
<1>3. /\ conns' \in Seq(Ids) /\ Distinct(conns') /\ Len(conns') <= Len(conns)
      /\ \A x \in Ids : InPool(x)' <=> InPool(x) /\ x # i
  <2>1. /\ Without(i) \in Seq(Ids) /\ Distinct(Without(i)) /\ Len(Without(i)) <= Len(conns)
        /\ \A x \in Ids : (\E j \in DOMAIN Without(i) : Without(i)[j] = x)
                            <=> InPool(x) /\ x # i
    BY <1>1, WithoutKeeps
  <2>2. \A x \in Ids : InPool(x)' <=> \E j \in DOMAIN conns' : conns'[j] = x
    BY DEF InPool
  <2>3. QED
    BY <1>2, <2>1, <2>2, Zenon
<1>4. TypeOK'
  BY <1>1, <1>2, <1>3 DEF TypeOK, dialVars, connVars, getVars
<1>5. OnlyOf(i) /\ st'[i] = "gone"
  BY <1>1, <1>2 DEF TypeOK, OnlyOf, dialVars, connVars
<1>6. LifeOf(i)'
  BY <1>1, <1>2, <1>5 DEF LifeOf, DialOf, ReportOf, SocketsOf, Closed, Served, dialVars, connVars
<1>7. \A j \in Ids : LifeOf(j)'
  BY <1>5, <1>6, OthersKeep DEF IInv
<1>8. Pool'
  <2>1. Len(conns') <= MaxConns
    <3>1. Len(conns) \in Nat /\ Len(conns') \in Nat /\ MaxConns \in Nat
      BY <1>1, <1>3, ClientAssumption
    <3>2. QED
      BY <1>1, <1>3, <3>1 DEF Pool
  <2>2. \A x \in Ids : InPool(x)' <=> st'[x] \notin {"unused", "gone"}
    BY <1>1, <1>3, <1>5 DEF Pool, OnlyOf
  <2>3. \A x \in Ids : st'[x] = "unused" <=> x > created'
    BY <1>1, <1>2, <1>5 DEF Pool, OnlyOf
  <2>4. QED
    BY <1>3, <2>1, <2>2, <2>3 DEF Pool
<1>9. CallersShape'
  <2>1. ASSUME NEW g \in Getters
        PROVE  CallerOf(g)'
    <3>1. CallerOf(g) /\ gpc[g] # "scan" /\ mu # g
      BY <1>1, ClientAssumption DEF IInv, CallersShape, CallerOf
    <3>2. QED
      BY <1>2, <3>1 DEF CallerOf, dialVars, getVars
  <2>2. QED
    BY <2>1 DEF CallersShape
<1>10. QED
  BY <1>4, <1>7, <1>8, <1>9 DEF IInv

-----------------------------------------------------------------------------
\* Steps of a caller of Get.

\* The other callers, none of which is scanning, keep their part of the invariant
\* when one that has Client.mu, or finds it free, comes out of getClientConn.
LEMMA CallersKeep ==
    ASSUME IInv, NEW g \in Getters, NEW c \in Ids, mu = g \/ mu = Nobody, Chosen(g),
           gcc' = [gcc EXCEPT ![g] = c], UNCHANGED <<ready, err>>
    PROVE  CallersShape'
<1>1. TypeOK
  BY DEF IInv
<1>2. /\ mu' = Nobody /\ gpc' = [gpc EXCEPT ![g] = "wait"]
      /\ gi' = [gi EXCEPT ![g] = 0] /\ gmc' = [gmc EXCEPT ![g] = 0]
  BY DEF Chosen
<1>3. ASSUME NEW h \in Getters
      PROVE  CallerOf(h)'
  <2>1. CallerOf(h) /\ mu' # h
    BY <1>2, ClientAssumption DEF IInv, CallersShape
  <2>2. CASE h = g
    BY <1>1, <1>2, <2>1, <2>2 DEF TypeOK, CallerOf
  <2>3. CASE h # g
    <3>1. gpc[h] # "scan" /\ gpc'[h] = gpc[h] /\ gcc'[h] = gcc[h]
      BY <1>1, <1>2, <2>1, <2>3, ClientAssumption DEF TypeOK, CallerOf
    <3>2. QED
      BY <2>1, <3>1 DEF CallerOf
  <2>4. QED
    BY <2>2, <2>3
<1>4. QED
  BY <1>3 DEF CallersShape

\* getClientConn chooses a clientConn of the pool.
LEMMA ChooseKeeps ==
    ASSUME IInv, NEW g \in Getters, NEW c \in Ids, mu = g, Chosen(g),
           gcc' = [gcc EXCEPT ![g] = c],
           UNCHANGED <<conns, created, st, doneClosed, dialVars, connVars>>
    PROVE  IInv'
<1>1. CallersShape'
  BY CallersKeep DEF dialVars
<1>2. TypeOK'
  BY ClientAssumption, SMTT(30) DEF IInv, TypeOK, Chosen, dialVars, connVars
<1>3. Pool' /\ \A i \in Ids : LifeOf(i)'
  BY DEF IInv, Pool, InPool, LifeOf, DialOf, ReportOf, SocketsOf, dialVars, connVars
<1>4. QED
  BY <1>1, <1>2, <1>3 DEF IInv

\* getClientConn makes a new one, when the pool was empty or could grow.
LEMMA GrowKeeps ==
    ASSUME IInv, NEW g \in Getters, mu = g \/ mu = Nobody, Chosen(g), NewClientConn(g),
           created < MaxDials, Len(conns) < MaxConns,
           UNCHANGED <<doneClosed, dialVars, connVars>>
    PROVE  IInv'
<1>1. /\ TypeOK /\ Pool /\ conns \in Seq(Ids) /\ Distinct(conns) /\ Len(conns) \in Nat
      /\ created \in Nat /\ MaxDials \in Nat /\ MaxConns \in Nat
  BY ClientAssumption DEF IInv, TypeOK, Pool
<1>2. PICK c \in Ids : c = created + 1
  BY <1>1 DEF Ids
<1>3. st[c] = "unused" /\ ~InPool(c) /\ LifeOf(c)
  BY <1>1, <1>2 DEF IInv, Pool
<1>4. /\ created' = c /\ conns' = Append(conns, c) /\ st' = [st EXCEPT ![c] = "dial"]
      /\ gcc' = [gcc EXCEPT ![g] = c]
  BY <1>2 DEF NewClientConn
<1>5. /\ conns' \in Seq(Ids) /\ Distinct(conns') /\ Len(conns') = Len(conns) + 1
      /\ \A x \in Ids : InPool(x)' <=> InPool(x) \/ x = c
  BY <1>1, <1>3, <1>4, AppendJoins
<1>6. TypeOK'
  <2>1. created' \in 0 .. MaxDials
    BY <1>1, <1>2, <1>4
  <2>2. st' \in [Ids -> {"unused", "dial", "handshake", "giveUp", "ready", "new",
                         "handling", "ended", "delete", "gone"}]
    BY <1>1, <1>4 DEF TypeOK
  <2>3. /\ gpc' \in [Getters -> {"idle", "scan", "wait", "use"}]
        /\ gcc' \in [Getters -> Ids \cup {0}] /\ gmc' \in [Getters -> Ids \cup {0}]
        /\ gi' \in [Getters -> Nat] /\ gmp' \in [Getters -> 0 .. MaxPending]
    BY <1>1, <1>4, ClientAssumption DEF TypeOK, Chosen
  <2>4. mu' \in Getters \cup {Nobody}
    BY DEF Chosen
  <2>5. QED
    BY <1>1, <1>5, <2>1, <2>2, <2>3, <2>4 DEF TypeOK, dialVars, connVars
<1>7. OnlyOf(c) /\ st'[c] = "dial"
  BY <1>1, <1>4 DEF TypeOK, OnlyOf, dialVars, connVars
<1>8. LifeOf(c)'
  <2>1. /\ attempt[c] \in Nat /\ attempt'[c] = attempt[c] /\ open'[c] = open[c]
        /\ ready'[c] = ready[c] /\ reported'[c] = reported[c]
    BY <1>1 DEF TypeOK, dialVars, connVars
  <2>2. QED
    BY <1>3, <1>7, <2>1 DEF LifeOf, DialOf, ReportOf, SocketsOf, Closed, Served
<1>9. \A j \in Ids : LifeOf(j)'
  BY <1>7, <1>8, OthersKeep DEF IInv
<1>10. Pool'
  <2>1. \A x \in Ids : InPool(x)' <=> st'[x] \notin {"unused", "gone"}
    BY <1>1, <1>5, <1>7 DEF Pool, OnlyOf
  <2>2. ASSUME NEW x \in Ids
        PROVE  st'[x] = "unused" <=> x > created'
    <3>1. x \in Nat /\ (x # c => (x > created <=> x > created'))
      BY <1>1, <1>2, <1>4 DEF Ids
    <3>2. QED
      BY <1>1, <1>2, <1>4, <1>7, <3>1 DEF Pool, OnlyOf
  <2>3. Len(conns') <= MaxConns
    BY <1>1, <1>5
  <2>4. QED
    BY <1>5, <2>1, <2>2, <2>3 DEF Pool
<1>11. CallersShape'
  BY <1>4, CallersKeep DEF dialVars
<1>12. QED
  BY <1>6, <1>9, <1>10, <1>11 DEF IInv

\* One connection of the scan: chosen, passed over, or the last one.
LEMMA ScanStepKeeps ==
    ASSUME IInv, NEW g \in Getters, ScanStep(g)
    PROVE  IInv'
<1>1. /\ TypeOK /\ CallerOf(g) /\ gpc[g] = "scan" /\ mu = g /\ created < MaxDials
      /\ gi[g] \in 1 .. Len(conns) /\ Len(conns) \in Nat /\ MaxConns \in Nat
      /\ UNCHANGED <<doneClosed, dialVars, connVars>>
  <2>1. gpc[g] = "scan" /\ UNCHANGED <<doneClosed, dialVars, connVars>>
    BY DEF ScanStep
  <2>2. CallerOf(g) /\ TypeOK
    BY DEF IInv, CallersShape
  <2>3. mu = g /\ created < MaxDials /\ gi[g] \in 1 .. Len(conns)
    BY <2>1, <2>2 DEF CallerOf
  <2>4. Len(conns) \in Nat /\ MaxConns \in Nat
    BY <2>2, ClientAssumption DEF TypeOK
  <2>5. QED
    BY <2>1, <2>2, <2>3, <2>4
<1>2. PICK cc \in Ids : cc = conns[gi[g]]
  BY <1>1, SMTT(30) DEF TypeOK
<1>3. PICK cp \in 0 .. MaxPending : cp = pending[cc]
  BY <1>1 DEF TypeOK
<1>4. PICK less \in BOOLEAN : less = (gi[g] = 1 \/ cp < gmp[g])
  OBVIOUS
<1>5. PICK best \in Ids : best = IF less THEN cc ELSE gmc[g]
  <2>1. gi[g] # 1 => gmc[g] \in Ids
    BY <1>1 DEF CallerOf
  <2>2. ~less => gmc[g] \in Ids
    BY <1>4, <2>1, Zenon
  <2>3. QED
    BY <2>2
<1>6. \/ gcc' = [gcc EXCEPT ![g] = cc] /\ Chosen(g) /\ UNCHANGED <<conns, created, st>>
      \/ /\ gi[g] < Len(conns) /\ gi' = [gi EXCEPT ![g] = @ + 1]
         /\ gmc' = [gmc EXCEPT ![g] = best]
         /\ gmp' = [gmp EXCEPT ![g] = IF less THEN cp ELSE @]
         /\ UNCHANGED <<conns, mu, created, st, gpc, gcc>>
      \/ Len(conns) < MaxConns /\ NewClientConn(g) /\ Chosen(g)
      \/ gcc' = [gcc EXCEPT ![g] = best] /\ Chosen(g) /\ UNCHANGED <<conns, created, st>>
  BY <1>2, <1>3, <1>4, <1>5, Zenon DEF ScanStep, CanGrow
<1>7. CASE gcc' = [gcc EXCEPT ![g] = cc] /\ Chosen(g) /\ UNCHANGED <<conns, created, st>>
  BY <1>1, <1>7, ChooseKeeps
<1>8. CASE /\ gi[g] < Len(conns) /\ gi' = [gi EXCEPT ![g] = @ + 1]
           /\ gmc' = [gmc EXCEPT ![g] = best]
           /\ gmp' = [gmp EXCEPT ![g] = IF less THEN cp ELSE @]
           /\ UNCHANGED <<conns, mu, created, st, gpc, gcc>>
  <2>1. gi[g] + 1 \in 1 .. Len(conns)
    BY <1>1, <1>8
  <2>2. TypeOK'
    <3>1. gmp' \in [Getters -> 0 .. MaxPending]
      BY <1>1, <1>8 DEF TypeOK
    <3>2. gi' \in [Getters -> Nat]
      <4>1. gi[g] + 1 \in Nat
        BY <2>1
      <4>2. QED
        BY <1>1, <1>8, <4>1 DEF TypeOK
    <3>3. gmc' \in [Getters -> Ids \cup {0}]
      BY <1>1, <1>8 DEF TypeOK
    <3>4. QED
      BY <1>1, <1>8, <3>1, <3>2, <3>3 DEF TypeOK, dialVars, connVars
  <2>3. Pool' /\ \A i \in Ids : LifeOf(i)'
    BY <1>1, <1>8
       DEF IInv, Pool, InPool, LifeOf, DialOf, ReportOf, SocketsOf, dialVars, connVars
  <2>4. ASSUME NEW h \in Getters
        PROVE  CallerOf(h)'
    <3>1. CallerOf(h) /\ gpc'[h] = gpc[h] /\ gcc'[h] = gcc[h] /\ mu' = mu
      BY <1>8 DEF IInv, CallersShape
    <3>2. CASE h = g
      <4>1. gi'[g] = gi[g] + 1 /\ gmc'[g] = best
        BY <1>1, <1>8 DEF TypeOK
      <4>2. QED
        BY <1>1, <1>8, <2>1, <3>1, <3>2, <4>1 DEF CallerOf, dialVars
    <3>3. CASE h # g
      <4>1. gpc[h] # "scan"
        BY <1>1, <3>1, <3>3 DEF CallerOf
      <4>2. QED
        BY <1>1, <1>8, <3>1, <4>1 DEF CallerOf, dialVars
    <3>4. QED
      BY <3>2, <3>3
  <2>5. QED
    BY <2>2, <2>3, <2>4 DEF IInv, CallersShape
<1>9. CASE Len(conns) < MaxConns /\ NewClientConn(g) /\ Chosen(g)
  BY <1>1, <1>9, GrowKeeps
<1>10. CASE gcc' = [gcc EXCEPT ![g] = best] /\ Chosen(g) /\ UNCHANGED <<conns, created, st>>
  BY <1>1, <1>10, ChooseKeeps
<1>11. QED
  BY <1>6, <1>7, <1>8, <1>9, <1>10

\* A caller enters getClientConn: the first clientConn, or the start of the scan.
LEMMA GetEnters ==
    ASSUME IInv, NEW g \in Getters, GetFirst(g) \/ GetScan(g)
    PROVE  IInv'
<1>1. /\ TypeOK /\ conns \in Seq(Ids) /\ Len(conns) \in Nat /\ MaxConns \in Nat \ {0}
      /\ gpc[g] = "idle" /\ mu = Nobody /\ created < MaxDials
      /\ UNCHANGED <<doneClosed, dialVars, connVars>>
  BY ClientAssumption DEF IInv, TypeOK, GetFirst, GetScan, GetLock
<1>2. CASE GetFirst(g)
  <2>1. NewClientConn(g) /\ Chosen(g) /\ conns = <<>>
    BY <1>2 DEF GetFirst
  <2>2. Len(conns) < MaxConns
    BY <1>1, <2>1
  <2>3. QED
    BY <1>1, <2>1, <2>2, GrowKeeps
<1>3. CASE GetScan(g)
  <2>1. /\ conns # <<>> /\ mu' = g /\ gpc' = [gpc EXCEPT ![g] = "scan"]
        /\ gi' = [gi EXCEPT ![g] = 1] /\ UNCHANGED <<conns, created, st, gcc, gmc, gmp>>
    BY <1>3 DEF GetScan
  <2>2. 1 \in 1 .. Len(conns)
    BY <1>1, <2>1
  <2>3. TypeOK'
    BY <1>1, <2>1 DEF TypeOK, dialVars, connVars
  <2>4. Pool' /\ \A i \in Ids : LifeOf(i)'
    BY <1>1, <2>1
       DEF IInv, Pool, InPool, LifeOf, DialOf, ReportOf, SocketsOf, dialVars, connVars
  <2>5. ASSUME NEW h \in Getters
        PROVE  CallerOf(h)'
    <3>1. CallerOf(h) /\ gpc[h] # "scan" /\ gcc'[h] = gcc[h]
      BY <1>1, <2>1, ClientAssumption DEF IInv, CallersShape, CallerOf
    <3>2. /\ gpc'[h] = IF h = g THEN "scan" ELSE gpc[h]
          /\ h = g => gi'[h] = 1
      BY <1>1, <2>1 DEF TypeOK
    <3>3. QED
      BY <1>1, <2>1, <2>2, <3>1, <3>2 DEF CallerOf, dialVars
  <2>6. QED
    BY <2>3, <2>4, <2>5 DEF IInv, CallersShape
<1>4. QED
  BY <1>2, <1>3

\* A caller comes out of the wait for cc.ready, writes, or keeps the connection.
LEMMA GetLeaves ==
    ASSUME IInv, NEW g \in Getters, GetReturn(g) \/ Use(g) \/ Keep(g)
    PROVE  IInv'
<1>1. /\ TypeOK /\ CallerOf(g) /\ gpc[g] \in {"wait", "use"} /\ gcc[g] \in Ids
      /\ UNCHANGED <<poolVars, st, dialVars, writerDone, reported, gi, gmc, gmp>>
  <2>1. gpc[g] \in {"wait", "use"} /\ TypeOK /\ CallerOf(g)
    BY DEF IInv, CallersShape, GetReturn, Use, Keep
  <2>2. QED
    BY <2>1 DEF CallerOf, GetReturn, Use, Keep, connVars
<1>2. PICK c \in Ids : c = gcc[g]
  BY <1>1
<1>3. \/ /\ gpc' = [gpc EXCEPT ![g] = "idle"] /\ gcc' = [gcc EXCEPT ![g] = 0]
      \/ /\ gpc' = [gpc EXCEPT ![g] = "use"] /\ gcc' = gcc /\ ready[c] /\ ~err[c]
  BY <1>2 DEF GetReturn, Use, Keep
<1>4. \/ UNCHANGED pending
      \/ /\ pending[c] < MaxPending /\ pending' = [pending EXCEPT ![c] = @ + 1]
         /\ ~writerDone[c]
  BY <1>2 DEF GetReturn, Use, Keep, connVars
<1>5. TypeOK'
  <2>1. pending' \in [Ids -> 0 .. MaxPending]
    <3>1. CASE UNCHANGED pending
      BY <1>1, <3>1 DEF TypeOK
    <3>2. CASE pending[c] < MaxPending /\ pending' = [pending EXCEPT ![c] = @ + 1]
      <4>1. pending[c] + 1 \in 0 .. MaxPending
        BY <1>1, <3>2, ClientAssumption, SMTT(30) DEF TypeOK
      <4>2. QED
        BY <1>1, <3>2, <4>1 DEF TypeOK
    <3>3. QED
      BY <1>4, <3>1, <3>2
  <2>2. /\ gpc' \in [Getters -> {"idle", "scan", "wait", "use"}]
        /\ gcc' \in [Getters -> Ids \cup {0}]
    BY <1>1, <1>3 DEF TypeOK
  <2>3. QED
    BY <1>1, <2>1, <2>2 DEF TypeOK, poolVars, dialVars
<1>6. Pool'
  BY <1>1 DEF IInv, Pool, InPool, poolVars
<1>7. ASSUME NEW i \in Ids
      PROVE  LifeOf(i)'
  <2>1. LifeOf(i)
    BY DEF IInv
  <2>2. pending'[i] = pending[i] \/ ~writerDone[i]
    BY <1>1, <1>4 DEF TypeOK
  <2>3. QED
    BY <1>1, <2>1, <2>2 DEF LifeOf, DialOf, ReportOf, SocketsOf, dialVars
<1>8. ASSUME NEW h \in Getters
      PROVE  CallerOf(h)'
  <2>1. CallerOf(h)
    BY DEF IInv, CallersShape
  <2>2. CASE h = g
    <3>1. \/ gpc'[g] = "idle"
          \/ gpc'[g] = "use" /\ gcc'[g] = c /\ ready[c] /\ ~err[c]
      BY <1>1, <1>2, <1>3 DEF TypeOK
    <3>2. mu # g
      BY <1>1 DEF CallerOf
    <3>3. QED
      BY <1>1, <1>2, <2>2, <3>1, <3>2 DEF CallerOf, poolVars, dialVars
  <2>3. CASE h # g
    <3>1. gpc'[h] = gpc[h] /\ gcc'[h] = gcc[h]
      BY <1>1, <1>3, <2>3 DEF TypeOK
    <3>2. QED
      BY <1>1, <2>1, <3>1 DEF CallerOf, poolVars, dialVars
  <2>4. QED
    BY <2>2, <2>3
<1>9. QED
  BY <1>5, <1>6, <1>7, <1>8 DEF IInv, CallersShape

-----------------------------------------------------------------------------
\* The invariant.

\* Initially the pool is empty and nobody has called.
LEMMA InitInv == Init => IInv
<1> SUFFICES ASSUME Init
             PROVE  IInv
  OBVIOUS
<1>1. TypeOK
  <2>1. 0 \in 0 .. MaxPending /\ 0 \in 0 .. MaxDials /\ 0 \in 0 .. NumDialAttempts
    BY ClientAssumption
  <2>2. conns \in Seq(Ids) /\ reported \in [Ids -> Seq({"StateNew", "StateClosed"})]
    BY DEF Init
  <2>3. QED
    BY <2>1, <2>2 DEF Init, TypeOK
<1>2. Pool
  BY ClientAssumption DEF Init, Pool, InPool, Distinct, Ids
<1>3. CallersShape
  BY ClientAssumption DEF Init, CallersShape, CallerOf
<1>4. \A i \in Ids : LifeOf(i)
  BY ClientAssumption DEF Init, LifeOf, DialOf, ReportOf, SocketsOf, Served, Closed
<1>5. QED
  BY <1>1, <1>2, <1>3, <1>4 DEF IInv

\* Every step keeps the invariant.
LEMMA NextInv == IInv /\ [Next]_vars => IInv'
<1> SUFFICES ASSUME IInv, [Next]_vars
             PROVE  IInv'
  OBVIOUS
<1>1. ASSUME NEW g \in Getters, Caller(g) \/ ScanStep(g) \/ GetReturn(g)
      PROVE  IInv'
  BY <1>1, GetEnters, GetLeaves, ScanStepKeeps DEF Caller
<1>2. ASSUME NEW i \in Ids, Goroutine(i) \/ WriteLoop(i) \/ ConnFails(i)
      PROVE  IInv'
  BY <1>2, AttemptFailedKeeps, GoroutineKeeps, DeleteKeeps DEF Goroutine, HandleDone
<1>3. CASE Shutdown \/ UNCHANGED vars
  <2>1. UNCHANGED <<conns, mu, created, st, dialVars, connVars, getVars>>
    BY <1>3 DEF Shutdown, vars, poolVars
  <2>2. doneClosed' \in BOOLEAN
    BY <1>3 DEF Shutdown, vars, poolVars, IInv, TypeOK
  <2>3. TypeOK'
    BY <2>1, <2>2 DEF IInv, TypeOK, dialVars, connVars, getVars
  <2>4. Pool' /\ CallersShape'
    BY <2>1 DEF IInv, Pool, InPool, CallersShape, CallerOf, dialVars, getVars
  <2>5. \A i \in Ids : LifeOf(i)'
    BY <2>1 DEF IInv, LifeOf, DialOf, ReportOf, SocketsOf, dialVars, connVars
  <2>6. QED
    BY <2>3, <2>4, <2>5 DEF IInv
<1>4. QED
  BY <1>1, <1>2, <1>3 DEF Next

\* The invariant holds in every state.
THEOREM Invariance == Spec => []IInv
BY InitInv, NextInv, PTL DEF Spec

-----------------------------------------------------------------------------
\* The properties.

\* Client.conns is the list of the running clientConns, each once, and never longer
\* than MaxConns, whatever Gets, failed dials and removals interleave
\* (getClientConn, deleteClientConn).
THEOREM PoolCorrect == Spec => []PoolExact
<1>1. IInv => PoolExact
  BY DEF IInv, Pool, PoolExact, Distinct
<1>2. QED
  BY <1>1, Invariance, PTL

\* Get returns without error only connections whose handshake succeeded: cc.err does
\* not change after cc.ready is closed.
THEOREM GetCorrect == Spec => []GetHonest
<1>1. ASSUME IInv, NEW g \in Getters, gpc[g] = "use"
      PROVE  /\ st[gcc[g]] \in {"new", "handling", "ended", "delete", "gone"}
             /\ attempt[gcc[g]] < NumDialAttempts
  <2>1. gcc[g] \in Ids /\ ready[gcc[g]] /\ ~err[gcc[g]]
    BY <1>1 DEF IInv, CallersShape, CallerOf
  <2>2. QED
    BY <1>1, <2>1 DEF IInv, LifeOf, DialOf, Served, Closed
<1>2. IInv => GetHonest
  BY <1>1 DEF GetHonest
<1>3. QED
  BY <1>2, Invariance, PTL

\* ConnState is told StateNew then StateClosed of a connection that came up and
\* nothing of one that did not, and the queue is empty for good when it is told
\* the end.
THEOREM LifecycleCorrect == Spec => []LifecycleReported
<1>1. ASSUME IInv, NEW i \in Ids
      PROVE  /\ st[i] = "gone" =>
                  reported[i] = IF err[i] THEN <<>> ELSE <<"StateNew", "StateClosed">>
             /\ Len(reported[i]) = 2 => writerDone[i] /\ pending[i] = 0
  <2>1. ReportOf(i) /\ TypeOK
    BY <1>1 DEF IInv, LifeOf
  <2>2. Len(<<>>) = 0 /\ Len(<<"StateNew">>) = 1
    OBVIOUS
  <2>3. ASSUME Len(reported[i]) = 2
        PROVE  st[i] \in Closed /\ ~err[i]
    <3>1. reported[i] # <<>> /\ reported[i] # <<"StateNew">>
      BY <2>2, <2>3
    <3>2. st[i] \notin {"unused", "dial", "handshake", "giveUp", "ready", "new",
                        "handling", "ended"}
      BY <2>1, <3>1 DEF ReportOf
    <3>3. st[i] \in Closed
      BY <2>1, <3>2 DEF TypeOK, Closed
    <3>4. QED
      BY <2>1, <3>1, <3>3, Zenon DEF ReportOf
  <2>4. QED
    BY <2>1, <2>3 DEF ReportOf, Closed
<1>2. IInv => LifecycleReported
  BY <1>1 DEF LifecycleReported
<1>3. QED
  BY <1>2, Invariance, PTL

\* The goroutine of a clientConn closes the socket of its last attempt on every path,
\* so that only those of earlier failed attempts can be left open.
THEOREM SocketsCorrect == Spec => []SocketsClosed
<1>1. IInv => SocketsClosed
  BY DEF IInv, LifeOf, SocketsOf, SocketsClosed, Closed
<1>2. QED
  BY <1>1, Invariance, PTL
=============================================================================

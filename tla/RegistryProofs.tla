--------------------------- MODULE RegistryProofs ---------------------------
(***************************************************************************)
(* Theorems about Registry, for any connections, peers, services and       *)
(* probes, and any number of attempts to reconnect.                        *)
(*                                                                         *)
(* The index is an inverse of what Providers offer because registering and *)
(* deregistering keep it one, whatever connection they are called for; so  *)
(* the argument is about who calls them, and when: probes work on          *)
(* connections that this node dialed, also after their end, and a          *)
(* handshake is handled while its connection is up.                        *)
(***************************************************************************)
EXTENDS Registry, TLAPS

\* The services index and the Providers agree.
Inverse ==
    \A s \in Services, c \in Conns :
        c \in services[s] <=> c \in registered /\ s \in offers[c]

\* What a probe has in hand at each of its positions.
ProbesHold ==
    \A p \in Probers :
        /\ ppc[p] # "idle" => phost[p] \in Hosts /\ tries[p] >= 1
        /\ ppc[p] \in {"register", "request", "update", "table"} => pconn[p] \in Outgoing
        /\ ppc[p] \in {"update", "table"} => IdOf(pconn[p]) # Nil

\* The table is updated by a handshake of a peer with an id, in a read loop.
ReadLoopsHold ==
    \A c \in Conns : hpc[c] = "table" => IdOf(c) # Nil /\ life[c] = "up"

IInv == TypeOK /\ Inverse /\ ProbesHold /\ ReadLoopsHold /\ ProvidersLeave

-----------------------------------------------------------------------------
\* The two operations on Providers.

\* registerProvider keeps the index exact, for a Provider that is new and for one
\* that is registered again, and leaves other Providers alone.
LEMMA RegisterKeeps ==
    ASSUME TypeOK, Inverse, NEW c \in Conns, NEW id \in Hosts \cup {Nil},
           NEW names \in SUBSET Services, RegisterProvider(c, id, names)
    PROVE  /\ Inverse' /\ registered' = registered \cup {c}
           /\ services' \in [Services -> SUBSET Conns] /\ registered' \in SUBSET Conns
           /\ kadId' \in [Conns -> Hosts \cup {Nil}]
           /\ offers' \in [Conns -> SUBSET Services]
<1>1. Known(c) \in SUBSET Services
  BY DEF TypeOK, Known
<1>2. /\ services' \in [Services -> SUBSET Conns] /\ registered' \in SUBSET Conns
      /\ kadId' \in [Conns -> Hosts \cup {Nil}] /\ offers' \in [Conns -> SUBSET Services]
      /\ registered' = registered \cup {c}
  BY <1>1 DEF TypeOK, RegisterProvider
<1>3. ASSUME NEW s \in Services, NEW d \in Conns
      PROVE  d \in services'[s] <=> d \in registered' /\ s \in offers'[d]
  <2>1. CASE d = c
    BY <2>1, <1>1 DEF TypeOK, Inverse, RegisterProvider, Known
  <2>2. CASE d # c
    BY <2>2, <1>1 DEF TypeOK, Inverse, RegisterProvider
  <2>3. QED
    BY <2>1, <2>2
<1>4. QED
  BY <1>2, <1>3 DEF Inverse

\* deregisterProvider removes a connection from every service it offered.
LEMMA DeregisterKeeps ==
    ASSUME TypeOK, Inverse, NEW c \in Conns, DeregisterProvider(c)
    PROVE  /\ Inverse' /\ registered' = registered \ {c}
           /\ services' \in [Services -> SUBSET Conns]
BY DEF TypeOK, Inverse, DeregisterProvider, Unlisted

\* The id of the peer behind a connection is a host or nil.
LEMMA IdType == \A c \in Conns : IdOf(c) \in Hosts \cup {Nil}
BY RegistryAssumption DEF IdOf

\* The end of a probe, with or without another attempt.
LEMMA ProbeEndsKeeps ==
    ASSUME TypeOK, ProbesHold, NEW p \in Probers, NEW again \in BOOLEAN, ppc[p] # "idle",
           ProbeEnds(p, again)
    PROVE  /\ ProbesHold'
           /\ ppc' \in [Probers -> {"idle", "get", "register", "request", "update", "table"}]
           /\ phost' \in [Probers -> Hosts \cup {Nil}]
           /\ pconn' \in [Probers -> Conns \cup {Nil}]
           /\ poffers' \in [Probers -> SUBSET Services]
           /\ tries' \in [Probers -> 0 .. Attempts]
<1>1. tries[p] \in 1 .. Attempts
  BY RegistryAssumption DEF TypeOK, ProbesHold
<1>2. /\ (IF again THEN tries[p] - 1 ELSE 0) \in 0 .. Attempts
      /\ tries[p] > 1 => tries[p] - 1 >= 1
  BY <1>1, RegistryAssumption
<1>3. /\ ppc' \in [Probers -> {"idle", "get", "register", "request", "update", "table"}]
      /\ phost' \in [Probers -> Hosts \cup {Nil}]
      /\ pconn' \in [Probers -> Conns \cup {Nil}]
      /\ poffers' \in [Probers -> SUBSET Services]
      /\ tries' \in [Probers -> 0 .. Attempts]
  BY <1>2 DEF TypeOK, ProbeEnds
<1>4. ASSUME NEW q \in Probers
      PROVE  /\ ppc'[q] # "idle" => phost'[q] \in Hosts /\ tries'[q] >= 1
             /\ ppc'[q] \in {"register", "request", "update", "table"}
                  => pconn'[q] \in Outgoing
             /\ ppc'[q] \in {"update", "table"} => IdOf(pconn'[q]) # Nil
  <2>1. CASE q = p
    BY <2>1, <1>2 DEF TypeOK, ProbesHold, ProbeEnds, MoreTries
  <2>2. CASE q # p
    BY <2>2 DEF TypeOK, ProbesHold, ProbeEnds
  <2>3. QED
    BY <2>1, <2>2
<1>5. QED
  BY <1>3, <1>4 DEF ProbesHold, IdOf

-----------------------------------------------------------------------------
\* The invariant is inductive.

\* It holds in a node that has just been created.
LEMMA InitIInv == Init => IInv
<1> SUFFICES ASSUME Init
             PROVE  IInv
  OBVIOUS
<1>1. crashed \in BOOLEAN
  BY DEF Init
<1>2. TypeOK
  BY <1>1, RegistryAssumption DEF Init, TypeOK
<1>3. QED
  BY <1>2 DEF Init, IInv, Inverse, ProbesHold, ReadLoopsHold, ProvidersLeave

\* Messages on a connection.
LEMMA MessageSteps ==
    ASSUME IInv, NEW c \in Conns,
           \/ Accepted(c) \/ HandshakeTable(c) \/ ServiceRequest(c)
           \/ \E names \in SUBSET Services : Handshake(c, names)
    PROVE  IInv'
<1> USE DEF provVars, nodeVars, lifeVars, probeVars
<1>0. TypeOK /\ Inverse /\ ProbesHold /\ ReadLoopsHold /\ ProvidersLeave
  BY DEF IInv
<1>1. CASE Accepted(c)
  <2>1. TypeOK' /\ Inverse' /\ ProbesHold'
    BY <1>0, <1>1 DEF TypeOK, Accepted, Inverse, ProbesHold, IdOf
  <2>2. ReadLoopsHold' /\ ProvidersLeave'
    BY <1>0, <1>1 DEF TypeOK, Accepted, ReadLoopsHold, ProvidersLeave, IdOf
  <2>3. QED
    BY <2>1, <2>2 DEF IInv
<1>2. CASE HandshakeTable(c)
  <2>1. IdOf(c) \in Hosts
    BY <1>0, <1>2, IdType DEF ReadLoopsHold, HandshakeTable
  <2>2. TypeOK' /\ Inverse' /\ ProbesHold'
    BY <1>0, <1>2, <2>1 DEF TypeOK, HandshakeTable, Inverse, ProbesHold, IdOf
  <2>3. ReadLoopsHold' /\ ProvidersLeave'
    BY <1>0, <1>2 DEF TypeOK, HandshakeTable, ReadLoopsHold, ProvidersLeave, IdOf
  <2>4. QED
    BY <2>2, <2>3 DEF IInv
<1>3. CASE ServiceRequest(c)
  <2>1. crashed' \in BOOLEAN
    BY <1>3 DEF ServiceRequest
  <2>2. TypeOK' /\ Inverse' /\ ProbesHold' /\ ReadLoopsHold' /\ ProvidersLeave'
    BY <1>0, <1>3, <2>1 DEF TypeOK, ServiceRequest, Inverse, ProbesHold, ReadLoopsHold,
                            ProvidersLeave, IdOf
  <2>3. QED
    BY <2>2 DEF IInv
<1>4. ASSUME NEW names \in SUBSET Services, Handshake(c, names)
      PROVE  IInv'
  <2>1. RegisterProvider(c, IdOf(c), names)
    BY <1>4 DEF Handshake
  <2>2. /\ Inverse' /\ registered' = registered \cup {c}
        /\ services' \in [Services -> SUBSET Conns] /\ registered' \in SUBSET Conns
        /\ kadId' \in [Conns -> Hosts \cup {Nil}] /\ offers' \in [Conns -> SUBSET Services]
    BY <1>0, <2>1, IdType, RegisterKeeps
  <2>3. TypeOK' /\ ProbesHold'
    BY <1>0, <1>4, <2>2 DEF TypeOK, Handshake, ProbesHold, IdOf
  <2>4. ReadLoopsHold' /\ ProvidersLeave'
    BY <1>0, <1>4, <2>2
       DEF TypeOK, Handshake, ReadLoopRuns, ReadLoopsHold, ProvidersLeave, IdOf
  <2>5. QED
    BY <2>2, <2>3, <2>4 DEF IInv
<1>5. QED
  BY <1>1, <1>2, <1>3, <1>4

\* The end of a connection.
LEMMA EndSteps ==
    ASSUME IInv, NEW c \in Conns, ConnEnds(c) \/ ClosingStep(c)
    PROVE  IInv'
<1> USE DEF provVars, nodeVars, lifeVars, probeVars
<1>0. TypeOK /\ Inverse /\ ProbesHold /\ ReadLoopsHold /\ ProvidersLeave
  BY DEF IInv
<1>1. CASE ConnEnds(c)
  <2>1. TypeOK' /\ Inverse' /\ ProbesHold'
    BY <1>0, <1>1 DEF TypeOK, ConnEnds, Inverse, ProbesHold, IdOf
  <2>2. ReadLoopsHold' /\ ProvidersLeave'
    BY <1>0, <1>1 DEF TypeOK, ConnEnds, ReadLoopsHold, ProvidersLeave, IdOf
  <2>3. QED
    BY <2>1, <2>2 DEF IInv
<1>2. CASE ConnDeregister(c) /\ c \in registered
  <2>1. DeregisterProvider(c)
    BY <1>2 DEF ConnDeregister
  <2>2. /\ Inverse' /\ registered' = registered \ {c}
        /\ services' \in [Services -> SUBSET Conns]
    BY <1>0, <2>1, DeregisterKeeps
  <2>3. TypeOK' /\ ProbesHold'
    BY <1>0, <1>2, <2>2
       DEF TypeOK, ConnDeregister, DeregisterProvider, ProbesHold, IdOf
  <2>4. ReadLoopsHold' /\ ProvidersLeave'
    BY <1>0, <1>2, <2>2 DEF TypeOK, ConnDeregister, ReadLoopsHold, ProvidersLeave, IdOf
  <2>5. QED
    BY <2>2, <2>3, <2>4 DEF IInv
<1>3. CASE ConnDeregister(c) /\ c \notin registered
  <2>1. TypeOK' /\ Inverse' /\ ProbesHold'
    BY <1>0, <1>3 DEF TypeOK, ConnDeregister, Inverse, ProbesHold, IdOf
  <2>2. ReadLoopsHold' /\ ProvidersLeave'
    BY <1>0, <1>3 DEF TypeOK, ConnDeregister, ReadLoopsHold, ProvidersLeave, IdOf
  <2>3. QED
    BY <2>1, <2>2 DEF IInv
<1>4. CASE ConnUnlist(c)
  <2>1. TypeOK' /\ Inverse' /\ ProbesHold'
    BY <1>0, <1>4 DEF TypeOK, ConnUnlist, TableWithout, Inverse, ProbesHold, IdOf
  <2>2. ReadLoopsHold' /\ ProvidersLeave'
    BY <1>0, <1>4 DEF TypeOK, ConnUnlist, ReadLoopsHold, ProvidersLeave, IdOf
  <2>3. QED
    BY <2>1, <2>2 DEF IInv
<1>5. CASE ConnGone(c)
  <2>0. c \in Probers /\ Attempts \in 0 .. Attempts /\ Attempts >= 1
    BY RegistryAssumption DEF Probers
  <2>1. TypeOK' /\ Inverse'
    BY <1>0, <1>5, <2>0 DEF TypeOK, ConnGone, Inverse
  <2>2. WillReconnect(c) => left[c] \in Hosts
    BY <1>0 DEF TypeOK, WillReconnect
  <2>3. ProbesHold'
    BY <1>0, <1>5, <2>0, <2>2 DEF TypeOK, ConnGone, ProbesHold, IdOf
  <2>4. ReadLoopsHold' /\ ProvidersLeave'
    BY <1>0, <1>5 DEF TypeOK, ConnGone, ReadLoopsHold, ProvidersLeave, IdOf
  <2>5. QED
    BY <2>1, <2>3, <2>4 DEF IInv
<1>6. QED
  BY <1>1, <1>2, <1>3, <1>4, <1>5 DEF ClosingStep

\* Probes.
LEMMA ProbeSteps ==
    ASSUME IInv, NEW p \in Probers, ProbeStep(p)
    PROVE  IInv'
<1> USE DEF provVars, nodeVars, lifeVars, probeVars
<1>0. /\ TypeOK /\ Inverse /\ ProbesHold /\ ReadLoopsHold /\ ProvidersLeave
      /\ Outgoing \subseteq Conns
  BY RegistryAssumption DEF IInv
<1>1. ASSUME NEW c \in Conns, ProbeGet(p, c)
      PROVE  IInv'
  <2>1. phost[p] \in Hosts /\ c \in Outgoing
    BY <1>0, <1>1 DEF ProbesHold, ProbeGet
  <2>2. TypeOK' /\ Inverse'
    BY <1>0, <1>1, <2>1 DEF TypeOK, ProbeGet, Inverse
  <2>3. ProbesHold'
    BY <1>0, <1>1, <2>1 DEF TypeOK, ProbeGet, ProbesHold, IdOf
  <2>4. ReadLoopsHold' /\ ProvidersLeave'
    BY <1>0, <1>1 DEF TypeOK, ProbeGet, ReadLoopsHold, ProvidersLeave, IdOf
  <2>5. QED
    BY <2>2, <2>3, <2>4 DEF IInv
<1>2. CASE ProbeGetFails(p) \/ ProbeFails(p)
  <2>1. ppc[p] # "idle" /\ phost[p] \in Hosts /\ ProbeEnds(p, TRUE)
    BY <1>0, <1>2 DEF ProbesHold, ProbeGetFails, ProbeFails
  <2>2. /\ ProbesHold'
        /\ ppc' \in [Probers -> {"idle", "get", "register", "request", "update", "table"}]
        /\ phost' \in [Probers -> Hosts \cup {Nil}]
        /\ pconn' \in [Probers -> Conns \cup {Nil}]
        /\ poffers' \in [Probers -> SUBSET Services]
        /\ tries' \in [Probers -> 0 .. Attempts]
    BY <1>0, <2>1, ProbeEndsKeeps
  <2>3. TypeOK'
    BY <1>0, <1>2, <2>1, <2>2 DEF TypeOK, ProbeGetFails, ProbeFails
  <2>4. Inverse' /\ ReadLoopsHold' /\ ProvidersLeave'
    BY <1>0, <1>2
       DEF ProbeGetFails, ProbeFails, Inverse, ReadLoopsHold, ProvidersLeave, IdOf
  <2>5. QED
    BY <2>2, <2>3, <2>4 DEF IInv
<1>3. CASE ProbeRegister(p)
  <2>1. pconn[p] \in Outgoing /\ pconn[p] \in Conns /\ RegisterProvider(pconn[p], Nil, {})
    BY <1>0, <1>3 DEF ProbesHold, ProbeRegister
  <2>2. /\ Inverse' /\ registered' = registered \cup {pconn[p]}
        /\ services' \in [Services -> SUBSET Conns] /\ registered' \in SUBSET Conns
        /\ kadId' \in [Conns -> Hosts \cup {Nil}] /\ offers' \in [Conns -> SUBSET Services]
    <3>1. {} \in SUBSET Services /\ Nil \in Hosts \cup {Nil}
      OBVIOUS
    <3>2. QED
      BY <1>0, <2>1, <3>1, RegisterKeeps
  <2>3. TypeOK'
    BY <1>0, <1>3, <2>2 DEF TypeOK, ProbeRegister
  <2>4. ProbesHold'
    BY <1>0, <1>3, <2>1 DEF TypeOK, ProbeRegister, ProbesHold, IdOf
  <2>5. ReadLoopsHold' /\ ProvidersLeave'
    BY <1>0, <1>3, <2>1, <2>2 DEF ProbeRegister, ReadLoopsHold, ProvidersLeave, IdOf
  <2>6. QED
    BY <2>2, <2>3, <2>4, <2>5 DEF IInv
<1>4. ASSUME NEW names \in SUBSET Services, ProbeAnswered(p, names)
      PROVE  IInv'
  <2>1. Inverse' /\ ReadLoopsHold' /\ ProvidersLeave'
    BY <1>0, <1>4 DEF ProbeAnswered, Inverse, ReadLoopsHold, ProvidersLeave, IdOf
  <2>2. CASE IdOf(pconn[p]) = Nil
    <3>1. ppc[p] # "idle" /\ ProbeEnds(p, FALSE)
      BY <1>4, <2>2 DEF ProbeAnswered
    <3>2. /\ ProbesHold'
          /\ ppc' \in [Probers -> {"idle", "get", "register", "request", "update", "table"}]
          /\ phost' \in [Probers -> Hosts \cup {Nil}]
          /\ pconn' \in [Probers -> Conns \cup {Nil}]
          /\ poffers' \in [Probers -> SUBSET Services]
          /\ tries' \in [Probers -> 0 .. Attempts]
      BY <1>0, <3>1, ProbeEndsKeeps
    <3>3. TypeOK'
      BY <1>0, <1>4, <3>2 DEF TypeOK, ProbeAnswered
    <3>4. QED
      BY <2>1, <3>2, <3>3 DEF IInv
  <2>3. CASE IdOf(pconn[p]) # Nil
    <3>1. TypeOK'
      BY <1>0, <1>4, <2>3 DEF TypeOK, ProbeAnswered
    <3>2. ProbesHold'
      BY <1>0, <1>4, <2>3 DEF TypeOK, ProbeAnswered, ProbesHold, IdOf
    <3>3. QED
      BY <2>1, <3>1, <3>2 DEF IInv
  <2>4. QED
    BY <2>2, <2>3
<1>5. CASE ProbeUpdate(p)
  <2>1. /\ pconn[p] \in Outgoing /\ pconn[p] \in Conns /\ poffers[p] \in SUBSET Services
        /\ RegisterProvider(pconn[p], IdOf(pconn[p]), poffers[p])
    BY <1>0, <1>5 DEF TypeOK, ProbesHold, ProbeUpdate
  <2>2. /\ Inverse' /\ registered' = registered \cup {pconn[p]}
        /\ services' \in [Services -> SUBSET Conns] /\ registered' \in SUBSET Conns
        /\ kadId' \in [Conns -> Hosts \cup {Nil}] /\ offers' \in [Conns -> SUBSET Services]
    BY <1>0, <2>1, IdType, RegisterKeeps
  <2>3. TypeOK'
    BY <1>0, <1>5, <2>2 DEF TypeOK, ProbeUpdate
  <2>4. ProbesHold'
    BY <1>0, <1>5, <2>1 DEF TypeOK, ProbeUpdate, ProbesHold, IdOf
  <2>5. ReadLoopsHold' /\ ProvidersLeave'
    BY <1>0, <1>5, <2>1, <2>2 DEF ProbeUpdate, ReadLoopsHold, ProvidersLeave, IdOf
  <2>6. QED
    BY <2>2, <2>3, <2>4, <2>5 DEF IInv
<1>6. CASE ProbeTable(p)
  <2>1. /\ pconn[p] \in Conns /\ IdOf(pconn[p]) # Nil
        /\ ppc[p] # "idle" /\ ProbeEnds(p, FALSE)
    BY <1>0, <1>6 DEF ProbesHold, ProbeTable
  <2>2. /\ ProbesHold'
        /\ ppc' \in [Probers -> {"idle", "get", "register", "request", "update", "table"}]
        /\ phost' \in [Probers -> Hosts \cup {Nil}]
        /\ pconn' \in [Probers -> Conns \cup {Nil}]
        /\ poffers' \in [Probers -> SUBSET Services]
        /\ tries' \in [Probers -> 0 .. Attempts]
    BY <1>0, <2>1, ProbeEndsKeeps
  <2>3. IdOf(pconn[p]) \in Hosts
    BY <2>1, IdType
  <2>4. TypeOK'
    BY <1>0, <1>6, <2>2, <2>3 DEF TypeOK, ProbeTable
  <2>5. Inverse' /\ ReadLoopsHold' /\ ProvidersLeave'
    BY <1>0, <1>6 DEF ProbeTable, Inverse, ReadLoopsHold, ProvidersLeave, IdOf
  <2>6. QED
    BY <2>2, <2>4, <2>5 DEF IInv
<1>7. QED
  BY <1>1, <1>2, <1>3, <1>4, <1>5, <1>6 DEF ProbeStep

\* Every step of the node keeps the invariant.
LEMMA NextIInv == IInv /\ [Next]_vars => IInv'
<1> SUFFICES ASSUME IInv, [Next]_vars
             PROVE  IInv'
  OBVIOUS
<1> USE DEF provVars, nodeVars, lifeVars, probeVars
<1>0. TypeOK /\ Inverse /\ ProbesHold /\ ReadLoopsHold /\ ProvidersLeave
  BY DEF IInv
<1>1. ASSUME NEW s \in Services, ProvidersFor(s)
      PROVE  IInv'
  <2>1. crashed' \in BOOLEAN
    BY <1>1 DEF ProvidersFor
  <2>2. TypeOK' /\ Inverse' /\ ProbesHold' /\ ReadLoopsHold' /\ ProvidersLeave'
    BY <1>0, <1>1, <2>1 DEF TypeOK, ProvidersFor, Inverse, ProbesHold, ReadLoopsHold,
                            ProvidersLeave, IdOf
  <2>3. QED
    BY <2>2 DEF IInv
<1>2. ASSUME NEW u \in Users, NEW h \in Hosts, UserProbe(u, h)
      PROVE  IInv'
  <2>0. u \in Probers /\ 1 \in 0 .. Attempts
    BY RegistryAssumption DEF Probers
  <2>1. TypeOK' /\ Inverse'
    BY <1>0, <1>2, <2>0 DEF TypeOK, UserProbe, Inverse
  <2>2. ProbesHold'
    BY <1>0, <1>2, <2>0 DEF TypeOK, UserProbe, ProbesHold, IdOf
  <2>3. ReadLoopsHold' /\ ProvidersLeave'
    BY <1>0, <1>2 DEF UserProbe, ReadLoopsHold, ProvidersLeave, IdOf
  <2>4. QED
    BY <2>1, <2>2, <2>3 DEF IInv
<1>3. CASE UNCHANGED vars
  BY <1>0, <1>3 DEF vars, IInv, TypeOK, Inverse, ProbesHold, ReadLoopsHold, ProvidersLeave,
                    IdOf
<1>4. QED
  BY <1>1, <1>2, <1>3, MessageSteps, EndSteps, ProbeSteps DEF Next

-----------------------------------------------------------------------------
\* What the registry promises.

\* The services index is exactly the inverse of what the registered Providers offer,
\* across re-probes, late probes and disconnections, and all state is well typed: no
\* nil id reaches the routing table, and no probe works on a nil connection.
THEOREM IndexCorrect == Spec => []IndexExact
<1>1. IInv => IndexExact
  BY DEF IInv, Inverse, IndexExact
<1>2. QED
  BY <1>1, InitIInv, NextIInv, PTL DEF Spec

\* An accepted connection whose end has been handled has no Provider, and will not
\* have one again.
THEOREM ProvidersLeaveCorrect == Spec => []ProvidersLeave
<1>1. IInv => ProvidersLeave
  BY DEF IInv
<1>2. QED
  BY <1>1, InitIInv, NextIInv, PTL DEF Spec
=============================================================================

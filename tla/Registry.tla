------------------------------ MODULE Registry ------------------------------
(***************************************************************************)
(* Who offers what: streaming_rpc/providers.go and the parts of            *)
(* streamnode.go that maintain it, for one StreamNode.  The registry maps  *)
(* each connection to its Provider and each service name to the            *)
(* connections that offer it; beside it the node keeps the routing table   *)
(* and one Client per address it has dialed.                               *)
(*                                                                         *)
(* Goroutines: the read loop of a connection, which answers handshakes;    *)
(* the goroutine that reports StateClosed after both loops have ended;     *)
(* probes started by the user or by Bootstrap; and the goroutine that      *)
(* reconnects after a connection was lost, which probes as well.           *)
(* A step is one critical section of Providers, tableMu or clientsMu, or   *)
(* one call on a Conn or Client.                                           *)
(*                                                                         *)
(* A node is known by its host: the address and, unless it stays           *)
(* anonymous, the id it advertises.  Hosts therefore stand for kadId too.  *)
(***************************************************************************)
EXTENDS Naturals

CONSTANTS
    Conns,      \* connections, outgoing and incoming
    Outgoing,   \* those that a Client of this node dialed
    Hosts,      \* the peers
    HostOf,     \* the peer at the other end of a connection
    Anonymous,  \* peers that advertise no id (KadId == nil)
    Services,   \* service names
    Users,      \* goroutines that call ProbeWithAddr or Bootstrap
    Nil,        \* the nil *kademlia.ID; no connection
    Attempts    \* probes of a reconnecting goroutine: 8 in the code

Probers == Users \cup Conns  \* the goroutine that reconnects is named after
                             \* the connection that was lost

ASSUME RegistryAssumption ==
    /\ Outgoing \subseteq Conns /\ Anonymous \subseteq Hosts
    /\ HostOf \in [Conns -> Hosts]
    /\ Users \cap Conns = {} /\ Nil \notin Conns \cup Hosts
    /\ Attempts \in Nat \ {0}

VARIABLES
    services,                   \* Providers.services: [name -> connections]
    registered,                 \* connections in Providers.providers
    kadId, offers,              \* fields of the Provider: kadId, services
    table, clients,             \* StreamNode: routing table; addresses dialed
    life, left,                 \* a connection; kadId its closing handler holds
    hpc,                        \* its read loop, inside HandleMessage
    ppc, phost, pconn, poffers, tries, \* a probe: position, address, conn, answer
    crashed                     \* a nil kadId was dereferenced

provVars  == <<services, registered, kadId, offers>>
nodeVars  == <<table, clients>>
lifeVars  == <<life, left, hpc>>
probeVars == <<ppc, phost, pconn, poffers, tries>>
vars == <<provVars, nodeVars, lifeVars, probeVars, crashed>>

TypeOK ==
    /\ services \in [Services -> SUBSET Conns]
    /\ registered \in SUBSET Conns
    /\ kadId \in [Conns -> Hosts \cup {Nil}]
    /\ offers \in [Conns -> SUBSET Services]
    /\ table \in SUBSET Hosts /\ clients \in SUBSET Hosts
    /\ life \in [Conns -> {"unused", "up", "closed", "deregistered", "unlisted",
                        "down"}]
    /\ left \in [Conns -> Hosts \cup {Nil}]
    /\ hpc \in [Conns -> {"read", "table"}]
    /\ ppc \in [Probers -> {"idle", "get", "register", "request", "update", "table"}]
    /\ phost \in [Probers -> Hosts \cup {Nil}]
    /\ pconn \in [Probers -> Conns \cup {Nil}]
    /\ poffers \in [Probers -> SUBSET Services]
    /\ tries \in [Probers -> 0 .. Attempts]
    /\ crashed \in BOOLEAN

Init ==
    /\ services = [s \in Services |-> {}] /\ registered = {}
    /\ kadId = [c \in Conns |-> Nil] /\ offers = [c \in Conns |-> {}]
    /\ table = {} /\ clients = {}
    /\ life = [c \in Conns |-> "unused"] /\ left = [c \in Conns |-> Nil]
    /\ hpc = [c \in Conns |-> "read"]
    /\ ppc = [p \in Probers |-> "idle"] /\ phost = [p \in Probers |-> Nil]
    /\ pconn = [p \in Probers |-> Nil] /\ poffers = [p \in Probers |-> {}]
    /\ tries = [p \in Probers |-> 0]
    /\ crashed = FALSE

\* The id in the handshake packet of the peer behind a connection.
IdOf(c) == IF HostOf[c] \in Anonymous THEN Nil ELSE HostOf[c]

-----------------------------------------------------------------------------
\* Providers.

\* What a Provider that is registered already offers: services are only added.
Known(c) == IF c \in registered THEN offers[c] ELSE {}

\* registerProvider: a new Provider, or new id and further services for an old one.
RegisterProvider(c, id, names) ==
    /\ registered' = registered \cup {c}
    /\ kadId' = [kadId EXCEPT ![c] = id]
    /\ offers' = [offers EXCEPT ![c] = Known(c) \cup names]
    /\ services' = [s \in Services |->
                      IF s \in names THEN services[s] \cup {c} ELSE services[s]]

Unlisted_LastOnly(c) ==
    [s \in Services |-> IF services[s] = {c} THEN {} ELSE services[s]]

\* The service index without a connection; an empty set of connections is deleted.
Unlisted(c) ==
    [s \in Services |-> IF s \in offers[c] THEN services[s] \ {c} ELSE services[s]]

DeregisterProvider(c) ==
    /\ registered' = registered \ {c}
    /\ services' = Unlisted(c)
    /\ UNCHANGED <<kadId, offers>>

-----------------------------------------------------------------------------
\* Messages on a connection: HandleMessage, in its read loop.

Accepted(c) ==
    /\ ~crashed /\ c \notin Outgoing /\ life[c] = "unused"
    /\ life' = [life EXCEPT ![c] = "up"]
    /\ UNCHANGED <<provVars, nodeVars, left, hpc, probeVars, crashed>>

ReadLoopRuns_ToTheEnd(c) == life[c] # "unused"

\* Handle has not returned: it waits for the read loop before close(err) and
\* StateClosed.
ReadLoopRuns(c) == life[c] = "up"

\* OpCodeHandshake from the peer that dialed this node; its reply is Conn's business.
Handshake(c, names) ==
    /\ ~crashed /\ c \notin Outgoing /\ ReadLoopRuns(c) /\ hpc[c] = "read"
    /\ RegisterProvider(c, IdOf(c), names)
    /\ hpc' = [hpc EXCEPT ![c] = IF IdOf(c) = Nil THEN "read" ELSE "table"]
    /\ UNCHANGED <<nodeVars, life, left, probeVars, crashed>>

HandshakeTable(c) ==
    /\ ~crashed /\ hpc[c] = "table"
    /\ table' = table \cup {IdOf(c)}
    /\ hpc' = [hpc EXCEPT ![c] = "read"]
    /\ UNCHANGED <<provVars, clients, life, left, probeVars, crashed>>

\* OpCodeServiceRequest for a service that this node handles: the goroutine of the
\* handler starts with contextPool.acquire(*provider.kadId, ..).  It is taken to
\* start at once: a later start reads the id that a later request would meet.
ServiceRequest(c) ==
    /\ ~crashed /\ ReadLoopRuns(c) /\ hpc[c] = "read" /\ c \in registered
    /\ crashed' = (kadId[c] = Nil)
    /\ UNCHANGED <<provVars, nodeVars, lifeVars, probeVars>>

\* ProvidersFor(s), called by the user: set[provider.kadId.Pub].
ProvidersFor(s) ==
    /\ ~crashed
    /\ crashed' = (\E c \in services[s] : kadId[c] = Nil)
    /\ UNCHANGED <<provVars, nodeVars, lifeVars, probeVars>>

-----------------------------------------------------------------------------
\* The end of a connection: HandleConnState(conn, StateClosed).

\* Both loops have ended, so no HandleMessage is running.
ConnEnds(c) ==
    /\ ~crashed /\ life[c] = "up" /\ hpc[c] = "read"
    /\ life' = [life EXCEPT ![c] = "closed"]
    /\ UNCHANGED <<provVars, nodeVars, left, hpc, probeVars, crashed>>

ConnDeregister(c) ==
    /\ ~crashed /\ life[c] = "closed"
    /\ IF c \in registered
       THEN /\ DeregisterProvider(c)
            /\ life' = [life EXCEPT ![c] = "deregistered"]
            /\ left' = [left EXCEPT ![c] = kadId[c]]
       ELSE /\ life' = [life EXCEPT ![c] = "down"]
            /\ UNCHANGED <<provVars, left>>
    /\ UNCHANGED <<nodeVars, hpc, probeVars, crashed>>

\* n.table.Delete(provider.kadId.Pub), unless the id is nil.
TableWithout(c) == table \ {left[c]}

\* The address of the lost provider is one that a Client of this node dialed.
WillReconnect(c) == left[c] # Nil /\ left[c] \in clients

ConnUnlist(c) ==
    /\ ~crashed /\ life[c] = "deregistered"
    /\ table' = TableWithout(c)
    /\ life' = [life EXCEPT ![c] = "unlisted"]
    /\ UNCHANGED <<provVars, clients, left, hpc, probeVars, crashed>>

\* The rest of the handler: perhaps a goroutine that reconnects.
ConnGone(c) ==
    /\ ~crashed /\ life[c] = "unlisted"
    /\ life' = [life EXCEPT ![c] = "down"]
    /\ left' = [left EXCEPT ![c] = Nil]
    /\ IF WillReconnect(c)
       THEN /\ ppc' = [ppc EXCEPT ![c] = "get"]
            /\ phost' = [phost EXCEPT ![c] = left[c]]
            /\ tries' = [tries EXCEPT ![c] = Attempts]
       ELSE UNCHANGED <<ppc, phost, tries>>
    /\ UNCHANGED <<provVars, nodeVars, hpc, pconn, poffers, crashed>>

-----------------------------------------------------------------------------
\* Probes: ProbeWithAddr and probeWithStreamTransmitConn.

UserProbe(u, h) ==
    /\ ~crashed /\ ppc[u] = "idle"
    /\ ppc' = [ppc EXCEPT ![u] = "get"]
    /\ phost' = [phost EXCEPT ![u] = h]
    /\ tries' = [tries EXCEPT ![u] = 1]
    /\ UNCHANGED <<provVars, nodeVars, lifeVars, pconn, poffers, crashed>>

\* getClient(addr).Get(): a new connection, or one of the Client's pool, which it
\* leaves only after its StateClosed was handled.
ProbeGet(p, c) ==
    /\ ~crashed /\ ppc[p] = "get" /\ c \in Outgoing /\ HostOf[c] = phost[p]
    /\ life[c] # "down"
    /\ life' = [life EXCEPT ![c] = IF @ = "unused" THEN "up" ELSE @]
    /\ clients' = clients \cup {phost[p]}
    /\ pconn' = [pconn EXCEPT ![p] = c]
    /\ ppc' = [ppc EXCEPT ![p] = "register"]
    /\ UNCHANGED <<provVars, table, left, hpc, phost, poffers, tries, crashed>>

MoreTries(p) == tries[p] > 1

\* The probe ends: in an error the goroutine that reconnects tries again.
ProbeEnds(p, again) ==
    /\ tries' = [tries EXCEPT ![p] = IF again THEN @ - 1 ELSE 0]
    /\ ppc' = [ppc EXCEPT ![p] = IF again /\ MoreTries(p) THEN "get" ELSE "idle"]
    /\ phost' = [phost EXCEPT ![p] = IF again /\ MoreTries(p) THEN @ ELSE Nil]
    /\ pconn' = [pconn EXCEPT ![p] = Nil]
    /\ poffers' = [poffers EXCEPT ![p] = {}]

ProbeGetFails(p) ==
    /\ ~crashed /\ ppc[p] = "get"
    /\ clients' = clients \cup {phost[p]}
    /\ ProbeEnds(p, TRUE)
    /\ UNCHANGED <<provVars, table, lifeVars, crashed>>

\* registerProvider(conn, nil, nil, true), also of a connection probed before.
ProbeRegister(p) ==
    /\ ~crashed /\ ppc[p] = "register"
    /\ RegisterProvider(pconn[p], Nil, {})
    /\ ppc' = [ppc EXCEPT ![p] = "request"]
    /\ UNCHANGED <<nodeVars, lifeVars, phost, pconn, poffers, tries, crashed>>

\* The response of a peer, which only a connection that is up can deliver.
ProbeAnswered(p, names) ==
    /\ ~crashed /\ ppc[p] = "request" /\ life[pconn[p]] = "up"
    /\ IF IdOf(pconn[p]) = Nil
       THEN ProbeEnds(p, FALSE)
       ELSE /\ ppc' = [ppc EXCEPT ![p] = "update"]
            /\ poffers' = [poffers EXCEPT ![p] = names]
            /\ UNCHANGED <<phost, pconn, tries>>
    /\ UNCHANGED <<provVars, nodeVars, lifeVars, crashed>>

\* The request fails or its answer is not a valid handshake.
ProbeFails(p) ==
    /\ ~crashed /\ ppc[p] = "request"
    /\ ProbeEnds(p, TRUE)
    /\ UNCHANGED <<provVars, nodeVars, lifeVars, crashed>>

\* The answer's id and services are registered; the connection may have ended.
ProbeUpdate(p) ==
    /\ ~crashed /\ ppc[p] = "update"
    /\ RegisterProvider(pconn[p], IdOf(pconn[p]), poffers[p])
    /\ ppc' = [ppc EXCEPT ![p] = "table"]
    /\ UNCHANGED <<nodeVars, lifeVars, phost, pconn, poffers, tries, crashed>>

ProbeTable(p) ==
    /\ ~crashed /\ ppc[p] = "table"
    /\ table' = table \cup {IdOf(pconn[p])}
    /\ ProbeEnds(p, FALSE)
    /\ UNCHANGED <<provVars, clients, lifeVars, crashed>>

\* A probe always goes on: Get and Request return (modules Client and Conn).
ProbeStep(p) ==
    \/ \E c \in Conns : ProbeGet(p, c)
    \/ ProbeGetFails(p) \/ ProbeRegister(p) \/ ProbeFails(p)
    \/ \E names \in SUBSET Services : ProbeAnswered(p, names)
    \/ ProbeUpdate(p) \/ ProbeTable(p)

ClosingStep(c) == ConnDeregister(c) \/ ConnUnlist(c) \/ ConnGone(c)

Next ==
    \/ \E c \in Conns :
         \/ Accepted(c) \/ HandshakeTable(c) \/ ServiceRequest(c)
         \/ \E names \in SUBSET Services : Handshake(c, names)
         \/ ConnEnds(c) \/ ClosingStep(c)
    \/ \E s \in Services : ProvidersFor(s)
    \/ \E u \in Users, h \in Hosts : UserProbe(u, h)
    \/ \E p \in Probers : ProbeStep(p)

Spec == Init /\ [][Next]_vars

-----------------------------------------------------------------------------
(***************************************************************************)
(* Properties.                                                             *)
(***************************************************************************)

\* The service index is exactly the inverse of the services of the registered
\* Providers, so getProviders finds a Provider for every connection it collects
\* and leaves out no one, across re-probes, late probes and disconnections (and
\* all variables have their types, the count of attempts included).
IndexExact ==
    /\ TypeOK
    /\ \A s \in Services, c \in Conns :
         c \in services[s] <=> c \in registered /\ s \in offers[c]

\* An accepted connection that is gone has no Provider: its read loop, which alone
\* registers it, has ended before StateClosed is handled, so that no handshake can
\* register it again behind deregisterProvider.
ProvidersLeave == \A c \in registered \ Outgoing : life[c] \in {"up", "closed"}

\* "our id if we want to publicly advertise our microservice": an id is optional,
\* so handling a request of a peer without one must not dereference it.
IdOptional == ~crashed

=============================================================================

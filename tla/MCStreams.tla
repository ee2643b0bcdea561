----------------------------- MODULE MCStreams ------------------------------
(* Instances of Streams for TLC. *)
EXTENDS Streams, TLC

CONSTANTS c1, c2, p1, p2

\* One connection, requests both ways over sockets that fill up: p1 of the hub has a
\* body that may find no handler, or one that answers while it reads.
TargetsOf  == (p1 :> {c1}) @@ (p2 :> {c1})
BodyOf     == (p1 :> 2) @@ (p2 :> 1)
ReplyOf    == (p1 :> 2) @@ (p2 :> 0)
ServedOf   == Tries
UnservedOf == {<<p1, c1>>}

\* One request that may go to either of two peers, if that has a handler or not.
TargetsOfRetry  == p1 :> Conns
BodyOfRetry     == p1 :> 1
ReplyOfRetry    == p1 :> 1
UnservedOfRetry == {<<p1, c1>>, <<p1, c2>>}

\* Two requests of the two peers to the hub.
TargetsOfPeers == (p1 :> {c1}) @@ (p2 :> {c2})
BodyOfPeers    == (p1 :> 0) @@ (p2 :> 2)
ReplyOfPeers   == (p1 :> 1) @@ (p2 :> 1)

=============================================================================

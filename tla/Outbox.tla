------------------------------- MODULE Outbox -------------------------------
(***************************************************************************)
(* What a Conn promises about the messages it accepts, without queues,     *)
(* batches, locks or goroutines: an outbox.  Messages are numbered in the  *)
(* order of acceptance.  They reach the socket in that order, each at most *)
(* once and without gaps; after intake stops, the outbox either hands over *)
(* everything it accepted (it is drained) or has met a socket error (it is *)
(* broken), and in both cases it hands over nothing more.                  *)
(***************************************************************************)
EXTENDS Naturals, Sequences

VARIABLES
    accepted,  \* number of messages accepted
    flushed,   \* the messages handed to the socket, in order
    intake,    \* messages are still accepted
    phase      \* "running", "drained" or "broken"

vars == <<accepted, flushed, intake, phase>>

UpTo(n) == [i \in 1 .. n |-> i]

Init ==
    /\ accepted = 0 /\ flushed = <<>>
    /\ intake = TRUE /\ phase = "running"

Accept ==
    /\ intake
    /\ accepted' = accepted + 1
    /\ UNCHANGED <<flushed, intake, phase>>

HandOver ==
    /\ phase = "running"
    /\ \E n \in Len(flushed) .. accepted : flushed' = UpTo(n)
    /\ UNCHANGED <<accepted, intake, phase>>

Stop ==
    /\ intake' = FALSE
    /\ UNCHANGED <<accepted, flushed, phase>>

Drain ==
    /\ phase = "running" /\ ~intake /\ Len(flushed) = accepted
    /\ phase' = "drained"
    /\ UNCHANGED <<accepted, flushed, intake>>

Break ==
    /\ phase = "running"
    /\ \E n \in Len(flushed) .. accepted : flushed' = UpTo(n)
    /\ phase' = "broken"
    /\ UNCHANGED <<accepted, intake>>

Next == Accept \/ HandOver \/ Stop \/ Drain \/ Break

Spec == Init /\ [][Next]_vars

=============================================================================

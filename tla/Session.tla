------------------------------ MODULE Session -------------------------------
(***************************************************************************)
(* The encrypted channel under a Conn: streaming_transmit/session.go,      *)
(* io.go and the handshakers of net.go.                                    *)
(*                                                                         *)
(* A client and a server exchange ephemeral keys over a raw socket and     *)
(* derive a suite from them; then each writes frames (a length and sealed  *)
(* bytes) through a bufio.Writer and reads the frames of the other.  The   *)
(* socket is a sequence of units, a key, the length of a frame or its      *)
(* sealed bytes, and may be cut between any two of them.  Key agreement    *)
(* and the AEAD are external: two sides have the same suite if it stands   *)
(* for the same pair of keys, and a frame opens with the suite and nonce   *)
(* that it was sealed with.                                                *)
(***************************************************************************)
EXTENDS Naturals, Sequences, SequencesExt

CONSTANTS
    Overhead,    \* suite.Overhead()
    ReadBuffer,  \* cap(b) of SessionConn.Read: getReadBufferSize()
    Nil          \* a nil suite or key

Sides == {"client", "server"}
Peer(s) == IF s = "client" THEN "server" ELSE "client"

VARIABLES
    hs,              \* position in the handshake
    theirPub, suite, \* Session
    wn, rn,          \* SessionConn: the nonces
    bw, sock, cut,   \* its bufio.Writer; units sent and unread; the socket is cut
    todo, written,   \* messages to write, and those written
    received, failed \* messages read; the error of Read: "none" or its cause

sessionVars == <<hs, theirPub, suite, wn, rn, bw, sock, cut, todo, written, received, failed>>

KeyUnit(s) == [t |-> "key", of |-> s]
LenUnit(n) == [t |-> "len", n |-> n]
SealUnit(k, n, b) == [t |-> "sealed", suite |-> k, nonce |-> n, plain |-> b]

SessionInit(messages) ==
    /\ hs = [s \in Sides |-> IF s = "client" THEN "write" ELSE "read"]
    /\ theirPub = [s \in Sides |-> Nil] /\ suite = [s \in Sides |-> Nil]
    /\ wn = [s \in Sides |-> 0] /\ rn = [s \in Sides |-> 0]
    /\ bw = [s \in Sides |-> <<>>] /\ sock = [s \in Sides |-> <<>>] /\ cut = FALSE
    /\ todo = messages /\ written = [s \in Sides |-> <<>>]
    /\ received = [s \in Sides |-> <<>>] /\ failed = [s \in Sides |-> "none"]

connVars == <<wn, rn, bw, todo, written, received, failed>>

-----------------------------------------------------------------------------
\* The handshake: DoClient writes first, DoServer reads first.

After(s, step) ==
    IF (step = "write") = (s = "client")
    THEN IF step = "write" THEN "read" ELSE "write"
    ELSE "establish"

WriteKey(s) ==
    /\ hs[s] = "write"
    /\ \/ ~cut /\ sock' = [sock EXCEPT ![s] = Append(@, KeyUnit(s))]
          /\ hs' = [hs EXCEPT ![s] = After(s, "write")]
       \/ cut /\ hs' = [hs EXCEPT ![s] = "failed"] /\ UNCHANGED sock
    /\ UNCHANGED <<theirPub, suite, cut, connVars>>

\* Read: io.ReadFull of exactly one key, from the unbuffered socket.
ReadKey(s) ==
    /\ hs[s] = "read"
    /\ \/ /\ sock[Peer(s)] # <<>>
          /\ theirPub' = [theirPub EXCEPT ![s] = Head(sock[Peer(s)]).of]
          /\ sock' = [sock EXCEPT ![Peer(s)] = Tail(@)]
          /\ hs' = [hs EXCEPT ![s] = After(s, "read")]
       \/ /\ sock[Peer(s)] = <<>> /\ cut
          /\ hs' = [hs EXCEPT ![s] = "failed"] /\ UNCHANGED <<sock, theirPub>>
    /\ UNCHANGED <<suite, cut, connVars>>

\* Establish, then NewSessionConn.
SharedKey(ours, theirs) == {ours, theirs}

Establish(s) ==
    /\ hs[s] = "establish"
    /\ suite' = [suite EXCEPT ![s] = SharedKey(s, theirPub[s])]
    /\ hs' = [hs EXCEPT ![s] = "done"]
    /\ UNCHANGED <<theirPub, sock, cut, connVars>>

-----------------------------------------------------------------------------
\* SessionConn.

\* What the bufio.Writer holds beyond some point is on its way, when it is full.
Spill(s, buffered) ==
    \E k \in 0 .. Len(buffered) :
        /\ k > 0 => ~cut
        /\ sock' = [sock EXCEPT ![s] = @ \o SubSeq(buffered, 1, k)]
        /\ bw' = [bw EXCEPT ![s] = SubSeq(buffered, k + 1, Len(buffered))]

\* Write: Seal with the next nonce, and WriteSized.
Write(s) ==
    LET b == Head(todo[s]) IN
    /\ hs[s] = "done" /\ todo[s] # <<>>
    /\ wn' = [wn EXCEPT ![s] = @ + 1]
    /\ Spill(s, bw[s] \o <<LenUnit(Len(b) + Overhead), SealUnit(suite[s], wn[s], b)>>)
    /\ todo' = [todo EXCEPT ![s] = Tail(@)]
    /\ written' = [written EXCEPT ![s] = Append(@, b)]
    /\ UNCHANGED <<hs, theirPub, suite, rn, cut, received, failed>>

Flush_Never(s) == FALSE /\ UNCHANGED sessionVars
Flush(s) ==
    /\ bw[s] # <<>> /\ ~cut
    /\ sock' = [sock EXCEPT ![s] = @ \o bw[s]] /\ bw' = [bw EXCEPT ![s] = <<>>]
    /\ UNCHANGED <<hs, theirPub, suite, wn, rn, cut, todo, written, received, failed>>

\* ReadSized: a frame longer than the buffer of the caller is refused.
TooLong(n) == n > ReadBuffer

Opens(s, u) == u.suite = suite[s] /\ u.nonce = rn[s]

NextNonce_Stuck(n) == n
NextNonce(n) == n + 1

\* Read: ReadSized, the next nonce, and Open.  An error ends the read loop.
Read(s) ==
    LET in == sock[Peer(s)] IN
    /\ hs[s] = "done" /\ failed[s] = "none"
    /\ \/ /\ Len(in) > 1 /\ ~TooLong(in[1].n)
          /\ sock' = [sock EXCEPT ![Peer(s)] = SubSeq(@, 3, Len(@))]
          /\ rn' = [rn EXCEPT ![s] = NextNonce(@)]
          /\ IF Opens(s, in[2])
             THEN /\ received' = [received EXCEPT ![s] = Append(@, in[2].plain)]
                  /\ UNCHANGED failed
             ELSE failed' = [failed EXCEPT ![s] = "open"] /\ UNCHANGED received
       \/ /\ in # <<>> /\ TooLong(in[1].n)
          /\ failed' = [failed EXCEPT ![s] = "max"]
          /\ UNCHANGED <<sock, rn, received>>
       \/ /\ Len(in) < 2 /\ cut /\ (in # <<>> => ~TooLong(in[1].n))
          /\ failed' = [failed EXCEPT ![s] = "EOF"]
          /\ UNCHANGED <<sock, rn, received>>
    /\ UNCHANGED <<hs, theirPub, suite, wn, bw, cut, todo, written>>

\* The socket is cut: what was sent last may be lost.
Cut ==
    /\ ~cut /\ cut' = TRUE
    /\ \E c \in 0 .. Len(sock["client"]), v \in 0 .. Len(sock["server"]) :
        sock' = [s \in Sides |-> SubSeq(sock[s], 1, IF s = "client" THEN c ELSE v)]
    /\ UNCHANGED <<hs, theirPub, suite, connVars>>

-----------------------------------------------------------------------------
SideStep(s) ==
    WriteKey(s) \/ ReadKey(s) \/ Establish(s) \/ Write(s) \/ Flush(s) \/ Read(s)

SessionNext == (\E s \in Sides : SideStep(s)) \/ Cut

\* Both sides go on: they read what arrives, and the write loop of the Conn
\* flushes what it wrote.
SessionFairness == \A s \in Sides : WF_sessionVars(SideStep(s))

=============================================================================

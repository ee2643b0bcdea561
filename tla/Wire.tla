-------------------------------- MODULE Wire --------------------------------
(***************************************************************************)
(* Packets over a Session: the client sends one packet out of a set and a  *)
(* second one behind it, the server sends one; each side unmarshals what   *)
(* its SessionConn delivers.  (The sequence number that a Conn puts before *)
(* a packet is in module Conn.)                                            *)
(***************************************************************************)
EXTENDS Session, Packets

CONSTANTS
    Inputs,  \* the packets that are tried
    Marker   \* the packet that is sent behind them, and by the server

ASSUME WireAssumption == \A p \in Inputs \cup {Marker} : IsPacket(p)

VARIABLE pkt

vars == <<pkt, sessionVars>>

Init ==
    /\ pkt \in Inputs
    /\ \E first \in AppendTo(pkt), second \in AppendTo(Marker) :
          SessionInit([s \in Sides |->
                         IF s = "client" THEN <<first, second>> ELSE <<second>>])

Next == SessionNext /\ UNCHANGED pkt

Spec == Init /\ [][Next]_vars /\ SessionFairness

\* The i-th packet that side s sends.
SentBy(s, i) == IF s = "client" /\ i = 1 THEN pkt ELSE Marker

-----------------------------------------------------------------------------
TypeOK ==
    /\ pkt \in Inputs /\ cut \in BOOLEAN
    /\ hs \in [Sides -> {"write", "read", "establish", "done", "failed"}]
    /\ theirPub \in [Sides -> Sides \cup {Nil}] /\ suite \in [Sides -> {Sides, Nil}]
    /\ wn \in [Sides -> 0 .. 2] /\ rn \in [Sides -> 0 .. 2]
    /\ \A s \in Sides : Len(bw[s]) <= 4 /\ Len(sock[s]) <= 5
    /\ failed \in [Sides -> {"none", "open", "max", "EOF"}]

\* What a side unmarshals is what the other appended, packet by packet, if the
\* lengths in it fit their fields: through the encoding, the framing, the
\* buffering, the nonces, and whatever the socket cuts off.
EndToEnd ==
    \A s \in Sides :
        /\ IsPrefix(received[s], written[Peer(s)])
        /\ \A i \in 1 .. Len(received[s]) :
             LET p == SentBy(Peer(s), i)
             IN  Fits(p) => Unmarshal(p.type, received[s][i]) = Parsed(p)

\* Validate accepts a handshake with the id of its sender only with the
\* services its sender has, also where a length has overflowed, and it accepts
\* one that is valid and whose lengths fit.
HandshakeHonest ==
    \A i \in 1 .. Len(received["server"]) :
        LET p == SentBy("client", i)
            q == Unmarshal(p.type, received["server"][i])
        IN  (p.type = "handshake" /\ p.kadId # NoId) =>
                /\ (q.res = "ok" /\ Validate(q.pkt)) => q.pkt.services = p.services
                /\ Fits(p) /\ Validate(p) => q.res = "ok" /\ Validate(q.pkt)

\* What comes of the first n bytes of a packet: "ErrUnexpectedEOF" for an error; a
\* service request that ends behind its id crashes its decoder (servicerequestpacket.go:52).
Refusal(type, n) == IF type = "request" /\ n = 4 THEN "panic" ELSE "ErrUnexpectedEOF"

\* No Unmarshal accepts a packet that has lost its end: at every other cut, in every
\* field, it returns an error.
PrefixRefused ==
    \A b \in AppendTo(pkt) :
        Fits(pkt) => \A n \in 0 .. Len(b) - 1 :
                       Unmarshal(pkt.type, SubSeq(b, 1, n)).res = Refusal(pkt.type, n)

\* SessionConn.Read fails only when the socket has been cut or when the frame
\* exceeds the buffer: suites and nonces of the two sides stay in step (and all
\* variables have their types).
ReadHonest ==
    /\ TypeOK
    /\ \A s \in Sides :
        /\ failed[s] # "open"
        /\ failed[s] = "EOF" => cut
        /\ failed[s] = "max" =>
             Len(written[Peer(s)][Len(received[s]) + 1]) + Overhead > ReadBuffer

\* Unless the socket is cut or a frame is refused, every message arrives.
Arrives ==
    <>[](cut \/ \A s \in Sides : failed[s] = "max" \/
                   (todo[Peer(s)] = <<>> /\ received[s] = written[Peer(s)]))

=============================================================================

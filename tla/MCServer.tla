------------------------------ MODULE MCServer ------------------------------
(* Instance of Server for TLC. *)
EXTENDS Server

CONSTANTS k1, k2, k3

\* One connection more than the Server of the run has slots.
ThreePeers == {k1, k2, k3}

=============================================================================

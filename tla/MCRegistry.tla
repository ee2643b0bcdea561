----------------------------- MODULE MCRegistry -----------------------------
(* Instances of Registry for TLC. *)
EXTENDS Registry, TLC

CONSTANTS o1, o2, i1, h1, h2, s1, s2

\* One peer is dialed and dials back, so that it has a connection of either kind;
\* another, which may be anonymous, is only dialed.
MixedHosts == (o1 :> h1) @@ (i1 :> h1) @@ (o2 :> h2)

\* The services are alike.
Symmetry == Permutations(Services)

=============================================================================

------------------------------- MODULE MCNode -------------------------------
(* Instance of Node for TLC. *)
EXTENDS Node, TLC

CONSTANTS p1, p2, p3, p4, p5, p6

\* The table names two peers, which are asked at the same time and name the others,
\* partly the same ones; those name each other and the node, or nobody.
ClosestOf == {{}, {p1}, {p1, p2}}
AnswersOf ==
    (p1 :> {{p3, p4, p5, p6}, {p2, p3}}) @@ (p2 :> {{p3, p4, Self}, {p5, p6}}) @@
    (p3 :> {{p1, p4, p5}, {p6}}) @@ (p4 :> {{}, {p2, p6}}) @@ (p5 :> {{p6, Self}}) @@
    (p6 :> {{p3, p4}})

\* Bootstrap and the callers of Start and Shutdown share no variable and no property
\* speaks of both, so it is enough to let either of them run.
LoopIdle == loop = "idle"
Uncalled == \A c \in Callers : call[c] = "idle"
EitherNext == (Uncalled /\ Bootstrapping) \/ (LoopIdle /\ Calling)
EitherSpec == Init /\ [][EitherNext]_vars /\ Fairness

=============================================================================

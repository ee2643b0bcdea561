------------------------------- MODULE MCConn -------------------------------
(* Instances of Conn for TLC; their constants are model values and numbers, *)
(* which the configurations give.                                           *)
EXTENDS Conn

=============================================================================

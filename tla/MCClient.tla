------------------------------ MODULE MCClient ------------------------------
(* Instance of Client for TLC; its constants are in MCClient_pool.cfg. *)
EXTENDS Client

=============================================================================

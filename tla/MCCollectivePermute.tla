------------------------- MODULE MCCollectivePermute -------------------------
(* Model-checking instance of CollectivePermute.                            *)
EXTENDS CollectivePermute

=============================================================================

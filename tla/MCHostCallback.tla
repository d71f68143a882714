--------------------------- MODULE MCHostCallback ---------------------------
(* Model-checking instance of HostCallback: two arguments and two results, *)
(* each a token or an array, each result with or without the expected     *)
(* strides.                                                                *)
EXTENDS HostCallback

=============================================================================

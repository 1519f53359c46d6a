------------------------------ MODULE MCPrecision ------------------------------
(* Precision with two places for shadow values. *)
EXTENDS Precision

CONSTANTS p, q
=============================================================================

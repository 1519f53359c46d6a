---------------------------- MODULE MCOutputFiles -----------------------------
(* Two reports, the first of them with graphs. *)
EXTENDS OutputFiles

CONSTANT g

MinusOne == -1
TwoBases == <<"shadow_values_relative_error", "mean_errors_addr">>
=============================================================================

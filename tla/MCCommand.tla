----------------------------- MODULE MCCommand -----------------------------
(* Callers of cmd_poll for TLC.                                            *)
EXTENDS Command

\* pipe, exec and rewrite; conditions on the status, on the output.
MCCalls ==
  {[in |-> TRUE, out |-> FALSE, early |-> FALSE],
   [in |-> FALSE, out |-> FALSE, early |-> FALSE],
   [in |-> TRUE, out |-> TRUE, early |-> FALSE],
   [in |-> FALSE, out |-> TRUE, early |-> TRUE],
   [in |-> TRUE, out |-> TRUE, early |-> TRUE]}
=============================================================================

------------------------------- MODULE MCPop3 -------------------------------
(* Accounts for TLC.                                                       *)
EXTENDS Pop3

Plain(only, cache) ==
  [only |-> only, cache |-> cache, uidl |-> TRUE, poll |-> FALSE]

MCAccounts ==
  {Plain("all", FALSE), Plain("new", TRUE),
   [Plain("new", TRUE) EXCEPT !.poll = TRUE],
   [Plain("all", FALSE) EXCEPT !.uidl = FALSE]}
=============================================================================

--------------------------- MODULE MCDeliverMbox ---------------------------
(* Setups for TLC.                                                         *)
EXTENDS DeliverMbox

Plain(locks) == [locks |-> locks, create |-> TRUE, exists |-> TRUE,
                 term |-> FALSE, fetch |-> FALSE]

Both == {"flock", "dotlock"}

\* Both locks, and an mbox that is fetched from and delivered to.
Shared == {[Plain(Both) EXCEPT !.fetch = TRUE]}

MCSetups ==
  Shared \cup
  {[Plain({"flock"}) EXCEPT !.exists = FALSE, !.term = TRUE],
   [Plain({"dotlock"}) EXCEPT !.exists = FALSE],
   [Plain({"dotlock"}) EXCEPT !.term = TRUE, !.create = FALSE],
   [Plain({"flock"}) EXCEPT !.create = FALSE, !.exists = FALSE],
   [Plain({"dotlock"}) EXCEPT !.fetch = TRUE],
   [Plain({"flock"}) EXCEPT !.term = TRUE, !.fetch = TRUE],
   [Plain(Both) EXCEPT !.term = TRUE, !.fetch = TRUE]}
=============================================================================

------------------------------- MODULE MCShm -------------------------------
(* Setups for TLC.                                                         *)
EXTENDS Shm

Fine == [term |-> FALSE, dies |-> FALSE, full |-> FALSE]

MCSetups == {Fine, [Fine EXCEPT !.term = TRUE], [Fine EXCEPT !.dies = TRUE],
             [Fine EXCEPT !.full = TRUE]}
=============================================================================

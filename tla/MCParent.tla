------------------------------ MODULE MCParent ------------------------------
(* What may happen to fdm in TLC's instances of Parent.                    *)
EXTENDS Parent, TLC

CONSTANTS a1, a2

\* Nothing fails: one account with two mails in delivery, or two at once.
Quiet == {[aborts |-> FALSE, signals |-> FALSE, accts |-> 1, jobs |-> a1 :> 2],
          [aborts |-> FALSE, signals |-> FALSE, accts |-> 2,
           jobs |-> a1 :> 1 @@ a2 :> 0]}

\* Everything may fail, for two accounts one after the other.
Anything == {[aborts |-> TRUE, signals |-> TRUE, accts |-> 1,
              jobs |-> a1 :> 1 @@ a2 :> 0]}

\* A fetch fails while its mail is delivered.
Failures == {[aborts |-> TRUE, signals |-> FALSE, accts |-> 1, jobs |-> a1 :> 1]}

Either == Quiet \cup Anything
=============================================================================

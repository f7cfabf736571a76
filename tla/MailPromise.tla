----------------------------- MODULE MailPromise -----------------------------
(***************************************************************************)
(* What fdm promises of every mail of an account, whatever the protocol    *)
(* and however many mails are worked on at once: the deliveries its rules  *)
(* ask for are made, each once and in order, and only then is the mail     *)
(* committed, that is deleted from the server or marked to be kept there.  *)
(* A fetch that stops early leaves the rest of the mails on the server.    *)
(***************************************************************************)
EXTENDS Naturals, Sequences

CONSTANT Mails

VARIABLES
  status,   \* of each mail: not fetched yet, queued, or committed
  need,     \* the deliveries its rules have asked for so far
  did,      \* the deliveries made
  run       \* whether the fetch is running, done or aborted

vars == <<status, need, did, run>>

Committed == {"keep", "drop"}

Init ==
  /\ status = [m \in Mails |-> "unseen"]
  /\ need = [m \in Mails |-> <<>>]
  /\ did = [m \in Mails |-> <<>>]
  /\ run = "running"

\* A mail is fetched.
Take(m) ==
  /\ run = "running" /\ status[m] = "unseen"
  /\ status' = [status EXCEPT ![m] = "queued"]
  /\ UNCHANGED <<need, did, run>>

\* A rule matches and asks for more deliveries.
Ask(m) ==
  /\ run = "running" /\ status[m] = "queued"
  /\ need' = [need EXCEPT ![m] = need'[m]]
  /\ Len(need'[m]) > Len(need[m])
  /\ SubSeq(need'[m], 1, Len(need[m])) = need[m]
  /\ UNCHANGED <<status, did, run>>

\* The next of them is made; a deliver child may make it when the fetch has
\* already stopped.
Deliver(m) ==
  /\ status[m] = "queued"
  /\ Len(did[m]) < Len(need[m])
  /\ did' = [did EXCEPT ![m] = Append(@, need[m][Len(@) + 1])]
  /\ UNCHANGED <<status, need, run>>

\* The mail is deleted or kept.
Commit(m) ==
  /\ run = "running" /\ status[m] = "queued"
  /\ did[m] = need[m]
  /\ \E d \in Committed : status' = [status EXCEPT ![m] = d]
  /\ UNCHANGED <<need, did, run>>

\* The fetch is over: complete if nothing is left half done, else aborted.
Stop ==
  /\ run = "running"
  /\ \/ run' = "aborted"
     \/ run' = "done" /\ \A m \in Mails : status[m] # "queued"
  /\ UNCHANGED <<status, need, did>>

Next == \/ \E m \in Mails : Take(m) \/ Ask(m) \/ Deliver(m) \/ Commit(m)
        \/ Stop

Spec == Init /\ [][Next]_vars
=============================================================================

------------------------------ MODULE MailEdits ------------------------------
(***************************************************************************)
(* What happens to the text of a mail, for who reads it after its          *)
(* delivery: it is the mail that was fetched, with what the actions of its *)
(* rules changed and nothing else.  Here a mail is its headers, each with  *)
(* the lines it is folded into, and its text; of lines being joined for a  *)
(* match, of offsets and of what is known of a text nothing is left.       *)
(***************************************************************************)
EXTENDS SequencesExt

CONSTANTS
  Mails,
  Original(_, _),   \* the mails on the servers, in each situation
  Rewrites(_),      \* what a program may make of a mail in it
  Adds,       \* the names of headers that an action may add
  Removes     \* the names an action may remove, as sets

VARIABLES
  given,      \* the situation, which does not change
  mails,      \* the mails at work
  out         \* what was delivered of each, and whether with its folds

vars == <<given, mails, out>>

Gone == [headers |-> <<>>, text |-> <<>>, here |-> FALSE]

Name(h) == h[1].name

\* A line of fdm's is put in front of the first Received.
Received(old, new) ==
  LET S == {i \in DOMAIN old.headers : Name(old.headers[i]) = "received"}
      i == CHOOSE i \in S : \A j \in S : i <= j
  IN  IF S = {} THEN new = old
      ELSE /\ i \in DOMAIN new.headers
           /\ new = [old EXCEPT !.headers = InsertAt(@, i, new.headers[i])]
           /\ Name(new.headers[i]) = "received"

Added(old, new) ==
  /\ Len(new.headers) = Len(old.headers) + 1
  /\ new = [old EXCEPT !.headers = Append(@, Last(new.headers))]
  /\ Name(Last(new.headers)) \in Adds

Removed(old, names) == [old EXCEPT !.headers = SelectSeq(@, LAMBDA h : Name(h) \notin names)]

Init == mails = [m \in Mails |-> Gone] /\ out = [m \in Mails |-> {}]

\* A mail is left alone or done with, fetched or changed; or it is delivered, after
\* which it is still there or not.
Becomes(m, new) ==
  \/ new \in {mails[m], Gone}
  \/ mails[m] = Gone /\ Received(Original(given, m), new)
  \/ /\ mails[m] # Gone
     /\ \/ Added(mails[m], new)
        \/ \E names \in Removes : new = Removed(mails[m], names)
        \/ new \in Rewrites(given)

Delivered(m, new) ==
  /\ mails[m] # Gone /\ new \in {mails[m], Gone}
  /\ out'[m] = out[m] \cup {[mail |-> mails[m], folded |-> TRUE]}

Next ==
  /\ \A m \in Mails : \/ Becomes(m, mails'[m]) /\ out'[m] = out[m]
                     \/ Delivered(m, mails'[m])
  /\ UNCHANGED given

Spec == Init /\ [][Next]_vars
=============================================================================

------------------------------ MODULE Maildir ------------------------------
(***************************************************************************)
(* A maildir that deliver children put mail into (deliver-maildir.c,       *)
(* safemove of file.c), a fetch child reads and empties (fetch-maildir.c)  *)
(* and the user's mail reader works on, all at once and without a lock.    *)
(*                                                                         *)
(* A directory is a set of names, and a name that of its mail: the process *)
(* id in it makes it unique but for files of other programs, which may     *)
(* take a name first.  text is what the file of a mail has in it, under    *)
(* whatever names.  The steps are the system calls at which another may    *)
(* come in between.  Making the directories, tags, modes and the entries   *)
(* that are no files are left out, and so is what the fetch loop does with *)
(* a mail between its fetch and its commit.                                *)
(***************************************************************************)
EXTENDS Naturals, Sequences, FiniteSets

CONSTANTS
  Deliverers,   \* deliver children, each with one mail
  Old,          \* the mails in new at the start
  Big,          \* those above maximum-size
  MaxClashes,   \* bound: names a deliver child finds taken
  MaxRuns,      \* bound: how often a fetch is run
  QueueHigh     \* conf.queue_high

ASSUME MaildirAssumption ==
  /\ Deliverers \cap Old = {} /\ Big \subseteq Old
  /\ {MaxClashes, MaxRuns} \subseteq Nat /\ QueueHigh \in Nat \ {0}

Mail == Deliverers \cup Old

VARIABLES
  tmp, new, cur,        \* the names in the three directories
  text,                 \* what has been written of a mail
  pc, moved, clashes,   \* of a deliver child: where it is, what safemove returned
  registered,           \* those with their file on the cleanlist
  st, index,            \* fctx->state; data->index, from 1
  must, listed,         \* the names there at opendir, those readdir has returned
  flight,               \* the mails in the fetch loop: struct fetch_maildir_mail
  unlinklist,           \* data->unlinklist
  dropped, taken, runs  \* what this run has decided and fetched

dirVars     == <<tmp, new, cur, text>>
deliverVars == <<pc, moved, clashes, registered>>
scanVars    == <<index, must, listed>>
fetchVars   == <<st, scanVars, flight, unlinklist, dropped, taken, runs>>
vars == <<dirVars, deliverVars, fetchVars>>

\* A slip: new is read before cur.
NewFirst == <<"new", "cur">>

\* data->paths, for each maildir cur and then new.
Paths == <<"cur", "new">>

In(d)   == IF d = "cur" THEN cur ELSE new
Ended   == {"ok", "failed", "killed"}
Over    == {"done", "aborted"}

Init ==
  /\ tmp = {} /\ new = Old /\ cur = {}
  /\ text = [m \in Mail |-> IF m \in Old THEN "whole" ELSE "none"]
  /\ pc = [d \in Deliverers |-> "create"]
  /\ moved = [d \in Deliverers |-> "ok"]
  /\ clashes = [d \in Deliverers |-> 0]
  /\ registered = {}
  /\ st = "open" /\ index = 1 /\ must = {} /\ listed = {}
  /\ flight = {} /\ unlinklist = {}
  /\ dropped = {} /\ taken = [m \in Mail |-> 0] /\ runs = 1

-----------------------------------------------------------------------------
(* Delivery.                                                               *)

At(d, s)   == pc[d] = s
Goto(d, s) == pc' = [pc EXCEPT ![d] = s]
Moved(d, r) == moved' = [moved EXCEPT ![d] = r]

\* Somebody else's file has the name.
Clash(d) ==
  /\ clashes[d] < MaxClashes
  /\ clashes' = [clashes EXCEPT ![d] = @ + 1]

\* xcreate in tmp: if the name is taken try another.
Create(d) ==
  /\ At(d, "create")
  /\ \/ tmp' = tmp \cup {d} /\ text' = [text EXCEPT ![d] = "none"]
        /\ Goto(d, "note") /\ UNCHANGED clashes
     \/ Clash(d) /\ UNCHANGED <<tmp, text, pc>>
     \/ Goto(d, "failed") /\ UNCHANGED <<tmp, text, clashes>>
  /\ UNCHANGED <<new, cur, moved, registered, fetchVars>>

Register(d) ==
  /\ At(d, "note")
  /\ registered' = registered \cup {d}
  /\ Goto(d, "write")
  /\ UNCHANGED <<dirVars, moved, clashes, fetchVars>>

\* A slip: the mail is linked before all of it is written.
WriteAndLink(d) ==
  /\ At(d, "write")
  /\ text' = [text EXCEPT ![d] = "part"]
  /\ Goto(d, "link") /\ Moved(d, "ok")
  /\ UNCHANGED <<tmp, new, cur, clashes, registered, fetchVars>>

\* write.  It may write less than it is asked to.
Write(d) ==
  /\ At(d, "write")
  /\ \/ text' = [text EXCEPT ![d] = "part"] /\ Goto(d, "unnote") /\ Moved(d, "error")
     \/ text' = [text EXCEPT ![d] = "part"] /\ Goto(d, "sync") /\ Moved(d, "ok")
  /\ UNCHANGED <<tmp, new, cur, clashes, registered, fetchVars>>

\* The rest, and fsync.  After an error the file stays in tmp.
Sync(d) ==
  /\ At(d, "sync")
  /\ \/ text' = [text EXCEPT ![d] = "whole"] /\ Goto(d, "link") /\ UNCHANGED moved
     \/ Goto(d, "unnote") /\ Moved(d, "error") /\ UNCHANGED text
  /\ UNCHANGED <<tmp, new, cur, clashes, registered, fetchVars>>

\* safemove: link, or rename where that cannot be, or neither.
Link(d) ==
  /\ At(d, "link") /\ Goto(d, "unlink")
  /\ \/ Moved(d, "ok") /\ new' = new \cup {d} /\ UNCHANGED <<tmp, clashes>>
     \/ Moved(d, "ok") /\ new' = new \cup {d} /\ tmp' = tmp \ {d} /\ UNCHANGED clashes
     \/ Moved(d, "exists") /\ Clash(d) /\ UNCHANGED <<tmp, new>>
     \/ Moved(d, "error") /\ UNCHANGED <<tmp, new, clashes>>
  /\ UNCHANGED <<cur, text, registered, fetchVars>>

\* The name in tmp goes in any case.
Unlink(d) ==
  /\ At(d, "unlink")
  /\ tmp' = tmp \ {d}
  /\ Goto(d, "unnote")
  /\ UNCHANGED <<new, cur, text, moved, clashes, registered, fetchVars>>

\* cleanup_deregister; if the name in new was taken begin again.
Deregister(d) ==
  /\ At(d, "unnote")
  /\ registered' = registered \ {d}
  /\ Goto(d, CASE moved[d] = "ok" -> "ok" [] moved[d] = "exists" -> "create"
               [] moved[d] = "error" -> "failed")
  /\ UNCHANGED <<dirVars, moved, clashes, fetchVars>>

\* SIGTERM: the handler removes what is on the cleanlist.
Term(d) ==
  /\ pc[d] \notin Ended
  /\ Goto(d, "killed")
  /\ tmp' = IF d \in registered THEN tmp \ {d} ELSE tmp
  /\ UNCHANGED <<new, cur, text, moved, clashes, registered, fetchVars>>

-----------------------------------------------------------------------------
(* The fetch child.                                                        *)

\* The loop calls the handler unless it holds too many mails.
Handler(s) == st = s /\ Cardinality(flight) < QueueHigh

\* fetch_maildir_abort: nothing more is unlinked.
Aborted == st' = "aborted" /\ flight' = {} /\ unlinklist' = {}

Open ==
  /\ Handler("open")
  /\ st' = "mail" /\ must' = In(Paths[index]) /\ listed' = {}
  /\ UNCHANGED <<dirVars, deliverVars, index, flight, unlinklist, dropped, taken, runs>>

\* readdir returns every name once that is there throughout; whether it returns
\* one that has come or gone since opendir is open.
ReadAll ==
  /\ Handler("mail")
  /\ must \cap In(Paths[index]) \subseteq listed
  /\ st' = "next"
  /\ UNCHANGED <<dirVars, deliverVars, scanVars, flight, unlinklist, dropped, taken, runs>>

\* A mail that has gone ends the fetch.  So does one that is too big: either that
\* is an error or its commit, which has no path to remember, crashes.
Fetch(m) ==
  /\ Handler("mail")
  /\ m \in (must \cup In(Paths[index])) \ listed
  /\ listed' = listed \cup {m}
  /\ IF m \in In(Paths[index]) \ Big
     THEN /\ flight' = flight \cup {[mail |-> m, dir |-> Paths[index]]}
          /\ taken' = [taken EXCEPT ![m] = @ + 1]
          /\ UNCHANGED <<st, unlinklist>>
     ELSE Aborted /\ UNCHANGED taken
  /\ UNCHANGED <<dirVars, deliverVars, index, must, dropped, runs>>

\* Inside a call of fetch_maildir_state_next.
Leaving == {"unlinking", "leaving"}

\* One of the mails to be dropped.  If it is no longer where it was, the fetch
\* ends.
UnlinkMail(x) ==
  /\ Handler("next") \/ st = "unlinking"
  /\ x \in unlinklist
  /\ IF x.mail \in In(x.dir)
     THEN /\ cur' = IF x.dir = "cur" THEN cur \ {x.mail} ELSE cur
          /\ new' = IF x.dir = "new" THEN new \ {x.mail} ELSE new
          /\ unlinklist' = unlinklist \ {x}
          /\ st' = IF unlinklist' = {} THEN "leaving" ELSE "unlinking"
          /\ UNCHANGED flight
     ELSE Aborted /\ UNCHANGED <<cur, new>>
  /\ UNCHANGED <<tmp, text, deliverVars, scanVars, dropped, taken, runs>>

\* A slip: behind the last directory nothing more is unlinked.
NextOnly ==
  /\ st = "leaving" \/ (Handler("next") /\ (unlinklist = {} \/ index > Len(Paths)))
  /\ index' = IF index <= Len(Paths) THEN index + 1 ELSE index
  /\ \/ index' <= Len(Paths) /\ st' = "open"
     \/ index' > Len(Paths) /\ flight = {} /\ st' = "done"
     \/ index' > Len(Paths) /\ flight # {} /\ st' = "next"
  /\ UNCHANGED <<dirVars, deliverVars, must, listed, flight, unlinklist,
                 dropped, taken, runs>>

\* The next directory; behind the last, wait until the loop is empty.
NextPath ==
  /\ st = "leaving" \/ (Handler("next") /\ unlinklist = {})
  /\ index' = IF index <= Len(Paths) THEN index + 1 ELSE index
  /\ \/ index' <= Len(Paths) /\ st' = "open"
     \/ index' > Len(Paths) /\ flight = {} /\ st' = "done"
     \/ index' > Len(Paths) /\ flight # {} /\ st' = "next"
  /\ UNCHANGED <<dirVars, deliverVars, must, listed, flight, unlinklist,
                 dropped, taken, runs>>

\* The loop is done with a mail: fetch_maildir_commit.
Commit(x) ==
  /\ st \notin Leaving \cup Over /\ x \in flight
  /\ flight' = flight \ {x}
  /\ \/ unlinklist' = unlinklist \cup {x} /\ dropped' = dropped \cup {x.mail}
     \/ UNCHANGED <<unlinklist, dropped>>
  /\ UNCHANGED <<dirVars, deliverVars, st, scanVars, taken, runs>>

\* A delivery fails, or fdm is stopped.
Fails ==
  /\ st \notin Over
  /\ Aborted
  /\ UNCHANGED <<dirVars, deliverVars, scanVars, dropped, taken, runs>>

\* fdm is run again: fetch_maildir_state_init.
Restart ==
  /\ st \in Over /\ runs < MaxRuns
  /\ runs' = runs + 1
  /\ st' = "open" /\ index' = 1 /\ must' = {} /\ listed' = {}
  /\ dropped' = {} /\ taken' = [m \in Mail |-> 0]
  /\ UNCHANGED <<dirVars, deliverVars, flight, unlinklist>>

-----------------------------------------------------------------------------
(* The mail reader.                                                        *)

\* A mail that has been seen goes from new to cur.
See(m) ==
  /\ m \in new
  /\ new' = new \ {m} /\ cur' = cur \cup {m}
  /\ UNCHANGED <<tmp, text, deliverVars, fetchVars>>

\* The user deletes it.
Erase(m) ==
  /\ m \in cur
  /\ cur' = cur \ {m}
  /\ UNCHANGED <<tmp, new, text, deliverVars, fetchVars>>

-----------------------------------------------------------------------------
Delivery(d) ==
  Create(d) \/ Register(d) \/ Write(d) \/ Sync(d) \/ Link(d) \/ Unlink(d)
  \/ Deregister(d)

Fetching ==
  Open \/ ReadAll \/ (\E m \in Mail : Fetch(m))
  \/ (\E x \in unlinklist : UnlinkMail(x)) \/ NextPath

Commits == \E x \in flight : Commit(x)

Rest == (\A d \in Deliverers : pc[d] \in Ended) /\ st \in Over /\ UNCHANGED vars

Next ==
  \/ \E d \in Deliverers : Delivery(d) \/ Term(d)
  \/ Fetching \/ Commits \/ Fails \/ Restart
  \/ \E m \in Mail : See(m) \/ Erase(m)
  \/ Rest

Spec == Init /\ [][Next]_vars

-----------------------------------------------------------------------------
(* Properties.                                                             *)

\* Every variable keeps its type.
TypeOK ==
  /\ tmp \subseteq Deliverers /\ new \subseteq Mail /\ cur \subseteq Mail
  /\ text \in [Mail -> {"none", "part", "whole"}]
  /\ pc \in [Deliverers -> {"create", "note", "write", "sync", "link", "unlink",
                            "unnote"} \cup Ended]
  /\ moved \in [Deliverers -> {"ok", "exists", "error"}]
  /\ clashes \in [Deliverers -> 0 .. MaxClashes]
  /\ registered \subseteq Deliverers
  /\ st \in {"open", "mail", "next"} \cup Leaving \cup Over
  /\ index \in 1 .. (Len(Paths) + 1)
  /\ st \in {"open", "mail"} => index \in DOMAIN Paths
  /\ must \subseteq Mail /\ listed \subseteq Mail
  /\ {flight, unlinklist} \subseteq SUBSET [mail : Mail, dir : {"cur", "new"}]
  /\ dropped \subseteq Mail /\ taken \in [Mail -> Nat] /\ runs \in Nat

\* A mail that a reader or a fetch finds is whole, wherever its delivery has
\* been cut short, and however often it has begun again.
FoundWhole == \A m \in new \cup cur : text[m] = "whole"

\* One run fetches a mail at most once, though the mail reader takes it from new
\* to cur in the middle of it: cur is read first (fetch-maildir.c:94-108).
FetchedOnce == \A m \in Mail : taken[m] <= 1

\* When a fetch has come to its proper end the mails it has dropped are gone,
\* those too that the loop got done with only behind the last directory
\* (fetch-maildir.c:284-303).
DroppedAreGone == st = "done" => dropped \cap (new \cup cur) = {}
=============================================================================

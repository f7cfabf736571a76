-------------------------------- MODULE Shm --------------------------------
(***************************************************************************)
(* The memory files that hold the mails (shm-mmap.c, the mail_* calls of   *)
(* mail.c) and the processes that share them: the fetch child that makes   *)
(* them, the parent that opens them for its requests, and the deliver      *)
(* children, which inherit what the parent has mapped.                     *)
(*                                                                         *)
(* A file is a name in the temporary directory and a text.  Whoever has it *)
(* mapped can go on using it when the name has been removed; whoever gets  *)
(* the name in a message must find it.  Each process has a cleanup list of *)
(* the names it has to remove (cleanup.c).  What a mail says is left out,  *)
(* but for the fold of its long header lines, which a fetch child replaces *)
(* by blanks while it matches a mail (set_wrapped).  The protocol between  *)
(* the processes is the one of FetchLoop and Parent, cut down to what      *)
(* touches the files; the parent is never interrupted, as its handler of   *)
(* SIGTERM only sets a flag.                                               *)
(***************************************************************************)
EXTENDS Naturals, Sequences

CONSTANTS
  Mails,
  MaxRewrites,  \* bound: times a mail is rewritten
  Setups        \* what may go wrong, see SetupType

SetupType == [term : BOOLEAN,   \* is the fetch child sent SIGTERM?
              dies : BOOLEAN,   \* do deliver children die?
              full : BOOLEAN]   \* does the disk fill up?

ASSUME ShmAssumption == MaxRewrites \in Nat /\ Setups \subseteq SetupType

File == Mails \X (0 .. MaxRewrites)
None == << >>
Kind == {"command", "action", "rewrite"}   \* what is asked of the parent

VARIABLES
  setup,
  fetch,        \* the fetch child
  at,           \* where each of its mails is
  file,         \* the file of the mail, None once it is closed
  mapped,       \* the mails with m->base set
  doing,        \* the part of mail_open, mail_receive or mail_destroy it is in
  files,        \* the names that are in the temporary directory
  folded,       \* the files whose header lines are folded as they were
  listed,       \* the cleanup lists of the fetch child and of the parent
  up, down,     \* messages to the parent and answers from it
  job,          \* the deliver child for each mail
  held, new,    \* the parent's file of that mail; the one it is to be written to
  kind,         \* what the deliver child is for
  reaped,       \* has the parent collected the fetch child?
  fatal         \* has the parent died?

fetchVars  == <<fetch, at, file, mapped, doing>>
diskVars   == <<files, folded, listed>>
parentVars == <<job, held, new, kind, reaped, fatal>>
msgVars    == <<up, down>>
vars == <<setup, fetchVars, diskVars, parentVars, msgVars>>

Waiting == Kind
Ended   == {"exited", "killed", "fatal"}

Init ==
  /\ setup \in Setups
  /\ fetch = "run" /\ at = [m \in Mails |-> "none"]
  /\ file = [m \in Mails |-> None] /\ mapped = {} /\ doing = None
  /\ files = {} /\ folded = {} /\ listed = [p \in {"fetch", "parent"} |-> {}]
  /\ up = <<>> /\ down = {}
  /\ job = [m \in Mails |-> "none"] /\ held = [m \in Mails |-> None]
  /\ new = [m \in Mails |-> None] /\ kind = [m \in Mails |-> "command"]
  /\ reaped = FALSE /\ fatal = FALSE

-----------------------------------------------------------------------------
(* The fetch child.  A SIGTERM can come between any two of its steps.      *)

Running == fetch = "run" /\ doing = None

\* SHM_REGISTER and SHM_DEREGISTER, of the fetch child
Registered(f) == listed' = [listed EXCEPT !["fetch"] = @ \cup {f}]
Dropped(f)    == listed' = [listed EXCEPT !["fetch"] = @ \ {f}]

\* A slip: header lines are unfolded and never folded again.
SetWrappedOnce(m, ch) == folded' = folded \ {file[m]}

\* set_wrapped
SetWrapped(m, ch) == folded' = IF ch = "\n" THEN folded \cup {file[m]} ELSE folded \ {file[m]}

\* fatal, in the fetch child: it does not clean up.
Dies == fetch' = "fatal" /\ UNCHANGED <<at, file, mapped, doing, diskVars>>

\* mail_open: shm_create makes the file, or leaves nothing behind.
MailOpen(m) ==
  /\ Running /\ at[m] = "none"
  /\ files' = files \cup {<<m, 0>>} /\ folded' = folded \cup {<<m, 0>>}
  /\ file' = [file EXCEPT ![m] = <<m, 0>>]
  /\ at' = [at EXCEPT ![m] = "match"]
  /\ doing' = <<"register", m>>
  /\ UNCHANGED <<fetch, mapped, listed, parentVars, msgVars>>

\* The end of mail_open and of mail_receive.
Register ==
  /\ fetch = "run" /\ doing # None /\ doing[1] = "register"
  /\ Registered(file[doing[2]])
  /\ mapped' = mapped \cup {doing[2]}
  /\ doing' = None
  /\ UNCHANGED <<fetch, at, file, files, folded, parentVars, msgVars>>

\* mail_send
Asked(m, k) ==
  /\ up' = Append(up, [mail |-> m, kind |-> k, file |-> file[m]])
  /\ at' = [at EXCEPT ![m] = k]

\* mail_match: header lines are unfolded while conditions are tried, and folded
\* when a command is to see the mail.  Then it goes on, has something to deliver
\* or is done with.
MatchMail(m) ==
  /\ Running /\ at[m] = "match"
  /\ \/ SetWrapped(m, "\n") /\ Asked(m, "command") /\ UNCHANGED doing
     \/ /\ SetWrapped(m, " ") /\ UNCHANGED up
        /\ \/ at' = [at EXCEPT ![m] = "deliver"] /\ UNCHANGED doing
           \/ at' = [at EXCEPT ![m] = "done"] /\ doing' = <<"destroy", m>>
  /\ UNCHANGED <<fetch, file, mapped, files, listed, parentVars, down>>

\* mail_match of a mail that waits for a command unfolds it as well.
MatchBlocked(m) ==
  /\ Running /\ at[m] = "command"
  /\ SetWrapped(m, " ")
  /\ UNCHANGED <<fetchVars, files, listed, parentVars, msgVars>>

\* mail_deliver: the next action of the mail is asked for, or there is none.
DeliverMail(m) ==
  /\ Running /\ at[m] = "deliver"
  /\ SetWrapped(m, "\n")
  /\ \/ \E k \in {"action", "rewrite"} :
          Asked(m, k) /\ (k = "rewrite" => file[m][2] < MaxRewrites)
     \/ at' = [at EXCEPT ![m] = "match"] /\ UNCHANGED up
  /\ UNCHANGED <<fetch, file, mapped, doing, files, listed, parentVars, down>>

\* shm_expand finds out that the disk is full, as it writes all of the file.
ExpandFails == setup.full

\* The disk is full when a header is inserted: shm_resize gives no address, and
\* the mail is taken for one without a file.
ResizeFails(m) ==
  /\ Running /\ ExpandFails /\ at[m] \in {"match", "deliver"} /\ m \in mapped
  /\ mapped' = mapped \ {m}
  /\ UNCHANGED <<fetch, at, file, doing, diskVars, parentVars, msgVars>>

\* mail_match and finish_action, with the answer: an error aborts the fetch; a
\* rewritten mail is received, which destroys the one there was.
TakeAnswer(d) ==
  LET m == d.mail IN
  /\ Running /\ d \in down /\ at[m] \in Waiting
  /\ down' = down \ {d}
  /\ SetWrapped(m, IF at[m] = "command" THEN " " ELSE "\n")
  /\ IF d.error
     THEN fetch' = "freeing" /\ UNCHANGED doing
     ELSE /\ doing' = IF at[m] = "rewrite" THEN <<"receive", m, d.file>> ELSE None
          /\ UNCHANGED fetch
  /\ at' = [at EXCEPT ![m] = IF @ = "command" THEN "match" ELSE "deliver"]
  /\ UNCHANGED <<file, mapped, files, listed, parentVars, up>>

Part == IF doing = None THEN "none" ELSE doing[1]

\* mail_destroy: a mail with no address is passed over.
Deregister ==
  /\ fetch \in {"run", "freeing"} /\ Part \in {"destroy", "receive"}
  /\ LET m == doing[2] IN
     IF m \notin mapped
     THEN /\ doing' = IF Part = "destroy" THEN None ELSE <<"reopen", m, doing[3]>>
          /\ file' = [file EXCEPT ![m] = None]
          /\ UNCHANGED <<fetch, at, mapped, diskVars>>
     ELSE IF file[m] \notin listed["fetch"]
     THEN Dies
     ELSE /\ Dropped(file[m])
          /\ doing' = [doing EXCEPT ![1] = "unlink"]
          /\ UNCHANGED <<fetch, at, file, mapped, files, folded>>
  /\ UNCHANGED <<parentVars, msgVars>>

\* shm_destroy
Unlink ==
  /\ fetch \in {"run", "freeing"} /\ Part = "unlink"
  /\ LET m == doing[2] IN
     IF file[m] \notin files
     THEN Dies
     ELSE /\ files' = files \ {file[m]}
          /\ file' = [file EXCEPT ![m] = None] /\ mapped' = mapped \ {m}
          /\ doing' = IF Len(doing) = 2 THEN None ELSE <<"reopen", m, doing[3]>>
          /\ UNCHANGED <<fetch, at, folded, listed>>
  /\ UNCHANGED <<parentVars, msgVars>>

\* mail_receive, shm_reopen: the new file is opened under its name.
Reopen ==
  /\ fetch = "run" /\ Part = "reopen"
  /\ LET m == doing[2] IN
     IF doing[3] \in files
     THEN /\ file' = [file EXCEPT ![m] = doing[3]] /\ doing' = <<"register", m>>
          /\ UNCHANGED fetch
     ELSE fetch' = "freeing" /\ doing' = None /\ UNCHANGED file
  /\ UNCHANGED <<at, mapped, diskVars, parentVars, msgVars>>

\* The fetch is aborted, by the server or by a timeout, or is complete.
FetchEnds ==
  /\ Running
  /\ fetch' = "freeing"
  /\ UNCHANGED <<at, file, mapped, doing, diskVars, parentVars, msgVars>>

\* fetch_free: every mail in the queues is destroyed, whatever it waits for.
FetchFree ==
  /\ fetch = "freeing" /\ doing = None
  /\ IF \E m \in mapped : file[m] # None
     THEN /\ \E m \in mapped : file[m] # None /\ doing' = <<"destroy", m>>
          /\ UNCHANGED <<fetch, up>>
     ELSE /\ fetch' = "waiting" /\ UNCHANGED doing
          /\ up' = Append(up, [kind |-> "exit"])
  /\ UNCHANGED <<at, file, mapped, diskVars, parentVars, down>>

\* child_exit, when the parent has answered MSG_EXIT: cleanup_check wants the
\* list to be empty.
ChildExit ==
  /\ fetch = "told"
  /\ fetch' = IF listed["fetch"] = {} THEN "exited" ELSE "fatal"
  /\ UNCHANGED <<at, file, mapped, doing, diskVars, parentVars, msgVars>>

\* child_sighandler: cleanup_purge unlinks what is on the list, and stops at the
\* first name that is not there.
Term ==
  /\ setup.term /\ fetch \notin Ended
  /\ fetch' = "killed"
  /\ \E gone \in SUBSET (listed["fetch"] \cap files) :
       /\ listed["fetch"] \subseteq files => gone = listed["fetch"]
       /\ files' = files \ gone
  /\ UNCHANGED <<at, file, mapped, doing, folded, listed, parentVars, msgVars>>

-----------------------------------------------------------------------------
(* The parent and the deliver children.                                    *)

Answer(m, err, f) ==
  down' = IF reaped THEN down ELSE down \cup {[mail |-> m, error |-> err, file |-> f]}

\* parent_fetch and parent_fetch_action: the mail is received, a new one made if
\* it is to be rewritten, and a deliver child started.  A command whose mail is
\* not there is answered with a code that is none of its errors.
ParentFetch ==
  /\ ~fatal /\ ~reaped /\ up # <<>> /\ Head(up).kind # "exit"
  /\ up' = Tail(up)
  /\ LET r == Head(up)  m == r.mail  g == <<m, r.file[2] + 1>> IN
     IF r.file \notin files
     THEN Answer(m, r.kind # "command", None) /\ UNCHANGED <<job, held, new, kind, diskVars>>
     ELSE \/ /\ r.kind = "rewrite" /\ ExpandFails
             /\ Answer(m, TRUE, None)
             /\ listed' = [listed EXCEPT !["parent"] = @ \cup {r.file}]
             /\ UNCHANGED <<job, held, new, kind, files, folded>>
          \/ /\ job' = [job EXCEPT ![m] = "run"] /\ kind' = [kind EXCEPT ![m] = r.kind]
             /\ held' = [held EXCEPT ![m] = r.file]
             /\ new' = [new EXCEPT ![m] = IF r.kind = "rewrite" THEN g ELSE None]
             /\ LET made == IF r.kind = "rewrite" THEN {g} ELSE {} IN
                /\ listed' = [listed EXCEPT !["parent"] = @ \cup {r.file} \cup made]
                /\ files' = files \cup made /\ folded' = folded \cup made
             /\ UNCHANGED down
  /\ UNCHANGED <<fetchVars, reaped, fatal>>

\* The fetch child says that it will exit, and is told to.
ParentExit ==
  /\ ~fatal /\ ~reaped /\ up # <<>> /\ Head(up).kind = "exit"
  /\ up' = Tail(up)
  /\ fetch' = IF fetch = "waiting" THEN "told" ELSE fetch
  /\ UNCHANGED <<at, file, mapped, doing, diskVars, parentVars, down>>

\* What an action makes of a mail: a rewrite also fails if its command does, if
\* it gives back nothing or too much, or if the new file cannot grow.
Results == {"ok", "failed"}

\* child_deliver: the action or the command is run, and MSG_DONE sent.
JobDone(m) ==
  /\ job[m] = "run"
  /\ \E r \in Results : job' = [job EXCEPT ![m] = r]
  /\ UNCHANGED <<fetchVars, diskVars, msgVars, held, new, kind, reaped, fatal>>

\* A deliver child dies, of itself or killed after its fetch child; its cleanup
\* list was emptied when it was forked.
JobDies(m) ==
  /\ job[m] = "run" /\ (setup.dies \/ reaped)
  /\ job' = [job EXCEPT ![m] = "dead"]
  /\ UNCHANGED <<fetchVars, diskVars, msgVars, held, new, kind, reaped, fatal>>

\* Slips: the wrong one of the two mails, the new one always, or none.
DestroysHeld(m) == {held[m]}
DestroysNew(m) == {new[m]}
DestroysNothing(m) == {}

\* What the parent destroys when a deliver child is done, where it closes the
\* rest: the new mail of a rewrite that has failed.
Destroys(m) == IF kind[m] = "rewrite" /\ job[m] = "failed" THEN {new[m]} ELSE {}

\* parent_deliver, with child_deliver_action_hook: the new mail of a rewrite takes
\* the place of the old one; the answer is sent if there is still somebody to get
\* it, and the mail closed.
ParentDeliver(m) ==
  LET rewrite == kind[m] = "rewrite"
      failed  == job[m] = "failed" \/ (rewrite /\ new[m] \notin files) IN
  /\ ~fatal /\ job[m] \in {"ok", "failed"}
  /\ job' = [job EXCEPT ![m] = "over"]
  /\ IF {held[m], new[m]} \ {None} \subseteq listed["parent"]
        /\ Destroys(m) \subseteq files \cup {None}
     THEN /\ listed' = [listed EXCEPT !["parent"] = @ \ {held[m], new[m]}]
          /\ files' = files \ Destroys(m)
          /\ Answer(m, failed, IF rewrite /\ ~failed THEN new[m] ELSE held[m])
          /\ UNCHANGED fatal
     ELSE fatal' = TRUE /\ UNCHANGED <<listed, files, down>>
  /\ UNCHANGED <<fetchVars, folded, up, held, new, kind, reaped>>

\* wait_children: the fetch child has gone, and so has what it had sent.
WaitChildren ==
  /\ ~fatal /\ ~reaped /\ fetch \in Ended
  /\ reaped' = TRUE /\ up' = <<>> /\ down' = {}
  /\ UNCHANGED <<fetchVars, diskVars, job, held, new, kind, fatal>>

Over == reaped /\ \A m \in Mails : job[m] \notin {"run", "ok", "failed"}

Next ==
  /\ UNCHANGED setup
  /\ \/ \E m \in Mails : MailOpen(m) \/ MatchMail(m) \/ MatchBlocked(m) \/ DeliverMail(m)
                         \/ ResizeFails(m) \/ JobDone(m) \/ JobDies(m) \/ ParentDeliver(m)
     \/ \E d \in down : TakeAnswer(d)
     \/ Register \/ Deregister \/ Unlink \/ Reopen \/ FetchEnds \/ FetchFree
     \/ ChildExit \/ Term \/ ParentFetch \/ ParentExit \/ WaitChildren
     \/ (Over \/ fatal) /\ UNCHANGED vars

Spec == Init /\ [][Next]_vars

-----------------------------------------------------------------------------
(* Properties.                                                             *)

\* Every variable keeps its type.
TypeOK ==
  /\ setup \in Setups
  /\ fetch \in {"run", "freeing", "waiting", "told"} \cup Ended
  /\ at \in [Mails -> {"none", "match", "deliver", "done"} \cup Waiting]
  /\ file \in [Mails -> File \cup {None}] /\ mapped \subseteq Mails
  /\ files \subseteq File /\ folded \subseteq File
  /\ listed \in [{"fetch", "parent"} -> SUBSET File]
  /\ \A d \in down : d.mail \in Mails /\ d.error \in BOOLEAN /\ d.file \in File \cup {None}
  /\ job \in [Mails -> {"none", "run", "ok", "failed", "over", "dead"}]
  /\ held \in [Mails -> File \cup {None}] /\ new \in [Mails -> File \cup {None}]
  /\ kind \in [Mails -> Kind] /\ reaped \in BOOLEAN /\ fatal \in BOOLEAN

\* Whoever removes a file or a name on its cleanup list finds it there, and a
\* fetch child that exits has an empty list (shm-mmap.c:151, cleanup.c:139 and 42
\* are fatal), as long as the disk has room.
RemovesWhatIsThere == ~setup.full => fetch # "fatal" /\ ~fatal

\* Whoever is sent the name of a file finds it, as long as the fetch child is at
\* work: the parent that of a mail, and the fetch child that of a rewritten one.
MailArrives ==
  fetch = "run" =>
    /\ \A i \in 1 .. Len(up) : up[i].file \in files
    /\ \A d \in down : ~d.error /\ kind[d.mail] = "rewrite" => d.file \in files
    /\ Part = "reopen" => doing[3] \in files

\* A file is left behind only by a rewrite whose fetch child did not wait for it,
\* or by a SIGTERM between the file and the list it is on.
NothingLeft ==
  Over /\ ~setup.full =>
    \A f \in files :
      \/ at[f[1]] = "rewrite" /\ f = new[f[1]]
      \/ fetch = "killed" /\ doing # None /\ doing[2] = f[1]

\* The deliver child of an action has the header lines of the mail as they were:
\* what mail_match makes of them in the same memory does not reach it.
ReadsFolded ==
  \A m \in Mails : job[m] = "run" /\ kind[m] # "command" => held[m] \in folded

-----------------------------------------------------------------------------
(* What the documentation says and the code does not do.                   *)

\* A command reads the mail as it was fetched.  match-command.c:47 folds the
\* header lines before it asks the parent, but mail_match, called again at every
\* turn of the loop while the mail waits, unfolds them first of all
\* (mail-state.c:65), in the memory the command reads from.
CommandReadsFolded ==
  \A m \in Mails : job[m] = "run" /\ kind[m] = "command" => held[m] \in folded

\* The memory files are gone when fdm is, if nobody is killed and the disk has
\* room.  A rewrite that ends after its fetch child has gone leaves its file
\* (parent-deliver.c:60 and 66).
AllRemoved == Over /\ setup = [term |-> FALSE, dies |-> FALSE, full |-> FALSE] => files = {}

\* No process dies of a full disk.  mail_resize forgets the address of a mail
\* that cannot grow (mail.c:142), mail_destroy then passes it over, and
\* cleanup_check kills the fetch child when it exits.
FullDiskIsSurvived == fetch # "fatal"
=============================================================================

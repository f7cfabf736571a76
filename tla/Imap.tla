-------------------------------- MODULE Imap --------------------------------
(***************************************************************************)
(* The IMAP handler of a fetch child (imap-common.c) with the server.      *)
(*                                                                         *)
(* One connection goes through the folders of the account in turn.  A mail *)
(* is named by a number that means something only in the selected folder:  *)
(* the handler must not leave a folder while mails of it are matched and   *)
(* delivered, and it finds out by counting.                                *)
(*                                                                         *)
(* The fetch loop is reduced to the set of mails it holds, as in Pop3.     *)
(* Login and capabilities, and the order of the commits, are left out.     *)
(***************************************************************************)
EXTENDS LoopTurn

CONSTANTS
  Last,         \* the account's folders are 1 .. Last
  Uid,          \* unique ids, each folder has its own
  Oversize,     \* the mails larger than conf.max_size, pairs of folder and uid
  MaxRuns,      \* bound: how often fdm is run
  Accounts      \* the accounts looked at: data->only, FETCH_POLL and the mails
                \* in each folder at the start

ASSUME ImapAssumption ==
  /\ Last \in Nat \ {0} /\ MaxRuns \in Nat
  /\ Uid \subseteq Nat \ {0} /\ IsFiniteSet(Uid)
  /\ Oversize \subseteq (1 .. Last) \X Uid
  /\ Accounts \subseteq [only : {"all", "new", "old"}, poll : BOOLEAN,
                          mailbox : [1 .. Last -> SUBSET Uid]]

VARIABLE account   \* the configuration of the account, never changed

Only == account.only
Polling == account.poll
Mailbox == account.mailbox

Folder == 1 .. Last

\* A mail from the search to its commit.  The code keeps the uid only.
MailType == [uid : Uid, from : Folder]

VARIABLES
  folder,       \* data->folder, from 1
  cur,          \* the uid the answer is about, 0 for none
  storing,      \* the flag it sets, "Deleted" or "Seen"
  wanted,
  droppedq, keptq,                         \* data->dropped, data->kept
  total, committed, foldersTotal,
  sel,          \* the folder selected on the server, 0 for none
  mail, seen, deleted,                     \* the server's, for each folder
  runs,
  decided,      \* the decisions each mail has been committed with
  erased        \* the mails fdm has flagged \Deleted, by folder and uid

queueVars  == <<wanted, flight, droppedq, keptq>>
countVars  == <<total, committed, foldersTotal>>
serverVars == <<sel, mail, seen, deleted, erased>>
vars == <<account, st, folder, cur, storing, queueVars, countVars, purgeVars, tallyVars,
          serverVars, runs, decided>>

None == [f \in Folder |-> {}]

\* imap_state_init, in a process of its own.
Fresh ==
  /\ st' = "connect" /\ folder' = 1 /\ cur' = 0 /\ storing' = "none"
  /\ wanted' = {} /\ flight' = {} /\ droppedq' = {} /\ keptq' = {}
  /\ total' = 0 /\ committed' = 0 /\ foldersTotal' = 0
  /\ purge' = FALSE /\ lastTotal' = 0 /\ lastDropped' = 0
  /\ dropped' = 0 /\ kept' = 0

Init ==
  /\ account \in Accounts
  /\ st = "connect" /\ folder = 1 /\ cur = 0 /\ storing = "none"
  /\ wanted = {} /\ flight = {} /\ droppedq = {} /\ keptq = {}
  /\ total = 0 /\ committed = 0 /\ foldersTotal = 0
  /\ purge = FALSE /\ lastTotal = 0 /\ lastDropped = 0
  /\ dropped = 0 /\ kept = 0
  /\ sel = 0 /\ mail = Mailbox /\ seen = None /\ deleted = None
  /\ runs = 1
  /\ decided = [x \in Folder \X Uid |-> {}] /\ erased = {}

-----------------------------------------------------------------------------
\* A turn in which the handler is held back or has no answer yet.
IdleTurn ==
  /\ st \notin Over /\ PurgeDue
  /\ PurgeCheck /\ purge' = Purging
  /\ UNCHANGED <<st, folder, cur, storing, queueVars, countVars, tallyVars,
                 serverVars, runs, decided>>

-----------------------------------------------------------------------------
(* Selecting a folder and what to fetch from it.                           *)

\* The greeting, CAPABILITY and the login.
Login ==
  /\ Handler("connect")
  /\ st' = "select"
  /\ purge' = Purging
  /\ UNCHANGED <<folder, cur, storing, queueVars, countVars, serverVars, decided>>

\* SELECT and its EXISTS.
Select ==
  /\ Handler("select")
  /\ sel' = folder
  /\ total' = Cardinality(mail[folder])
  /\ st' = IF total' = 0 THEN "close" ELSE "search"
  /\ purge' = Purging
  /\ UNCHANGED <<folder, cur, storing, queueVars, committed, foldersTotal,
                 mail, seen, deleted, erased, decided>>

Found == CASE Only = "all" -> mail[sel]
           [] Only = "new" -> mail[sel] \ seen[sel]
           [] Only = "old" -> mail[sel] \cap seen[sel]

\* UID SEARCH: the answer is added to the wanted list.
Search ==
  /\ Handler("search")
  /\ wanted' = wanted \cup [uid : Found, from : {sel}]
  /\ total' = Cardinality(wanted')
  /\ foldersTotal' = foldersTotal + total'
  /\ st' = IF total' = 0 \/ Polling THEN "close" ELSE "next"
  /\ purge' = Purging
  /\ UNCHANGED <<folder, cur, storing, flight, droppedq, keptq, committed,
                 serverVars, decided>>

-----------------------------------------------------------------------------
(* imap_state_next.                                                        *)

\* UID STORE for a dropped mail, else for a kept one.  The mail leaves its
\* list at once.
NextStore ==
  /\ Handler("next")
  /\ \/ \E x \in droppedq : /\ droppedq' = droppedq \ {x}
                            /\ cur' = x.uid /\ storing' = "Deleted"
                            /\ UNCHANGED keptq
     \/ /\ droppedq = {}
        /\ \E x \in keptq : /\ keptq' = keptq \ {x}
                            /\ cur' = x.uid /\ storing' = "Seen"
                            /\ UNCHANGED droppedq
  /\ st' = "commit"
  /\ purge' = Purging
  /\ UNCHANGED <<folder, wanted, flight, countVars, serverVars, decided>>

NothingToStore == droppedq = {} /\ keptq = {}

\* EXPUNGE if a purge is asked for and the fetch loop holds no mail.
NextPurge ==
  /\ Handler("next") /\ NothingToStore
  /\ Purging /\ flight = {}
  /\ purge' = FALSE /\ st' = "expunge"
  /\ UNCHANGED <<folder, cur, storing, queueVars, countVars, serverVars, decided>>

\* A slip: the last mails of the folder are not waited for.
NextCloseEarly ==
  /\ Handler("next") /\ NothingToStore /\ ~Purging
  /\ wanted = {}
  /\ st' = "close"
  /\ purge' = FALSE
  /\ UNCHANGED <<folder, cur, storing, queueVars, countVars, serverVars, decided>>

\* Nothing is wanted any more: close once everything is committed.
NextClose ==
  /\ Handler("next") /\ NothingToStore /\ ~Purging
  /\ wanted = {} /\ committed = total
  /\ st' = "close"
  /\ purge' = FALSE
  /\ UNCHANGED <<folder, cur, storing, queueVars, countVars, serverVars, decided>>

\* UID FETCH of the first wanted mail.
NextFetch ==
  /\ Handler("next") /\ NothingToStore /\ ~Purging
  /\ \E x \in wanted : (\A y \in wanted : x.uid <= y.uid) /\ cur' = x.uid
  /\ st' = "body"
  /\ purge' = FALSE
  /\ UNCHANGED <<folder, storing, queueVars, countVars, serverVars, decided>>

-----------------------------------------------------------------------------
(* The answers.                                                            *)

\* BODY[]: the server sets \Seen; a mail is read to its end and enqueued
\* (FETCH_MAIL).  For an oversize mail imap_state_line reads and throws away
\* every line, the end of the mail and the tagged answer among them: there is
\* no step out of "flush".
Body ==
  /\ Handler("body") /\ cur \in mail[sel]
  /\ wanted' = {x \in wanted : x.uid # cur}
  /\ seen' = [seen EXCEPT ![sel] = @ \cup {cur}]
  /\ IF <<sel, cur>> \in Oversize
     THEN st' = "flush" /\ UNCHANGED <<flight, cur>>
     ELSE /\ st' = "next" /\ cur' = 0
          /\ flight' = flight \cup {[uid |-> cur, from |-> sel]}
  /\ purge' = Purging
  /\ UNCHANGED <<folder, storing, droppedq, keptq, countVars, sel, mail,
                 deleted, erased, decided>>

\* A slip: only what is deleted is counted as committed.
CommitCountsDeleted ==
  /\ Handler("commit")
  /\ \/ /\ storing = "Deleted"
        /\ deleted' = [deleted EXCEPT ![sel] = @ \cup ({cur} \cap mail[sel])]
        /\ erased' = erased \cup ({sel} \X ({cur} \cap mail[sel]))
        /\ committed' = committed + 1
        /\ UNCHANGED seen
     \/ /\ storing = "Seen"
        /\ seen' = [seen EXCEPT ![sel] = @ \cup ({cur} \cap mail[sel])]
        /\ UNCHANGED <<deleted, erased, committed>>
  /\ st' = "next" /\ cur' = 0 /\ storing' = "none"
  /\ purge' = Purging
  /\ UNCHANGED <<folder, queueVars, total, foldersTotal, sel, mail, decided>>

\* The answer to UID STORE.  A server has no objection to a uid it lacks.
Commit ==
  /\ Handler("commit")
  /\ \/ /\ storing = "Deleted"
        /\ deleted' = [deleted EXCEPT ![sel] = @ \cup ({cur} \cap mail[sel])]
        /\ erased' = erased \cup ({sel} \X ({cur} \cap mail[sel]))
        /\ UNCHANGED seen
     \/ /\ storing = "Seen"
        /\ seen' = [seen EXCEPT ![sel] = @ \cup ({cur} \cap mail[sel])]
        /\ UNCHANGED <<deleted, erased>>
  /\ committed' = committed + 1
  /\ st' = "next" /\ cur' = 0 /\ storing' = "none"
  /\ purge' = Purging
  /\ UNCHANGED <<folder, queueVars, total, foldersTotal, sel, mail, decided>>

\* What the server does with the deleted mails of the selected folder.
Expunged ==
  /\ mail' = [mail EXCEPT ![sel] = @ \ deleted[sel]]
  /\ deleted' = [deleted EXCEPT ![sel] = {}]

Expunge ==
  /\ Handler("expunge")
  /\ Expunged
  /\ st' = "next"
  /\ purge' = Purging
  /\ UNCHANGED <<folder, cur, storing, queueVars, countVars, sel, seen, erased,
                 decided>>

\* CLOSE expunges; then the next folder, or LOGOUT.
Close ==
  /\ Handler("close")
  /\ Expunged
  /\ sel' = 0
  /\ folder' = folder + 1
  /\ st' = IF folder' <= Last THEN "select" ELSE "quit"
  /\ purge' = Purging
  /\ UNCHANGED <<cur, storing, queueVars, countVars, seen, erased, decided>>

\* imap_abort: the lists are freed and the connection closed.
Freed == /\ wanted' = {} /\ flight' = {} /\ droppedq' = {} /\ keptq' = {}
         /\ cur' = 0 /\ storing' = "none" /\ sel' = 0

Quit ==
  /\ Handler("quit")
  /\ Freed
  /\ st' = "done"
  /\ purge' = Purging
  /\ UNCHANGED <<folder, countVars, mail, seen, deleted, erased, decided>>

\* The mail is not there any more: the tagged answer comes where the data
\* should.
Missing ==
  /\ Handler("body") /\ cur \notin mail[sel]
  /\ Freed
  /\ st' = "aborted"
  /\ purge' = Purging
  /\ UNCHANGED <<folder, countVars, mail, seen, deleted, erased, decided>>

-----------------------------------------------------------------------------
(* imap_commit, for a mail the fetch loop is done with.                    *)

CommitMail(x, d) ==
  /\ st \notin Over /\ x \in flight
  /\ flight' = flight \ {x}
  /\ \/ /\ d = "drop"
        /\ droppedq' = droppedq \cup {x} /\ dropped' = dropped + 1
        /\ UNCHANGED <<keptq, kept>>
     \/ /\ d = "keep"
        /\ keptq' = keptq \cup {x} /\ kept' = kept + 1
        /\ UNCHANGED <<droppedq, dropped>>
  /\ decided' = [decided EXCEPT ![<<x.from, x.uid>>] = @ \cup {d}]
  /\ UNCHANGED <<st, folder, cur, storing, wanted, countVars, purgeVars,
                 serverVars, runs>>

-----------------------------------------------------------------------------
(* What cuts a fetch short, and what happens outside.                      *)

\* An error answer, a timeout, a lost connection, a delivery that failed, or
\* the child killed.
Stops ==
  /\ st \notin Over
  /\ st' = "aborted"
  /\ Freed
  /\ UNCHANGED <<folder, countVars, purgeVars, tallyVars, mail, seen, deleted,
                 erased, runs, decided>>

\* fdm is run again.
Restart ==
  /\ st \in Over /\ runs < MaxRuns
  /\ runs' = runs + 1
  /\ Fresh
  /\ UNCHANGED <<serverVars, decided>>

\* Another client removes a mail.
Vanishes ==
  /\ \E f \in Folder : \E u \in mail[f] :
        /\ mail' = [mail EXCEPT ![f] = @ \ {u}]
        /\ deleted' = [deleted EXCEPT ![f] = @ \ {u}]
  /\ UNCHANGED <<st, folder, cur, storing, queueVars, countVars, purgeVars,
                 tallyVars, sel, seen, erased, runs, decided>>

Rest == st \in Over /\ runs = MaxRuns /\ UNCHANGED vars

HandlerStep ==
  /\ \/ Login \/ Select \/ Search \/ NextStore \/ NextPurge \/ NextClose
     \/ NextFetch \/ Body \/ Commit \/ Expunge \/ Close \/ Quit
     \/ Missing
  /\ UNCHANGED runs

CommitStep == \E x \in flight, d \in {"drop", "keep"} : CommitMail(x, d)

Next ==
  /\ account' = account
  /\ HandlerStep \/ IdleTurn \/ CommitStep \/ Stops \/ Restart
     \/ Vanishes \/ Rest

Spec == Init /\ [][Next]_vars

\* The server answers and the fetch loop finishes with its mails.
FairSpec == /\ Spec
            /\ WF_vars(HandlerStep /\ account' = account)
            /\ WF_vars(CommitStep /\ account' = account)

-----------------------------------------------------------------------------
(* Properties.                                                             *)

\* Every variable keeps its type.
TypeOK ==
  /\ account \in Accounts
  /\ st \in {"connect", "select", "search", "next", "body", "flush", "commit",
             "expunge", "close", "quit"} \cup Over
  /\ folder \in 1 .. (Last + 1)
  /\ cur \in Uid \cup {0} /\ storing \in {"none", "Deleted", "Seen"}
  /\ wanted \subseteq MailType /\ flight \subseteq MailType
  /\ droppedq \subseteq MailType /\ keptq \subseteq MailType
  /\ {total, committed, foldersTotal, dropped, kept, lastTotal, lastDropped,
      runs} \subseteq Nat
  /\ purge \in BOOLEAN
  /\ sel \in Folder \cup {0}
  /\ mail \in [Folder -> SUBSET Uid] /\ seen \in [Folder -> SUBSET Uid]
  /\ deleted \in [Folder -> SUBSET Uid]
  /\ decided \in [Folder \X Uid -> SUBSET {"drop", "keep"}]
  /\ erased \subseteq Folder \X Uid

\* No two of the folders up to f have mail.
Single(f) ==
  \A g, h \in Folder :
    g <= f /\ h <= f /\ Mailbox[g] # {} /\ Mailbox[h] # {} => g = h

\* A uid is used in the folder it came from: the mail that fdm flags as deleted
\* is one it decided to drop.  imap-common.c:741 says how: "If last mail, wait
\* for everything to be committed then close down".  That is so of the mails of
\* the first folder with mail.  From the second on data->committed still counts
\* the folders before (imap-common.c:902) and data->total this one (:668), so
\* that it may be left too early; a mail dropped there, and no other, may take
\* the mail with its uid in a later folder with it.
DeletesOnlyDropped ==
  \A x \in erased :
    \/ "drop" \in decided[x]
    \/ \E f \in Folder : /\ f < x[1] /\ ~Single(f)
                         /\ "drop" \in decided[<<f, x[2]>>]

\* The wait for committed to be total, when committed has gone past it: in a
\* second folder with mail it starts from the first one's (imap-common.c:742).
WaitsForEver == st = "next" /\ wanted = {} /\ committed > total

\* A run comes to its end, or to that wait.
RunEnds == st = "connect" ~> st \in Over \/ WaitsForEver

-----------------------------------------------------------------------------
(* What the documentation says and the code does not do.                   *)

\* The STORE of a dropped mail goes to the folder the mail is in, whichever it
\* is: a folder is closed when everything of it is committed
\* (imap-common.c:741).  It fails with mail in three folders.
DeletesInItsFolder == \A x \in erased : "drop" \in decided[x]

\* No mail of a folder is in the fetch loop or waits for its STORE when the
\* folder is closed, and what the counts say of the folder is what there is
\* (imap-common.c:741).  Up to the first folder with mail that is so.
ClosedWhenCommitted ==
  /\ st \in {"close", "quit"} => flight \cup droppedq \cup keptq = {}
  /\ st \in {"next", "body", "expunge"} =>
       total = committed + Cardinality(wanted) + Cardinality(flight)
               + Cardinality(droppedq) + Cardinality(keptq)

\* A run comes to its end, with a mail that is too large and with mail in two
\* folders as well.  fdm.conf.5:73 says of delete-oversized that fdm "attempts to
\* delete messages which exceed maximum-size, and continue"; imap_state_line has
\* no way out of such a mail (imap-common.c:829), nor imap_state_next out of
\* WaitsForEver.
EveryRunEnds == st = "connect" ~> st \in Over

\* fdm poll counts each mail once: MANUAL.in:364 says "the 'poll' keyword print
\* an indication of how many mails are present in each account".  Nothing
\* empties data->wanted between folders (imap-common.c:671), so that with mail
\* in two the first one's is counted again.
PollCountsEachMailOnce ==
  Polling => foldersTotal <= Cardinality(UNION {Mailbox[f] : f \in Folder})
=============================================================================

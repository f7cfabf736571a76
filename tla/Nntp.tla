-------------------------------- MODULE Nntp --------------------------------
(***************************************************************************)
(* The NNTP handler of a fetch child (fetch-nntp.c) with the news server   *)
(* and the cache file, which holds the last article of each group.         *)
(*                                                                         *)
(* Nothing is deleted from a news server: the cache is all that tells what *)
(* has been fetched.  It is saved at every commit with whatever article    *)
(* the handler has reached by then, and read when fdm is run again, also   *)
(* after a run that was cut short.                                         *)
(*                                                                         *)
(* The server is one of RFC 977 and 3977: GROUP makes the first article    *)
(* the current one, STAT another, and NEXT goes on from there.  Articles   *)
(* go by age; that one is cancelled is left out.                           *)
(*                                                                         *)
(* The fetch loop is reduced to the set of articles it holds.  It goes on  *)
(* committing them after the handler has finished.  The greeting and the   *)
(* authentication, and groups that are only in the cache file, are left    *)
(* out.                                                                    *)
(***************************************************************************)
EXTENDS Integers, FiniteSets

CONSTANTS
  Last,         \* the account's groups are 1 .. Last
  MaxNo,        \* bound: article numbers
  MaxEpoch,     \* bound: how often a group is numbered afresh
  MaxRuns,      \* bound: how often fdm is run
  QueueHigh,    \* conf.queue_high
  DelBig        \* conf.del_big

ASSUME NntpAssumption ==
  /\ Last \in Nat \ {0} /\ {MaxNo, MaxEpoch, MaxRuns} \subseteq Nat
  /\ QueueHigh \in Nat \ {0} /\ DelBig \in BOOLEAN

Group == 1 .. Last

\* An article.  Its message id is told apart by the numbering it belongs to.
Article == [group : Group, epoch : 0 .. MaxEpoch, no : 1 .. MaxNo]

\* What the handler and the cache file know of a group: the number and the
\* message id of its last article.
Nothing == [last |-> 0, id |-> -1]
Entry   == [last : 0 .. MaxNo, id : -1 .. MaxEpoch]

VARIABLES
  st,           \* fctx->state, with the answer it waits for
  group,        \* data->group, from 1
  groups,       \* data->groups
  ptr,          \* the server's current article
  flight,       \* the articles in the fetch loop
  disk,         \* the cache file
  art, high, epoch,   \* the server's: articles, last number, numbering
  runs,
  taken,        \* how often each article has been fetched
  committed,    \* the articles that have been committed
  begun,        \* those NEXT has given in this run
  forgotten     \* those committed by when a cache file without groups was saved

serverVars == <<art, high, epoch>>
logVars    == <<taken, committed, begun, forgotten>>
newsVars == <<st, group, groups, ptr, flight, disk, serverVars, runs, logVars>>

NewsOver == {"done", "aborted"}

NoGroups == [g \in Group |-> Nothing]

NewsInit ==
  /\ st = "connect" /\ group = 1 /\ groups = NoGroups /\ ptr = 0
  /\ flight = {} /\ disk = NoGroups
  /\ art = [g \in Group |-> {}] /\ high = [g \in Group |-> 0]
  /\ epoch = [g \in Group |-> 0]
  /\ runs = 1
  /\ taken = [a \in Article |-> 0] /\ committed = {} /\ begun = {} /\ forgotten = {}

\* A slip: the queue limit is not looked at.
HandlerUnheld(s) ==
  /\ st = s
  /\ UNCHANGED <<serverVars, runs>>

\* The handler is only called while the queues have room.
Handler(s) ==
  /\ st = s
  /\ Cardinality(flight) < QueueHigh
  /\ UNCHANGED <<serverVars, runs>>

-----------------------------------------------------------------------------
(* The handler.                                                            *)

\* A slip: the cache is not loaded.
ConnectNoLoad ==
  /\ Handler("connect")
  /\ groups' = NoGroups
  /\ st' = "group"
  /\ UNCHANGED <<group, ptr, flight, disk, logVars>>

\* Load the cache, connect and log in.
Connect ==
  /\ Handler("connect")
  /\ groups' = disk
  /\ st' = "group"
  /\ UNCHANGED <<group, ptr, flight, disk, logVars>>

Reset == groups' = [groups EXCEPT ![group] = Nothing] /\ st' = "group"

\* What GROUP makes the current article: the first one of the group, or none if it
\* is empty.
Oldest ==
  IF art[group] = {} THEN {0} ELSE {n \in art[group] : \A k \in art[group] : n <= k}

\* The answer to GROUP: the last article is looked for, if there was one; else
\* NEXT is sent, which goes past the first.
Stat ==
  /\ Handler("group")
  /\ ptr' \in Oldest
  /\ IF groups[group].last > high[group]
     THEN Reset
     ELSE /\ st' = IF groups[group].last # 0 THEN "wait" ELSE "next"
          /\ UNCHANGED groups
  /\ UNCHANGED <<group, flight, disk, logVars>>

\* The answer to STAT: the article is gone, and the current one stays what it is;
\* or another one has its number; or it is the current article now.
Wait ==
  /\ Handler("wait")
  /\ IF groups[group].last \notin art[group]
     THEN st' = "next" /\ UNCHANGED <<groups, ptr>>
     ELSE IF groups[group].id # epoch[group]
          THEN Reset /\ UNCHANGED ptr
          ELSE st' = "next" /\ ptr' = groups[group].last /\ UNCHANGED groups
  /\ UNCHANGED <<group, flight, disk, logVars>>

\* What NEXT can go to.  Without a current article it is refused (420), as at the
\* end of the group.
Newer == {n \in art[group] : ptr # 0 /\ n > ptr}

This == [group |-> group, epoch |-> groups[group].id, no |-> ptr]

\* The answer to NEXT: the next article is noted as the last one before it is
\* fetched; or the group is finished, and the next one follows, or QUIT.
NextArticle ==
  /\ Handler("next")
  /\ IF Newer = {}
     THEN /\ group' = group + 1
          /\ st' = IF group' <= Last THEN "group" ELSE "quit"
          /\ UNCHANGED <<groups, ptr, begun>>
     ELSE \E n \in Newer :
            /\ \A k \in Newer : n <= k
            /\ groups' = [groups EXCEPT ![group] = [last |-> n, id |-> epoch[group]]]
            /\ ptr' = n
            /\ UNCHANGED group
            /\ begun' = begun \cup {This'}
            /\ st' = "article"
  /\ UNCHANGED <<flight, disk, taken, committed, forgotten>>

\* fetch_nntp_save: groups without an id are not written; the file is replaced
\* as a whole.
Save == disk' = [g \in Group |-> IF groups[g].id = -1 THEN Nothing ELSE groups[g]]

\* ARTICLE has been answered and the last line read: FETCH_MAIL.  An oversize
\* article is committed at once.
Fetched ==
  /\ Handler("article") /\ ptr \in art[group]
  /\ taken' = [taken EXCEPT ![This] = @ + 1]
  /\ \/ flight' = flight \cup {This} /\ UNCHANGED <<disk, committed, forgotten>>
     \/ /\ DelBig /\ Save
        /\ committed' = committed \cup {This} /\ forgotten' = forgotten \ {This}
        /\ UNCHANGED flight
  /\ st' = "next"
  /\ UNCHANGED <<group, groups, ptr, begun>>

\* No such article any more.
Skipped ==
  /\ Handler("article") /\ ptr \notin art[group]
  /\ st' = "next"
  /\ UNCHANGED <<group, groups, ptr, flight, disk, logVars>>

\* The answer to QUIT: FETCH_EXIT, and the groups are freed.
Quit ==
  /\ Handler("quit")
  /\ groups' = NoGroups
  /\ st' = "complete"
  /\ UNCHANGED <<group, ptr, flight, disk, logVars>>

-----------------------------------------------------------------------------
(* The fetch loop, and what cuts it short.                                 *)

\* fetch_nntp_commit: whatever the decision, the cache is saved.  After QUIT that
\* is a file without any group.
Commit(a) ==
  /\ st \notin NewsOver /\ a \in flight
  /\ flight' = flight \ {a}
  /\ committed' = committed \cup {a}
  /\ Save
  /\ forgotten' = IF st = "complete" THEN committed' ELSE forgotten \ {a}
  /\ UNCHANGED <<st, group, groups, ptr, serverVars, runs, taken, begun>>

\* The queue is empty and the handler has finished.
Finish ==
  /\ st = "complete" /\ flight = {}
  /\ st' = "done"
  /\ UNCHANGED <<group, groups, ptr, flight, disk, serverVars, runs, logVars>>

\* An error, a timeout, a lost connection or the child killed.
Stops ==
  /\ st \notin NewsOver
  /\ st' = "aborted"
  /\ flight' = {} /\ groups' = NoGroups
  /\ UNCHANGED <<group, ptr, disk, serverVars, runs, logVars>>

Restart ==
  /\ st \in NewsOver /\ runs < MaxRuns
  /\ runs' = runs + 1
  /\ st' = "connect" /\ group' = 1 /\ groups' = NoGroups /\ ptr' = 0
  /\ begun' = {}
  /\ UNCHANGED <<flight, disk, serverVars, taken, committed, forgotten>>

\* An article is posted.
Posted ==
  /\ \E g \in Group :
        /\ high[g] < MaxNo
        /\ high' = [high EXCEPT ![g] = @ + 1]
        /\ art' = [art EXCEPT ![g] = @ \cup {high[g] + 1}]
  /\ UNCHANGED <<st, group, groups, ptr, flight, disk, epoch, runs, logVars>>

\* The oldest article of a group expires.
Expires ==
  /\ \E g \in Group : \E n \in art[g] :
        /\ \A k \in art[g] : n <= k
        /\ art' = [art EXCEPT ![g] = @ \ {n}]
  /\ UNCHANGED <<st, group, groups, ptr, flight, disk, high, epoch, runs, logVars>>

\* A group is numbered afresh, between two runs.
Renumbered ==
  /\ st = "connect"
  /\ \E g \in Group :
        /\ epoch[g] < MaxEpoch
        /\ epoch' = [epoch EXCEPT ![g] = @ + 1]
        /\ art' = [art EXCEPT ![g] = {}] /\ high' = [high EXCEPT ![g] = 0]
  /\ UNCHANGED <<st, group, groups, ptr, flight, disk, runs, logVars>>

Rest == st \in NewsOver /\ runs = MaxRuns /\ UNCHANGED newsVars

HandlerStep == Connect \/ Stat \/ Wait \/ NextArticle \/ Fetched \/ Skipped \/ Quit

LoopStep == Finish \/ \E a \in flight : Commit(a)

NewsNext == HandlerStep \/ LoopStep \/ Stops \/ Restart
        \/ Posted \/ Expires \/ Renumbered \/ Rest

NewsSpec == NewsInit /\ [][NewsNext]_newsVars

-----------------------------------------------------------------------------
(* Properties.                                                             *)

\* Every variable keeps its type; while a group is being worked on, there is one
\* (data->group indexes data->groups).
NewsTypeOK ==
  /\ st \in {"connect", "group", "wait", "next", "article", "quit",
             "complete"} \cup NewsOver
  /\ group \in 1 .. (Last + 1) /\ ptr \in 0 .. MaxNo
  /\ st \in {"group", "wait", "next", "article"} => group \in Group
  /\ groups \in [Group -> Entry] /\ disk \in [Group -> Entry]
  /\ flight \subseteq Article
  /\ art \in [Group -> SUBSET (1 .. MaxNo)]
  /\ high \in [Group -> 0 .. MaxNo] /\ epoch \in [Group -> 0 .. MaxEpoch]
  /\ runs \in Nat
  /\ taken \in [Article -> Nat]
  /\ committed \subseteq Article /\ begun \subseteq Article /\ forgotten \subseteq Article

Covers(e, a) == e.id = a.epoch /\ a.no <= e.last
OnServer(a) == a.epoch = epoch[a.group] /\ a.no \in art[a.group]

\* The articles of this run that nobody has been given and that no later run
\* will ask for, as the cache file says they were the last.
PassedOver == {a \in begun \ committed : OnServer(a) /\ Covers(disk[a.group], a)}

\* An article is noted before it is fetched and saved when another is committed
\* (fetch-nntp.c:630): a run that is cut short loses what was on its way then, and
\* no more than that.  It is less than conf.queue_high: none with one article at
\* a time, one with the default of two (fdm.h:63).
PassedOverAreFew == Cardinality(PassedOver) <= QueueHigh - 1

\* An article that has been committed is not fetched again, whatever happened
\* to the run that fetched it and to the numbering of its group, until a mail that
\* is committed after QUIT saves a cache file without any group
\* (fetch-nntp.c:728).
CommittedNotFetchedAgain ==
  [][\A a \in committed \ forgotten : taken'[a] = taken[a]]_newsVars

-----------------------------------------------------------------------------
(* What the documentation says and the code does not do.                   *)

\* The cache file covers what has been committed until the group is numbered
\* afresh.  fdm.conf.5:587 says "The index and message-id of the last article
\* fetched in each group is saved in the specified cache file."
\* fetch_nntp_state_quit frees the groups (fetch-nntp.c:728), and a mail that is
\* committed after that, which takes more than one in the loop, saves a file
\* without any.
CommittedAreCached ==
  \A a \in committed : a.epoch = epoch[a.group] => Covers(disk[a.group], a)

\* An article a run has begun with and not delivered is left to the next one.
\* fdm.conf.5:586 says "Articles are fetched from the specified group or groups and
\* delivered."  With two in the loop the cache file may cover it.
NoneIsPassedOver == PassedOver = {}

\* The first article of a group is fetched as the others are.  NEXT, sent after
\* GROUP (fetch-nntp.c:557, :599), goes past it.
FirstIsFetched ==
  \A a \in Article : OnServer(a) /\ Covers(disk[a.group], a) => taken[a] > 0
=============================================================================

-------------------------------- MODULE Pop3 --------------------------------
(***************************************************************************)
(* The POP3 handler of a fetch child (pop3-common.c) with the server, the  *)
(* cache file and what outlives a fetch that is cut short.                 *)
(*                                                                         *)
(* POP3 names a mail by its index in the mailbox as it was when the        *)
(* connection was made.  The handler keeps indexes in its queues across    *)
(* answers, while mails are matched and delivered, and across the          *)
(* reconnections that purge deleted mail; a message that is deleted must   *)
(* be the one that was delivered.                                          *)
(*                                                                         *)
(* The fetch loop around it (FetchLoop) is reduced to the set of mails it  *)
(* holds: they are committed in any order between two calls of the         *)
(* handler, which is called while that set is not full.  The login and     *)
(* the order of the drop queue are left out; a message's number is its     *)
(* unique id, so that the server never shows two messages with the same.   *)
(***************************************************************************)
EXTENDS LoopTurn, Sequences

CONSTANTS
  MaxMessages,   \* bound: messages that ever reach the mailbox
  FirstMessages, \* those that are there at the start
  MaxRuns,       \* bound: how often fdm is run
  Accounts,      \* the accounts fdm may have been configured with
  DelBig         \* conf.del_big

\* data->only; whether there is a cache, data->path != NULL, which is part of
\* the keywords new-only and old-only; data->uidl, FALSE for no-uidl; and
\* FETCH_POLL, for fdm poll.
AccountType ==
  {a \in [only : {"all", "new", "old"}, cache : BOOLEAN, uidl : BOOLEAN,
          poll : BOOLEAN] : a.only # "all" => a.cache}

ASSUME Pop3Assumption ==
  /\ MaxMessages \in Nat /\ FirstMessages \in 0 .. MaxMessages
  /\ MaxRuns \in Nat
  /\ Accounts \subseteq AccountType
  /\ DelBig \in BOOLEAN

VARIABLE account   \* the configuration of the account, never changed

Only == account.only
HasCache == account.cache
Uidl == account.uidl
Polling == account.poll

Message == 1 .. MaxMessages

\* struct fetch_pop3_mail.  uid is 0 without UIDL; born is the connection that
\* put the mail on the want queue; msg the message retrieved as it, 0 before.
ItemType == [uid : 0 .. MaxMessages, idx : Nat, born : Nat,
             msg : 0 .. MaxMessages]

VARIABLES
  cur,         \* the mail the answer is about
  wantq, dropq,
  cacheq,      \* data->cacheq, a set of unique ids
  total, committed,
  disk,        \* the cache file
  box,         \* the mails in the mailbox on the server
  session,     \* the mailbox as this connection sees it
  marked,      \* the indexes deleted on this connection
  conn,        \* the number of connections this run has made
  arrived,     \* messages that have reached the mailbox so far
  runs,
  taken,       \* how often each message has been retrieved in this run
  decided,     \* the decisions its mails have been committed with
  settled,     \* the messages whose commit is complete and in the cache file
  gone         \* the messages fdm has deleted from the mailbox

queueVars  == <<wantq, dropq, flight>>
countVars  == <<total, committed>>
serverVars == <<box, session, marked, conn, gone>>
outerVars  == <<arrived, runs>>
logVars    == <<taken, decided, settled>>
vars == <<account, st, cur, queueVars, cacheq, countVars, purgeVars, tallyVars, disk,
          serverVars, outerVars, logVars>>

NoItem == [uid |-> 0, idx |-> 0, born |-> 0, msg |-> 0]

ToSet(s) == {s[i] : i \in DOMAIN s}

\* pop3_state_init, in a process of its own: only the cache file is left of an
\* earlier run.
Fresh ==
  /\ st' = "connect" /\ cur' = NoItem
  /\ wantq' = {} /\ dropq' = {} /\ flight' = {} /\ cacheq' = {}
  /\ total' = 0 /\ committed' = 0
  /\ purge' = FALSE /\ lastTotal' = 0 /\ lastDropped' = 0
  /\ dropped' = 0 /\ kept' = 0

Init ==
  /\ account \in Accounts
  /\ st = "connect" /\ cur = NoItem
  /\ wantq = {} /\ dropq = {} /\ flight = {} /\ cacheq = {}
  /\ total = 0 /\ committed = 0
  /\ purge = FALSE /\ lastTotal = 0 /\ lastDropped = 0
  /\ dropped = 0 /\ kept = 0
  /\ disk = {}
  /\ box = 1 .. FirstMessages /\ arrived = FirstMessages
  /\ session = <<>> /\ marked = {} /\ conn = 0 /\ gone = {}
  /\ runs = 1
  /\ taken = [m \in Message |-> 0]
  /\ decided = [m \in Message |-> {}]
  /\ settled = {}

-----------------------------------------------------------------------------
\* A turn in which the handler is held back or has no answer yet.
IdleTurn ==
  /\ st \notin Over /\ PurgeDue
  /\ PurgeCheck /\ purge' = Purging
  /\ UNCHANGED <<st, cur, queueVars, cacheq, countVars, tallyVars, disk,
                 serverVars, outerVars, logVars>>

-----------------------------------------------------------------------------
(* Connecting, up to the list of what to fetch.                            *)

\* The server numbers the mails in the order they have come in.
Ordered(s) == \A i, j \in DOMAIN s : i < j => s[i] < s[j]

Connect ==
  /\ Handler("connect")
  /\ st' = "login"
  /\ \E s \in [1 .. Cardinality(box) -> box] :
       Ordered(s) /\ ToSet(s) = box /\ session' = s
  /\ marked' = {} /\ conn' = conn + 1
  /\ purge' = Purging
  /\ UNCHANGED <<cur, queueVars, cacheq, countVars, disk, box, gone, logVars>>

\* The greeting, USER or APOP, PASS and STAT.
Login ==
  /\ Handler("login")
  /\ st' = "first"
  /\ purge' = Purging
  /\ UNCHANGED <<cur, queueVars, cacheq, countVars, disk, serverVars, logVars>>

Number == Len(session)

\* The answer to STAT.  Without UIDL every index is wanted.
First ==
  /\ Handler("first")
  /\ \/ /\ Number = 0
        /\ st' = IF total # 0 THEN "next" ELSE "quit"
        /\ UNCHANGED <<wantq, total>>
     \/ /\ Number # 0 /\ ~Uidl
        /\ wantq' = wantq \cup [uid : {0}, idx : 1 .. Number, born : {conn},
                                msg : {0}]
        /\ total' = total + Number
        /\ st' = "next"
     \/ /\ Number # 0 /\ Uidl
        /\ st' = "uidl"
        /\ UNCHANGED <<wantq, total>>
  /\ purge' = Purging
  /\ UNCHANGED <<cur, dropq, flight, cacheq, committed, disk, serverVars, logVars>>

Wanted(u, cached) == CASE Only = "all" -> TRUE
                       [] Only = "new" -> u \notin cached
                       [] Only = "old" -> u \in cached

\* The list of unique ids on the first connection: the cache file is loaded
\* and the want queue built.
UidlFresh ==
  /\ Handler("uidl") /\ total = 0
  /\ cacheq' = (cacheq \cup (IF HasCache THEN disk ELSE {})) \cap ToSet(session)
  /\ wantq' = wantq \cup
              {[uid |-> session[i], idx |-> i, born |-> conn, msg |-> 0] :
                  i \in {i \in DOMAIN session : Wanted(session[i], cacheq')}}
  /\ total' = Cardinality(wantq')
  /\ st' = IF total' = 0 \/ Polling THEN "quit" ELSE "next"
  /\ purge' = Purging
  /\ UNCHANGED <<cur, dropq, flight, committed, disk, serverVars, logVars>>

\* A slip: the want queue is built anew from the whole mailbox.
UidlAgainWantsAll ==
  /\ Handler("uidl") /\ total # 0
  /\ wantq' = {[uid |-> session[i], idx |-> i, born |-> conn, msg |-> 0] :
                i \in DOMAIN session}
  /\ total' = total - Cardinality(wantq) + Cardinality(wantq')
  /\ st' = "next"
  /\ purge' = Purging
  /\ UNCHANGED <<cur, dropq, flight, cacheq, committed, disk, serverVars, logVars>>

\* After a reconnection: mails that have left the mailbox are not wanted any
\* more, the others get their new index.
UidlAgain ==
  /\ Handler("uidl") /\ total # 0
  /\ LET here == {x \in wantq : x.uid \in ToSet(session)}
     IN  /\ wantq' = {[x EXCEPT !.idx = CHOOSE i \in DOMAIN session :
                                           session[i] = x.uid] : x \in here}
         /\ total' = total - Cardinality(wantq \ here)
  /\ st' = "next"
  /\ purge' = Purging
  /\ UNCHANGED <<cur, dropq, flight, cacheq, committed, disk, serverVars, logVars>>

-----------------------------------------------------------------------------
(* pop3_state_next.                                                        *)

\* Dropped mail first.
NextDelete ==
  /\ Handler("next") /\ dropq # {}
  /\ cur' \in dropq
  /\ st' = "delete"
  /\ purge' = Purging
  /\ UNCHANGED <<queueVars, cacheq, countVars, disk, serverVars, logVars>>

\* Nothing left to retrieve: quit once everything is committed.
NextQuit ==
  /\ Handler("next") /\ dropq = {} /\ wantq = {}
  /\ committed = total
  /\ st' = "quit"
  /\ purge' = Purging
  /\ UNCHANGED <<cur, queueVars, cacheq, countVars, disk, serverVars, logVars>>

\* A slip: purging does not wait for the mails in the fetch loop.
NextPurgeNotEmpty ==
  /\ Handler("next") /\ dropq = {} /\ wantq # {}
  /\ Purging
  /\ st' = "reconnect" /\ purge' = FALSE
  /\ UNCHANGED <<cur, queueVars, cacheq, countVars, disk, serverVars, logVars>>

\* A slip: a purge waits for the mails that are still to be fetched.
NextPurgeWaitsForTotal ==
  /\ Handler("next") /\ dropq = {} /\ wantq # {}
  /\ Purging /\ committed = total
  /\ st' = "reconnect" /\ purge' = FALSE
  /\ UNCHANGED <<cur, queueVars, cacheq, countVars, disk, serverVars, logVars>>

\* Purge if it is asked for and the fetch loop holds no mail; while it does,
\* nothing more is fetched.
NextPurge ==
  /\ Handler("next") /\ dropq = {} /\ wantq # {}
  /\ Purging /\ flight = {}
  /\ st' = "reconnect" /\ purge' = FALSE
  /\ UNCHANGED <<cur, queueVars, cacheq, countVars, disk, serverVars, logVars>>

\* The head of the want queue, which is built in the order of the indexes and
\* added to at the tail.
Heads == {x \in wantq : \A y \in wantq : \/ x.born < y.born
                                         \/ x.born = y.born /\ x.idx <= y.idx}

NextRetrieve ==
  /\ Handler("next") /\ dropq = {}
  /\ ~Purging
  /\ cur' \in Heads
  /\ st' = "retr"
  /\ purge' = FALSE
  /\ UNCHANGED <<queueVars, cacheq, countVars, disk, serverVars, logVars>>

-----------------------------------------------------------------------------
(* The answers.                                                            *)

Live(i) == i \in DOMAIN session /\ i \notin marked

\* pop3_save: the cache file is replaced as a whole, once it is complete.
Save(c) == disk' = IF HasCache /\ Only # "old" THEN c ELSE disk

\* pop3_abort: everything is freed and the connection closed.
Freed == /\ cur' = NoItem
         /\ wantq' = {} /\ dropq' = {} /\ flight' = {} /\ cacheq' = {}
         /\ session' = <<>> /\ marked' = {}

\* QUIT: the server removes what was deleted.
Expunge ==
  LET deleted == {session[i] : i \in marked \cap DOMAIN session}
  IN  /\ box' = box \ deleted
      /\ gone' = gone \cup (deleted \cap box)

\* A slip: a deleted mail is not remembered.
DeletedNotCached ==
  /\ Handler("delete") /\ Live(cur.idx)
  /\ marked' = marked \cup {cur.idx}
  /\ dropq' = dropq \ {cur}
  /\ committed' = committed + 1
  /\ Save(cacheq)
  /\ settled' = settled \cup {cur.msg}
  /\ st' = "next" /\ cur' = NoItem
  /\ purge' = Purging
  /\ UNCHANGED <<wantq, flight, cacheq, total, box, session, conn, gone, taken, decided>>

\* +OK to DELE.
Deleted ==
  /\ Handler("delete") /\ Live(cur.idx)
  /\ marked' = marked \cup {cur.idx}
  /\ dropq' = dropq \ {cur}
  /\ cacheq' = cacheq \cup {cur.uid}
  /\ committed' = committed + 1
  /\ Save(cacheq')
  /\ settled' = settled \cup {cur.msg}
  /\ st' = "next" /\ cur' = NoItem
  /\ purge' = Purging
  /\ UNCHANGED <<wantq, flight, total, box, session, conn, gone, taken, decided>>

\* +OK to the QUIT of a purge.
Reconnect ==
  /\ Handler("reconnect")
  /\ Expunge
  /\ session' = <<>> /\ marked' = {}
  /\ st' = "connect"
  /\ purge' = Purging
  /\ UNCHANGED <<cur, queueVars, cacheq, countVars, disk, conn, logVars>>

\* LIST and RETR have been answered and the last line read: FETCH_MAIL, and
\* fetch_enqueue, which commits an oversize mail at once.
Retrieved ==
  /\ Handler("retr") /\ Live(cur.idx)
  /\ LET x == [cur EXCEPT !.msg = session[cur.idx]]
     IN  /\ wantq' = wantq \ {cur}
         /\ \/ flight' = flight \cup {x} /\ UNCHANGED <<dropq, decided>>
            \/ /\ DelBig
               /\ dropq' = dropq \cup {x}
               /\ decided' = [decided EXCEPT ![x.msg] = @ \cup {"drop"}]
               /\ UNCHANGED flight
         /\ taken' = [taken EXCEPT ![x.msg] = @ + 1]
  /\ st' = "next" /\ cur' = NoItem
  /\ purge' = Purging
  /\ UNCHANGED <<cacheq, countVars, disk, serverVars, settled>>

\* +OK to the last QUIT: FETCH_EXIT.
Quit ==
  /\ Handler("quit")
  /\ Expunge
  /\ Freed
  /\ st' = "done"
  /\ purge' = Purging
  /\ UNCHANGED <<countVars, disk, conn, logVars>>

\* The server refuses an index it does not have.
Refused ==
  /\ Handler(st) /\ st \in {"delete", "retr"} /\ ~Live(cur.idx)
  /\ Freed
  /\ st' = "aborted"
  /\ purge' = Purging
  /\ UNCHANGED <<countVars, disk, box, conn, gone, logVars>>

-----------------------------------------------------------------------------
(* pop3_commit, for a mail the fetch loop is done with.                    *)

CommitDrop(x) ==
  /\ st \notin Over /\ x \in flight
  /\ flight' = flight \ {x}
  /\ dropq' = dropq \cup {x}
  /\ dropped' = dropped + 1
  /\ decided' = [decided EXCEPT ![x.msg] = @ \cup {"drop"}]
  /\ UNCHANGED <<st, cur, wantq, cacheq, countVars, purgeVars, kept, disk,
                 serverVars, outerVars, taken, settled>>

CommitKeep(x) ==
  /\ st \notin Over /\ x \in flight
  /\ flight' = flight \ {x}
  /\ cacheq' = cacheq \cup {x.uid}
  /\ committed' = committed + 1
  /\ Save(cacheq')
  /\ kept' = kept + 1
  /\ decided' = [decided EXCEPT ![x.msg] = @ \cup {"keep"}]
  /\ settled' = settled \cup {x.msg}
  /\ UNCHANGED <<st, cur, wantq, dropq, total, purgeVars, dropped,
                 serverVars, outerVars, taken>>

-----------------------------------------------------------------------------
(* What cuts a fetch short, and what happens outside.                      *)

\* An error answer, a timeout, a lost connection, a cache file that cannot be
\* written, a delivery that failed, or the child killed.  A QUIT may have been
\* carried out all the same.
Stops ==
  /\ st \notin Over
  /\ st' = "aborted"
  /\ Freed
  /\ \/ UNCHANGED <<box, gone>>
     \/ st \in {"quit", "reconnect"} /\ Expunge
  /\ UNCHANGED <<countVars, purgeVars, tallyVars, disk, conn, outerVars, logVars>>

\* fdm is run again.
Restart ==
  /\ st \in Over /\ runs < MaxRuns
  /\ runs' = runs + 1
  /\ Fresh
  /\ session' = <<>> /\ marked' = {} /\ conn' = 0
  /\ taken' = [m \in Message |-> 0]
  /\ UNCHANGED <<disk, box, gone, arrived, decided, settled>>

Arrives ==
  /\ arrived < MaxMessages
  /\ arrived' = arrived + 1
  /\ box' = box \cup {arrived + 1}
  /\ UNCHANGED <<st, cur, queueVars, cacheq, countVars, purgeVars, tallyVars,
                 disk, session, marked, conn, gone, runs, logVars>>

\* Another client deletes a message.
Vanishes ==
  /\ \E v \in box : box' = box \ {v}
  /\ UNCHANGED <<st, cur, queueVars, cacheq, countVars, purgeVars, tallyVars,
                 disk, session, marked, conn, gone, outerVars, logVars>>

\* Nobody runs fdm any more.
Rest == st \in Over /\ runs = MaxRuns /\ UNCHANGED vars

HandlerStep ==
  /\ \/ Connect \/ Login \/ First \/ UidlFresh \/ UidlAgain
     \/ NextDelete \/ NextQuit \/ NextPurge \/ NextRetrieve
     \/ Deleted \/ Reconnect \/ Retrieved \/ Quit \/ Refused
  /\ UNCHANGED outerVars

CommitStep == \E x \in flight : CommitDrop(x) \/ CommitKeep(x)

Next ==
  /\ account' = account
  /\ HandlerStep \/ IdleTurn \/ CommitStep \/ Stops \/ Restart
     \/ Arrives \/ Vanishes \/ Rest

Spec == Init /\ [][Next]_vars

\* The server answers and the fetch loop finishes with its mails.  Where one
\* of them does not, the timeout of poll ends the fetch (Stops).
FairSpec == /\ Spec
            /\ WF_vars(HandlerStep /\ account' = account)
            /\ WF_vars(CommitStep /\ account' = account)

-----------------------------------------------------------------------------
(* Properties.                                                             *)

\* Every variable keeps its type.
TypeOK ==
  /\ st \in {"connect", "login", "first", "uidl", "next", "delete", "retr",
             "reconnect", "quit"} \cup Over
  /\ cur \in ItemType
  /\ wantq \subseteq ItemType /\ dropq \subseteq ItemType
  /\ flight \subseteq ItemType
  /\ cacheq \subseteq 0 .. MaxMessages /\ disk \subseteq 0 .. MaxMessages
  /\ total \in Nat /\ committed \in Nat /\ dropped \in Nat /\ kept \in Nat
  /\ lastTotal \in Nat /\ lastDropped \in Nat /\ conn \in Nat /\ runs \in Nat
  /\ purge \in BOOLEAN
  /\ box \subseteq Message /\ session \in Seq(Message)
  /\ marked \subseteq Nat
  /\ arrived \in 0 .. MaxMessages
  /\ account \in Accounts
  /\ taken \in [Message -> Nat]
  /\ decided \in [Message -> SUBSET {"keep", "drop"}]
  /\ settled \subseteq Message /\ gone \subseteq Message

\* A message fdm deletes from the mailbox is one it decided to drop: whatever
\* the mailbox does between connections, an index never comes to mean another
\* message while fdm holds it (pop3-common.c:756-772).
DeletesOnlyDropped == \A m \in gone : "drop" \in decided[m]

\* With new-only, a message whose commit is in the cache file is not retrieved
\* again, though fdm or the connection died before the server deleted it; with
\* unique ids, that is, as no-uidl goes past the cache (pop3-common.c:490).
SettledNotFetchedAgain ==
  [][Uidl /\ Only = "new" => \A m \in settled : taken'[m] <= taken[m]]_vars

\* One run retrieves a message at most once, reconnections included, if the
\* server's unique ids are used: pop3_state_cache3 matches the want queue with
\* the mailbox.  Without them it is built anew on top of itself
\* (pop3-common.c:490).
FetchedOnce == Uidl => \A m \in Message : taken[m] <= 1

\* A run comes to its end.
RunEnds == st = "connect" ~> st \in Over

\* Where unique ids are used an index of the want queue is that of its mail, in
\* every connection, unless STAT found the mailbox empty: then the queue is
\* left as it was (pop3-common.c:475) and the fetch ends in an error.
IndexesCurrent ==
  Uidl /\ st = "next" /\ session # <<>> =>
    \A x \in wantq : x.idx \in DOMAIN session /\ session[x.idx] = x.uid

-----------------------------------------------------------------------------
(* What the documentation says and the code does not do.                   *)

\* fdm poll retrieves nothing: MANUAL.in:364 says "the 'poll' keyword print an
\* indication of how many mails are present in each account".  FETCH_POLL is
\* looked at behind UIDL only (pop3-common.c:689), so that without unique ids
\* (:490) all mails are fetched.
PollFetchesNothing == Polling => \A m \in Message : taken[m] = 0
=============================================================================

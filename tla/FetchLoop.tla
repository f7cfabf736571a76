------------------------------ MODULE FetchLoop ------------------------------
(***************************************************************************)
(* A fetch child: the loop of fetch_account (child-fetch.c) that fetches   *)
(* mails from one account, matches them against the ruleset and delivers   *)
(* them, up to queue-high of them at once, while the deliveries and the    *)
(* command conditions of several mails are in the hands of the parent.     *)
(*                                                                         *)
(* The protocol of the account (the fetch handler fctx.state) is abstract: *)
(* the server answers at some time, and an answer may complete a mail, end *)
(* the mailbox or be an error.  The parent and its deliver children are    *)
(* the environment: a request is refused or handed to a job, jobs end in   *)
(* any order, and a job may die without an answer.                         *)
(***************************************************************************)
EXTENDS MailState

CONSTANTS
  MaxMails,    \* bound: how many mails the mailbox may hold
  MaxAgain,    \* bound: how many answers lead to no mail (FETCH_AGAIN)
  QueueHigh,   \* conf.queue_high
  QueueLow,    \* conf.queue_low
  KeepAll,     \* conf.keep_all or the account's keep
  DelBig,      \* conf.del_big, delete-oversized
  HasSocket,   \* the account has a socket to poll (a->fetch->fill)
  NoMsg        \* msgp == NULL

ASSUME FetchAssumption ==
  /\ MaxMails \in Nat /\ MaxAgain \in Nat
  /\ QueueHigh \in Nat \ {0}
  /\ QueueLow \in 0 .. (QueueHigh - 1)
  /\ {KeepAll, DelBig, HasSocket} \subseteq BOOLEAN

Mail == 1 .. MaxMails

\* What travels on the socket pair.  A request names its mail; what is "exit"
\* for MSG_EXIT.  ran is not in the message: it says whether the parent really
\* ran what was asked for.
Request == [what : {"action", "command"}, id : Mail]
ExitReq == [what |-> "exit", id |-> 0]
Reply   == [what : {"done"}, id : Mail, error : 0 .. 2, ran : BOOLEAN]
ExitMsg == [what |-> "exit", id |-> 0, error |-> 0, ran |-> TRUE]

ASSUME NoMsgAssumption == NoMsg \notin Reply \cup {ExitMsg}

VARIABLES
  pc,          \* where the child is in its loop
  matchq,      \* fetch_matchq; the order of the queue is left out
  deliverq,    \* fetch_deliverq
  todo,        \* the mails the running pass over a queue has still to try
  ctx,         \* the mails' contexts
  idx,         \* a->idx, the number of mails enqueued so far
  msg,         \* the message this turn of the loop has read, or NoMsg
  queued,      \* fetch_queued
  blocked,     \* fetch_blocked
  dropped,     \* fetch_dropped
  kept,        \* fetch_kept
  holding,
  complete,
  aborted,
  rd,          \* the replies in the read buffer of the parent's io
  pollin,      \* a flush has found the socket readable and will fill rd
  srv,         \* the account's server: asked, its answer arrived or buffered
  again,       \* the FETCH_AGAIN answers left
  toParent,    \* the requests the parent has not read
  jobs,        \* the requests deliver children are working on
  lost,        \* the mails whose job died without an answer
  wire,        \* the replies the child has not read from the socket
  need,        \* for each mail, the deliveries its rules have asked for
  did,         \* and those that have been made
  commits,     \* what has been committed for each mail
  bigDrops     \* oversize mails committed for deletion unseen

loopVars   == <<pc, todo, msg, blocked, holding, complete, aborted>>
queueVars  == <<matchq, deliverq, ctx, idx, queued>>
countVars  == <<dropped, kept, commits, bigDrops>>
serverVars == <<srv, again>>
ioVars     == <<rd, pollin, toParent, wire>>
jobVars    == <<jobs, lost>>
vars == <<loopVars, queueVars, countVars, serverVars, ioVars, jobVars, need, did>>

-----------------------------------------------------------------------------

InLoop == pc \in {"top", "match", "deliver", "fetch", "poll"}

Ids(s) == {s[i].id : i \in DOMAIN s}

Queue == matchq \cup deliverq

Init ==
  /\ pc = "top" /\ todo = {} /\ msg = NoMsg /\ blocked = 0
  /\ holding = FALSE /\ complete = FALSE /\ aborted = FALSE
  /\ matchq = {} /\ deliverq = {} /\ idx = 0 /\ queued = 0
  /\ ctx = [m \in Mail |-> NewCtx]
  /\ dropped = 0 /\ kept = 0 /\ bigDrops = 0
  /\ commits = [m \in Mail |-> "none"]
  /\ srv = IF HasSocket THEN "asked" ELSE "buffered"
  /\ again = MaxAgain
  /\ rd = <<>> /\ wire = <<>> /\ toParent = <<>> /\ pollin = FALSE
  /\ jobs = {} /\ lost = {}
  /\ need = [m \in Mail |-> <<>>]
  /\ did = [m \in Mail |-> <<>>]

\* goto abort: the handler's abort is called and the loop is left.
Abort == pc' = "finished" /\ aborted' = TRUE

\* privsep_send: the request is flushed to the parent; the poll of the flush
\* also reports whether there is something to read.
Send(what, m) ==
  /\ toParent' = Append(toParent, [what |-> what, id |-> m])
  /\ pollin' = (wire # <<>>)
  /\ UNCHANGED <<rd, wire>>

\* io_after_poll of that flush: the replies on the socket enter the buffer.
FlushFill ==
  /\ pollin
  /\ rd' = rd \o wire /\ wire' = <<>> /\ pollin' = FALSE
  /\ UNCHANGED <<loopVars, queueVars, countVars, serverVars, jobVars,
                 toParent, need, did>>

-----------------------------------------------------------------------------
(* The top of the loop: at most one message is taken from the buffer.      *)

\* A slip: the buffer is drained, and all but the first message thrown away.
TopDrains ==
  /\ pc = "top"
  /\ blocked' = 0
  /\ msg' = IF rd = <<>> THEN NoMsg ELSE Head(rd)
  /\ rd' = <<>>
  /\ todo' = matchq
  /\ pc' = "match"
  /\ UNCHANGED <<queueVars, countVars, serverVars, jobVars, need, did,
                 holding, complete, aborted, pollin, toParent, wire>>

\* A slip: fetch_blocked keeps its count from one turn to the next.
TopKeepsBlocked ==
  /\ pc = "top"
  /\ IF rd = <<>> THEN msg' = NoMsg /\ UNCHANGED rd
                  ELSE msg' = Head(rd) /\ rd' = Tail(rd)
  /\ todo' = matchq
  /\ pc' = "match"
  /\ UNCHANGED <<queueVars, countVars, serverVars, jobVars, need, did,
                 blocked, holding, complete, aborted, pollin, toParent, wire>>

Top ==
  /\ pc = "top"
  /\ blocked' = 0
  /\ IF rd = <<>> THEN msg' = NoMsg /\ UNCHANGED rd
                  ELSE msg' = Head(rd) /\ rd' = Tail(rd)
  /\ todo' = matchq
  /\ pc' = "match"
  /\ UNCHANGED <<queueVars, countVars, serverVars, jobVars, need, did,
                 holding, complete, aborted, pollin, toParent, wire>>

-----------------------------------------------------------------------------
(* fetch_match: mail_match once for every mail in the match queue.         *)

MatchTurn(m) == pc = "match" /\ ~pollin /\ m \in todo
HasReply(m)  == msg # NoMsg /\ msg.id = ctx[m].msgid

MatchMoved(m, o) ==
  /\ ctx' = [ctx EXCEPT ![m] = o.ctx]
  /\ \/ /\ o.move = "continue"
        /\ UNCHANGED <<matchq, deliverq, need>>
     \/ /\ o.move = "deliver"
        /\ matchq' = matchq \ {m}
        /\ deliverq' = deliverq \cup {m}
        /\ need' = [need EXCEPT ![m] = @ \o o.ctx.dqueue]
  /\ todo' = todo \ {m}
  /\ UNCHANGED <<pc, aborted, idx, queued>>

\* A matched rule's actions cannot be looked up: no action of that name, no
\* such user, too many chained actions.  Or the condition itself failed.
MatchFails(m) ==
  /\ Abort
  /\ todo' = todo \ {m}
  /\ UNCHANGED <<queueVars, need>>

MatchOutcome(m, c) ==
  \E o \in AfterItem(c) :
     \/ MatchMoved(m, o)
     \/ o.move = "deliver" /\ MatchFails(m)

MatchBlocked(m) ==
  /\ MatchTurn(m)
  /\ Waiting(ctx[m]) /\ ~HasReply(m)
  /\ blocked' = blocked + 1
  /\ todo' = todo \ {m}
  /\ UNCHANGED <<queueVars, countVars, serverVars, ioVars, jobVars, need, did,
                 pc, msg, holding, complete, aborted>>

MatchReply(m) ==
  /\ MatchTurn(m)
  /\ Waiting(ctx[m]) /\ HasReply(m)
  /\ IF msg.error = MATCH_ERROR
     THEN MatchFails(m)
     ELSE LET c == [ctx[m] EXCEPT !.msgid = 0]
          IN  MatchOutcome(m, WithResult(c, msg.error = MATCH_TRUE))
  /\ UNCHANGED <<countVars, serverVars, ioVars, jobVars, did,
                 msg, blocked, holding, complete>>

\* The ruleset is over: fetch_dequeue commits the mail and forgets it.  A
\* commit that fails leaves the mail in the queue and ends the fetch.
MatchDone(m) ==
  /\ MatchTurn(m)
  /\ ~Waiting(ctx[m]) /\ RulesetOver(ctx[m])
  /\ LET d == IF KeepAll THEN "keep" ELSE FinalDecision(ctx[m])
     IN  /\ dropped' = dropped + (IF d = "drop" THEN 1 ELSE 0)
         /\ kept' = kept + (IF d = "keep" THEN 1 ELSE 0)
         /\ \/ /\ commits' = [commits EXCEPT ![m] = d]
               /\ matchq' = matchq \ {m}
               /\ queued' = queued - 1
               /\ todo' = todo \ {m}
               /\ UNCHANGED <<deliverq, ctx, idx, need, pc, aborted>>
            \/ MatchFails(m) /\ UNCHANGED commits
  /\ UNCHANGED <<serverVars, ioVars, jobVars, did, bigDrops,
                 msg, blocked, holding, complete>>

\* The next item of the expression, decided here or not needed at all.
MatchItem(m) ==
  /\ MatchTurn(m)
  /\ ~Waiting(ctx[m]) /\ ~RulesetOver(ctx[m])
  /\ LET c == Started(ctx[m])
     IN  \/ ShortCircuit(c) /\ MatchOutcome(m, c)
         \/ /\ ~ShortCircuit(c) /\ Item(c).by # "parent"
            /\ \/ \E this \in TestResults(c) : MatchOutcome(m, WithResult(c, this))
               \/ Item(c).by = "child" /\ MatchFails(m)
  /\ UNCHANGED <<countVars, serverVars, ioVars, jobVars, did,
                 msg, blocked, holding, complete>>

\* A command condition: only the parent can run it (match-command.c).
MatchAsk(m) ==
  /\ MatchTurn(m)
  /\ ~Waiting(ctx[m]) /\ ~RulesetOver(ctx[m])
  /\ LET c == Started(ctx[m])
     IN  /\ ~ShortCircuit(c) /\ Item(c).by = "parent"
         /\ \/ /\ ctx' = [ctx EXCEPT ![m] = [c EXCEPT !.msgid = m]]
               /\ blocked' = blocked + 1
               /\ Send("command", m)
               /\ UNCHANGED <<pc, aborted, matchq, deliverq, idx, queued>>
            \/ /\ Abort           \* no such user
               /\ UNCHANGED <<queueVars, ioVars, blocked>>
  /\ todo' = todo \ {m}
  /\ UNCHANGED <<countVars, serverVars, jobVars, need, did,
                 msg, holding, complete>>

MatchPassEnds ==
  /\ pc = "match" /\ ~pollin /\ todo = {}
  /\ pc' = "deliver" /\ todo' = deliverq
  /\ UNCHANGED <<queueVars, countVars, serverVars, ioVars, jobVars, need, did,
                 msg, blocked, holding, complete, aborted>>

-----------------------------------------------------------------------------
(* fetch_deliver: mail_deliver once for every mail in the deliver queue.   *)

DeliverTurn(m) == pc = "deliver" /\ ~pollin /\ m \in todo

DeliverBlocked(m) ==
  /\ DeliverTurn(m)
  /\ Waiting(ctx[m]) /\ ~HasReply(m)
  /\ blocked' = blocked + 1
  /\ todo' = todo \ {m}
  /\ UNCHANGED <<queueVars, countVars, serverVars, ioVars, jobVars, need, did,
                 pc, msg, holding, complete, aborted>>

\* A slip: the answer is not looked at.
DeliverReplyIgnoresError(m) ==
  /\ DeliverTurn(m)
  /\ Waiting(ctx[m]) /\ HasReply(m)
  /\ ctx' = [ctx EXCEPT ![m] = Delivered([@ EXCEPT !.msgid = 0])]
  /\ todo' = todo \ {m}
  /\ UNCHANGED <<countVars, serverVars, ioVars, jobVars, need, did, pc, aborted,
                 matchq, deliverq, idx, queued,
                 msg, blocked, holding, complete>>

\* finish_action.  A rewritten mail has still to be mapped, which may fail.
DeliverReply(m) ==
  /\ DeliverTurn(m)
  /\ Waiting(ctx[m]) /\ HasReply(m)
  /\ LET c == [ctx[m] EXCEPT !.msgid = 0]
     IN  \/ /\ msg.error = DELIVER_SUCCESS
            /\ ctx' = [ctx EXCEPT ![m] = Delivered(c)]
            /\ UNCHANGED <<pc, aborted>>
         \/ /\ \/ msg.error # DELIVER_SUCCESS
               \/ Kind(CurrentDelivery(c)) = "wrback"
            /\ Abort
            /\ UNCHANGED ctx
  /\ todo' = todo \ {m}
  /\ UNCHANGED <<countVars, serverVars, ioVars, jobVars, need, did,
                 matchq, deliverq, idx, queued,
                 msg, blocked, holding, complete>>

\* No delivery left: back to the ruleset.
DeliverDone(m) ==
  /\ DeliverTurn(m)
  /\ ~Waiting(ctx[m]) /\ ctx[m].dqueue = <<>>
  /\ deliverq' = deliverq \ {m}
  /\ matchq' = matchq \cup {m}
  /\ todo' = todo \ {m}
  /\ UNCHANGED <<countVars, serverVars, ioVars, jobVars, need, did,
                 ctx, idx, queued, pc, msg, blocked, holding, complete, aborted>>

\* start_action for an action the child performs itself.
DeliverInChild(m) ==
  /\ DeliverTurn(m)
  /\ ~Waiting(ctx[m]) /\ ctx[m].dqueue # <<>>
  /\ Kind(CurrentDelivery(ctx[m])) \in InChild
  /\ \/ /\ did' = [did EXCEPT ![m] = Append(@, CurrentDelivery(ctx[m]))]
        /\ ctx' = [ctx EXCEPT ![m] = Delivered(@)]
        /\ UNCHANGED <<pc, aborted>>
     \/ /\ Kind(CurrentDelivery(ctx[m])) = "inchild"
        /\ Abort
        /\ UNCHANGED <<ctx, did>>
  /\ todo' = todo \ {m}
  /\ UNCHANGED <<countVars, serverVars, ioVars, jobVars, need,
                 matchq, deliverq, idx, queued,
                 msg, blocked, holding, complete>>

\* start_action for an action that needs another user: the parent's.
DeliverAsk(m) ==
  /\ DeliverTurn(m)
  /\ ~Waiting(ctx[m]) /\ ctx[m].dqueue # <<>>
  /\ Kind(CurrentDelivery(ctx[m])) \notin InChild
  /\ ctx' = [ctx EXCEPT ![m].msgid = m]
  /\ blocked' = blocked + 1
  /\ Send("action", m)
  /\ todo' = todo \ {m}
  /\ UNCHANGED <<countVars, serverVars, jobVars, need, did,
                 matchq, deliverq, idx, queued,
                 pc, msg, holding, complete, aborted>>

DeliverPassEnds ==
  /\ pc = "deliver" /\ ~pollin /\ todo = {}
  /\ pc' = "fetch"
  /\ msg' = NoMsg                  \* it is not looked at again
  /\ UNCHANGED <<queueVars, countVars, serverVars, ioVars, jobVars, need, did,
                 todo, blocked, holding, complete, aborted>>

-----------------------------------------------------------------------------
(* The fetch handler.  It is called only while the queue is not held back  *)
(* and the mailbox is not at its end.                                      *)

\* A slip: the queue is held back one mail late.
NowHoldingLate == IF queued > QueueHigh THEN TRUE
                  ELSE IF queued <= QueueLow THEN FALSE ELSE holding

NowHolding == IF queued >= QueueHigh THEN TRUE
              ELSE IF queued <= QueueLow THEN FALSE ELSE holding

CallsHandler == pc = "fetch" /\ ~NowHolding /\ ~complete

\* A handler without a socket waits only for the queue to empty.
HandlerWaits == IF HasSocket THEN srv # "buffered" ELSE queued # 0

Consumed == IF HasSocket THEN srv' = "asked" ELSE UNCHANGED srv

\* FETCH_AGAIN: some answer that leads to no mail yet.
HandlerAgain ==
  /\ CallsHandler /\ srv = "buffered" /\ again > 0
  /\ again' = again - 1 /\ Consumed
  /\ holding' = NowHolding /\ pc' = "top"
  /\ UNCHANGED <<queueVars, countVars, ioVars, jobVars, need, did,
                 todo, msg, blocked, complete, aborted>>

\* FETCH_MAIL and fetch_enqueue: the mail starts at the first rule.
HandlerMail ==
  /\ CallsHandler /\ srv = "buffered" /\ idx + bigDrops < MaxMails
  /\ Consumed
  /\ idx' = idx + 1
  /\ ctx' = [ctx EXCEPT ![idx + 1] = NewCtx]
  /\ matchq' = matchq \cup {idx + 1}
  /\ queued' = queued + 1
  /\ holding' = NowHolding /\ pc' = "top"
  /\ UNCHANGED <<countVars, ioVars, jobVars, need, did, again, deliverq,
                 todo, msg, blocked, complete, aborted>>

\* fetch_enqueue of an oversize mail, to be deleted: committed at once, never
\* queued.  The commit may fail.
HandlerBigMail ==
  /\ CallsHandler /\ srv = "buffered" /\ idx + bigDrops < MaxMails
  /\ DelBig
  /\ Consumed
  /\ \/ bigDrops' = bigDrops + 1 /\ pc' = "top" /\ UNCHANGED aborted
     \/ Abort /\ UNCHANGED bigDrops
  /\ holding' = NowHolding
  /\ UNCHANGED <<queueVars, ioVars, jobVars, need, did, again,
                 dropped, kept, commits, todo, msg, blocked, complete>>

\* FETCH_ERROR; an empty mail; an oversize mail that is not to be deleted.
HandlerError ==
  /\ CallsHandler /\ srv = "buffered"
  /\ Consumed
  /\ Abort
  /\ holding' = NowHolding
  /\ UNCHANGED <<queueVars, countVars, ioVars, jobVars, need, did, again,
                 todo, msg, blocked, complete>>

\* FETCH_EXIT: nothing more to fetch.
HandlerExit ==
  /\ CallsHandler /\ srv = "buffered"
  /\ Consumed
  /\ complete' = TRUE
  /\ pc' = IF queued = 0 THEN "finished" ELSE "poll"
  /\ holding' = NowHolding
  /\ UNCHANGED <<queueVars, countVars, ioVars, jobVars, need, did, again,
                 todo, msg, blocked, aborted>>

\* FETCH_BLOCK: the handler waits for the server or for the queue.
HandlerBlocks ==
  /\ CallsHandler /\ HandlerWaits
  /\ holding' = NowHolding
  /\ pc' = "poll"
  /\ UNCHANGED <<queueVars, countVars, serverVars, ioVars, jobVars, need, did,
                 todo, msg, blocked, complete, aborted>>

\* The handler is not called.
NoHandler ==
  /\ pc = "fetch" /\ (NowHolding \/ complete)
  /\ holding' = NowHolding
  /\ pc' = IF complete /\ queued = 0 THEN "finished" ELSE "poll"
  /\ UNCHANGED <<queueVars, countVars, serverVars, ioVars, jobVars, need, did,
                 todo, msg, blocked, complete, aborted>>

-----------------------------------------------------------------------------
(* fetch_poll.                                                             *)

\* The timeout is zero when some queued mail can still be worked on, and
\* when there is nothing to wait for.
PollsOnly == \/ queued = 0 /\ ~HasSocket
             \/ queued # 0 /\ blocked # queued

\* The child is asleep in poll until something can be read.
Sleeping == pc = "poll" /\ ~PollsOnly /\ wire = <<>> /\ srv # "arrived"

Poll ==
  /\ pc = "poll" /\ ~Sleeping
  /\ rd' = rd \o wire /\ wire' = <<>>
  /\ srv' = IF srv = "arrived" THEN "buffered" ELSE srv
  /\ pc' = "top"
  /\ UNCHANGED <<queueVars, countVars, jobVars, need, did, again, pollin,
                 toParent, todo, msg, blocked, holding, complete, aborted>>

\* A slip: no timeout while the parent owes an answer.
PollTimeoutIdle ==
  /\ Sleeping /\ queued = 0
  /\ Abort
  /\ UNCHANGED <<queueVars, countVars, serverVars, ioVars, jobVars, need, did,
                 todo, msg, blocked, holding, complete>>

\* conf.timeout passes while the child sleeps.
PollTimeout ==
  /\ Sleeping
  /\ Abort
  /\ UNCHANGED <<queueVars, countVars, serverVars, ioVars, jobVars, need, did,
                 todo, msg, blocked, holding, complete>>

\* The account's socket is found closed or in error.
ServerCloses ==
  /\ pc = "poll" /\ HasSocket
  /\ Abort
  /\ UNCHANGED <<queueVars, countVars, serverVars, ioVars, jobVars, need, did,
                 todo, msg, blocked, holding, complete>>

-----------------------------------------------------------------------------
(* After the loop: fetch_free, then the exit handshake of child_fetch.     *)

Finish ==
  /\ pc = "finished" /\ ~pollin
  /\ matchq' = {} /\ deliverq' = {} /\ todo' = {}
  /\ toParent' = Append(toParent, ExitReq)
  /\ pollin' = (wire # <<>>)
  /\ pc' = "exit"
  /\ msg' = NoMsg /\ blocked' = 0   \* dead from here on
  /\ UNCHANGED <<countVars, serverVars, jobVars, need, did, rd, wire,
                 ctx, idx, queued, holding, complete, aborted>>

\* Every message but MSG_EXIT is thrown away.
AwaitExit ==
  /\ pc = "exit" /\ ~pollin
  /\ rd \o wire # <<>>
  /\ rd' = Tail(rd \o wire) /\ wire' = <<>>
  /\ pc' = IF Head(rd \o wire).what = "exit" THEN "gone" ELSE "exit"
  /\ UNCHANGED <<queueVars, countVars, serverVars, jobVars, need, did,
                 toParent, pollin,
                 todo, msg, blocked, holding, complete, aborted>>

-----------------------------------------------------------------------------
(* The environment: the server, the parent and the deliver children.       *)

ServerAnswers ==
  /\ srv = "asked" /\ InLoop
  /\ srv' = "arrived"
  /\ UNCHANGED <<loopVars, queueVars, countVars, ioVars, jobVars, need, did,
                 again>>

\* What the parent sends to a child that has gone is dropped.
Answer(r) == wire' = IF pc = "gone" THEN wire ELSE Append(wire, r)

Done(m, error, ran) ==
  [what |-> "done", id |-> m, error |-> error, ran |-> ran]

\* parent_fetch: hand the request to a new deliver child, answer it with
\* parent_fetch_error, or let the fetch child exit.
ParentReads ==
  /\ toParent # <<>>
  /\ LET r == Head(toParent)
     IN  \/ /\ r.what = "exit"
            /\ Answer(ExitMsg)
            /\ UNCHANGED jobs
         \/ /\ r.what # "exit"
            /\ jobs' = jobs \cup {r}
            /\ UNCHANGED wire
         \/ /\ r.what # "exit"
            /\ Answer(Done(r.id, DELIVER_FAILURE, FALSE))
            /\ UNCHANGED jobs
  /\ toParent' = Tail(toParent)
  /\ UNCHANGED <<loopVars, queueVars, countVars, serverVars, lost, need, did,
                 rd, pollin>>

\* A deliver child has done its work and the parent passes its answer on
\* (parent_deliver).
JobEnds(j) ==
  /\ j \in jobs
  /\ jobs' = jobs \ {j}
  /\ \/ /\ j.what = "action"
        /\ did' = [did EXCEPT ![j.id] = Append(@, CurrentDelivery(ctx[j.id]))]
        /\ Answer(Done(j.id, DELIVER_SUCCESS, TRUE))
     \/ /\ j.what = "action"
        /\ UNCHANGED did
        /\ Answer(Done(j.id, DELIVER_FAILURE, TRUE))
     \/ /\ j.what = "command"
        /\ UNCHANGED did
        /\ \E error \in {MATCH_FALSE, MATCH_TRUE, MATCH_ERROR} :
              Answer(Done(j.id, error, TRUE))
  /\ UNCHANGED <<loopVars, queueVars, countVars, serverVars, lost, need,
                 rd, pollin, toParent>>

\* A deliver child dies, before or after the delivery: nobody answers.
JobDies(j) ==
  /\ j \in jobs
  /\ jobs' = jobs \ {j}
  /\ lost' = lost \cup {j.id}
  /\ \/ UNCHANGED did
     \/ /\ j.what = "action"
        /\ did' = [did EXCEPT ![j.id] = Append(@, CurrentDelivery(ctx[j.id]))]
  /\ UNCHANGED <<loopVars, queueVars, countVars, serverVars, ioVars, need>>

-----------------------------------------------------------------------------

ChildStep ==
  \/ Top \/ FlushFill \/ MatchPassEnds \/ DeliverPassEnds
  \/ \E m \in Mail : \/ MatchBlocked(m) \/ MatchReply(m) \/ MatchDone(m)
                     \/ MatchItem(m) \/ MatchAsk(m)
                     \/ DeliverBlocked(m) \/ DeliverReply(m) \/ DeliverDone(m)
                     \/ DeliverInChild(m) \/ DeliverAsk(m)
  \/ HandlerAgain \/ HandlerMail \/ HandlerBigMail \/ HandlerError
  \/ HandlerExit \/ HandlerBlocks \/ NoHandler
  \/ Poll \/ Finish \/ AwaitExit

JobStep == \E j \in jobs : JobEnds(j) \/ JobDies(j)

\* The child has gone and nothing is left to be done for it.
Stopped == pc = "gone" /\ jobs = {} /\ UNCHANGED vars

Next == \/ ChildStep \/ PollTimeout \/ ServerCloses
        \/ ServerAnswers \/ ParentReads \/ JobStep \/ Stopped

Spec == Init /\ [][Next]_vars

\* The child, the parent and the deliver children are scheduled, a socket
\* that stays silent makes poll time out.  A server need not ever answer,
\* and nobody has to close a connection.
Fairness == /\ WF_vars(ChildStep) /\ WF_vars(PollTimeout)
            /\ WF_vars(ParentReads) /\ WF_vars(JobStep)

FairSpec == Spec /\ Fairness

-----------------------------------------------------------------------------
(* Properties.                                                             *)

\* Every variable keeps its type.
TypeOK ==
  /\ pc \in {"top", "match", "deliver", "fetch", "poll",
             "finished", "exit", "gone"}
  /\ matchq \subseteq Mail /\ deliverq \subseteq Mail /\ todo \subseteq Mail
  /\ ctx \in [Mail -> CtxType]
  /\ idx \in 0 .. MaxMails /\ bigDrops \in 0 .. MaxMails
  /\ {queued, blocked, dropped, kept, again} \subseteq Int
  /\ msg \in Reply \cup {NoMsg}
  /\ {holding, complete, aborted, pollin} \subseteq BOOLEAN
  /\ rd \in Seq(Reply \cup {ExitMsg}) /\ wire \in Seq(Reply \cup {ExitMsg})
  /\ toParent \in Seq(Request \cup {ExitReq})
  /\ jobs \subseteq Request /\ lost \subseteq Mail
  /\ srv \in {"asked", "arrived", "buffered"}
  /\ need \in [Mail -> Seq(Delivery)] /\ did \in [Mail -> Seq(Delivery)]
  /\ commits \in [Mail -> Decision \cup {"none"}]

\* While the loop runs, fetch_queued counts the two queues, no mail is in
\* both, and the child never holds more than queue-high mails (the holding
\* test of child-fetch.c:406-412 is what keeps it there).
QueueBound ==
  InLoop => /\ matchq \cap deliverq = {}
            /\ queued = Cardinality(Queue)
            /\ queued <= QueueHigh

\* The reply this turn of the loop has read and no mail has claimed yet.
AtHand ==
  {m \in Queue : /\ msg # NoMsg /\ msg.id = m /\ Waiting(ctx[m])
                 /\ \/ m \in todo
                    \/ pc = "match" /\ m \in deliverq}

\* Where the request or the reply of a mail can be.
Places == << Ids(toParent), {j.id : j \in jobs}, lost,
             Ids(wire), Ids(rd), AtHand >>

NoRepeats(s) == \A i, j \in DOMAIN s : s[i].id = s[j].id => i = j

\* A mail waits exactly if one request of its is under way, and that is in
\* exactly one place: with the parent, with a deliver child, lost with its
\* deliver child, in an unread or a buffered reply, or in the reply being
\* handed round.  So no reply is stale, repeated, or thrown away while its
\* mail waits for it (mail-state.c:68-71 and 278-281 would let it go by).
OneOutstanding ==
  InLoop =>
    /\ \A m \in Mail : (\E k \in 1 .. 6 : m \in Places[k])
                          <=> (m \in Queue /\ ctx[m].msgid # 0)
    /\ \A m \in Queue : ctx[m].msgid \in {0, m}
    /\ \A k, l \in 1 .. 6 : k # l => Places[k] \cap Places[l] = {}
    /\ NoRepeats(toParent) /\ NoRepeats(wire) /\ NoRepeats(rd)
    /\ \A j, k \in jobs : j.id = k.id => j = k

\* The child sleeps with mails in its queue only if each of them waits for
\* the parent: a mail that could go on is never left for the length of the
\* timeout (child-fetch.c:464-475).
SleepsOnlyIfAllWait ==
  pc = "poll" /\ ~PollsOnly /\ queued # 0 => \A m \in Queue : Waiting(ctx[m])

\* Every fetch ends: the child reaches its exit whatever the server and the
\* deliver children do.
FetchEnds == <>(pc = "gone")

-----------------------------------------------------------------------------
(* The promise made to the owner of the mail (MailPromise).                *)

Status == [m \in Mail |-> IF commits[m] # "none" THEN commits[m]
                          ELSE IF m <= idx THEN "queued" ELSE "unseen"]

Promise == INSTANCE MailPromise
             WITH Mails  <- Mail,
                  status <- Status,
                  run    <- IF InLoop THEN "running"
                            ELSE IF aborted THEN "aborted" ELSE "done"

\* The fetch loop keeps it: every delivery the rules ask for is made once and
\* in their order, and a mail is committed only when all of them are made.
KeepsPromise == Promise!Spec

-----------------------------------------------------------------------------
(* What the documentation says and the code does not do.                   *)

\* child-fetch.c:467: "we can block unless there are mails that aren't blocked
\* (these mails can continue to be processed)".  A mail whose reply is in the
\* read buffer can continue.
NoSleepOnBufferedReply ==
  Sleeping => \A m \in Queue : m \notin Ids(rd)

\* fdm.conf.5:956: "These two conditions execute a command and test its return
\* value and output."  One the parent could not even start a job for is an
\* error, which ends the fetch, and never a match (parent-fetch.c:91).
FailedCommandNeverMatches ==
  [][\A m \in Mail :
       /\ pc = "match" /\ m \in todo /\ Waiting(ctx[m]) /\ HasReply(m)
       /\ ~msg.ran
       /\ ctx'[m].msgid = 0
       => aborted']_vars

\* MANUAL.in:329 on -k: "Keep all mail (do not delete it from the server)".
\* Nothing is deleted, an oversize mail included (child-fetch.c:537-551).
KeepAllDeletesNothing == KeepAll => dropped + bigDrops = 0
=============================================================================

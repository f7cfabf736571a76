---------------------------- MODULE FetchLoopProofs ----------------------------
(***************************************************************************)
(* Proofs about the fetch loop, for every ruleset, queue limit and mailbox *)
(* size.  The invariant is built in layers: the shape of the queues, the   *)
(* counts, the contexts, what the channels carry, the six places a request *)
(* can be, the deliveries asked for and made, and what is still owed to a  *)
(* mail, from which the promise of MailPromise follows.  What the steps of *)
(* a context preserve also serves the last part, about the walk of mails   *)
(* through the ruleset with a cache (RuleWalk).                            *)
(***************************************************************************)
EXTENDS FetchLoop, RuleWalk, FiniteSetTheorems, SequenceTheorems, TLAPS

-----------------------------------------------------------------------------
(* The context of a mail: what its steps (MailState) preserve, whatever    *)
(* the ruleset.  It keeps its type, an expression item is always one of    *)
(* its rule's, and only the requests to the parent change what it waits    *)
(* for.                                                                    *)

\* A context as the code keeps it: while an expression is started there is a
\* rule and the item is one of its items.
GoodCtx(c) ==
  /\ c \in CtxType
  /\ c.item # 0 => /\ c.rule \in Rule
                   /\ c.item \in 1 .. Len(Ruleset[c.rule].expr)

LEMMA RuleTyped ==
  ASSUME NEW r \in Rule
  PROVE  /\ Ruleset[r].expr \in Seq(ItemType)
         /\ Len(Ruleset[r].expr) \in Nat \ {0}
         /\ Ruleset[r].stop \in BOOLEAN
         /\ Ruleset[r].nested \in Rule \cup {NoRule}
         /\ Ruleset[r].next \in Rule \cup {NoRule}
         /\ Ruleset[r].actions \in Seq(ActionKind)
<1>1. Ruleset[r] \in RuleType
  BY RulesetAssumption
<1> QED
  BY <1>1, RulesetAssumption, LenProperties DEF RuleType

LEMMA NewCtxGood == GoodCtx(NewCtx) /\ ~Waiting(NewCtx)
  BY RulesetAssumption, EmptySeq DEF GoodCtx, NewCtx, CtxType, Decision, Waiting

LEMMA StartedGood ==
  ASSUME NEW c, GoodCtx(c), c.rule # NoRule
  PROVE  /\ GoodCtx(Started(c)) /\ Started(c).item # 0
         /\ Started(c).msgid = c.msgid
<1>1. c.rule \in Rule
  BY DEF GoodCtx, CtxType
<1>2. Len(Ruleset[c.rule].expr) \in Nat \ {0}
  BY <1>1, RuleTyped
<1>3. CASE c.item = 0
  <2> DEFINE s == [c EXCEPT !.result = FALSE, !.item = 1]
  <2>1. Started(c) = s
    BY <1>3 DEF Started
  <2>2. s \in CtxType /\ s.item = 1 /\ s.rule = c.rule /\ s.msgid = c.msgid
    BY DEF GoodCtx, CtxType
  <2>3. 1 \in 1 .. Len(Ruleset[c.rule].expr)
    BY <1>2
  <2> QED
    BY <1>1, <2>1, <2>2, <2>3 DEF GoodCtx
<1>4. CASE c.item # 0
  BY <1>4 DEF Started
<1> QED
  BY <1>3, <1>4

LEMMA WithResultGood ==
  ASSUME NEW c, GoodCtx(c), c.item # 0, NEW this
  PROVE  /\ GoodCtx(WithResult(c, this)) /\ WithResult(c, this).item # 0
         /\ WithResult(c, this).msgid = c.msgid
<1>1. Item(c) \in ItemType
  BY RuleTyped, ElementOfSeq DEF GoodCtx, Item
<1>2. ApplyResult(Item(c), c.result, this) \in BOOLEAN
  BY <1>1 DEF ApplyResult, ItemType
<1> QED
  BY <1>2 DEF GoodCtx, CtxType, WithResult

LEMMA NextRuleGood ==
  ASSUME NEW c, c \in CtxType, c.rule \in Rule, NEW n \in NextRule(c)
  PROVE  /\ GoodCtx(n) /\ n.msgid = c.msgid /\ n.dqueue = c.dqueue
         /\ n.done = c.done /\ n.item = 0
<1>1. CASE Ruleset[c.rule].next # NoRule
  <2>1. n = [c EXCEPT !.rule = Ruleset[c.rule].next, !.item = 0]
    BY <1>1 DEF NextRule
  <2>2. Ruleset[c.rule].next \in Rule \cup {NoRule}
    BY RuleTyped
  <2> QED
    BY <2>1, <2>2 DEF GoodCtx, CtxType
<1>2. CASE Ruleset[c.rule].next = NoRule
  <2>1. PICK k \in 0 .. Len(c.stack) :
          n = [c EXCEPT !.rule  = IF k = 0 THEN NoRule
                                  ELSE Ruleset[c.stack[k]].next,
                        !.stack = IF k = 0 THEN <<>>
                                  ELSE SubSeq(c.stack, 1, k - 1),
                        !.item  = 0]
    BY <1>2 DEF NextRule
  <2>2. c.stack \in Seq(Rule)
    BY DEF CtxType
  <2>3. k # 0 => c.stack[k] \in Rule
    BY <2>2, ElementOfSeq, LenProperties
  <2>4. k # 0 => SubSeq(c.stack, 1, k - 1) \in Seq(Rule)
    BY <2>2, SubSeqProperties, LenProperties
  <2> QED
    BY <2>1, <2>3, <2>4, RuleTyped, EmptySeq DEF GoodCtx, CtxType
<1> QED
  BY <1>1, <1>2

\* What a finished expression leads to.
LEMMA RuleMatchedGood ==
  ASSUME NEW c, c \in CtxType, c.rule \in Rule, NEW o \in RuleMatched(c)
  PROVE  /\ o.move \in {"continue", "deliver"}
         /\ GoodCtx(o.ctx) /\ o.ctx.msgid = c.msgid
<1> DEFINE s == [c EXCEPT !.done = @ \/ Ruleset[c.rule].stop]
<1>1. Ruleset[c.rule].stop \in BOOLEAN /\ s \in CtxType
      /\ s.msgid = c.msgid /\ s.rule = c.rule
  BY RuleTyped DEF CtxType
<1>2. CASE Ruleset[c.rule].nested # NoRule
  <2>1. o = [move |-> "continue",
             ctx  |-> [s EXCEPT !.stack = Append(@, c.rule),
                                !.rule = Ruleset[c.rule].nested, !.item = 0]]
    BY <1>2 DEF RuleMatched
  <2>2. Append(s.stack, c.rule) \in Seq(Rule)
    BY <1>1, AppendProperties DEF CtxType
  <2> QED
    BY <1>1, <1>2, <2>1, <2>2, RuleTyped DEF GoodCtx, CtxType
<1>3. CASE Ruleset[c.rule].nested = NoRule /\ Ruleset[c.rule].actions = <<>>
  <2> DEFINE t == [s EXCEPT !.matched = TRUE]
  <2>1. PICK n \in NextRule(t) : o = [move |-> "continue", ctx |-> n]
    BY <1>3 DEF RuleMatched
  <2>2. t \in CtxType /\ t.rule \in Rule /\ t.msgid = c.msgid
    BY <1>1 DEF CtxType
  <2> HIDE DEF t
  <2> QED
    BY <2>1, <2>2, NextRuleGood
<1>4. CASE Ruleset[c.rule].nested = NoRule /\ Ruleset[c.rule].actions # <<>>
  <2> DEFINE t == [s EXCEPT !.matched = TRUE, !.dqueue = @ \o Deliveries(c.rule)]
  <2>1. PICK n \in NextRule(t) : o = [move |-> "deliver", ctx |-> n]
    BY <1>4 DEF RuleMatched
  <2>2. Deliveries(c.rule) \in Seq(Delivery)
    BY RuleTyped, LenProperties, SeqDef DEF Deliveries, Delivery
  <2>3. s.dqueue \o Deliveries(c.rule) \in Seq(Delivery)
    BY <1>1, <2>2, ConcatProperties DEF CtxType
  <2>4. t \in CtxType /\ t.rule \in Rule /\ t.msgid = c.msgid
    BY <1>1, <2>3 DEF CtxType
  <2> HIDE DEF t
  <2> QED
    BY <2>1, <2>4, NextRuleGood
<1> QED
  BY <1>2, <1>3, <1>4

LEMMA AfterItemGood ==
  ASSUME NEW c, GoodCtx(c), c.item # 0, NEW o \in AfterItem(c)
  PROVE  /\ o.move \in {"continue", "deliver"}
         /\ GoodCtx(o.ctx) /\ o.ctx.msgid = c.msgid
<1>1. c \in CtxType /\ c.rule \in Rule
  BY DEF GoodCtx
<1>2. CASE c.item < Len(Ruleset[c.rule].expr)
  BY <1>1, <1>2, RuleTyped DEF AfterItem, GoodCtx, CtxType
<1>3. CASE ~(c.item < Len(Ruleset[c.rule].expr)) /\ c.result
  BY <1>1, <1>3, RuleMatchedGood DEF AfterItem
<1>4. CASE ~(c.item < Len(Ruleset[c.rule].expr)) /\ ~c.result
  BY <1>1, <1>4, NextRuleGood DEF AfterItem
<1> QED
  BY <1>2, <1>3, <1>4

\* A matched rule adds its actions to the queue of deliveries, if it has any;
\* nothing else does.
LEMMA RuleMatchedAsks ==
  ASSUME NEW c, c \in CtxType, c.rule \in Rule, c.dqueue = <<>>, NEW o \in RuleMatched(c)
  PROVE  (o.ctx.dqueue = <<>>) <=> (o.move = "continue")
<1> DEFINE s == [c EXCEPT !.done = @ \/ Ruleset[c.rule].stop]
<1>1. /\ Ruleset[c.rule].stop \in BOOLEAN /\ s \in CtxType
      /\ s.dqueue = <<>> /\ s.rule = c.rule
  BY RuleTyped DEF CtxType
<1>2. CASE Ruleset[c.rule].nested # NoRule
  <2>1. o = [move |-> "continue",
             ctx  |-> [s EXCEPT !.stack = Append(@, c.rule),
                                !.rule = Ruleset[c.rule].nested, !.item = 0]]
    BY <1>2 DEF RuleMatched
  <2> QED
    BY <1>1, <2>1 DEF CtxType
<1>3. CASE Ruleset[c.rule].nested = NoRule /\ Ruleset[c.rule].actions = <<>>
  <2> DEFINE t == [s EXCEPT !.matched = TRUE]
  <2>1. PICK n \in NextRule(t) : o = [move |-> "continue", ctx |-> n]
    BY <1>3 DEF RuleMatched
  <2>2. t \in CtxType /\ t.rule \in Rule /\ t.dqueue = <<>>
    BY <1>1 DEF CtxType
  <2> HIDE DEF t
  <2> QED
    BY <2>1, <2>2, NextRuleGood
<1>4. CASE Ruleset[c.rule].nested = NoRule /\ Ruleset[c.rule].actions # <<>>
  <2> DEFINE x == Deliveries(c.rule)
             t == [s EXCEPT !.matched = TRUE, !.dqueue = @ \o x]
  <2>1. PICK n \in NextRule(t) : o = [move |-> "deliver", ctx |-> n]
    BY <1>4 DEF RuleMatched
  <2>2. x \in Seq(Delivery) /\ Len(x) # 0
    <3>1. /\ DOMAIN Ruleset[c.rule].actions = 1 .. Len(Ruleset[c.rule].actions)
          /\ Len(Ruleset[c.rule].actions) \in Nat \ {0}
      BY <1>4, RuleTyped, LenProperties, EmptySeq
    <3> QED
      BY <3>1, RuleTyped, LenProperties, SeqDef DEF Deliveries, Delivery
  <2> HIDE DEF x
  <2>3. s.dqueue \o x = x
    BY <1>1, <2>2, ConcatEmptySeq
  <2>4. t \in CtxType /\ t.rule \in Rule /\ t.dqueue = x
    BY <1>1, <2>2, <2>3 DEF CtxType
  <2>5. x # <<>>
    BY <2>2, EmptySeq
  <2> HIDE DEF t
  <2> QED
    BY <2>1, <2>4, <2>5, NextRuleGood
<1> QED
  BY <1>2, <1>3, <1>4

LEMMA AfterItemAsks ==
  ASSUME NEW c, GoodCtx(c), c.item # 0, c.dqueue = <<>>, NEW o \in AfterItem(c)
  PROVE  (o.ctx.dqueue = <<>>) <=> (o.move = "continue")
<1>1. c \in CtxType /\ c.rule \in Rule
  BY DEF GoodCtx
<1>2. CASE c.item < Len(Ruleset[c.rule].expr)
  BY <1>1, <1>2, RuleTyped DEF AfterItem, GoodCtx, CtxType
<1>3. CASE ~(c.item < Len(Ruleset[c.rule].expr)) /\ c.result
  BY <1>1, <1>3, RuleMatchedAsks DEF AfterItem
<1>4. CASE ~(c.item < Len(Ruleset[c.rule].expr)) /\ ~c.result
  BY <1>1, <1>4, NextRuleGood DEF AfterItem
<1> QED
  BY <1>2, <1>3, <1>4

LEMMA DeliveredGood ==
  ASSUME NEW c, GoodCtx(c), c.dqueue # <<>>
  PROVE  GoodCtx(Delivered(c)) /\ Delivered(c).msgid = c.msgid
<1>1. Tail(c.dqueue) \in Seq(Delivery)
  BY HeadTailProperties DEF GoodCtx, CtxType
<1> QED
  BY <1>1 DEF Delivered, GoodCtx, CtxType, Decision

-----------------------------------------------------------------------------
(* Layer 1: the queues and the channels.                                   *)

\* Everything but the contexts is of its type, no mail is in both queues, and
\* a pass only goes over mails of its own queue.
QueueInv ==
  /\ pc \in {"top", "match", "deliver", "fetch", "poll",
             "finished", "exit", "gone"}
  /\ matchq \subseteq 1 .. idx /\ deliverq \subseteq 1 .. idx
  /\ idx \in Nat /\ bigDrops \in Nat /\ idx + bigDrops <= MaxMails
  /\ matchq \cap deliverq = {}
  /\ todo \subseteq Mail
  /\ pc = "match" => todo \subseteq matchq
  /\ pc = "deliver" => todo \subseteq deliverq
  /\ pc \in {"fetch", "poll"} => todo = {} /\ msg = NoMsg
  /\ queued \in Int /\ blocked \in Int /\ dropped \in Int
  /\ kept \in Int /\ again \in Int
  /\ holding \in BOOLEAN /\ complete \in BOOLEAN
  /\ aborted \in BOOLEAN /\ pollin \in BOOLEAN
  /\ srv \in {"asked", "arrived", "buffered"}

LEMMA QueueInit == Init => QueueInv
<1> SUFFICES ASSUME Init PROVE QueueInv
  OBVIOUS
<1>1. srv \in {"asked", "arrived", "buffered"}
  BY DEF Init
<1>2. again \in Int
  BY FetchAssumption DEF Init
<1>3. /\ matchq = {} /\ deliverq = {} /\ todo = {} /\ idx = 0 /\ bigDrops = 0
      /\ pc = "top" /\ idx + bigDrops <= MaxMails
  BY FetchAssumption DEF Init
<1>4. /\ holding \in BOOLEAN /\ complete \in BOOLEAN
      /\ aborted \in BOOLEAN /\ pollin \in BOOLEAN
  BY DEF Init
<1>5. queued \in Int /\ blocked \in Int /\ dropped \in Int /\ kept \in Int
  BY DEF Init
<1> QED
  BY <1>1, <1>2, <1>3, <1>4, <1>5 DEF QueueInv

LEMMA QueueStep == QueueInv /\ [Next]_vars => QueueInv'
<1> USE FetchAssumption DEF QueueInv, Mail, loopVars, queueVars, countVars,
                            serverVars, ioVars, jobVars
<1> SUFFICES ASSUME QueueInv, [Next]_vars PROVE QueueInv'
  OBVIOUS
<1>1. CASE Top
  BY <1>1 DEF Top
<1>2. CASE FlushFill
  BY <1>2 DEF FlushFill
<1>3. CASE MatchPassEnds
  BY <1>3 DEF MatchPassEnds
<1>4. CASE DeliverPassEnds
  BY <1>4 DEF DeliverPassEnds
<1>5. ASSUME NEW m \in Mail, MatchBlocked(m) PROVE QueueInv'
  BY <1>5 DEF MatchBlocked, MatchTurn
<1>6. ASSUME NEW m \in Mail, MatchReply(m) PROVE QueueInv'
  BY <1>6 DEF MatchReply, MatchTurn, MatchOutcome, MatchMoved, MatchFails, Abort
<1>7. ASSUME NEW m \in Mail, MatchDone(m) PROVE QueueInv'
  <2>1. dropped' \in Int /\ kept' \in Int /\ queued' \in Int
    BY <1>7 DEF MatchDone, MatchFails
  <2>2. pc = "match" /\ todo' = todo \ {m}
    BY <1>7 DEF MatchDone, MatchTurn, MatchFails
  <2>3. \/ pc' = pc /\ matchq' = matchq \ {m} /\ UNCHANGED aborted
        \/ pc' = "finished" /\ aborted' = TRUE /\ UNCHANGED matchq
    BY <1>7 DEF MatchDone, MatchFails, Abort
  <2>4. UNCHANGED <<deliverq, idx, bigDrops>>
    BY <1>7 DEF MatchDone, MatchFails
  <2> QED
    BY <1>7, <2>1, <2>2, <2>3, <2>4 DEF MatchDone
<1>8. ASSUME NEW m \in Mail, MatchItem(m) PROVE QueueInv'
  BY <1>8 DEF MatchItem, MatchTurn, MatchOutcome, MatchMoved, MatchFails, Abort
<1>9. ASSUME NEW m \in Mail, MatchAsk(m) PROVE QueueInv'
  <2>1. blocked' \in Int
    BY <1>9 DEF MatchAsk
  <2>5. pollin' \in BOOLEAN
    BY <1>9 DEF MatchAsk, Send
  <2>2. pc = "match" /\ todo' \subseteq todo
    BY <1>9 DEF MatchAsk, MatchTurn
  <2>3. \/ UNCHANGED <<pc, aborted>>
        \/ pc' = "finished" /\ aborted' = TRUE
    BY <1>9 DEF MatchAsk, Abort
  <2>4. UNCHANGED <<matchq, deliverq, idx, queued>>
    BY <1>9 DEF MatchAsk
  <2> QED
    BY <1>9, <2>1, <2>2, <2>3, <2>4, <2>5 DEF MatchAsk
<1>10. ASSUME NEW m \in Mail, DeliverBlocked(m) PROVE QueueInv'
  BY <1>10 DEF DeliverBlocked, DeliverTurn
<1>11. ASSUME NEW m \in Mail, DeliverReply(m) PROVE QueueInv'
  BY <1>11 DEF DeliverReply, DeliverTurn, Abort
<1>12. ASSUME NEW m \in Mail, DeliverDone(m) PROVE QueueInv'
  BY <1>12 DEF DeliverDone, DeliverTurn
<1>13. ASSUME NEW m \in Mail, DeliverInChild(m) PROVE QueueInv'
  BY <1>13 DEF DeliverInChild, DeliverTurn, Abort
<1>14. ASSUME NEW m \in Mail, DeliverAsk(m) PROVE QueueInv'
  <2>1. blocked' \in Int
    BY <1>14 DEF DeliverAsk
  <2>2. pollin' \in BOOLEAN
    BY <1>14 DEF DeliverAsk, Send
  <2>3. pc = "deliver" /\ pc' = pc /\ todo' \subseteq todo
    BY <1>14 DEF DeliverAsk, DeliverTurn
  <2>4. /\ UNCHANGED <<countVars, serverVars, matchq, deliverq, idx, queued>>
        /\ UNCHANGED <<msg, holding, complete, aborted>>
    BY <1>14 DEF DeliverAsk
  <2> QED
    BY <2>1, <2>2, <2>3, <2>4
<1>15. CASE HandlerAgain
  <2>1. again' \in Int
    BY <1>15 DEF HandlerAgain
  <2>2. holding' \in BOOLEAN
    BY <1>15 DEF HandlerAgain, NowHolding
  <2>3. srv' \in {"asked", "arrived", "buffered"}
    BY <1>15 DEF HandlerAgain, Consumed
  <2>4. pc = "fetch" /\ pc' = "top"
    BY <1>15 DEF HandlerAgain, CallsHandler
  <2> QED
    BY <1>15, <2>1, <2>2, <2>3, <2>4 DEF HandlerAgain
<1>16. CASE HandlerMail
  <2>1. holding' \in BOOLEAN
    BY <1>16 DEF HandlerMail, NowHolding
  <2>2. srv' \in {"asked", "arrived", "buffered"}
    BY <1>16 DEF HandlerMail, Consumed
  <2>3. pc = "fetch" /\ pc' = "top"
    BY <1>16 DEF HandlerMail, CallsHandler
  <2>4. /\ idx' = idx + 1 /\ UNCHANGED bigDrops /\ idx' + bigDrops' <= MaxMails
        /\ idx' \in Mail /\ idx' \notin matchq \cup deliverq
        /\ matchq' = matchq \cup {idx'} /\ UNCHANGED deliverq
        /\ queued' \in Int
    BY <1>16 DEF HandlerMail
  <2> QED
    BY <1>16, <2>1, <2>2, <2>3, <2>4 DEF HandlerMail
<1>17. CASE HandlerBigMail
  <2>1. holding' \in BOOLEAN
    BY <1>17 DEF HandlerBigMail, NowHolding
  <2>2. srv' \in {"asked", "arrived", "buffered"}
    BY <1>17 DEF HandlerBigMail, Consumed
  <2>3. pc = "fetch" /\ pc' \in {"top", "finished"} /\ aborted' \in BOOLEAN
    BY <1>17 DEF HandlerBigMail, CallsHandler, Abort
  <2>4. bigDrops' \in Nat /\ idx + bigDrops' <= MaxMails
    BY <1>17 DEF HandlerBigMail
  <2> QED
    BY <1>17, <2>1, <2>2, <2>3, <2>4 DEF HandlerBigMail
<1>18. CASE HandlerError
  BY <1>18 DEF HandlerError, CallsHandler, Consumed, NowHolding, Abort
<1>19. CASE HandlerExit
  BY <1>19 DEF HandlerExit, CallsHandler, Consumed, NowHolding
<1>20. CASE HandlerBlocks
  BY <1>20 DEF HandlerBlocks, CallsHandler, NowHolding
<1>21. CASE NoHandler
  BY <1>21 DEF NoHandler, NowHolding
<1>22. CASE Poll
  BY <1>22 DEF Poll
<1>23. CASE Finish
  BY <1>23 DEF Finish
<1>24. CASE AwaitExit
  BY <1>24 DEF AwaitExit
<1>25. CASE PollTimeout
  BY <1>25 DEF PollTimeout, Sleeping, Abort
<1>26. CASE ServerCloses
  BY <1>26 DEF ServerCloses, Abort
<1>27. CASE ServerAnswers
  BY <1>27 DEF ServerAnswers
<1>28. CASE ParentReads
  BY <1>28 DEF ParentReads
<1>29. CASE JobStep
  BY <1>29 DEF JobStep, JobEnds, JobDies
<1>30. CASE UNCHANGED vars
  BY <1>30 DEF vars
<1>31. CASE Stopped
  BY <1>31 DEF Stopped, vars
<1> QED
  BY <1>1, <1>2, <1>3, <1>4, <1>5, <1>6, <1>7, <1>8, <1>9, <1>10, <1>11,
     <1>12, <1>13, <1>14, <1>15, <1>16, <1>17, <1>18, <1>19, <1>20, <1>21,
     <1>22, <1>23, <1>24, <1>25, <1>26, <1>27, <1>28, <1>29, <1>30, <1>31
     DEF Next, ChildStep

-----------------------------------------------------------------------------
(* Layer 2: fetch_queued counts the queues and respects queue-high.        *)

CountInv == InLoop => queued = Cardinality(Queue) /\ queued <= QueueHigh

LEMMA QueueIsMail ==
  QueueInv => matchq \subseteq Mail /\ deliverq \subseteq Mail
  BY FetchAssumption DEF QueueInv, Mail

LEMMA QueueFinite == QueueInv => IsFiniteSet(Queue)
<1> SUFFICES ASSUME QueueInv PROVE IsFiniteSet(Queue)
  OBVIOUS
<1>1. IsFiniteSet(1 .. idx)
  BY FS_Interval DEF QueueInv
<1>2. Queue \subseteq 1 .. idx
  BY DEF QueueInv, Queue
<1> QED
  BY <1>1, <1>2, FS_Subset

\* The queue as a whole, and its count, are left alone.
QueueKept == (InLoop' => InLoop) /\ Queue' = Queue /\ queued' = queued

LEMMA CountInit == Init => CountInv
  BY FS_EmptySet, FetchAssumption DEF Init, CountInv, Queue

LEMMA CountStep == QueueInv /\ CountInv /\ [Next]_vars => CountInv'
<1> SUFFICES ASSUME QueueInv, CountInv, [Next]_vars PROVE CountInv'
  OBVIOUS
<1> USE DEF loopVars, queueVars, countVars, serverVars, ioVars, jobVars
<1>a. QueueKept => CountInv'
  BY DEF QueueKept, CountInv
<1>1. CASE Top \/ FlushFill \/ MatchPassEnds \/ DeliverPassEnds
  BY <1>1, <1>a DEF Top, FlushFill, MatchPassEnds, DeliverPassEnds, QueueKept,
                    InLoop, Queue
<1>2. ASSUME NEW m \in Mail,
             \/ MatchBlocked(m) \/ MatchAsk(m) \/ DeliverBlocked(m)
             \/ DeliverReply(m) \/ DeliverInChild(m) \/ DeliverAsk(m)
      PROVE  QueueKept
  BY <1>2 DEF MatchBlocked, MatchAsk, DeliverBlocked, DeliverReply,
              DeliverInChild, DeliverAsk, MatchTurn, DeliverTurn, Abort, Send,
              QueueKept, InLoop, Queue
<1>3. ASSUME NEW m \in Mail, NEW c, MatchTurn(m), MatchOutcome(m, c)
      PROVE  QueueKept
  <2>1. PICK o \in AfterItem(c) : MatchMoved(m, o) \/ MatchFails(m)
    BY <1>3 DEF MatchOutcome
  <2>2. m \in matchq
    BY <1>3 DEF MatchTurn, QueueInv
  <2> QED
    BY <2>1, <2>2, <1>3 DEF MatchMoved, MatchFails, MatchTurn, Abort, QueueKept,
                            InLoop, Queue
<1>4. ASSUME NEW m \in Mail, MatchReply(m) PROVE QueueKept
  BY <1>3, <1>4 DEF MatchReply, MatchFails, MatchTurn, Abort, QueueKept, InLoop,
                    Queue
<1>5. ASSUME NEW m \in Mail, MatchItem(m) PROVE QueueKept
  BY <1>3, <1>5 DEF MatchItem, MatchFails, MatchTurn, Abort, QueueKept, InLoop,
                    Queue
<1>6. ASSUME NEW m \in Mail, MatchDone(m) PROVE CountInv'
  <2>1. CASE ~InLoop'
    BY <2>1 DEF CountInv
  <2>2. CASE InLoop'
    <3>1. /\ InLoop /\ m \in matchq /\ m \notin deliverq
          /\ matchq' = matchq \ {m} /\ deliverq' = deliverq
      BY <1>6, <2>2 DEF MatchDone, MatchTurn, MatchFails, Abort, InLoop, QueueInv
    <3>2. queued' = queued - 1
      BY <1>6, <2>2 DEF MatchDone, MatchFails, Abort, InLoop
    <3>3. Queue' = Queue \ {m} /\ m \in Queue
      BY <3>1 DEF Queue
    <3>4. Cardinality(Queue') = Cardinality(Queue) - 1
      BY <3>3, QueueFinite, FS_RemoveElement
    <3> QED
      BY <3>1, <3>2, <3>4, FetchAssumption DEF CountInv, QueueInv
  <2> QED
    BY <2>1, <2>2
<1>7. ASSUME NEW m \in Mail, DeliverDone(m) PROVE QueueKept
  BY <1>7 DEF DeliverDone, DeliverTurn, QueueKept, InLoop, Queue, QueueInv
<1>8. CASE \/ HandlerAgain \/ HandlerBigMail \/ HandlerError \/ HandlerExit
           \/ HandlerBlocks \/ NoHandler
  BY <1>8, <1>a DEF HandlerAgain, HandlerBigMail, HandlerError, HandlerExit,
       HandlerBlocks, NoHandler, CallsHandler, QueueKept, InLoop, Queue
<1>9. CASE HandlerMail
  <2>1. InLoop /\ Queue' = Queue \cup {idx + 1} /\ idx + 1 \notin Queue
    BY <1>9 DEF HandlerMail, CallsHandler, InLoop, Queue, QueueInv
  <2>2. queued' = queued + 1 /\ queued < QueueHigh
    BY <1>9, FetchAssumption DEF HandlerMail, CallsHandler, NowHolding, QueueInv
  <2>3. Cardinality(Queue') = Cardinality(Queue) + 1
    BY <2>1, QueueFinite, FS_AddElement
  <2> QED
    BY <2>1, <2>2, <2>3, FetchAssumption DEF CountInv, QueueInv
<1>10. CASE \/ Poll \/ Finish \/ AwaitExit \/ PollTimeout \/ ServerCloses
            \/ ServerAnswers \/ ParentReads \/ JobStep \/ Stopped
            \/ UNCHANGED vars
  <2>1. CASE Finish \/ AwaitExit
    BY <2>1 DEF Finish, AwaitExit, InLoop, CountInv
  <2>2. CASE Poll \/ PollTimeout \/ ServerCloses
    BY <2>2, <1>a DEF Poll, PollTimeout, ServerCloses, Abort, QueueKept,
                      InLoop, Queue
  <2>3. CASE ServerAnswers \/ ParentReads \/ JobStep
    BY <2>3, <1>a DEF ServerAnswers, ParentReads, JobStep, JobEnds, JobDies,
                      QueueKept, InLoop, Queue
  <2>4. CASE Stopped \/ UNCHANGED vars
    BY <2>4, <1>a DEF Stopped, vars, QueueKept, InLoop, Queue
  <2> QED
    BY <1>10, <2>1, <2>2, <2>3, <2>4
<1> QED
  BY <1>a, <1>1, <1>2, <1>4, <1>5, <1>6, <1>7, <1>8, <1>9, <1>10
     DEF Next, ChildStep

\* The child never holds more mails than queue-high, and fetch_queued counts
\* the two queues (child-fetch.c:404-412, 657, 693).
THEOREM QueueBounded == Spec => []QueueBound
<1>1. QueueInv /\ CountInv => QueueBound
  BY DEF QueueInv, CountInv, QueueBound
<1> QED
  BY <1>1, QueueInit, QueueStep, CountInit, CountStep, PTL DEF Spec

-----------------------------------------------------------------------------
(* Layer 3: the contexts.                                                  *)

\* Every context is one the ruleset can produce; a mail that waits in the
\* match queue waits for an item of its rule, one that waits in the deliver
\* queue for the delivery at the head of its own.
CtxInv ==
  /\ ctx \in [Mail -> CtxType]
  /\ \A m \in Mail : GoodCtx(ctx[m])
  /\ \A m \in matchq : Waiting(ctx[m]) => ctx[m].item # 0
  /\ \A m \in deliverq : Waiting(ctx[m]) => ctx[m].dqueue # <<>>

LEMMA CtxInit == Init => CtxInv
  BY NewCtxGood DEF Init, CtxInv, GoodCtx

\* One context is replaced by a good one, of a mail that waits for nothing.
LEMMA CtxReplaced ==
  ASSUME CtxInv, NEW m \in Mail, NEW x, GoodCtx(x), ~Waiting(x),
         ctx' = [ctx EXCEPT ![m] = x],
         matchq' \subseteq Mail, deliverq' \subseteq Mail,
         matchq' \subseteq matchq \cup {m}, deliverq' \subseteq deliverq \cup {m}
  PROVE  CtxInv'
<1>1. x \in CtxType
  BY DEF GoodCtx
<1>2. ctx' \in [Mail -> CtxType]
  BY <1>1 DEF CtxInv
<1>3. \A n \in Mail : ctx'[n] = IF n = m THEN x ELSE ctx[n]
  BY DEF CtxInv
<1> QED
  BY <1>2, <1>3 DEF CtxInv

\* The end of an item, for a mail of the match queue that waits for nothing
\* any more.
LEMMA MatchOutcomeCtx ==
  ASSUME QueueInv, CtxInv, NEW m \in Mail, MatchTurn(m),
         NEW c, GoodCtx(c), c.item # 0, ~Waiting(c), MatchOutcome(m, c)
  PROVE  /\ CtxInv'
         /\ pc' = "match" => ~Waiting(ctx'[m])
         /\ \A n \in Mail \ {m} : ctx'[n] = ctx[n]
<1>1. PICK o \in AfterItem(c) : MatchMoved(m, o) \/ MatchFails(m)
  BY DEF MatchOutcome
<1>2. GoodCtx(o.ctx) /\ ~Waiting(o.ctx)
  BY <1>1, AfterItemGood DEF Waiting
<1>3. CASE MatchMoved(m, o)
  <2>1. ctx' = [ctx EXCEPT ![m] = o.ctx]
    BY <1>3 DEF MatchMoved
  <2>2. /\ matchq' \subseteq matchq /\ deliverq' \subseteq deliverq \cup {m}
        /\ matchq \subseteq Mail /\ deliverq \subseteq Mail
    BY <1>3, QueueIsMail DEF MatchMoved
  <2>3. CtxInv'
    BY <1>2, <2>1, <2>2, CtxReplaced
  <2>4. ctx'[m] = o.ctx /\ \A n \in Mail \ {m} : ctx'[n] = ctx[n]
    BY <2>1 DEF CtxInv
  <2> QED
    BY <1>2, <2>3, <2>4
<1>4. CASE MatchFails(m)
  BY <1>4 DEF MatchFails, queueVars, Abort, CtxInv
<1> QED
  BY <1>1, <1>3, <1>4

\* The reply a mail waits for has come.
LEMMA ReplyGood ==
  ASSUME NEW c, GoodCtx(c)
  PROVE  LET d == [c EXCEPT !.msgid = 0]
         IN  /\ GoodCtx(d) /\ ~Waiting(d)
             /\ d.item = c.item /\ d.rule = c.rule /\ d.dqueue = c.dqueue
  BY DEF GoodCtx, CtxType, Waiting

\* What the three ways to finish an item have in common.
MatchStepCtx(m) ==
  /\ CtxInv'
  /\ pc' = "match" => ~Waiting(ctx'[m])
  /\ \A n \in Mail \ {m} : ctx'[n] = ctx[n]

LEMMA MatchReplyCtx ==
  ASSUME QueueInv, CtxInv, NEW m \in Mail, MatchReply(m)
  PROVE  MatchStepCtx(m)
<1> DEFINE c == [ctx[m] EXCEPT !.msgid = 0]
<1>1. m \in matchq /\ MatchTurn(m) /\ Waiting(ctx[m])
  BY DEF MatchReply, MatchTurn, QueueInv
<1>2. GoodCtx(ctx[m]) /\ ctx[m].item # 0
  BY <1>1 DEF CtxInv
<1>3. GoodCtx(c) /\ ~Waiting(c) /\ c.item # 0
  BY <1>2, ReplyGood
<1>4. CASE msg.error = MATCH_ERROR
  BY <1>4 DEF MatchReply, MatchFails, queueVars, Abort, CtxInv, MatchStepCtx
<1>5. CASE msg.error # MATCH_ERROR
  <2> DEFINE this == (msg.error = MATCH_TRUE)
  <2>1. this \in BOOLEAN /\ MatchOutcome(m, WithResult(c, this))
    BY <1>5 DEF MatchReply
  <2> HIDE DEF this, c
  <2>2. /\ GoodCtx(WithResult(c, this)) /\ WithResult(c, this).item # 0
        /\ ~Waiting(WithResult(c, this))
    BY <1>3, <2>1, WithResultGood DEF Waiting
  <2> QED
    BY <1>1, <2>1, <2>2, MatchOutcomeCtx DEF MatchStepCtx
<1> QED
  BY <1>4, <1>5

LEMMA MatchItemCtx ==
  ASSUME QueueInv, CtxInv, NEW m \in Mail, MatchItem(m)
  PROVE  MatchStepCtx(m)
<1> DEFINE c == Started(ctx[m])
<1>1. /\ MatchTurn(m) /\ ~Waiting(ctx[m]) /\ ctx[m].rule # NoRule
      /\ GoodCtx(ctx[m])
  BY DEF MatchItem, RulesetOver, CtxInv
<1>2. GoodCtx(c) /\ c.item # 0 /\ ~Waiting(c)
  BY <1>1, StartedGood DEF Waiting
<1>3. CASE ShortCircuit(c) /\ MatchOutcome(m, c)
  BY <1>1, <1>2, <1>3, MatchOutcomeCtx DEF MatchStepCtx
<1>4. CASE Item(c).by # "parent"
           /\ \E this \in TestResults(c) : MatchOutcome(m, WithResult(c, this))
  <2>1. PICK this \in TestResults(c) : MatchOutcome(m, WithResult(c, this))
    BY <1>4
  <2>2. c.matched \in BOOLEAN
    BY <1>2 DEF GoodCtx, CtxType
  <2>3. this \in BOOLEAN
    BY <2>1, <2>2 DEF TestResults
  <2> HIDE DEF c
  <2>4. /\ GoodCtx(WithResult(c, this)) /\ WithResult(c, this).item # 0
        /\ ~Waiting(WithResult(c, this))
    BY <1>2, <2>3, WithResultGood DEF Waiting
  <2> QED
    BY <1>1, <2>1, <2>4, MatchOutcomeCtx DEF MatchStepCtx
<1>5. CASE MatchFails(m)
  BY <1>5 DEF MatchFails, queueVars, Abort, CtxInv, MatchStepCtx
<1> QED
  BY <1>3, <1>4, <1>5 DEF MatchItem

\* A request is sent: the mail waits, for its own number.
LEMMA AskGood ==
  ASSUME NEW c, GoodCtx(c), NEW m \in Mail
  PROVE  LET d == [c EXCEPT !.msgid = m]
         IN  /\ GoodCtx(d) /\ Waiting(d) /\ d.msgid = m
             /\ d.item = c.item /\ d.dqueue = c.dqueue
  BY FetchAssumption DEF GoodCtx, CtxType, Waiting, Mail

LEMMA MatchAskCtx ==
  ASSUME QueueInv, CtxInv, NEW m \in Mail, MatchAsk(m)
  PROVE  /\ CtxInv'
         /\ pc' = "match" => ctx'[m].msgid = m
         /\ \A n \in Mail \ {m} : ctx'[n] = ctx[n]
<1> DEFINE c == Started(ctx[m])
           d == [c EXCEPT !.msgid = m]
<1>1. /\ m \in matchq /\ m \notin deliverq /\ ~Waiting(ctx[m])
      /\ ctx[m].rule # NoRule /\ GoodCtx(ctx[m])
  BY DEF MatchAsk, MatchTurn, QueueInv, RulesetOver, CtxInv
<1>2. GoodCtx(c) /\ c.item # 0
  BY <1>1, StartedGood
<1>3. GoodCtx(d) /\ d.msgid = m /\ d.item # 0
  <2> HIDE DEF c
  <2> QED  BY <1>2, AskGood
<1>4. CASE ctx' = [ctx EXCEPT ![m] = d] /\ UNCHANGED <<matchq, deliverq>>
  <2>1. d \in CtxType
    BY <1>3 DEF GoodCtx
  <2> HIDE DEF d
  <2>2. ctx' \in [Mail -> CtxType]
    BY <1>4, <2>1 DEF CtxInv
  <2>3. \A n \in Mail : ctx'[n] = IF n = m THEN d ELSE ctx[n]
    BY <1>4 DEF CtxInv
  <2> QED
    BY <1>1, <1>3, <1>4, <2>2, <2>3 DEF CtxInv
<1>5. CASE Abort /\ UNCHANGED queueVars
  BY <1>5 DEF queueVars, Abort, CtxInv
<1> QED
  BY <1>4, <1>5 DEF MatchAsk

LEMMA DeliverReplyCtx ==
  ASSUME QueueInv, CtxInv, NEW m \in Mail, DeliverReply(m)
  PROVE  /\ CtxInv'
         /\ pc' = "deliver" => ~Waiting(ctx'[m])
         /\ \A n \in Mail \ {m} : ctx'[n] = ctx[n]
<1> DEFINE c == [ctx[m] EXCEPT !.msgid = 0]
<1>1. m \in deliverq /\ Waiting(ctx[m]) /\ GoodCtx(ctx[m]) /\ ctx[m].dqueue # <<>>
  BY DEF DeliverReply, DeliverTurn, QueueInv, CtxInv
<1>2. GoodCtx(c) /\ ~Waiting(c) /\ c.dqueue # <<>>
  BY <1>1, ReplyGood
<1>3. CASE ctx' = [ctx EXCEPT ![m] = Delivered(c)]
  <2> HIDE DEF c
  <2>1. GoodCtx(Delivered(c)) /\ ~Waiting(Delivered(c))
    BY <1>2, DeliveredGood DEF Waiting
  <2>2. CtxInv'
    BY <1>3, <2>1, CtxReplaced, QueueIsMail DEF DeliverReply
  <2>3. ctx'[m] = Delivered(c) /\ \A n \in Mail \ {m} : ctx'[n] = ctx[n]
    BY <1>3 DEF CtxInv
  <2> QED
    BY <2>1, <2>2, <2>3
<1>4. CASE Abort /\ UNCHANGED ctx
  BY <1>4 DEF DeliverReply, Abort, CtxInv
<1> QED
  BY <1>3, <1>4 DEF DeliverReply

LEMMA DeliverInChildCtx ==
  ASSUME QueueInv, CtxInv, NEW m \in Mail, DeliverInChild(m)
  PROVE  /\ CtxInv'
         /\ pc' = "deliver" => ~Waiting(ctx'[m])
         /\ \A n \in Mail \ {m} : ctx'[n] = ctx[n]
<1>1. m \in deliverq /\ ~Waiting(ctx[m]) /\ GoodCtx(ctx[m]) /\ ctx[m].dqueue # <<>>
  BY DEF DeliverInChild, DeliverTurn, QueueInv, CtxInv
<1>2. CASE ctx' = [ctx EXCEPT ![m] = Delivered(@)]
  <2>1. GoodCtx(Delivered(ctx[m])) /\ ~Waiting(Delivered(ctx[m]))
    BY <1>1, DeliveredGood DEF Waiting
  <2>2. CtxInv'
    BY <1>2, <2>1, CtxReplaced, QueueIsMail DEF DeliverInChild
  <2>3. ctx'[m] = Delivered(ctx[m]) /\ \A n \in Mail \ {m} : ctx'[n] = ctx[n]
    BY <1>2 DEF CtxInv
  <2> QED
    BY <2>1, <2>2, <2>3
<1>3. CASE Abort /\ UNCHANGED ctx
  BY <1>3 DEF DeliverInChild, Abort, CtxInv
<1> QED
  BY <1>2, <1>3 DEF DeliverInChild

LEMMA DeliverAskCtx ==
  ASSUME QueueInv, CtxInv, NEW m \in Mail, DeliverAsk(m)
  PROVE  /\ CtxInv'
         /\ ctx'[m].msgid = m /\ ctx'[m].dqueue # <<>>
         /\ \A n \in Mail \ {m} : ctx'[n] = ctx[n]
<1> DEFINE d == [ctx[m] EXCEPT !.msgid = m]
<1>1. m \in deliverq /\ m \notin matchq /\ GoodCtx(ctx[m]) /\ ctx[m].dqueue # <<>>
  BY DEF DeliverAsk, DeliverTurn, QueueInv, CtxInv
<1>2. GoodCtx(d) /\ d.msgid = m /\ d.dqueue # <<>>
  BY <1>1, AskGood
<1>3. ctx' = [ctx EXCEPT ![m] = d] /\ UNCHANGED <<matchq, deliverq>>
  BY DEF DeliverAsk
<1>4. d \in CtxType
  BY <1>2 DEF GoodCtx
<1> HIDE DEF d
<1>5. ctx' \in [Mail -> CtxType]
  BY <1>3, <1>4 DEF CtxInv
<1>6. \A n \in Mail : ctx'[n] = IF n = m THEN d ELSE ctx[n]
  BY <1>3 DEF CtxInv
<1> QED
  BY <1>1, <1>2, <1>3, <1>5, <1>6 DEF CtxInv

\* The steps that touch neither the contexts nor the queues.
QueuesKept == UNCHANGED <<ctx, matchq, deliverq>>

LEMMA QuietSteps ==
  ASSUME \/ Top \/ FlushFill \/ MatchPassEnds \/ DeliverPassEnds
         \/ HandlerAgain \/ HandlerBigMail \/ HandlerError \/ HandlerExit
         \/ HandlerBlocks \/ NoHandler \/ Poll \/ AwaitExit \/ PollTimeout
         \/ ServerCloses \/ ServerAnswers \/ ParentReads \/ JobStep \/ Stopped
         \/ UNCHANGED vars
         \/ \E m \in Mail : MatchBlocked(m) \/ DeliverBlocked(m)
  PROVE  QueuesKept
<1> USE DEF QueuesKept, queueVars
<1>1. CASE \/ Top \/ FlushFill \/ MatchPassEnds \/ DeliverPassEnds \/ Poll
           \/ AwaitExit \/ PollTimeout \/ ServerCloses
  BY <1>1 DEF Top, FlushFill, MatchPassEnds, DeliverPassEnds, Poll, AwaitExit,
              PollTimeout, ServerCloses
<1>2. CASE \/ HandlerAgain \/ HandlerBigMail \/ HandlerError \/ HandlerExit
           \/ HandlerBlocks \/ NoHandler
  BY <1>2 DEF HandlerAgain, HandlerBigMail, HandlerError, HandlerExit,
              HandlerBlocks, NoHandler
<1>3. CASE ServerAnswers \/ ParentReads \/ JobStep \/ Stopped \/ UNCHANGED vars
  BY <1>3 DEF ServerAnswers, ParentReads, JobStep, JobEnds, JobDies, Stopped, vars
<1>4. CASE \E m \in Mail : MatchBlocked(m) \/ DeliverBlocked(m)
  BY <1>4 DEF MatchBlocked, DeliverBlocked
<1> QED
  BY <1>1, <1>2, <1>3, <1>4

\* What the commit of a mail, or the return of one to the ruleset, changes.
LEMMA MatchDoneQueues ==
  ASSUME QueueInv, NEW m \in Mail, MatchDone(m)
  PROVE  /\ m \in matchq /\ ~Waiting(ctx[m]) /\ UNCHANGED <<ctx, deliverq>>
         /\ matchq' \in {matchq, matchq \ {m}}
  BY DEF MatchDone, MatchTurn, MatchFails, queueVars, QueueInv

LEMMA DeliverDoneQueues ==
  ASSUME QueueInv, NEW m \in Mail, DeliverDone(m)
  PROVE  /\ m \in deliverq /\ ~Waiting(ctx[m]) /\ UNCHANGED ctx
         /\ matchq' = matchq \cup {m} /\ deliverq' = deliverq \ {m}
  BY DEF DeliverDone, DeliverTurn, QueueInv

LEMMA HandlerMailCtx ==
  ASSUME QueueInv, CtxInv, HandlerMail
  PROVE  CtxInv'
<1>1. idx + 1 \in Mail
  BY FetchAssumption DEF HandlerMail, QueueInv, Mail
<1>2. /\ ctx' = [ctx EXCEPT ![idx + 1] = NewCtx]
      /\ matchq' = matchq \cup {idx + 1} /\ UNCHANGED deliverq
  BY DEF HandlerMail
<1> QED
  BY <1>1, <1>2, NewCtxGood, CtxReplaced, QueueIsMail

LEMMA CtxStep == QueueInv /\ CtxInv /\ [Next]_vars => CtxInv'
<1> SUFFICES ASSUME QueueInv, CtxInv, [Next]_vars PROVE CtxInv'
  OBVIOUS
<1>1. ASSUME QueuesKept PROVE CtxInv'
  BY <1>1 DEF QueuesKept, CtxInv
<1>2. ASSUME NEW m \in Mail, MatchDone(m) \/ DeliverDone(m) PROVE CtxInv'
  BY <1>2, MatchDoneQueues, DeliverDoneQueues DEF CtxInv
<1>3. CASE Finish
  BY <1>3 DEF Finish, CtxInv
<1> QED
  BY <1>1, <1>2, <1>3, QuietSteps, MatchReplyCtx, MatchItemCtx, MatchAskCtx,
     DeliverReplyCtx, DeliverInChildCtx, DeliverAskCtx, HandlerMailCtx
     DEF Next, ChildStep, MatchStepCtx

-----------------------------------------------------------------------------
(* Layer 4: fetch_blocked counts the mails found waiting.                  *)

\* The mails this turn of the loop has tried and found waiting.
Counted ==
  {m \in (IF pc = "match" THEN matchq ELSE Queue) \ todo : Waiting(ctx[m])}

BlockedInv ==
  pc \in {"match", "deliver", "fetch", "poll"} => blocked = Cardinality(Counted)

\* A step that finds no mail waiting.
LEMMA NoneBlocked ==
  ASSUME BlockedInv, Counted' = Counted, blocked' = blocked,
         pc' \in {"match", "deliver", "fetch", "poll"}
           => pc \in {"match", "deliver", "fetch", "poll"}
  PROVE  BlockedInv'
  BY DEF BlockedInv

\* A step that finds one.
LEMMA OneBlocked ==
  ASSUME QueueInv, BlockedInv, NEW m, m \in Queue, m \notin Counted,
         Counted' = Counted \cup {m}, blocked' = blocked + 1,
         pc \in {"match", "deliver"}
  PROVE  BlockedInv'
<1>1. IsFiniteSet(Counted)
  BY QueueFinite, FS_Subset DEF Counted, Queue
<1>2. Cardinality(Counted') = Cardinality(Counted) + 1
  BY <1>1, FS_AddElement
<1> QED
  BY <1>2 DEF BlockedInv

LEMMA BlockedInit == Init => BlockedInv
  BY DEF Init, BlockedInv

LEMMA BlockedStep == QueueInv /\ CtxInv /\ BlockedInv /\ [Next]_vars => BlockedInv'
<1> SUFFICES ASSUME QueueInv, CtxInv, BlockedInv, [Next]_vars PROVE BlockedInv'
  OBVIOUS
<1> USE DEF loopVars, queueVars, countVars, serverVars, ioVars, jobVars
<1>1. CASE Top
  <2>1. Counted' = {} /\ blocked' = 0
    BY <1>1 DEF Top, Counted
  <2> QED
    BY <2>1, FS_EmptySet DEF BlockedInv
<1>2. CASE MatchPassEnds \/ DeliverPassEnds
  <2>1. Counted' = Counted
    BY <1>2 DEF MatchPassEnds, DeliverPassEnds, Counted, Queue, QueueInv
  <2> QED
    BY <1>2, <2>1, NoneBlocked DEF MatchPassEnds, DeliverPassEnds
<1>3. ASSUME NEW m \in Mail, MatchBlocked(m) PROVE BlockedInv'
  <2>1. m \in Queue /\ m \notin Counted /\ Counted' = Counted \cup {m}
    BY <1>3 DEF MatchBlocked, MatchTurn, Counted, Queue, QueueInv
  <2> QED
    BY <1>3, <2>1, OneBlocked DEF MatchBlocked, MatchTurn
<1>4. ASSUME NEW m \in Mail, DeliverBlocked(m) PROVE BlockedInv'
  <2>1. m \in Queue /\ m \notin Counted /\ Counted' = Counted \cup {m}
    BY <1>4 DEF DeliverBlocked, DeliverTurn, Counted, Queue, QueueInv
  <2> QED
    BY <1>4, <2>1, OneBlocked DEF DeliverBlocked, DeliverTurn
<1>5. ASSUME NEW m \in Mail, MatchTurn(m), MatchStepCtx(m), todo' = todo \ {m},
             matchq' \in {matchq, matchq \ {m}}, blocked' = blocked,
             pc' \in {"match", "finished"}
      PROVE  BlockedInv'
  <2>1. CASE pc' = "finished"
    BY <2>1 DEF BlockedInv
  <2>2. CASE pc' = "match"
    <3>1. Counted' = Counted
      BY <1>5, <2>2, QueueIsMail DEF Counted, MatchTurn, MatchStepCtx
    <3> QED
      BY <1>5, <2>2, <3>1, NoneBlocked DEF MatchTurn
  <2> QED
    BY <1>5, <2>1, <2>2
<1>6. ASSUME NEW m \in Mail, MatchReply(m) PROVE BlockedInv'
  <2>1. /\ MatchTurn(m) /\ todo' = todo \ {m} /\ blocked' = blocked
        /\ matchq' \in {matchq, matchq \ {m}} /\ pc' \in {"match", "finished"}
    BY <1>6 DEF MatchReply, MatchOutcome, MatchMoved, MatchFails, MatchTurn, Abort
  <2> QED
    BY <1>5, <1>6, <2>1, MatchReplyCtx
<1>7. ASSUME NEW m \in Mail, MatchItem(m) PROVE BlockedInv'
  <2>1. /\ MatchTurn(m) /\ todo' = todo \ {m} /\ blocked' = blocked
        /\ matchq' \in {matchq, matchq \ {m}} /\ pc' \in {"match", "finished"}
    BY <1>7 DEF MatchItem, MatchOutcome, MatchMoved, MatchFails, MatchTurn, Abort
  <2> QED
    BY <1>5, <1>7, <2>1, MatchItemCtx
<1>8. ASSUME NEW m \in Mail, MatchDone(m) PROVE BlockedInv'
  <2>1. /\ MatchTurn(m) /\ todo' = todo \ {m} /\ blocked' = blocked
        /\ pc' \in {"match", "finished"}
    BY <1>8 DEF MatchDone, MatchFails, MatchTurn, Abort
  <2>2. MatchStepCtx(m)
    BY <1>8, CtxStep, MatchDoneQueues DEF MatchStepCtx
  <2> QED
    BY <1>5, <1>8, <2>1, <2>2, MatchDoneQueues
<1>9. ASSUME NEW m \in Mail, MatchAsk(m) PROVE BlockedInv'
  <2>1. CASE pc' = "finished"
    BY <2>1 DEF BlockedInv
  <2>2. CASE pc' # "finished"
    <3>1. /\ pc = "match" /\ pc' = "match" /\ m \in todo /\ todo' = todo \ {m}
          /\ blocked' = blocked + 1 /\ UNCHANGED <<matchq, deliverq>>
          /\ m \in matchq
      BY <1>9, <2>2 DEF MatchAsk, MatchTurn, Abort, QueueInv
    <3>2. Waiting(ctx'[m]) /\ \A n \in Mail \ {m} : ctx'[n] = ctx[n]
      BY <1>9, <3>1, MatchAskCtx, FetchAssumption DEF Waiting, Mail
    <3>3. m \in Queue /\ m \notin Counted /\ Counted' = Counted \cup {m}
      BY <3>1, <3>2, QueueIsMail DEF Counted, Queue
    <3> QED
      BY <3>1, <3>3, OneBlocked
  <2> QED
    BY <2>1, <2>2
<1>10. ASSUME NEW m \in Mail, DeliverReply(m) \/ DeliverInChild(m) PROVE BlockedInv'
  <2>1. CASE pc' = "finished"
    BY <2>1 DEF BlockedInv
  <2>2. CASE pc' # "finished"
    <3>1. /\ pc = "deliver" /\ pc' = "deliver" /\ m \in todo /\ todo' = todo \ {m}
          /\ blocked' = blocked /\ UNCHANGED <<matchq, deliverq>>
      BY <1>10, <2>2 DEF DeliverReply, DeliverInChild, DeliverTurn, Abort
    <3>2. ~Waiting(ctx'[m]) /\ \A n \in Mail \ {m} : ctx'[n] = ctx[n]
      BY <1>10, <3>1, DeliverReplyCtx, DeliverInChildCtx
    <3>3. Counted' = Counted
      BY <3>1, <3>2, QueueIsMail DEF Counted, Queue
    <3> QED
      BY <3>1, <3>3, NoneBlocked
  <2> QED
    BY <2>1, <2>2
<1>11. ASSUME NEW m \in Mail, DeliverDone(m) PROVE BlockedInv'
  <2>1. /\ pc = "deliver" /\ pc' = "deliver" /\ m \in todo /\ todo' = todo \ {m}
        /\ blocked' = blocked
    BY <1>11 DEF DeliverDone, DeliverTurn
  <2>2. Counted' = Counted
    BY <1>11, <2>1, DeliverDoneQueues DEF Counted, Queue
  <2> QED
    BY <2>1, <2>2, NoneBlocked
<1>12. ASSUME NEW m \in Mail, DeliverAsk(m) PROVE BlockedInv'
  <2>1. /\ pc = "deliver" /\ pc' = "deliver" /\ m \in todo /\ todo' = todo \ {m}
        /\ blocked' = blocked + 1 /\ UNCHANGED <<matchq, deliverq>>
        /\ m \in deliverq
    BY <1>12 DEF DeliverAsk, DeliverTurn, QueueInv
  <2>2. Waiting(ctx'[m]) /\ \A n \in Mail \ {m} : ctx'[n] = ctx[n]
    BY <1>12, DeliverAskCtx, FetchAssumption DEF Waiting, Mail
  <2>3. m \in Queue /\ m \notin Counted /\ Counted' = Counted \cup {m}
    BY <2>1, <2>2, QueueIsMail DEF Counted, Queue
  <2> QED
    BY <2>1, <2>3, OneBlocked
<1>13. CASE HandlerAgain \/ HandlerMail \/ HandlerBigMail \/ HandlerError
  BY <1>13 DEF HandlerAgain, HandlerMail, HandlerBigMail, HandlerError, Abort,
               BlockedInv
<1>14. CASE HandlerExit \/ HandlerBlocks \/ NoHandler
  <2>1. Counted' = Counted \/ pc' = "finished"
    BY <1>14 DEF HandlerExit, HandlerBlocks, NoHandler, CallsHandler, Counted, Queue
  <2>2. blocked' = blocked /\ pc = "fetch"
    BY <1>14 DEF HandlerExit, HandlerBlocks, NoHandler, CallsHandler
  <2> QED
    BY <2>1, <2>2, NoneBlocked DEF BlockedInv
<1>15. CASE Poll \/ Finish \/ AwaitExit \/ PollTimeout \/ ServerCloses
  BY <1>15 DEF Poll, Finish, AwaitExit, PollTimeout, ServerCloses, Abort, BlockedInv
<1>16. CASE \/ FlushFill \/ ServerAnswers \/ ParentReads \/ JobStep \/ Stopped
            \/ UNCHANGED vars
  <2>1. UNCHANGED <<pc, todo, matchq, deliverq, ctx, blocked>>
    BY <1>16 DEF FlushFill, ServerAnswers, ParentReads, JobStep, JobEnds, JobDies,
                 Stopped, vars
  <2>2. Counted' = Counted
    BY <2>1 DEF Counted, Queue
  <2> QED
    BY <2>1, <2>2, NoneBlocked
<1> QED
  BY <1>1, <1>2, <1>3, <1>4, <1>6, <1>7, <1>8, <1>9, <1>10, <1>11, <1>12, <1>13,
     <1>14, <1>15, <1>16 DEF Next, ChildStep

\* The child sleeps with mails in its queue only if each of them waits for the
\* parent: the count of the blocked equals that of the queued (child-fetch.c:472)
\* only if they are the same mails.
THEOREM SleepsSafely == Spec => []SleepsOnlyIfAllWait
<1>1. QueueInv /\ CountInv /\ BlockedInv => SleepsOnlyIfAllWait
  <2> SUFFICES ASSUME QueueInv, CountInv, BlockedInv,
                      pc = "poll", ~PollsOnly, queued # 0,
                      NEW m \in Queue
               PROVE  Waiting(ctx[m])
    BY DEF SleepsOnlyIfAllWait
  <2>1. blocked = queued
    BY DEF PollsOnly
  <2>2. Cardinality(Counted) = Cardinality(Queue)
    BY <2>1 DEF BlockedInv, CountInv, InLoop
  <2>3. Counted \subseteq Queue
    BY DEF Counted, Queue
  <2>4. Counted = Queue
    BY <2>2, <2>3, QueueFinite, FS_Subset
  <2> QED
    BY <2>4 DEF Counted
<1> QED
  BY <1>1, QueueInit, QueueStep, CountInit, CountStep, CtxInit, CtxStep,
     BlockedInit, BlockedStep, PTL DEF Spec

-----------------------------------------------------------------------------
(* Layer 5: what the channels carry.                                       *)

\* While the loop runs there is no exit message, and no message is kept from
\* one turn of the loop to the next.
ChanInv ==
  /\ msg \in Reply \cup {NoMsg}
  /\ pc \in {"top", "fetch", "poll"} => msg = NoMsg
  /\ jobs \subseteq Request /\ lost \subseteq Mail
  /\ toParent \in Seq(Request \cup {ExitReq})
  /\ wire \in Seq(Reply \cup {ExitMsg}) /\ rd \in Seq(Reply \cup {ExitMsg})
  /\ InLoop \/ pc = "finished"
       => toParent \in Seq(Request) /\ wire \in Seq(Reply) /\ rd \in Seq(Reply)

LEMMA ChanInit == Init => ChanInv
  BY EmptySeq DEF Init, ChanInv

LEMMA AskTyped ==
  ASSUME ChanInv, NEW m \in Mail, NEW w \in {"action", "command"}, InLoop, Send(w, m)
  PROVE  toParent' \in Seq(Request) /\ UNCHANGED <<rd, wire>>
<1>1. [what |-> w, id |-> m] \in Request
  BY DEF Request
<1> QED
  BY <1>1, AppendProperties DEF Send, ChanInv

LEMMA DoneTyped ==
  ASSUME NEW m \in Mail, NEW e \in 0 .. 2, NEW ran \in BOOLEAN
  PROVE  Done(m, e, ran) \in Reply /\ Done(m, e, ran).id = m
  BY DEF Done, Reply

\* Only those steps send, receive or pass on anything.
ChanKept == UNCHANGED <<rd, wire, toParent, jobs, lost>>

LEMMA ChanQuiet ==
  ASSUME \/ \E m \in Mail : \/ MatchBlocked(m) \/ MatchReply(m) \/ MatchDone(m)
                            \/ MatchItem(m) \/ DeliverBlocked(m) \/ DeliverReply(m)
                            \/ DeliverDone(m) \/ DeliverInChild(m)
         \/ MatchPassEnds \/ DeliverPassEnds
         \/ HandlerAgain \/ HandlerMail \/ HandlerBigMail \/ HandlerError
         \/ HandlerExit \/ HandlerBlocks \/ NoHandler
         \/ PollTimeout \/ ServerCloses \/ ServerAnswers \/ Stopped
         \/ UNCHANGED vars
  PROVE  ChanKept
<1> USE DEF ChanKept, ioVars, jobVars
<1>1. CASE \E m \in Mail : \/ MatchBlocked(m) \/ MatchReply(m) \/ MatchDone(m)
                          \/ MatchItem(m) \/ DeliverBlocked(m) \/ DeliverReply(m)
                          \/ DeliverDone(m) \/ DeliverInChild(m)
  BY <1>1 DEF MatchBlocked, MatchReply, MatchDone, MatchItem, DeliverBlocked,
              DeliverReply, DeliverDone, DeliverInChild
<1>2. CASE \/ HandlerAgain \/ HandlerMail \/ HandlerBigMail \/ HandlerError
           \/ HandlerExit \/ HandlerBlocks \/ NoHandler
  BY <1>2 DEF HandlerAgain, HandlerMail, HandlerBigMail, HandlerError,
              HandlerExit, HandlerBlocks, NoHandler
<1>3. CASE \/ MatchPassEnds \/ DeliverPassEnds \/ PollTimeout \/ ServerCloses
           \/ ServerAnswers \/ Stopped \/ UNCHANGED vars
  BY <1>3 DEF MatchPassEnds, DeliverPassEnds, PollTimeout, ServerCloses,
              ServerAnswers, Stopped, vars
<1> QED
  BY <1>1, <1>2, <1>3

\* What the other steps do to pc and to the message.
LEMMA MsgStep ==
  ASSUME QueueInv, ChanInv, [Next]_vars
  PROVE  /\ msg' \in Reply \cup {NoMsg}
         /\ pc' \in {"top", "fetch", "poll"} => msg' = NoMsg
         /\ InLoop' => InLoop
         /\ pc' = "finished" => InLoop \/ pc = "finished"
<1> USE DEF loopVars, InLoop, ChanInv
<1>1. CASE Top
  <2>1. rd # <<>> => Head(rd) \in Reply
    BY <1>1, HeadTailProperties DEF Top
  <2> QED
    BY <1>1, <2>1 DEF Top
<1>2. CASE FlushFill \/ MatchPassEnds \/ DeliverPassEnds \/ Poll \/ Finish \/ AwaitExit
  BY <1>2 DEF FlushFill, MatchPassEnds, DeliverPassEnds, Poll, Finish, AwaitExit
<1>3. ASSUME NEW m \in Mail,
             \/ MatchBlocked(m) \/ MatchReply(m) \/ MatchDone(m) \/ MatchItem(m)
             \/ MatchAsk(m)
      PROVE  UNCHANGED msg /\ pc = "match" /\ pc' \in {"match", "finished"}
  BY <1>3 DEF MatchBlocked, MatchReply, MatchDone, MatchItem, MatchAsk, MatchTurn,
              MatchOutcome, MatchMoved, MatchFails, Abort
<1>4. ASSUME NEW m \in Mail,
             \/ DeliverBlocked(m) \/ DeliverReply(m) \/ DeliverDone(m)
             \/ DeliverInChild(m) \/ DeliverAsk(m)
      PROVE  UNCHANGED msg /\ pc = "deliver" /\ pc' \in {"deliver", "finished"}
  BY <1>4 DEF DeliverBlocked, DeliverReply, DeliverDone, DeliverInChild, DeliverAsk,
              DeliverTurn, Abort
<1>5. CASE \/ HandlerAgain \/ HandlerMail \/ HandlerBigMail \/ HandlerError
           \/ HandlerExit \/ HandlerBlocks \/ NoHandler
  BY <1>5 DEF HandlerAgain, HandlerMail, HandlerBigMail, HandlerError, HandlerExit,
              HandlerBlocks, NoHandler, CallsHandler, Abort
<1>6. CASE PollTimeout \/ ServerCloses
  BY <1>6 DEF PollTimeout, ServerCloses, Abort, Sleeping
<1>7. CASE ServerAnswers \/ ParentReads \/ JobStep \/ Stopped \/ UNCHANGED vars
  BY <1>7 DEF ServerAnswers, ParentReads, JobStep, JobEnds, JobDies, Stopped, vars
<1> QED
  BY <1>1, <1>2, <1>3, <1>4, <1>5, <1>6, <1>7 DEF Next, ChildStep

LEMMA ChanStep == QueueInv /\ ChanInv /\ [Next]_vars => ChanInv'
<1> SUFFICES ASSUME QueueInv, ChanInv, [Next]_vars PROVE ChanInv'
  OBVIOUS
<1>a. ASSUME ChanKept PROVE ChanInv'
  BY <1>a, MsgStep DEF ChanKept, ChanInv
<1>1. CASE Top
  <2>1. pc = "top" /\ (rd' = rd \/ (rd # <<>> /\ rd' = Tail(rd)))
        /\ UNCHANGED <<wire, toParent, jobs, lost>>
    BY <1>1 DEF Top, jobVars
  <2>2. rd' \in Seq(Reply) /\ rd' \in Seq(Reply \cup {ExitMsg})
    BY <2>1, HeadTailProperties DEF ChanInv, InLoop
  <2> QED
    BY <2>1, <2>2, MsgStep DEF ChanInv
<1>2. CASE FlushFill \/ Poll
  <2>1. /\ rd' = rd \o wire /\ wire' = <<>> /\ UNCHANGED <<toParent, jobs, lost>>
        /\ (InLoop' \/ pc' = "finished" => InLoop \/ pc = "finished")
    BY <1>2, MsgStep DEF FlushFill, Poll, jobVars
  <2> QED
    BY <2>1, MsgStep, ConcatProperties, EmptySeq DEF ChanInv
<1>3. ASSUME NEW m \in Mail, MatchAsk(m) PROVE ChanInv'
  <2>1. UNCHANGED <<jobs, lost>> /\ pc = "match"
        /\ (Send("command", m) \/ UNCHANGED ioVars)
    BY <1>3 DEF MatchAsk, MatchTurn, jobVars
  <2>2. UNCHANGED <<rd, wire>> /\ toParent' \in Seq(Request)
    BY <2>1, AskTyped DEF InLoop, ioVars, ChanInv
  <2>3. toParent' \in Seq(Request \cup {ExitReq})
    BY <2>2, SeqMonotonic
  <2> QED
    BY <2>1, <2>2, <2>3, MsgStep DEF ChanInv, InLoop
<1>4. ASSUME NEW m \in Mail, DeliverAsk(m) PROVE ChanInv'
  <2>1. UNCHANGED <<jobs, lost>> /\ pc = "deliver" /\ Send("action", m)
    BY <1>4 DEF DeliverAsk, DeliverTurn, jobVars
  <2>2. UNCHANGED <<rd, wire>> /\ toParent' \in Seq(Request)
    BY <2>1, AskTyped DEF InLoop
  <2>3. toParent' \in Seq(Request \cup {ExitReq})
    BY <2>2, SeqMonotonic
  <2> QED
    BY <2>1, <2>2, <2>3, MsgStep DEF ChanInv, InLoop
<1>5. CASE Finish
  <2>1. pc' = "exit" /\ toParent' = Append(toParent, ExitReq)
        /\ UNCHANGED <<rd, wire, jobs, lost>>
    BY <1>5 DEF Finish, jobVars
  <2> QED
    BY <2>1, MsgStep, AppendProperties DEF ChanInv, InLoop
<1>6. CASE AwaitExit
  <2>1. /\ pc' \in {"exit", "gone"} /\ rd \o wire # <<>> /\ rd' = Tail(rd \o wire)
        /\ wire' = <<>> /\ UNCHANGED <<toParent, jobs, lost>>
    BY <1>6 DEF AwaitExit, jobVars
  <2>2. rd \o wire \in Seq(Reply \cup {ExitMsg})
    BY ConcatProperties DEF ChanInv
  <2>3. rd' \in Seq(Reply \cup {ExitMsg})
    BY <2>1, <2>2, HeadTailProperties
  <2> QED
    BY <2>1, <2>3, MsgStep, EmptySeq DEF ChanInv, InLoop
<1>7. CASE ParentReads
  <2> DEFINE r == Head(toParent)
  <2>1. /\ toParent # <<>> /\ toParent' = Tail(toParent) /\ UNCHANGED <<pc, rd, lost>>
    BY <1>7 DEF ParentReads, loopVars
  <2>2. /\ toParent' \in Seq(Request \cup {ExitReq}) /\ r \in Request \cup {ExitReq}
        /\ (InLoop \/ pc = "finished" => toParent' \in Seq(Request) /\ r \in Request)
    BY <2>1, HeadTailProperties DEF ChanInv
  <2>3. CASE r.what = "exit" /\ Answer(ExitMsg) /\ UNCHANGED jobs
    <3>1. r \notin Request
      BY <2>3 DEF Request
    <3>2. wire' \in Seq(Reply \cup {ExitMsg})
      BY <2>3, AppendProperties DEF Answer, ChanInv
    <3> QED
      BY <2>1, <2>2, <2>3, <3>1, <3>2, MsgStep DEF ChanInv, InLoop
  <2>4. CASE r.what # "exit" /\ jobs' = jobs \cup {r} /\ UNCHANGED wire
    <3>1. r \in Request
      BY <2>2, <2>4 DEF ExitReq
    <3> QED
      BY <2>1, <2>2, <2>4, <3>1, MsgStep DEF ChanInv, InLoop
  <2>5. CASE /\ r.what # "exit" /\ UNCHANGED jobs
             /\ Answer(Done(r.id, DELIVER_FAILURE, FALSE))
    <3>1. r \in Request
      BY <2>2, <2>5 DEF ExitReq
    <3>2. Done(r.id, DELIVER_FAILURE, FALSE) \in Reply
      <4>1. r.id \in Mail /\ DELIVER_FAILURE \in 0 .. 2 /\ FALSE \in BOOLEAN
        BY <3>1 DEF Request, DELIVER_FAILURE
      <4> QED
        BY <4>1, DoneTyped
    <3>3. /\ wire' \in Seq(Reply \cup {ExitMsg})
          /\ InLoop \/ pc = "finished" => wire' \in Seq(Reply)
      BY <2>5, <3>2, AppendProperties DEF Answer, ChanInv
    <3> QED
      BY <2>1, <2>2, <2>5, <3>3, MsgStep DEF ChanInv, InLoop
  <2> QED
    BY <1>7, <2>3, <2>4, <2>5 DEF ParentReads
<1>8. ASSUME NEW j \in jobs, JobEnds(j) PROVE ChanInv'
  <2>1. /\ jobs' \subseteq jobs /\ UNCHANGED <<pc, toParent, rd, lost>>
        /\ j.id \in Mail
    BY <1>8 DEF JobEnds, loopVars, ChanInv, Request
  <2>2. PICK e \in 0 .. 2 : Answer(Done(j.id, e, TRUE))
    <3>1. /\ DELIVER_SUCCESS \in 0 .. 2 /\ DELIVER_FAILURE \in 0 .. 2
          /\ {MATCH_FALSE, MATCH_TRUE, MATCH_ERROR} \subseteq 0 .. 2
      BY DEF DELIVER_SUCCESS, DELIVER_FAILURE, MATCH_FALSE, MATCH_TRUE, MATCH_ERROR
    <3>2. CASE \E e \in {MATCH_FALSE, MATCH_TRUE, MATCH_ERROR} :
                 Answer(Done(j.id, e, TRUE))
      BY <3>1, <3>2
    <3>3. CASE \/ Answer(Done(j.id, DELIVER_SUCCESS, TRUE))
               \/ Answer(Done(j.id, DELIVER_FAILURE, TRUE))
      BY <3>1, <3>3
    <3> QED
      BY <1>8, <3>2, <3>3 DEF JobEnds
  <2>3. Done(j.id, e, TRUE) \in Reply
    BY <2>1, DoneTyped
  <2>4. /\ wire' \in Seq(Reply \cup {ExitMsg})
        /\ InLoop \/ pc = "finished" => wire' \in Seq(Reply)
    BY <2>2, <2>3, AppendProperties DEF Answer, ChanInv
  <2> QED
    BY <2>1, <2>4, MsgStep DEF ChanInv, InLoop
<1>9. ASSUME NEW j \in jobs, JobDies(j) PROVE ChanInv'
  <2>1. /\ jobs' \subseteq jobs /\ UNCHANGED <<pc, toParent, rd, wire>>
        /\ j.id \in Mail /\ lost' = lost \cup {j.id}
    BY <1>9 DEF JobDies, loopVars, ioVars, ChanInv, Request
  <2> QED
    BY <2>1, MsgStep DEF ChanInv, InLoop
<1> QED
  BY <1>a, <1>1, <1>2, <1>3, <1>4, <1>5, <1>6, <1>7, <1>8, <1>9, ChanQuiet
     DEF Next, ChildStep, JobStep

-----------------------------------------------------------------------------
(* Layer 6: a request and its answer are in one place.  First the mails    *)
(* named by a sequence of messages.                                        *)

LEMMA IdsAppend ==
  ASSUME NEW S, NEW s \in Seq(S), NEW e \in S
  PROVE  /\ Ids(Append(s, e)) = Ids(s) \cup {e.id}
         /\ NoRepeats(s) /\ e.id \notin Ids(s) => NoRepeats(Append(s, e))
<1> DEFINE t == Append(s, e)
<1>1. /\ DOMAIN t = 1 .. (Len(s) + 1) /\ DOMAIN s = 1 .. Len(s) /\ Len(s) \in Nat
      /\ \A i \in 1 .. Len(s) : t[i] = s[i]
      /\ t[Len(s) + 1] = e
  BY AppendProperties, LenProperties
<1> HIDE DEF t
<1>2. Ids(t) = Ids(s) \cup {e.id}
  BY <1>1 DEF Ids
<1>3. NoRepeats(s) /\ e.id \notin Ids(s) => NoRepeats(t)
  BY <1>1 DEF Ids, NoRepeats
<1> QED
  BY <1>2, <1>3 DEF t

LEMMA IdsTail ==
  ASSUME NEW S, NEW s \in Seq(S), s # <<>>, NoRepeats(s)
  PROVE  /\ Ids(Tail(s)) = Ids(s) \ {Head(s).id}
         /\ Head(s).id \in Ids(s)
         /\ NoRepeats(Tail(s))
<1> DEFINE t == Tail(s)
<1>1. /\ DOMAIN t = 1 .. (Len(s) - 1) /\ DOMAIN s = 1 .. Len(s) /\ Len(s) \in Nat \ {0}
      /\ \A i \in 1 .. (Len(s) - 1) : t[i] = s[i + 1]
      /\ Head(s) = s[1]
  BY HeadTailProperties, LenProperties, EmptySeq
<1> HIDE DEF t
<1>2. Head(s).id \in Ids(s)
  BY <1>1 DEF Ids
<1>3. Ids(t) \subseteq Ids(s) \ {Head(s).id}
  BY <1>1 DEF Ids, NoRepeats
<1>4. ASSUME NEW x \in Ids(s) \ {Head(s).id} PROVE x \in Ids(t)
  <2>1. PICK i \in 1 .. Len(s) : s[i].id = x
    BY <1>1 DEF Ids
  <2>2. i # 1
    BY <1>1, <2>1
  <2>3. i - 1 \in 1 .. (Len(s) - 1) /\ t[i - 1] = s[i]
    BY <1>1, <2>1, <2>2
  <2> QED
    BY <1>1, <2>1, <2>3 DEF Ids
<1>5. NoRepeats(t)
  BY <1>1 DEF NoRepeats
<1> QED
  BY <1>2, <1>3, <1>4, <1>5 DEF t

LEMMA IdsConcat ==
  ASSUME NEW S, NEW s \in Seq(S), NEW u \in Seq(S)
  PROVE  /\ Ids(s \o u) = Ids(s) \cup Ids(u)
         /\ NoRepeats(s) /\ NoRepeats(u) /\ Ids(s) \cap Ids(u) = {}
              => NoRepeats(s \o u)
<1> DEFINE t == s \o u
<1>1. /\ DOMAIN t = 1 .. (Len(s) + Len(u)) /\ DOMAIN s = 1 .. Len(s)
      /\ DOMAIN u = 1 .. Len(u) /\ Len(s) \in Nat /\ Len(u) \in Nat
      /\ \A i \in 1 .. (Len(s) + Len(u)) :
           t[i] = IF i <= Len(s) THEN s[i] ELSE u[i - Len(s)]
  BY ConcatProperties, LenProperties
<1> HIDE DEF t
<1>2. Ids(t) \subseteq Ids(s) \cup Ids(u)
  BY <1>1 DEF Ids
<1>3. Ids(s) \subseteq Ids(t)
  BY <1>1 DEF Ids
<1>4. ASSUME NEW x \in Ids(u) PROVE x \in Ids(t)
  <2>1. PICK i \in 1 .. Len(u) : u[i].id = x
    BY <1>1 DEF Ids
  <2>2. i + Len(s) \in 1 .. (Len(s) + Len(u)) /\ t[i + Len(s)] = u[i]
    BY <1>1, <2>1
  <2> QED
    BY <1>1, <2>1, <2>2 DEF Ids
<1>6. ASSUME NEW k \in DOMAIN t
      PROVE  IF k <= Len(s) THEN t[k].id \in Ids(s) ELSE t[k].id \in Ids(u)
  <2>1. CASE k <= Len(s)
    BY <1>1, <2>1 DEF Ids
  <2>2. CASE k > Len(s)
    <3>1. t[k] = u[k - Len(s)] /\ k - Len(s) \in DOMAIN u
      BY <1>1, <2>2
    <3> QED
      BY <1>1, <2>2, <3>1 DEF Ids
  <2> QED
    BY <1>1, <2>1, <2>2
<1>5. ASSUME NoRepeats(s), NoRepeats(u), Ids(s) \cap Ids(u) = {},
             NEW i \in DOMAIN t, NEW j \in DOMAIN t, t[i].id = t[j].id
      PROVE  i = j
  <2>1. CASE i <= Len(s) /\ j <= Len(s)
    BY <1>1, <1>5, <2>1 DEF NoRepeats
  <2>2. CASE i > Len(s) /\ j > Len(s)
    <3>1. i - Len(s) \in DOMAIN u /\ j - Len(s) \in DOMAIN u
      BY <1>1, <2>2
    <3>2. u[i - Len(s)].id = u[j - Len(s)].id
      BY <1>1, <1>5, <2>2
    <3>3. i - Len(s) = j - Len(s)
      BY <1>5, <3>1, <3>2 DEF NoRepeats
    <3> QED
      BY <1>1, <3>3
  <2>3. CASE i <= Len(s) /\ j > Len(s)
    <3>1. t[i].id \in Ids(s) /\ t[j].id \in Ids(u)
      BY <1>1, <1>6, <2>3
    <3> QED
      BY <1>5, <3>1
  <2>4. CASE i > Len(s) /\ j <= Len(s)
    <3>1. t[i].id \in Ids(u) /\ t[j].id \in Ids(s)
      BY <1>1, <1>6, <2>4
    <3> QED
      BY <1>5, <3>1
  <2> QED
    BY <1>1, <2>1, <2>2, <2>3, <2>4
<1> QED
  BY <1>2, <1>3, <1>4, <1>5 DEF t, NoRepeats

-----------------------------------------------------------------------------
(* Then the six places, which partition the waiting mails.                 *)

JobIds  == {j.id : j \in jobs}
Waiters == {m \in Queue : Waiting(ctx[m])}

\* A, ..., F are disjoint and together are W.
Partition(A, B, C, D, E, F, W) ==
  /\ W = A \cup B \cup C \cup D \cup E \cup F
  /\ A \cap (B \cup C \cup D \cup E \cup F) = {}
  /\ B \cap (C \cup D \cup E \cup F) = {}
  /\ C \cap (D \cup E \cup F) = {}
  /\ D \cap (E \cup F) = {}
  /\ E \cap F = {}

OutInv ==
  InLoop =>
    /\ Partition(Ids(toParent), JobIds, lost, Ids(wire), Ids(rd), AtHand, Waiters)
    /\ \A m \in Queue : ctx[m].msgid \in {0, m}
    /\ NoRepeats(toParent) /\ NoRepeats(wire) /\ NoRepeats(rd)
    /\ \A j, k \in jobs : j.id = k.id => j = k

LEMMA IdsEmpty == Ids(<<>>) = {} /\ NoRepeats(<<>>)
  BY DEF Ids, NoRepeats

LEMMA OutInit == Init => OutInv
<1> SUFFICES ASSUME Init PROVE OutInv
  OBVIOUS
<1>1. /\ JobIds = {} /\ lost = {} /\ Queue = {} /\ jobs = {}
      /\ toParent = <<>> /\ wire = <<>> /\ rd = <<>>
  BY DEF Init, JobIds, Queue
<1>2. AtHand = {} /\ Waiters = {}
  BY <1>1 DEF AtHand, Waiters
<1> QED
  BY <1>1, <1>2, IdsEmpty DEF OutInv, Partition

\* A reply in the child's hand is its mail's.
LEMMA AtHandIs ==
  ASSUME NEW m \in AtHand
  PROVE  m \in Queue /\ Waiting(ctx[m]) /\ msg # NoMsg /\ msg.id = m
  BY DEF AtHand

\* The mails waiting are the same, and so is what is at hand.
Same == /\ Waiters' = Waiters /\ AtHand' = AtHand
        /\ \A m \in Queue' : ctx'[m].msgid \in {0, m}

\* A mail stops waiting; the reply, if it was at hand, is used up.
Settled(m) == /\ Waiters' = Waiters \ {m} /\ AtHand' = AtHand \ {m}
              /\ m \in Waiters => m \in AtHand
              /\ \A n \in Queue' : ctx'[n].msgid \in {0, n}

LEMMA SameStep ==
  ASSUME OutInv, Same, ChanKept, InLoop' => InLoop
  PROVE  OutInv'
<1>1. JobIds' = JobIds /\ Ids(toParent)' = Ids(toParent) /\ Ids(wire)' = Ids(wire)
      /\ Ids(rd)' = Ids(rd)
  BY DEF ChanKept, JobIds, Ids
<1>2. NoRepeats(toParent)' = NoRepeats(toParent) /\ NoRepeats(wire)' = NoRepeats(wire)
      /\ NoRepeats(rd)' = NoRepeats(rd)
  BY DEF ChanKept, NoRepeats
<1> QED
  BY <1>1, <1>2 DEF OutInv, Same, ChanKept

LEMMA SettledStep ==
  ASSUME OutInv, NEW m, Settled(m), ChanKept, InLoop' => InLoop
  PROVE  OutInv'
<1>1. JobIds' = JobIds /\ Ids(toParent)' = Ids(toParent) /\ Ids(wire)' = Ids(wire)
      /\ Ids(rd)' = Ids(rd)
  BY DEF ChanKept, JobIds, Ids
<1>2. NoRepeats(toParent)' = NoRepeats(toParent) /\ NoRepeats(wire)' = NoRepeats(wire)
      /\ NoRepeats(rd)' = NoRepeats(rd)
  BY DEF ChanKept, NoRepeats
<1>3. ASSUME InLoop,
             Partition(Ids(toParent), JobIds, lost, Ids(wire), Ids(rd), AtHand, Waiters)
      PROVE  Partition(Ids(toParent), JobIds, lost, Ids(wire), Ids(rd),
                       AtHand \ {m}, Waiters \ {m})
  BY <1>3 DEF Partition, Settled
<1> QED
  BY <1>1, <1>2, <1>3 DEF OutInv, Settled, ChanKept

\* A mail starts to wait, and its request is on its way to the parent.
LEMMA AskedStep ==
  ASSUME QueueInv, CtxInv, ChanInv, OutInv, NEW m \in Mail, NEW w \in {"action", "command"},
         InLoop, Send(w, m), UNCHANGED <<jobs, lost>>,
         m \notin Waiters, Waiters' = Waiters \cup {m}, AtHand' = AtHand,
         \A n \in Queue' : ctx'[n].msgid \in {0, n}
  PROVE  OutInv'
<1> DEFINE r == [what |-> w, id |-> m]
<1>1. /\ toParent \in Seq(Request) /\ r \in Request /\ r.id = m
      /\ toParent' = Append(toParent, r) /\ UNCHANGED <<rd, wire>>
  BY DEF ChanInv, Request, Send
<1> HIDE DEF r
<1>2. m \notin Ids(toParent)
  BY DEF OutInv, Partition
<1>3. Ids(toParent') = Ids(toParent) \cup {m} /\ NoRepeats(toParent')
  BY <1>1, <1>2, IdsAppend DEF OutInv
<1>4. JobIds' = JobIds
  BY DEF JobIds
<1>5. Partition(Ids(toParent) \cup {m}, JobIds, lost, Ids(wire), Ids(rd), AtHand,
                Waiters \cup {m})
  BY DEF OutInv, Partition
<1> QED
  BY <1>1, <1>3, <1>4, <1>5 DEF OutInv

\* A pass has dealt with a mail of its queue, which waits for nothing now; the
\* mail may have changed or left the queues.
PassedOver(m) ==
  /\ m \in todo /\ todo' = todo \ {m} /\ msg' = msg
  /\ pc \in {"match", "deliver"} /\ pc' = pc
  /\ Waiting(ctx[m]) => HasReply(m)
  /\ ~Waiting(ctx'[m])
  /\ \A n \in Mail \ {m} : /\ ctx'[n] = ctx[n]
                           /\ n \in matchq' <=> n \in matchq
                           /\ n \in deliverq' <=> n \in deliverq

LEMMA PassedOverStep ==
  ASSUME QueueInv, QueueInv', CtxInv, OutInv, NEW m \in Mail, PassedOver(m), ChanKept
  PROVE  OutInv'
<1>0. Queue' \subseteq Mail
  <2>1. (QueueInv => matchq \subseteq Mail /\ deliverq \subseteq Mail)'
    BY QueueIsMail, PTL
  <2> QED
    BY <2>1 DEF Queue
<1>1. Queue \subseteq Mail /\ Queue' \subseteq Mail /\ InLoop /\ m \in Queue
  BY <1>0, QueueIsMail DEF Queue, InLoop, PassedOver, QueueInv
<1>2. \A n \in Mail \ {m} : n \in Queue' <=> n \in Queue
  BY DEF Queue, PassedOver
<1>3. Waiters' = Waiters \ {m}
  BY <1>1, <1>2 DEF Waiters, PassedOver
<1>4. AtHand' = AtHand \ {m}
  BY <1>1, <1>2 DEF AtHand, PassedOver
<1>5. m \in Waiters => m \in AtHand
  BY <1>1 DEF Waiters, AtHand, PassedOver, HasReply, OutInv, Waiting
<1>6. \A n \in Queue' : ctx'[n].msgid \in {0, n}
  BY <1>1, <1>2 DEF PassedOver, OutInv, Waiting
<1> QED
  BY <1>1, <1>3, <1>4, <1>5, <1>6, SettledStep DEF Settled, InLoop, PassedOver

LEMMA PassOut ==
  ASSUME QueueInv, QueueInv', CtxInv, OutInv, NEW m \in Mail,
         \/ MatchReply(m) \/ MatchItem(m) \/ MatchDone(m)
         \/ DeliverReply(m) \/ DeliverInChild(m) \/ DeliverDone(m),
         [Next]_vars
  PROVE  OutInv'
<1> USE DEF loopVars, queueVars
<1>0. ChanKept
  BY ChanQuiet
<1>1. CASE MatchReply(m) \/ MatchItem(m)
  <2>1. \/ ~InLoop'
        \/ /\ m \in todo /\ todo' = todo \ {m} /\ msg' = msg /\ pc = "match" /\ pc' = pc
           /\ Waiting(ctx[m]) => HasReply(m)
           /\ matchq' \in {matchq, matchq \ {m}}
           /\ deliverq' \in {deliverq, deliverq \cup {m}}
    BY <1>1 DEF MatchReply, MatchItem, MatchTurn, MatchOutcome, MatchMoved, MatchFails,
                Abort, InLoop
  <2>2. MatchStepCtx(m)
    BY <1>1, MatchReplyCtx, MatchItemCtx
  <2> QED
    BY <1>0, <2>1, <2>2, PassedOverStep DEF PassedOver, MatchStepCtx, OutInv
<1>2. CASE MatchDone(m)
  <2>1. \/ ~InLoop'
        \/ /\ m \in todo /\ todo' = todo \ {m} /\ msg' = msg /\ pc = "match" /\ pc' = pc
    BY <1>2 DEF MatchDone, MatchTurn, MatchFails, Abort, InLoop
  <2> QED
    BY <1>0, <1>2, <2>1, MatchDoneQueues, PassedOverStep DEF PassedOver, OutInv
<1>3. CASE DeliverReply(m) \/ DeliverInChild(m)
  <2>1. \/ ~InLoop'
        \/ /\ m \in todo /\ todo' = todo \ {m} /\ msg' = msg /\ pc = "deliver" /\ pc' = pc
           /\ Waiting(ctx[m]) => HasReply(m)
           /\ UNCHANGED <<matchq, deliverq>>
    BY <1>3 DEF DeliverReply, DeliverInChild, DeliverTurn, Abort, InLoop
  <2> QED
    BY <1>0, <1>3, <2>1, DeliverReplyCtx, DeliverInChildCtx, PassedOverStep
       DEF PassedOver, OutInv
<1>4. CASE DeliverDone(m)
  <2>1. /\ m \in todo /\ todo' = todo \ {m} /\ msg' = msg /\ pc = "deliver" /\ pc' = pc
    BY <1>4 DEF DeliverDone, DeliverTurn
  <2> QED
    BY <1>0, <1>4, <2>1, DeliverDoneQueues, PassedOverStep DEF PassedOver
<1> QED
  BY <1>1, <1>2, <1>3, <1>4

LEMMA AskOut ==
  ASSUME QueueInv, CtxInv, ChanInv, OutInv, NEW m \in Mail,
         MatchAsk(m) \/ DeliverAsk(m)
  PROVE  OutInv'
<1> USE DEF loopVars, queueVars, jobVars
<1>1. CASE ~InLoop'
  BY <1>1 DEF OutInv
<1>2. CASE InLoop'
  <2>1. /\ pc \in {"match", "deliver"} /\ pc' = pc /\ m \in todo /\ todo' = todo \ {m}
        /\ UNCHANGED <<matchq, deliverq, msg, jobs, lost>> /\ ~Waiting(ctx[m])
        /\ m \in (IF pc = "match" THEN matchq ELSE deliverq)
        /\ (Send("command", m) \/ Send("action", m))
    BY <1>2 DEF MatchAsk, DeliverAsk, MatchTurn, DeliverTurn, Abort, InLoop, QueueInv
  <2>2. ctx'[m].msgid = m /\ \A n \in Mail \ {m} : ctx'[n] = ctx[n]
    BY <2>1, MatchAskCtx, DeliverAskCtx DEF MatchAsk, DeliverAsk, MatchTurn, DeliverTurn
  <2>3. Queue \subseteq Mail /\ Queue' = Queue /\ InLoop /\ m \in Queue
    BY <2>1, QueueIsMail DEF Queue, InLoop
  <2>4. m \notin Waiters /\ Waiters' = Waiters \cup {m}
    <3>1. m # 0
      BY FetchAssumption DEF Mail
    <3>2. \A n \in Queue : Waiting(ctx'[n]) <=> Waiting(ctx[n]) \/ n = m
      BY <2>2, <2>3, <3>1 DEF Waiting
    <3> QED
      BY <2>1, <2>3, <3>2 DEF Waiters
  <2>5. AtHand' = AtHand
    <3>1. m \notin AtHand
      BY <2>1, AtHandIs
    <3>2. m \notin AtHand'
      BY <2>1 DEF AtHand, QueueInv
    <3>3. \A n \in Mail \ {m} : n \in AtHand' <=> n \in AtHand
      BY <2>1, <2>2, <2>3 DEF AtHand
    <3> QED
      BY <2>3, <3>1, <3>2, <3>3 DEF AtHand
  <2>6. \A n \in Queue' : ctx'[n].msgid \in {0, n}
    BY <2>2, <2>3 DEF OutInv
  <2> QED
    BY <2>1, <2>3, <2>4, <2>5, <2>6, AskedStep
<1> QED
  BY <1>1, <1>2

\* The top of the loop: the reply read is one a queued mail waits for.
LEMMA TopOut ==
  ASSUME QueueInv, ChanInv, OutInv, Top
  PROVE  OutInv'
<1> USE DEF loopVars, queueVars, jobVars
<1>1. /\ pc = "top" /\ pc' = "match" /\ todo' = matchq /\ InLoop
      /\ UNCHANGED <<matchq, deliverq, ctx, jobs, lost, toParent, wire>>
      /\ msg = NoMsg
  BY DEF Top, InLoop, ChanInv
<1>2. AtHand = {}
  BY <1>1 DEF AtHand
<1>3. /\ Queue' = Queue /\ Waiters' = Waiters /\ JobIds' = JobIds
  BY <1>1 DEF Queue, Waiters, JobIds
<1>4. CASE rd = <<>>
  <2>1. msg' = NoMsg /\ rd' = rd
    BY <1>4 DEF Top
  <2>2. AtHand' = {}
    BY <2>1 DEF AtHand
  <2> QED
    BY <1>1, <1>2, <1>3, <2>1, <2>2 DEF OutInv
<1>5. CASE rd # <<>>
  <2>1. msg' = Head(rd) /\ rd' = Tail(rd) /\ rd \in Seq(Reply) /\ NoRepeats(rd)
    BY <1>1, <1>5 DEF Top, ChanInv, OutInv
  <2>2. /\ Ids(rd') = Ids(rd) \ {msg'.id} /\ msg'.id \in Ids(rd) /\ NoRepeats(rd')
    BY <1>5, <2>1, IdsTail
  <2>3. msg' # NoMsg
    BY <1>5, <2>1, HeadTailProperties, NoMsgAssumption
  <2>4. msg'.id \in Waiters
    BY <1>1, <2>2 DEF OutInv, Partition
  <2>5. AtHand' = {msg'.id}
    BY <1>1, <1>3, <2>3, <2>4 DEF AtHand, Waiters, Queue
  <2>6. Partition(Ids(toParent), JobIds, lost, Ids(wire), Ids(rd) \ {msg'.id},
                  {msg'.id}, Waiters)
    BY <1>1, <1>2, <2>2 DEF OutInv, Partition
  <2> QED
    BY <1>1, <1>3, <2>2, <2>5, <2>6 DEF OutInv
<1> QED
  BY <1>4, <1>5

\* Replies enter the buffer.
LEMMA FillOut ==
  ASSUME QueueInv, ChanInv, OutInv, FlushFill \/ Poll
  PROVE  OutInv'
<1> USE DEF loopVars, queueVars, jobVars
<1>1. /\ UNCHANGED <<matchq, deliverq, ctx, jobs, lost, toParent, todo, msg>>
      /\ (UNCHANGED pc \/ (pc = "poll" /\ pc' = "top"))
      /\ rd' = rd \o wire /\ wire' = <<>>
  BY DEF FlushFill, Poll
<1>2. CASE InLoop
  <2>1. rd \in Seq(Reply) /\ wire \in Seq(Reply)
    BY <1>2 DEF ChanInv
  <2>2. Ids(rd) \cap Ids(wire) = {} /\ NoRepeats(rd) /\ NoRepeats(wire)
    BY <1>2 DEF OutInv, Partition
  <2>3. Ids(rd') = Ids(rd) \cup Ids(wire) /\ NoRepeats(rd')
    BY <1>1, <2>1, <2>2, IdsConcat
  <2>4. Ids(wire') = {} /\ NoRepeats(wire')
    BY <1>1, IdsEmpty
  <2>5. /\ Queue' = Queue /\ Waiters' = Waiters /\ JobIds' = JobIds
    BY <1>1 DEF Queue, Waiters, JobIds
  <2>6. AtHand' = AtHand
    BY <1>1, <2>5 DEF AtHand, QueueInv
  <2>7. Partition(Ids(toParent), JobIds, lost, {}, Ids(rd) \cup Ids(wire), AtHand, Waiters)
    BY <1>2 DEF OutInv, Partition
  <2> QED
    BY <1>1, <1>2, <2>3, <2>4, <2>5, <2>6, <2>7 DEF OutInv
<1>3. CASE ~InLoop
  BY <1>1, <1>3 DEF OutInv, InLoop
<1> QED
  BY <1>2, <1>3

\* The steps of the child that only go on to the next mail, pass or turn.
LEMMA MoveOut ==
  ASSUME QueueInv, CtxInv, ChanInv, ChanInv', OutInv, [Next]_vars,
         \/ \E m \in Mail : MatchBlocked(m) \/ DeliverBlocked(m)
         \/ MatchPassEnds \/ DeliverPassEnds
         \/ HandlerAgain \/ HandlerMail \/ HandlerBigMail \/ HandlerError
         \/ HandlerExit \/ HandlerBlocks \/ NoHandler
         \/ PollTimeout \/ ServerCloses \/ ServerAnswers \/ Stopped
         \/ UNCHANGED vars
  PROVE  OutInv'
<1> USE DEF loopVars, queueVars
<1>0. ChanKept /\ (InLoop' => InLoop)
  BY ChanQuiet, MsgStep
<1>a. CASE ~InLoop
  BY <1>0, <1>a DEF OutInv
<1>b. ASSUME InLoop, QueuesKept PROVE Queue' = Queue /\ Waiters' = Waiters
                        /\ \A n \in Queue' : ctx'[n].msgid \in {0, n}
  BY <1>b DEF QueuesKept, Queue, Waiters, OutInv
<1>1. ASSUME InLoop, NEW m \in Mail, MatchBlocked(m) \/ DeliverBlocked(m) PROVE OutInv'
  <2>1. /\ m \in todo /\ todo' = todo \ {m} /\ UNCHANGED <<pc, msg>> /\ QueuesKept
        /\ Waiting(ctx[m]) /\ ~HasReply(m) /\ m \in Queue
    BY <1>1 DEF MatchBlocked, DeliverBlocked, MatchTurn, DeliverTurn, QueuesKept,
                Queue, QueueInv
  <2>2. m \notin AtHand /\ m \notin AtHand'
    BY <1>1, <1>b, <2>1 DEF AtHand, HasReply, OutInv, Waiting, QueuesKept
  <2>3. \A n \in Queue \ {m} : n \in AtHand' <=> n \in AtHand
    BY <1>1, <1>b, <2>1 DEF AtHand, QueuesKept
  <2>4. AtHand' = AtHand
    BY <1>1, <1>b, <2>1, <2>2, <2>3 DEF AtHand
  <2> QED
    BY <1>0, <1>1, <1>b, <2>1, <2>4, SameStep DEF Same
<1>2. CASE InLoop /\ MatchPassEnds
  <2>1. /\ pc = "match" /\ pc' = "deliver" /\ todo = {} /\ todo' = deliverq
        /\ UNCHANGED msg /\ QueuesKept
    BY <1>2 DEF MatchPassEnds, QueuesKept
  <2>2. AtHand' = AtHand
    BY <2>1 DEF AtHand, QueuesKept, Queue
  <2> QED
    BY <1>0, <1>2, <1>b, <2>1, <2>2, SameStep DEF Same
<1>3. CASE InLoop /\ DeliverPassEnds
  <2>1. /\ pc = "deliver" /\ todo = {} /\ msg' = NoMsg /\ QueuesKept
    BY <1>3 DEF DeliverPassEnds, QueuesKept
  <2>2. AtHand' = AtHand
    BY <2>1 DEF AtHand
  <2> QED
    BY <1>0, <1>3, <1>b, <2>1, <2>2, SameStep DEF Same
<1>4. ASSUME InLoop, InLoop', QueuesKept, msg = NoMsg, msg' = NoMsg PROVE OutInv'
  BY <1>0, <1>4, <1>b, SameStep DEF Same, AtHand
<1>5. CASE /\ InLoop
           /\ \/ HandlerAgain \/ HandlerBigMail \/ HandlerError \/ HandlerExit
              \/ HandlerBlocks \/ NoHandler
  <2>1. pc = "fetch" /\ msg' = msg /\ QueuesKept
    BY <1>5, QuietSteps DEF HandlerAgain, HandlerBigMail, HandlerError, HandlerExit,
                            HandlerBlocks, NoHandler, CallsHandler
  <2> QED
    BY <1>4, <1>5, <2>1 DEF ChanInv, OutInv
<1>6. CASE InLoop /\ HandlerMail
  <2>1. pc = "fetch" /\ msg = NoMsg /\ msg' = NoMsg
    BY <1>6 DEF HandlerMail, CallsHandler, ChanInv
  <2>2. /\ idx + 1 \in Mail /\ Queue' = Queue \cup {idx + 1} /\ idx + 1 \notin Queue
        /\ ctx' = [ctx EXCEPT ![idx + 1] = NewCtx] /\ Queue \subseteq Mail
    BY <1>6, FetchAssumption, QueueIsMail DEF HandlerMail, Queue, QueueInv, Mail
  <2>3. /\ ctx'[idx + 1] = NewCtx
        /\ \A n \in Queue : ctx'[n] = ctx[n]
    BY <2>2 DEF CtxInv
  <2>4. Waiters' = Waiters /\ \A n \in Queue' : ctx'[n].msgid \in {0, n}
    BY <1>6, <2>2, <2>3, NewCtxGood DEF Waiters, OutInv, Waiting
  <2>5. AtHand' = AtHand
    BY <2>1 DEF AtHand
  <2> QED
    BY <1>0, <2>4, <2>5, SameStep DEF Same
<1>7. CASE PollTimeout \/ ServerCloses
  BY <1>7 DEF PollTimeout, ServerCloses, Abort, OutInv, InLoop
<1>8. CASE InLoop /\ (ServerAnswers \/ Stopped \/ UNCHANGED vars)
  <2>1. UNCHANGED <<pc, todo, msg>> /\ QueuesKept
    BY <1>8, QuietSteps DEF ServerAnswers, Stopped, vars
  <2>2. AtHand' = AtHand
    BY <2>1 DEF AtHand, QueuesKept, Queue
  <2> QED
    BY <1>0, <1>8, <1>b, <2>1, <2>2, SameStep DEF Same
<1> QED
  BY <1>a, <1>1, <1>2, <1>3, <1>5, <1>6, <1>7, <1>8

\* The parent takes a request up, or answers it at once.
LEMMA ParentOut ==
  ASSUME ChanInv, OutInv, ParentReads
  PROVE  OutInv'
<1> USE DEF loopVars, queueVars
<1> DEFINE r == Head(toParent)
<1>1. /\ UNCHANGED <<pc, matchq, deliverq, ctx, todo, msg, lost, rd>>
      /\ toParent # <<>> /\ toParent' = Tail(toParent)
  BY DEF ParentReads
<1>2. CASE ~InLoop
  BY <1>1, <1>2 DEF OutInv, InLoop
<1>3. CASE InLoop
  <2>1. /\ toParent \in Seq(Request) /\ NoRepeats(toParent) /\ r \in Request
    BY <1>1, <1>3, HeadTailProperties DEF ChanInv, OutInv
  <2>2. /\ Ids(toParent') = Ids(toParent) \ {r.id} /\ r.id \in Ids(toParent)
        /\ NoRepeats(toParent')
    BY <1>1, <2>1, IdsTail
  <2>3. /\ Queue' = Queue /\ Waiters' = Waiters /\ AtHand' = AtHand
    BY <1>1 DEF Queue, Waiters, AtHand
  <2>4. r.what # "exit" /\ r.id \in Mail
    BY <2>1 DEF Request
  <2> HIDE DEF r
  <2>5. CASE jobs' = jobs \cup {r} /\ UNCHANGED wire
    <3>1. JobIds' = JobIds \cup {r.id}
      BY <2>5 DEF JobIds
    <3>2. r.id \notin JobIds
      BY <1>3, <2>2 DEF OutInv, Partition
    <3>3. \A j, k \in jobs' : j.id = k.id => j = k
      BY <1>3, <2>5, <3>2 DEF OutInv, JobIds
    <3>4. Partition(Ids(toParent) \ {r.id}, JobIds \cup {r.id}, lost, Ids(wire),
                    Ids(rd), AtHand, Waiters)
      BY <1>3, <2>2 DEF OutInv, Partition
    <3> QED
      BY <1>1, <1>3, <2>2, <2>3, <2>5, <3>1, <3>3, <3>4 DEF OutInv
  <2>6. CASE UNCHANGED jobs /\ Answer(Done(r.id, DELIVER_FAILURE, FALSE))
    <3>1. /\ Done(r.id, DELIVER_FAILURE, FALSE) \in Reply
          /\ Done(r.id, DELIVER_FAILURE, FALSE).id = r.id
      <4>1. DELIVER_FAILURE \in 0 .. 2 /\ FALSE \in BOOLEAN
        BY DEF DELIVER_FAILURE
      <4> QED
        BY <2>4, <4>1, DoneTyped
    <3>2. wire \in Seq(Reply) /\ NoRepeats(wire) /\ r.id \notin Ids(wire)
      BY <1>3, <2>2 DEF ChanInv, OutInv, Partition
    <3>3. wire' = Append(wire, Done(r.id, DELIVER_FAILURE, FALSE))
      BY <1>3, <2>6 DEF Answer, InLoop
    <3>4. Ids(wire') = Ids(wire) \cup {r.id} /\ NoRepeats(wire')
      <4> DEFINE d == Done(r.id, DELIVER_FAILURE, FALSE)
      <4>1. d \in Reply /\ d.id = r.id /\ wire' = Append(wire, d)
        BY <3>1, <3>3
      <4> HIDE DEF d
      <4>2. Ids(Append(wire, d)) = Ids(wire) \cup {d.id}
            /\ NoRepeats(Append(wire, d))
        BY <3>2, <4>1, IdsAppend
      <4> QED
        BY <4>1, <4>2
    <3>5. Partition(Ids(toParent) \ {r.id}, JobIds, lost, Ids(wire) \cup {r.id},
                    Ids(rd), AtHand, Waiters)
      BY <1>3, <2>2 DEF OutInv, Partition
    <3>6. JobIds' = JobIds
      BY <2>6 DEF JobIds
    <3> QED
      BY <1>1, <1>3, <2>2, <2>3, <2>6, <3>4, <3>5, <3>6 DEF OutInv
  <2> QED
    BY <2>4, <2>5, <2>6 DEF ParentReads, r
<1> QED
  BY <1>2, <1>3

\* A deliver child answers, or dies without an answer.
LEMMA JobOut ==
  ASSUME ChanInv, OutInv, NEW j \in jobs, JobEnds(j) \/ JobDies(j)
  PROVE  OutInv'
<1> USE DEF loopVars, queueVars, ioVars
<1>1. /\ UNCHANGED <<pc, matchq, deliverq, ctx, todo, msg, toParent, rd>>
      /\ jobs' = jobs \ {j} /\ j.id \in Mail
  BY DEF JobEnds, JobDies, ChanInv, Request
<1>2. CASE ~InLoop
  BY <1>1, <1>2 DEF OutInv, InLoop
<1>3. CASE InLoop
  <2>1. /\ Queue' = Queue /\ Waiters' = Waiters /\ AtHand' = AtHand
    BY <1>1 DEF Queue, Waiters, AtHand
  <2>2. JobIds' = JobIds \ {j.id} /\ j.id \in JobIds
    BY <1>1, <1>3 DEF JobIds, OutInv
  <2>3. \A i, k \in jobs' : i.id = k.id => i = k
    BY <1>1, <1>3 DEF OutInv
  <2>4. CASE JobEnds(j)
    <3>1. PICK e \in 0 .. 2 : Answer(Done(j.id, e, TRUE))
      <4>1. /\ DELIVER_SUCCESS \in 0 .. 2 /\ DELIVER_FAILURE \in 0 .. 2
            /\ {MATCH_FALSE, MATCH_TRUE, MATCH_ERROR} \subseteq 0 .. 2
        BY DEF DELIVER_SUCCESS, DELIVER_FAILURE, MATCH_FALSE, MATCH_TRUE, MATCH_ERROR
      <4>2. CASE \E e \in {MATCH_FALSE, MATCH_TRUE, MATCH_ERROR} :
                   Answer(Done(j.id, e, TRUE))
        BY <4>1, <4>2
      <4>3. CASE \/ Answer(Done(j.id, DELIVER_SUCCESS, TRUE))
                 \/ Answer(Done(j.id, DELIVER_FAILURE, TRUE))
        BY <4>1, <4>3
      <4> QED
        BY <2>4, <4>2, <4>3 DEF JobEnds
    <3>2. UNCHANGED lost /\ wire' = Append(wire, Done(j.id, e, TRUE))
      BY <1>3, <2>4, <3>1 DEF JobEnds, Answer, InLoop
    <3>3. Done(j.id, e, TRUE) \in Reply /\ Done(j.id, e, TRUE).id = j.id
      BY <1>1, DoneTyped
    <3>4. wire \in Seq(Reply) /\ NoRepeats(wire) /\ j.id \notin Ids(wire)
      BY <1>3, <2>2 DEF ChanInv, OutInv, Partition
    <3>5. Ids(wire') = Ids(wire) \cup {j.id} /\ NoRepeats(wire')
      <4> DEFINE d == Done(j.id, e, TRUE)
      <4>1. d \in Reply /\ d.id = j.id /\ wire' = Append(wire, d)
        BY <3>2, <3>3
      <4> HIDE DEF d
      <4>2. Ids(Append(wire, d)) = Ids(wire) \cup {d.id}
            /\ NoRepeats(Append(wire, d))
        BY <3>4, <4>1, IdsAppend
      <4> QED
        BY <4>1, <4>2
    <3>6. Partition(Ids(toParent), JobIds \ {j.id}, lost, Ids(wire) \cup {j.id},
                    Ids(rd), AtHand, Waiters)
      BY <1>3, <2>2 DEF OutInv, Partition
    <3> QED
      BY <1>1, <1>3, <2>1, <2>2, <2>3, <3>2, <3>5, <3>6 DEF OutInv
  <2>5. CASE JobDies(j)
    <3>1. lost' = lost \cup {j.id} /\ UNCHANGED wire
      BY <2>5 DEF JobDies
    <3>2. Partition(Ids(toParent), JobIds \ {j.id}, lost \cup {j.id}, Ids(wire),
                    Ids(rd), AtHand, Waiters)
      BY <1>3, <2>2 DEF OutInv, Partition
    <3> QED
      BY <1>1, <1>3, <2>1, <2>2, <2>3, <3>1, <3>2 DEF OutInv
  <2> QED
    BY <2>4, <2>5
<1> QED
  BY <1>2, <1>3

LEMMA OutStep ==
  QueueInv /\ QueueInv' /\ CtxInv /\ ChanInv /\ ChanInv' /\ OutInv /\ [Next]_vars
    => OutInv'
<1> SUFFICES ASSUME QueueInv, QueueInv', CtxInv, ChanInv, ChanInv', OutInv, [Next]_vars
             PROVE  OutInv'
  OBVIOUS
<1>1. CASE Finish \/ AwaitExit
  BY <1>1 DEF Finish, AwaitExit, OutInv, InLoop
<1> QED
  BY <1>1, TopOut, FillOut, MoveOut, PassOut, AskOut, ParentOut, JobOut
     DEF Next, ChildStep, JobStep

\* No request is lost sight of, answered twice or answered to another mail, and
\* no reply is thrown away while its mail waits for it (child-fetch.c:387,
\* mail-state.c:67-71, 277-281), whatever order the answers come in.
THEOREM RequestsAccounted == Spec => []OneOutstanding
<1>1. OutInv /\ QueueInv => OneOutstanding
  <2> SUFFICES ASSUME OutInv, QueueInv, InLoop PROVE OneOutstanding
    BY DEF OneOutstanding
  <2>1. /\ Places[1] = Ids(toParent) /\ Places[2] = JobIds /\ Places[3] = lost
        /\ Places[4] = Ids(wire) /\ Places[5] = Ids(rd) /\ Places[6] = AtHand
    BY DEF Places, JobIds
  <2>2. \A k \in 1 .. 6 : k = 1 \/ k = 2 \/ k = 3 \/ k = 4 \/ k = 5 \/ k = 6
    OBVIOUS
  <2> HIDE DEF Places
  <2>3. \A k, l \in 1 .. 6 : k # l => Places[k] \cap Places[l] = {}
    BY <2>1, <2>2 DEF OutInv, Partition
  <2>4. \A m \in Mail : (\E k \in 1 .. 6 : m \in Places[k]) <=> m \in Waiters
    BY <2>1, <2>2 DEF OutInv, Partition
  <2>5. \A m \in Mail : m \in Waiters <=> m \in Queue /\ ctx[m].msgid # 0
    BY DEF Waiters, Waiting
  <2> QED
    BY <2>3, <2>4, <2>5 DEF OneOutstanding, OutInv
<1> QED
  BY <1>1, QueueInit, QueueStep, CtxInit, CtxStep, ChanInit, ChanStep, OutInit,
     OutStep, PTL DEF Spec

-----------------------------------------------------------------------------
(* Layer 7: the deliveries asked for and made.                             *)

Msgs(s) == {s[i] : i \in DOMAIN s}

\* An action the parent or a deliver child has in hand is the one at the head
\* of its mail's queue of deliveries.
ActionsInv ==
  \A r \in Msgs(toParent) \cup jobs : r.what = "action" => ctx[r.id].dqueue # <<>>

DidInv ==
  /\ need \in [Mail -> Seq(Delivery)]
  /\ did \in [Mail -> Seq(Delivery)]
  /\ commits \in [Mail -> Decision \cup {"none"}]

LEMMA MsgsAppend ==
  ASSUME NEW S, NEW s \in Seq(S), NEW e \in S
  PROVE  Msgs(Append(s, e)) = Msgs(s) \cup {e}
<1> DEFINE t == Append(s, e)
<1>1. /\ DOMAIN t = 1 .. (Len(s) + 1) /\ DOMAIN s = 1 .. Len(s) /\ Len(s) \in Nat
      /\ \A i \in 1 .. Len(s) : t[i] = s[i]
      /\ t[Len(s) + 1] = e
  BY AppendProperties, LenProperties
<1> HIDE DEF t
<1>2. Msgs(t) = Msgs(s) \cup {e}
  BY <1>1 DEF Msgs
<1> QED
  BY <1>2 DEF t

LEMMA MsgsTail ==
  ASSUME NEW S, NEW s \in Seq(S), s # <<>>
  PROVE  Msgs(Tail(s)) \subseteq Msgs(s) /\ Head(s) \in Msgs(s)
<1> DEFINE t == Tail(s)
<1>1. /\ DOMAIN t = 1 .. (Len(s) - 1) /\ DOMAIN s = 1 .. Len(s) /\ Len(s) \in Nat \ {0}
      /\ \A i \in 1 .. (Len(s) - 1) : t[i] = s[i + 1]
      /\ Head(s) = s[1]
  BY HeadTailProperties, LenProperties, EmptySeq
<1> HIDE DEF t
<1>2. Msgs(t) \subseteq Msgs(s) /\ Head(s) \in Msgs(s)
  BY <1>1 DEF Msgs
<1> QED
  BY <1>2 DEF t

LEMMA DidInit == Init => DidInv /\ ActionsInv
  BY EmptySeq DEF Init, DidInv, ActionsInv, Msgs

\* The requests in hand are none of a mail's whose context a pass replaces.
LEMMA NotInHand ==
  ASSUME ChanInv, OutInv, InLoop, NEW m \in Mail,
         m \notin Waiters \/ m \in AtHand
  PROVE  \A r \in Msgs(toParent) \cup jobs : r.what = "action" => r.id \in Mail \ {m}
<1>1. m \notin Ids(toParent) /\ m \notin JobIds
  BY DEF OutInv, Partition
<1>2. \A r \in Msgs(toParent) \cup jobs : r \in Request
  BY ElementOfSeq, LenProperties DEF ChanInv, Msgs
<1>3. \A r \in Msgs(toParent) : r.id \in Ids(toParent)
  BY DEF Msgs, Ids
<1>4. \A r \in jobs : r.id \in JobIds
  BY DEF JobIds
<1> QED
  BY <1>1, <1>2, <1>3, <1>4 DEF Request

LEMMA ActionsStep ==
  QueueInv /\ CtxInv /\ ChanInv /\ OutInv /\ ActionsInv /\ [Next]_vars => ActionsInv'
<1> SUFFICES ASSUME QueueInv, CtxInv, ChanInv, OutInv, ActionsInv, [Next]_vars
             PROVE  ActionsInv'
  OBVIOUS
<1> USE DEF loopVars, queueVars, ioVars, jobVars
<1>a. ASSUME UNCHANGED ctx,
             Msgs(toParent') \cup jobs' \subseteq Msgs(toParent) \cup jobs \cup {ExitReq}
      PROVE  ActionsInv'
  BY <1>a DEF ActionsInv, ExitReq
<1>b. ASSUME NEW m \in Mail, InLoop, m \notin Waiters \/ m \in AtHand, ChanKept,
             \A n \in Mail \ {m} : ctx'[n] = ctx[n]
      PROVE  ActionsInv'
  <2>1. Msgs(toParent') \cup jobs' = Msgs(toParent) \cup jobs
    BY <1>b DEF ChanKept, Msgs
  <2> QED
    BY <1>b, <2>1, NotInHand DEF ActionsInv
<1>1. ASSUME ChanKept, UNCHANGED ctx PROVE ActionsInv'
  BY <1>1, <1>a DEF ChanKept, Msgs
<1>2. ASSUME NEW m \in Mail, MatchReply(m) \/ MatchItem(m) PROVE ActionsInv'
  <2>2. m \in Queue /\ InLoop /\ ChanKept /\ (Waiting(ctx[m]) => HasReply(m)) /\ m \in todo
    BY <1>2, ChanQuiet DEF MatchReply, MatchItem, MatchTurn, InLoop, QueueInv, Queue
  <2>3. m \notin Waiters \/ m \in AtHand
    BY <2>2 DEF Waiters, AtHand, HasReply, OutInv, Waiting
  <2> QED
    BY <1>2, <1>b, <2>2, <2>3, MatchReplyCtx, MatchItemCtx DEF MatchStepCtx
<1>3. ASSUME NEW m \in Mail, DeliverReply(m) \/ DeliverInChild(m) PROVE ActionsInv'
  <2>2. m \in Queue /\ InLoop /\ ChanKept /\ (Waiting(ctx[m]) => HasReply(m)) /\ m \in todo
    BY <1>3, ChanQuiet DEF DeliverReply, DeliverInChild, DeliverTurn, InLoop, QueueInv,
                           Queue
  <2>3. m \notin Waiters \/ m \in AtHand
    BY <2>2 DEF Waiters, AtHand, HasReply, OutInv, Waiting
  <2> QED
    BY <1>3, <1>b, <2>2, <2>3, DeliverReplyCtx, DeliverInChildCtx
<1>4. CASE HandlerMail
  <2>1. /\ idx + 1 \in Mail /\ idx + 1 \notin Queue /\ InLoop
        /\ ctx' = [ctx EXCEPT ![idx + 1] = NewCtx]
    BY <1>4, FetchAssumption DEF HandlerMail, CallsHandler, InLoop, Queue, QueueInv, Mail
  <2>2. \A n \in Mail \ {idx + 1} : ctx'[n] = ctx[n]
    BY <2>1 DEF CtxInv
  <2>3. idx + 1 \notin Waiters
    BY <2>1 DEF Waiters
  <2> QED
    BY <1>4, <1>b, <2>1, <2>2, <2>3, ChanQuiet
<1>5. ASSUME NEW m \in Mail, MatchAsk(m) PROVE ActionsInv'
  <2>1. CASE UNCHANGED ctx /\ UNCHANGED ioVars
    BY <1>5, <1>1, <2>1 DEF MatchAsk, ChanKept
  <2>2. CASE Send("command", m)
    <3> DEFINE r == [what |-> "command", id |-> m]
    <3>1. /\ toParent \in Seq(Request) /\ r \in Request /\ InLoop /\ r.what = "command"
          /\ toParent' = Append(toParent, r) /\ jobs' = jobs
          /\ m \in Queue /\ m \notin Waiters
      BY <1>5, <2>2 DEF MatchAsk, MatchTurn, Send, ChanInv, InLoop, Request, QueueInv,
                        Queue, Waiters
    <3> HIDE DEF r
    <3>2. Msgs(toParent') = Msgs(toParent) \cup {r}
      BY <3>1, MsgsAppend
    <3>3. \A n \in Mail \ {m} : ctx'[n] = ctx[n]
      BY <1>5, MatchAskCtx
    <3>4. \A q \in Msgs(toParent) \cup jobs : q.what = "action" => q.id \in Mail \ {m}
      BY <3>1, NotInHand
    <3> QED
      BY <3>1, <3>2, <3>3, <3>4 DEF ActionsInv
  <2> QED
    BY <1>5, <2>1, <2>2 DEF MatchAsk
<1>6. ASSUME NEW m \in Mail, DeliverAsk(m) PROVE ActionsInv'
  <2> DEFINE r == [what |-> "action", id |-> m]
  <2>1. /\ toParent \in Seq(Request) /\ r \in Request /\ InLoop /\ r.id = m
        /\ toParent' = Append(toParent, r) /\ jobs' = jobs
        /\ m \in Queue /\ m \notin Waiters
    BY <1>6 DEF DeliverAsk, DeliverTurn, Send, ChanInv, InLoop, Request, QueueInv,
                Queue, Waiters
  <2> HIDE DEF r
  <2>2. Msgs(toParent') = Msgs(toParent) \cup {r}
    BY <2>1, MsgsAppend
  <2>3. ctx'[m].dqueue # <<>> /\ \A n \in Mail \ {m} : ctx'[n] = ctx[n]
    BY <1>6, DeliverAskCtx
  <2>4. \A q \in Msgs(toParent) \cup jobs : q.what = "action" => q.id \in Mail \ {m}
    BY <2>1, NotInHand
  <2> QED
    BY <2>1, <2>2, <2>3, <2>4 DEF ActionsInv
<1>7. CASE Finish
  <2>1. /\ UNCHANGED ctx /\ jobs' = jobs /\ toParent' = Append(toParent, ExitReq)
        /\ toParent \in Seq(Request \cup {ExitReq})
    BY <1>7 DEF Finish, ChanInv
  <2>2. Msgs(toParent') = Msgs(toParent) \cup {ExitReq}
    BY <2>1, MsgsAppend
  <2> QED
    BY <1>a, <2>1, <2>2
<1>8. CASE ParentReads
  <2>1. /\ UNCHANGED ctx /\ toParent # <<>> /\ toParent' = Tail(toParent)
        /\ toParent \in Seq(Request \cup {ExitReq})
        /\ jobs' \subseteq jobs \cup {Head(toParent)}
    BY <1>8 DEF ParentReads, ChanInv
  <2>2. Msgs(toParent') \subseteq Msgs(toParent) /\ Head(toParent) \in Msgs(toParent)
    BY <2>1, MsgsTail
  <2> QED
    BY <1>a, <2>1, <2>2
<1>9. CASE JobStep
  <2>1. UNCHANGED <<ctx, toParent>> /\ jobs' \subseteq jobs
    BY <1>9 DEF JobStep, JobEnds, JobDies
  <2> QED
    BY <1>a, <2>1 DEF Msgs
<1>10. CASE Top \/ FlushFill \/ Poll \/ AwaitExit
  <2>1. UNCHANGED <<ctx, toParent, jobs>>
    BY <1>10 DEF Top, FlushFill, Poll, AwaitExit
  <2> QED
    BY <1>a, <2>1 DEF Msgs
<1>11. ASSUME NEW m \in Mail, MatchDone(m) \/ DeliverDone(m) PROVE ActionsInv'
  BY <1>1, <1>11, ChanQuiet, MatchDoneQueues, DeliverDoneQueues
<1>12. ASSUME \/ MatchPassEnds \/ DeliverPassEnds
              \/ HandlerAgain \/ HandlerBigMail \/ HandlerError \/ HandlerExit
              \/ HandlerBlocks \/ NoHandler
              \/ PollTimeout \/ ServerCloses \/ ServerAnswers \/ Stopped
              \/ UNCHANGED vars
              \/ \E m \in Mail : MatchBlocked(m) \/ DeliverBlocked(m)
       PROVE  ActionsInv'
  BY <1>1, <1>12, QuietSteps, ChanQuiet DEF QueuesKept
<1> QED
  BY <1>2, <1>3, <1>4, <1>5, <1>6, <1>7, <1>8, <1>9, <1>10, <1>11, <1>12
     DEF Next, ChildStep

\* The rest of the steps leave the deliveries and the commits alone.
DidKept == UNCHANGED <<need, did, commits>>

\* The end of an item: what a matched rule asks for is added.
LEMMA OutcomeDid ==
  ASSUME CtxInv, DidInv, NEW m \in Mail, NEW c, GoodCtx(c), c.item # 0,
         MatchOutcome(m, c), UNCHANGED <<did, commits>>
  PROVE  DidInv'
<1>1. PICK o \in AfterItem(c) : MatchMoved(m, o) \/ MatchFails(m)
  BY DEF MatchOutcome
<1>2. o.ctx.dqueue \in Seq(Delivery)
  BY AfterItemGood DEF GoodCtx, CtxType
<1>3. need[m] \o o.ctx.dqueue \in Seq(Delivery)
  BY <1>2, ConcatProperties DEF DidInv
<1>4. need' = need \/ need' = [need EXCEPT ![m] = @ \o o.ctx.dqueue]
  BY <1>1 DEF MatchMoved, MatchFails
<1> QED
  BY <1>3, <1>4 DEF DidInv

\* A delivery is made.
LEMMA MadeDid ==
  ASSUME CtxInv, DidInv, NEW m \in Mail, ctx[m].dqueue # <<>>,
         did' = [did EXCEPT ![m] = Append(@, CurrentDelivery(ctx[m]))],
         UNCHANGED <<need, commits>>
  PROVE  DidInv'
<1>1. ctx[m].dqueue \in Seq(Delivery)
  BY DEF CtxInv, CtxType
<1>2. CurrentDelivery(ctx[m]) \in Delivery
  BY <1>1, HeadTailProperties DEF CurrentDelivery
<1>3. Append(did[m], CurrentDelivery(ctx[m])) \in Seq(Delivery)
  BY <1>2, AppendProperties DEF DidInv
<1> QED
  BY <1>3 DEF DidInv

LEMMA DidStep ==
  QueueInv /\ CtxInv /\ ChanInv /\ ActionsInv /\ DidInv /\ [Next]_vars => DidInv'
<1> SUFFICES ASSUME QueueInv, CtxInv, ChanInv, ActionsInv, DidInv, [Next]_vars
             PROVE  DidInv'
  OBVIOUS
<1> USE DEF loopVars, queueVars, countVars
<1>a. ASSUME DidKept PROVE DidInv'
  BY <1>a DEF DidKept, DidInv
<1>1. ASSUME NEW m \in Mail, MatchReply(m) PROVE DidInv'
  <2> DEFINE c == [ctx[m] EXCEPT !.msgid = 0]
             this == (msg.error = MATCH_TRUE)
  <2>1. UNCHANGED <<did, commits>> /\ m \in matchq /\ Waiting(ctx[m])
    BY <1>1 DEF MatchReply, MatchTurn, QueueInv
  <2>2. CASE UNCHANGED need
    BY <1>a, <2>1, <2>2 DEF DidKept
  <2>3. CASE this \in BOOLEAN /\ MatchOutcome(m, WithResult(c, this))
    <3>1. GoodCtx(ctx[m]) /\ ctx[m].item # 0
      BY <2>1 DEF CtxInv
    <3>2. GoodCtx(c) /\ c.item # 0
      BY <3>1, ReplyGood
    <3> HIDE DEF c, this
    <3>3. GoodCtx(WithResult(c, this)) /\ WithResult(c, this).item # 0
      BY <2>3, <3>2, WithResultGood
    <3> QED
      BY <2>1, <2>3, <3>3, OutcomeDid
  <2> QED
    BY <1>1, <2>2, <2>3 DEF MatchReply, MatchFails
<1>2. ASSUME NEW m \in Mail, MatchItem(m) PROVE DidInv'
  <2> DEFINE c == Started(ctx[m])
  <2>1. /\ UNCHANGED <<did, commits>> /\ ctx[m].rule # NoRule /\ GoodCtx(ctx[m])
    BY <1>2 DEF MatchItem, RulesetOver, CtxInv
  <2>2. GoodCtx(c) /\ c.item # 0
    BY <2>1, StartedGood
  <2>3. CASE MatchOutcome(m, c)
    BY <2>1, <2>2, <2>3, OutcomeDid
  <2>4. CASE \E this \in TestResults(c) : MatchOutcome(m, WithResult(c, this))
    <3>1. PICK this \in TestResults(c) : MatchOutcome(m, WithResult(c, this))
      BY <2>4
    <3>2. c.matched \in BOOLEAN
      BY <2>2 DEF GoodCtx, CtxType
    <3>3. this \in BOOLEAN
      BY <3>1, <3>2 DEF TestResults
    <3> HIDE DEF c
    <3>4. GoodCtx(WithResult(c, this)) /\ WithResult(c, this).item # 0
      BY <2>2, <3>3, WithResultGood
    <3> QED
      BY <2>1, <3>1, <3>4, OutcomeDid
  <2>5. CASE MatchFails(m)
    BY <1>a, <2>1, <2>5 DEF MatchFails, DidKept
  <2> QED
    BY <1>2, <2>3, <2>4, <2>5 DEF MatchItem
<1>3. ASSUME NEW m \in Mail, MatchDone(m) PROVE DidInv'
  <2> DEFINE d == IF KeepAll THEN "keep" ELSE FinalDecision(ctx[m])
  <2>1. d \in Decision
    BY DEF CtxInv, CtxType, FinalDecision, Decision
  <2>2. commits' = commits \/ commits' = [commits EXCEPT ![m] = d]
    BY <1>3 DEF MatchDone
  <2>3. UNCHANGED <<need, did>>
    BY <1>3 DEF MatchDone, MatchFails
  <2> HIDE DEF d
  <2> QED
    BY <2>1, <2>2, <2>3 DEF DidInv
<1>4. ASSUME NEW m \in Mail, DeliverInChild(m) PROVE DidInv'
  <2>1. ctx[m].dqueue # <<>> /\ UNCHANGED <<need, commits>>
    BY <1>4 DEF DeliverInChild
  <2>2. \/ did' = did
        \/ did' = [did EXCEPT ![m] = Append(@, CurrentDelivery(ctx[m]))]
    BY <1>4 DEF DeliverInChild
  <2> QED
    BY <1>a, <2>1, <2>2, MadeDid DEF DidKept
<1>5. ASSUME NEW j \in jobs, JobEnds(j) \/ JobDies(j) PROVE DidInv'
  <2>1. j.id \in Mail /\ UNCHANGED <<need, commits>>
    BY <1>5 DEF JobEnds, JobDies, ChanInv, Request
  <2>2. \/ did' = did
        \/ /\ j.what = "action"
           /\ did' = [did EXCEPT ![j.id] = Append(@, CurrentDelivery(ctx[j.id]))]
    BY <1>5 DEF JobEnds, JobDies
  <2>3. j.what = "action" => ctx[j.id].dqueue # <<>>
    BY DEF ActionsInv
  <2> QED
    BY <1>a, <2>1, <2>2, <2>3, MadeDid DEF DidKept
<1>6. ASSUME NEW m \in Mail,
             \/ MatchBlocked(m) \/ MatchAsk(m) \/ DeliverBlocked(m) \/ DeliverReply(m)
             \/ DeliverDone(m) \/ DeliverAsk(m)
      PROVE  DidKept
  BY <1>6 DEF MatchBlocked, MatchAsk, DeliverBlocked, DeliverReply, DeliverDone,
              DeliverAsk, DidKept
<1>7. CASE \/ Top \/ FlushFill \/ MatchPassEnds \/ DeliverPassEnds \/ Poll \/ Finish
           \/ AwaitExit \/ PollTimeout \/ ServerCloses
  BY <1>7, <1>a DEF Top, FlushFill, MatchPassEnds, DeliverPassEnds, Poll, Finish,
                    AwaitExit, PollTimeout, ServerCloses, DidKept
<1>8. CASE \/ HandlerAgain \/ HandlerMail \/ HandlerBigMail \/ HandlerError
           \/ HandlerExit \/ HandlerBlocks \/ NoHandler
  BY <1>8, <1>a DEF HandlerAgain, HandlerMail, HandlerBigMail, HandlerError,
                    HandlerExit, HandlerBlocks, NoHandler, DidKept
<1>9. CASE ServerAnswers \/ ParentReads \/ Stopped \/ UNCHANGED vars
  BY <1>9, <1>a DEF ServerAnswers, ParentReads, Stopped, vars, DidKept
<1> QED
  BY <1>a, <1>1, <1>2, <1>3, <1>4, <1>5, <1>6, <1>7, <1>8, <1>9
     DEF Next, ChildStep, JobStep

\* Type correctness: in particular no context leaves the ruleset, no delivery
\* is started from an empty queue (mail-state.c:291) and no answer of the parent
\* reaches the loop out of its range.
THEOREM TypeCorrect == Spec => []TypeOK
<1>1. QueueInv /\ CtxInv /\ ChanInv /\ DidInv => TypeOK
  <2> SUFFICES ASSUME QueueInv, CtxInv, ChanInv, DidInv PROVE TypeOK
    OBVIOUS
  <2>1. idx \in 0 .. MaxMails /\ bigDrops \in 0 .. MaxMails
    BY FetchAssumption DEF QueueInv
  <2>2. matchq \subseteq Mail /\ deliverq \subseteq Mail
    BY QueueIsMail
  <2> QED
    BY <2>1, <2>2 DEF TypeOK, QueueInv, CtxInv, ChanInv, DidInv
<1> QED
  BY <1>1, QueueInit, QueueStep, CtxInit, CtxStep, ChanInit, ChanStep, OutInit,
     OutStep, DidInit, ActionsStep, DidStep, PTL DEF Spec

-----------------------------------------------------------------------------
(* The promise made to the owner of the mail: FetchLoop implements         *)
(* MailPromise, whatever order the answers of the parent come in, and also *)
(* when deliver children work on after the fetch has ended.                *)

\* Of the deliveries asked for a mail, those in q are still to be made.
Owed(m, q) == need[m] = did[m] \o q

\* A mail has nothing to its name before it is enqueued.  While the loop runs
\* nothing is owed to a mail whose rules are walked, and to one in the deliver
\* queue what is in its own queue, unless a deliver child may have made the first
\* of that.
MailOk(m) ==
  /\ m \notin 1 .. idx => need[m] = <<>> /\ did[m] = <<>> /\ commits[m] = "none"
  /\ InLoop =>
       /\ m \in Queue => commits[m] = "none"
       /\ m \in matchq => ctx[m].dqueue = <<>> /\ Owed(m, <<>>)
       /\ m \in deliverq /\ ~Waiting(ctx[m]) => Owed(m, ctx[m].dqueue)

\* An action the parent or a deliver child has in hand is the first delivery
\* owed to its mail, and is not made yet, also when the loop has ended.
RequestOk(r) ==
  /\ r.what = "command" => (InLoop => r.id \in matchq)
  /\ r.what = "action" =>
       /\ InLoop => r.id \in deliverq
       /\ r.id \in 1 .. idx /\ commits[r.id] = "none"
       /\ ctx[r.id].dqueue # <<>> /\ Owed(r.id, ctx[r.id].dqueue)

\* The delivery that an answer reports as made is made.
ReplyOk(r) ==
  r.error = DELIVER_SUCCESS /\ r.id \in deliverq =>
    ctx[r.id].dqueue # <<>> /\ Owed(r.id, Tail(ctx[r.id].dqueue))

\* The requests in hand are of different mails.
Unique ==
  /\ NoRepeats(toParent)
  /\ \A j, k \in jobs : j.id = k.id => j = k
  /\ Ids(toParent) \cap JobIds = {}

OwedInv ==
  /\ Unique
  /\ \A m \in Mail : MailOk(m)
  /\ \A r \in Msgs(toParent) \cup jobs : RequestOk(r)
  /\ InLoop => \A r \in Msgs(wire) \cup Msgs(rd) : ReplyOk(r)
  /\ InLoop /\ AtHand # {} => ReplyOk(msg)

\* While the loop runs nothing has failed, and a mail is in a queue until it is
\* committed.
RunInv ==
  InLoop => ~aborted /\ \A m \in 1 .. idx : m \in Queue \/ commits[m] # "none"

\* All that is known of the other variables.
BaseInv == QueueInv /\ CountInv /\ CtxInv /\ ChanInv /\ OutInv /\ ActionsInv /\ DidInv

-----------------------------------------------------------------------------
(* Sequences.                                                              *)

\* The first of what is owed is made.
LEMMA FirstMade ==
  ASSUME NEW S, NEW x \in Seq(S), NEW y \in Seq(S), y # <<>>
  PROVE  /\ x \o y = Append(x, Head(y)) \o Tail(y)
         /\ Len(x) < Len(x \o y)
         /\ (x \o y)[Len(x) + 1] = Head(y)
<1>1. /\ Head(y) \in S /\ Tail(y) \in Seq(S) /\ Len(Tail(y)) = Len(y) - 1
      /\ \A i \in 1 .. Len(Tail(y)) : Tail(y)[i] = y[i + 1]
      /\ Len(y) \in Nat \ {0} /\ Len(x) \in Nat /\ Head(y) = y[1]
  BY HeadTailProperties, EmptySeq, LenProperties
<1> DEFINE a == Append(x, Head(y))
           t == Tail(y)
           l == x \o y
<1>2. /\ a \in Seq(S) /\ Len(a) = Len(x) + 1 /\ a[Len(x) + 1] = y[1]
      /\ \A i \in 1 .. Len(x) : a[i] = x[i]
  BY <1>1, AppendProperties
<1>3. /\ l \in Seq(S) /\ Len(l) = Len(x) + Len(y)
      /\ \A i \in 1 .. Len(x) + Len(y) : l[i] = IF i <= Len(x) THEN x[i] ELSE y[i - Len(x)]
  BY ConcatProperties
<1>4. t \in Seq(S) /\ Len(t) = Len(y) - 1 /\ \A i \in 1 .. Len(y) - 1 : t[i] = y[i + 1]
  BY <1>1
<1> HIDE DEF a, t, l
<1> DEFINE r == a \o t
<1>5. /\ r \in Seq(S) /\ Len(r) = Len(x) + Len(y)
      /\ \A i \in 1 .. Len(x) + Len(y) :
           r[i] = IF i <= Len(x) + 1 THEN a[i] ELSE t[i - (Len(x) + 1)]
  <2>1. /\ r \in Seq(S) /\ Len(r) = Len(a) + Len(t)
        /\ \A i \in 1 .. Len(a) + Len(t) : r[i] = IF i <= Len(a) THEN a[i] ELSE t[i - Len(a)]
    BY <1>2, <1>4, ConcatProperties
  <2> HIDE DEF r
  <2>2. Len(a) + Len(t) = Len(x) + Len(y)
    BY <1>1, <1>2, <1>4
  <2> QED
    BY <1>2, <2>1, <2>2
<1> HIDE DEF r
<1>6. \A i \in 1 .. Len(l) : l[i] = r[i]
  <2> SUFFICES ASSUME NEW i \in 1 .. Len(x) + Len(y) PROVE l[i] = r[i]
    BY <1>3
  <2>1. CASE i <= Len(x)
    <3>1. i \in 1 .. Len(x) /\ i <= Len(x) + 1
      BY <1>1, <2>1
    <3>2. l[i] = x[i] /\ r[i] = a[i] /\ a[i] = x[i]
      BY <1>2, <1>3, <1>5, <2>1, <3>1
    <3> QED
      BY <3>2
  <2>2. CASE i = Len(x) + 1
    BY <1>1, <1>2, <1>3, <1>5, <2>2
  <2>3. CASE i > Len(x) + 1
    <3>1. i - (Len(x) + 1) \in 1 .. Len(y) - 1 /\ (i - (Len(x) + 1)) + 1 = i - Len(x)
      BY <1>1, <2>3
    <3>2. t[i - (Len(x) + 1)] = y[i - Len(x)]
      BY <1>4, <3>1
    <3> QED
      BY <1>1, <1>3, <1>5, <2>3, <3>2
  <2> QED
    BY <1>1, <2>1, <2>2, <2>3
<1>7. l = r
  BY <1>3, <1>5, <1>6, SeqEqual
<1>8. Len(x) < Len(l) /\ l[Len(x) + 1] = y[1]
  BY <1>1, <1>3
<1> QED
  BY <1>1, <1>7, <1>8 DEF a, t, l, r

\* More is asked for.
LEMMA MoreAsked ==
  ASSUME NEW S, NEW x \in Seq(S), NEW y \in Seq(S), y # <<>>
  PROVE  Len(x \o y) > Len(x) /\ SubSeq(x \o y, 1, Len(x)) = x
<1>1. Len(x) \in Nat /\ Len(y) \in Nat \ {0} /\ Len(x \o y) = Len(x) + Len(y)
  BY LenProperties, EmptySeq, ConcatProperties
<1>2. CASE x = <<>>
  BY <1>1, <1>2, EmptySeq, SubSeqEmpty
<1>3. CASE x # <<>>
  <2>1. Len(x) \in Nat \ {0} /\ 1 \in 1 .. Len(x) /\ Len(x) \in 1 .. Len(x)
    BY <1>3, EmptySeq
  <2>2. SubSeq(x \o y, 1, Len(x)) = SubSeq(x, 1, Len(x))
    BY <2>1, SubSeqOfConcat1
  <2> QED
    BY <1>1, <2>2, SubSeqFull
<1> QED
  BY <1>2, <1>3

LEMMA MsgsConcat ==
  ASSUME NEW S, NEW s \in Seq(S), NEW u \in Seq(S)
  PROVE  Msgs(s \o u) \subseteq Msgs(s) \cup Msgs(u)
<1> DEFINE t == s \o u
<1>1. /\ DOMAIN t = 1 .. (Len(s) + Len(u)) /\ DOMAIN s = 1 .. Len(s)
      /\ DOMAIN u = 1 .. Len(u) /\ Len(s) \in Nat /\ Len(u) \in Nat
      /\ \A i \in 1 .. (Len(s) + Len(u)) :
           t[i] = IF i <= Len(s) THEN s[i] ELSE u[i - Len(s)]
  BY ConcatProperties, LenProperties
<1> HIDE DEF t
<1>2. Msgs(t) \subseteq Msgs(s) \cup Msgs(u)
  BY <1>1 DEF Msgs
<1> QED
  BY <1>2 DEF t

LEMMA MsgsEmpty == Msgs(<<>>) = {}
BY DEF Msgs

\* A message is of the type of its channel, and its mail among those named there.
LEMMA MsgsTyped ==
  ASSUME NEW S, NEW s \in Seq(S), NEW r \in Msgs(s)
  PROVE  r \in S /\ r.id \in Ids(s)
<1>1. PICK i \in DOMAIN s : r = s[i]
  BY DEF Msgs
<1>2. DOMAIN s = 1 .. Len(s)
  BY LenProperties
<1> QED
  BY <1>1, <1>2, ElementOfSeq DEF Ids

-----------------------------------------------------------------------------
(* What a step leaves alone.                                               *)

\* A step is not about this mail.
SameMail(n) ==
  /\ need'[n] = need[n] /\ did'[n] = did[n] /\ commits'[n] = commits[n]
  /\ ctx'[n] = ctx[n]
  /\ n \in matchq' <=> n \in matchq
  /\ n \in deliverq' <=> n \in deliverq
  /\ n \in 1 .. idx' <=> n \in 1 .. idx

LEMMA SameMailOk ==
  ASSUME NEW n, SameMail(n), InLoop' => InLoop
  PROVE  /\ MailOk(n) => MailOk(n)'
         /\ \A r : r.id = n => /\ RequestOk(r) => RequestOk(r)'
                               /\ ReplyOk(r) => ReplyOk(r)'
<1>1. MailOk(n) => MailOk(n)'
  BY DEF SameMail, MailOk, Owed, Queue
<1>2. ASSUME NEW r, r.id = n, RequestOk(r) PROVE RequestOk(r)'
  BY <1>2 DEF SameMail, RequestOk, Owed
<1>3. ASSUME NEW r, r.id = n, ReplyOk(r) PROVE ReplyOk(r)'
  BY <1>3 DEF SameMail, ReplyOk, Owed
<1> QED
  BY <1>1, <1>2, <1>3

LEMMA UniqueKept == ASSUME Unique, UNCHANGED <<toParent, jobs>> PROVE Unique'
BY DEF Unique, NoRepeats, Ids, JobIds

\* The mails named in the channels are mails.
LEMMA IdsTyped ==
  ASSUME ChanInv
  PROVE  /\ \A r \in Msgs(toParent) \cup jobs :
              /\ r \in Request \cup {ExitReq}
              /\ r.what \in {"action", "command"} => r.id \in Mail
              /\ r \in jobs => r.id \in Mail
         /\ InLoop => \A r \in Msgs(wire) \cup Msgs(rd) : r.id \in Mail
         /\ InLoop => \A r \in Msgs(toParent) : r.id \in Mail
<1>1. \A r \in Msgs(toParent) : r \in Request \cup {ExitReq}
  BY MsgsTyped DEF ChanInv
<1>2. \A r \in jobs : r \in Request
  BY DEF ChanInv
<1>3. \A r \in Request : r.id \in Mail
  BY DEF Request
<1>4. ExitReq.what = "exit"
  BY DEF ExitReq
<1>5. ASSUME InLoop, NEW r \in Msgs(wire) \cup Msgs(rd) PROVE r.id \in Mail
  <2>1. r \in Reply
    BY <1>5, MsgsTyped DEF ChanInv
  <2> QED
    BY <2>1 DEF Reply
<1>6. InLoop => \A r \in Msgs(toParent) : r \in Request
  BY MsgsTyped DEF ChanInv
<1> QED
  BY <1>1, <1>2, <1>3, <1>4, <1>5, <1>6

\* A step that is about no mail; the answers may move.
LEMMA QuietOwed ==
  ASSUME BaseInv, OwedInv, UNCHANGED <<toParent, jobs>>, InLoop' => InLoop,
         \A n \in Mail : SameMail(n),
         InLoop' => Msgs(wire)' \cup Msgs(rd)' \subseteq Msgs(wire) \cup Msgs(rd),
         InLoop' /\ AtHand' # {} => \/ AtHand' \subseteq AtHand /\ msg' = msg
                                    \/ msg' \in Msgs(rd)
  PROVE  OwedInv'
<1>1. Unique'
  BY UniqueKept DEF OwedInv
<1>2. \A m \in Mail : MailOk(m)'
  BY SameMailOk DEF OwedInv
<1>3. Msgs(toParent)' = Msgs(toParent)
  BY DEF Msgs
<1>4. ASSUME NEW r \in Msgs(toParent) \cup jobs PROVE RequestOk(r)'
  <2>1. CASE r.what \in {"action", "command"}
    BY <2>1, IdsTyped, SameMailOk DEF OwedInv, BaseInv
  <2>2. CASE r.what \notin {"action", "command"}
    BY <2>2 DEF RequestOk
  <2> QED
    BY <2>1, <2>2
<1>5. ASSUME InLoop', NEW r \in Msgs(wire) \cup Msgs(rd) PROVE ReplyOk(r)'
  BY <1>5, IdsTyped, SameMailOk DEF OwedInv, BaseInv
<1>6. ASSUME InLoop', AtHand' # {} PROVE ReplyOk(msg)'
  <2>1. CASE AtHand' \subseteq AtHand /\ msg' = msg
    <3>1. PICK m \in AtHand' : TRUE
      BY <1>6
    <3>2. msg.id = m /\ m \in Mail
      BY <2>1, <3>1, AtHandIs, QueueIsMail DEF BaseInv, Queue
    <3>3. ReplyOk(msg) /\ SameMail(m)
      BY <1>6, <2>1, <3>1, <3>2 DEF OwedInv
    <3> QED
      BY <2>1, <3>2, <3>3 DEF ReplyOk, SameMail, Owed
  <2>2. CASE msg' \in Msgs(rd)
    <3>1. PICK r \in Msgs(rd) : r = msg'
      BY <2>2
    <3>2. r.id \in Mail
      BY <1>6, IdsTyped DEF BaseInv
    <3>3. ReplyOk(r) /\ SameMail(r.id)
      BY <1>6, <3>1, <3>2 DEF OwedInv
    <3> QED
      BY <3>1, <3>2, <3>3 DEF ReplyOk, SameMail, Owed
  <2> QED
    BY <1>6, <2>1, <2>2
<1> QED
  BY <1>1, <1>2, <1>3, <1>4, <1>5, <1>6 DEF OwedInv

-----------------------------------------------------------------------------
(* The steps of the child about one mail.                                  *)

\* A mail whose turn it is has no request and no answer under way but the one in
\* the child's hand.
LEMMA TurnMail ==
  ASSUME BaseInv, NEW m \in Mail, InLoop, m \notin Waiters \/ m \in AtHand
  PROVE  /\ \A r \in Msgs(toParent) \cup jobs : r.id # m
         /\ \A r \in Msgs(wire) \cup Msgs(rd) : r.id # m
<1>1. /\ m \notin Ids(toParent) /\ m \notin JobIds /\ m \notin Ids(wire) /\ m \notin Ids(rd)
  BY DEF BaseInv, OutInv, Partition
<1>2. \A r \in jobs : r.id \in JobIds
  BY DEF JobIds
<1>3. \A r \in Msgs(toParent) : r.id \in Ids(toParent)
  BY MsgsTyped DEF BaseInv, ChanInv
<1>4. \A r \in Msgs(wire) : r.id \in Ids(wire)
  BY MsgsTyped DEF BaseInv, ChanInv
<1>5. \A r \in Msgs(rd) : r.id \in Ids(rd)
  BY MsgsTyped DEF BaseInv, ChanInv
<1> QED
  BY <1>1, <1>2, <1>3, <1>4, <1>5

\* A step about mail m alone, which no message in the channels names.
LEMMA TurnOwed ==
  ASSUME BaseInv, OwedInv, ChanKept, InLoop, InLoop' => InLoop,
         NEW m \in Mail, m \notin Waiters \/ m \in AtHand,
         \A n \in Mail \ {m} : SameMail(n), MailOk(m)',
         InLoop' => AtHand' \subseteq AtHand \ {m} /\ msg' = msg
  PROVE  OwedInv'
<1>1. Unique'
  BY UniqueKept DEF OwedInv, ChanKept
<1>2. \A n \in Mail : MailOk(n)'
  BY SameMailOk DEF OwedInv
<1>3. /\ Msgs(toParent)' = Msgs(toParent) /\ jobs' = jobs
      /\ Msgs(wire)' = Msgs(wire) /\ Msgs(rd)' = Msgs(rd)
  BY DEF ChanKept, Msgs
<1>4. ASSUME NEW r \in Msgs(toParent) \cup jobs PROVE RequestOk(r)'
  <2>1. r.id \in Mail \ {m}
    BY TurnMail, IdsTyped DEF BaseInv
  <2> QED
    BY <2>1, SameMailOk DEF OwedInv
<1>5. ASSUME InLoop', NEW r \in Msgs(wire) \cup Msgs(rd) PROVE ReplyOk(r)'
  <2>1. r.id \in Mail \ {m}
    BY TurnMail, IdsTyped DEF BaseInv
  <2> QED
    BY <2>1, SameMailOk DEF OwedInv
<1>6. ASSUME InLoop', AtHand' # {} PROVE ReplyOk(msg)'
  <2>1. PICK n \in AtHand' : TRUE
    BY <1>6
  <2>2. n \in AtHand \ {m} /\ msg' = msg
    BY <1>6, <2>1
  <2>3. msg.id = n /\ n \in Mail \ {m}
    BY <2>2, AtHandIs, QueueIsMail DEF BaseInv, Queue
  <2>4. ReplyOk(msg) /\ SameMail(n)
    BY <1>6, <2>2, <2>3 DEF OwedInv
  <2> QED
    BY <2>2, <2>3, <2>4 DEF ReplyOk, SameMail, Owed
<1> QED
  BY <1>1, <1>2, <1>3, <1>4, <1>5, <1>6 DEF OwedInv

\* The child has dealt with m in its turn: m waits no more, or the loop is left.
Turn(m) ==
  /\ InLoop /\ m \in todo /\ m \in Queue /\ ChanKept
  /\ InLoop' => /\ todo' = todo \ {m} /\ msg' = msg /\ pc' = pc
                /\ pc \in {"match", "deliver"} /\ ~Waiting(ctx'[m])
  /\ Waiting(ctx[m]) => HasReply(m)
  /\ \A n \in Mail \ {m} : SameMail(n)

LEMMA TurnKeeps ==
  ASSUME BaseInv, OwedInv, NEW m \in Mail, Turn(m), MailOk(m)', QueueInv'
  PROVE  OwedInv'
<1>1. m \notin Waiters \/ m \in AtHand
  BY DEF Turn, Waiters, AtHand, HasReply, BaseInv, OutInv, Waiting
<1>2. ASSUME InLoop' PROVE AtHand' \subseteq AtHand \ {m}
  <2>1. SUFFICES ASSUME NEW n \in AtHand' PROVE n \in AtHand \ {m}
    OBVIOUS
  <2>2. n \in Queue' /\ Waiting(ctx'[n]) /\ msg' # NoMsg /\ msg'.id = n
        /\ (n \in todo' \/ (pc' = "match" /\ n \in deliverq'))
    BY DEF AtHand
  <2>3. n \in Mail \ {m}
    <3>1. n # m
      BY <1>2, <2>2 DEF Turn
    <3>2. (QueueInv => matchq \subseteq Mail /\ deliverq \subseteq Mail)'
      BY QueueIsMail, PTL
    <3> QED
      BY <2>2, <3>1, <3>2 DEF Queue
  <2> QED
    BY <1>2, <2>2, <2>3 DEF Turn, SameMail, AtHand, Queue
<1> QED
  BY <1>1, <1>2, TurnOwed DEF Turn

\* What is known of a mail in its turn of a pass.
LEMMA TurnFacts ==
  ASSUME BaseInv, OwedInv, NEW m \in Mail
  PROVE  /\ MatchTurn(m) => /\ m \in matchq /\ m \notin deliverq /\ m \in todo /\ InLoop
                            /\ ctx[m].dqueue = <<>> /\ need[m] = did[m]
         /\ DeliverTurn(m) => m \in deliverq /\ m \notin matchq /\ m \in todo /\ InLoop
         /\ MatchTurn(m) \/ DeliverTurn(m) => m \in 1 .. idx /\ commits[m] = "none"
<1>1. MailOk(m) /\ did[m] \in Seq(Delivery)
  BY DEF OwedInv, BaseInv, DidInv
<1>2. did[m] \o <<>> = did[m]
  BY <1>1, ConcatEmptySeq
<1> QED
  BY <1>1, <1>2 DEF MatchTurn, DeliverTurn, BaseInv, QueueInv, InLoop, MailOk, Owed, Queue

\* A mail changes, and so may its place in the queues.
AboutMail(m) ==
  /\ idx' = idx
  /\ \/ ctx' = ctx \/ \E x : ctx' = [ctx EXCEPT ![m] = x]
  /\ \/ need' = need \/ \E x : need' = [need EXCEPT ![m] = x]
  /\ \/ did' = did \/ \E x : did' = [did EXCEPT ![m] = x]
  /\ \/ commits' = commits \/ \E x : commits' = [commits EXCEPT ![m] = x]
  /\ matchq' \in {matchq, matchq \ {m}, matchq \cup {m}}
  /\ deliverq' \in {deliverq, deliverq \ {m}, deliverq \cup {m}}

LEMMA OthersSame ==
  ASSUME BaseInv, NEW m \in Mail, AboutMail(m)
  PROVE  \A n \in Mail \ {m} : SameMail(n)
<1> SUFFICES ASSUME NEW n \in Mail \ {m} PROVE SameMail(n)
  OBVIOUS
<1>1. ctx'[n] = ctx[n]
  BY DEF AboutMail, BaseInv, CtxInv
<1>2. need'[n] = need[n]
  BY DEF AboutMail, BaseInv, DidInv
<1>3. did'[n] = did[n]
  BY DEF AboutMail, BaseInv, DidInv
<1>4. commits'[n] = commits[n]
  BY DEF AboutMail, BaseInv, DidInv
<1>5. n \in matchq' <=> n \in matchq
  BY DEF AboutMail
<1>6. n \in deliverq' <=> n \in deliverq
  BY DEF AboutMail
<1> QED
  BY <1>1, <1>2, <1>3, <1>4, <1>5, <1>6 DEF SameMail, AboutMail

\* A mail has come to the end of an item.
LEMMA OutcomeOwed ==
  ASSUME BaseInv, OwedInv, NEW m \in Mail, MatchTurn(m), UNCHANGED <<did, commits>>,
         NEW c, GoodCtx(c), c.item # 0, c.dqueue = <<>>, MatchOutcome(m, c)
  PROVE  AboutMail(m) /\ MailOk(m)'
<1>1. PICK o \in AfterItem(c) : \/ MatchMoved(m, o)
                                \/ o.move = "deliver" /\ MatchFails(m)
  BY DEF MatchOutcome
<1>2. o.ctx.dqueue \in Seq(Delivery) /\ ((o.ctx.dqueue = <<>>) <=> (o.move = "continue"))
  BY AfterItemGood, AfterItemAsks DEF GoodCtx, CtxType
<1>3. /\ m \in matchq /\ m \notin deliverq /\ m \in 1 .. idx /\ commits[m] = "none"
      /\ need[m] = did[m]
  BY TurnFacts
<1>4. did[m] \o <<>> = did[m]
  BY ConcatEmptySeq DEF BaseInv, DidInv
<1>5. CASE MatchMoved(m, o) /\ o.move = "continue"
  <2>1. /\ ctx' = [ctx EXCEPT ![m] = o.ctx] /\ UNCHANGED <<matchq, deliverq, need, idx>>
    BY <1>5 DEF MatchMoved
  <2>2. ctx'[m] = o.ctx
    BY <2>1 DEF BaseInv, CtxInv
  <2> QED
    BY <1>2, <1>3, <1>4, <1>5, <2>1, <2>2 DEF AboutMail, MailOk, Owed
<1>6. CASE MatchMoved(m, o) /\ o.move = "deliver"
  <2>1. /\ ctx' = [ctx EXCEPT ![m] = o.ctx] /\ idx' = idx
        /\ matchq' = matchq \ {m} /\ deliverq' = deliverq \cup {m}
        /\ need' = [need EXCEPT ![m] = @ \o o.ctx.dqueue]
    BY <1>6 DEF MatchMoved
  <2>2. ctx'[m] = o.ctx /\ need'[m] = did[m] \o o.ctx.dqueue
    BY <1>3, <2>1 DEF BaseInv, CtxInv, DidInv
  <2>3. MailOk(m)'
    BY <1>3, <2>1, <2>2 DEF MailOk, Owed
  <2> QED
    BY <2>1, <2>3 DEF AboutMail
<1>7. CASE MatchFails(m)
  BY <1>3, <1>7 DEF MatchFails, Abort, InLoop, queueVars, AboutMail, MailOk
<1> QED
  BY <1>1, <1>5, <1>6, <1>7 DEF MatchMoved

LEMMA MatchReplyOwed ==
  ASSUME BaseInv, OwedInv, NEW m \in Mail, MatchReply(m)
  PROVE  AboutMail(m) /\ MailOk(m)'
<1> DEFINE c == [ctx[m] EXCEPT !.msgid = 0]
           this == (msg.error = MATCH_TRUE)
<1>1. MatchTurn(m) /\ Waiting(ctx[m]) /\ UNCHANGED <<did, commits>>
  BY DEF MatchReply, countVars
<1>2. m \in matchq /\ ctx[m].dqueue = <<>> /\ m \in 1 .. idx
  BY <1>1, TurnFacts
<1>3. GoodCtx(ctx[m]) /\ ctx[m].item # 0
  BY <1>1, <1>2 DEF BaseInv, CtxInv
<1>4. GoodCtx(c) /\ c.item # 0 /\ c.dqueue = <<>>
  BY <1>2, <1>3, ReplyGood
<1>5. CASE msg.error = MATCH_ERROR
  BY <1>1, <1>2, <1>5 DEF MatchReply, MatchFails, Abort, InLoop, queueVars, AboutMail, MailOk
<1>6. CASE msg.error # MATCH_ERROR
  <2>1. this \in BOOLEAN /\ MatchOutcome(m, WithResult(c, this))
    BY <1>6 DEF MatchReply
  <2> HIDE DEF c, this
  <2>2. /\ GoodCtx(WithResult(c, this)) /\ WithResult(c, this).item # 0
        /\ WithResult(c, this).dqueue = <<>>
    BY <1>4, <2>1, WithResultGood DEF WithResult, GoodCtx, CtxType
  <2> QED
    BY <1>1, <2>1, <2>2, OutcomeOwed
<1> QED
  BY <1>5, <1>6

LEMMA MatchItemOwed ==
  ASSUME BaseInv, OwedInv, NEW m \in Mail, MatchItem(m)
  PROVE  AboutMail(m) /\ MailOk(m)'
<1> DEFINE c == Started(ctx[m])
<1>1. /\ MatchTurn(m) /\ ctx[m].rule # NoRule /\ GoodCtx(ctx[m]) /\ UNCHANGED <<did, commits>>
  BY DEF MatchItem, RulesetOver, BaseInv, CtxInv, countVars
<1>2. m \in 1 .. idx /\ ctx[m].dqueue = <<>>
  BY <1>1, TurnFacts
<1>3. GoodCtx(c) /\ c.item # 0 /\ c.dqueue = <<>>
  <2>1. c.dqueue = ctx[m].dqueue
    BY <1>1 DEF Started, GoodCtx, CtxType
  <2> QED
    BY <1>1, <1>2, <2>1, StartedGood
<1>4. CASE ShortCircuit(c) /\ MatchOutcome(m, c)
  BY <1>1, <1>3, <1>4, OutcomeOwed
<1>5. CASE \E this \in TestResults(c) : MatchOutcome(m, WithResult(c, this))
  <2>1. PICK this \in TestResults(c) : MatchOutcome(m, WithResult(c, this))
    BY <1>5
  <2>2. this \in BOOLEAN
    BY <1>3, <2>1 DEF TestResults, GoodCtx, CtxType
  <2> HIDE DEF c
  <2>3. /\ GoodCtx(WithResult(c, this)) /\ WithResult(c, this).item # 0
        /\ WithResult(c, this).dqueue = <<>>
    BY <1>3, <2>2, WithResultGood DEF WithResult, GoodCtx, CtxType
  <2> QED
    BY <1>1, <2>1, <2>3, OutcomeOwed
<1>6. CASE MatchFails(m)
  BY <1>1, <1>2, <1>6 DEF MatchFails, Abort, InLoop, queueVars, AboutMail, MailOk
<1> QED
  BY <1>4, <1>5, <1>6 DEF MatchItem

LEMMA MatchDoneOwed ==
  ASSUME BaseInv, OwedInv, NEW m \in Mail, MatchDone(m)
  PROVE  AboutMail(m) /\ MailOk(m)'
<1>1. MatchTurn(m)
  BY DEF MatchDone
<1>2. m \in 1 .. idx /\ m \notin deliverq
  BY <1>1, TurnFacts
<1>3. CASE m \notin matchq' /\ UNCHANGED <<ctx, deliverq, idx, need, did>>
           /\ matchq' = matchq \ {m} /\ \E d : commits' = [commits EXCEPT ![m] = d]
  BY <1>2, <1>3 DEF AboutMail, MailOk, Queue
<1>4. CASE MatchFails(m) /\ UNCHANGED <<commits, did>>
  BY <1>2, <1>4 DEF MatchFails, Abort, InLoop, queueVars, AboutMail, MailOk
<1> QED
  BY <1>3, <1>4 DEF MatchDone

\* The answer to a delivery is taken: what it says is made is owed no more.
LEMMA DeliverReplyOwed ==
  ASSUME BaseInv, OwedInv, NEW m \in Mail, DeliverReply(m)
  PROVE  AboutMail(m) /\ MailOk(m)'
<1> DEFINE c == [ctx[m] EXCEPT !.msgid = 0]
<1>1. /\ DeliverTurn(m) /\ Waiting(ctx[m]) /\ HasReply(m)
      /\ UNCHANGED <<need, did, commits, matchq, deliverq, idx>>
  BY DEF DeliverReply, countVars
<1>2. /\ m \in deliverq /\ m \notin matchq /\ m \in todo /\ InLoop
      /\ m \in 1 .. idx /\ commits[m] = "none"
  BY <1>1, TurnFacts
<1>3. c.dqueue = ctx[m].dqueue
  BY DEF BaseInv, CtxInv, CtxType
<1>4. CASE msg.error = DELIVER_SUCCESS /\ ctx' = [ctx EXCEPT ![m] = Delivered(c)]
  <2>1. msg.id = m /\ m \in AtHand
    BY <1>1, <1>2 DEF HasReply, AtHand, BaseInv, OutInv, Queue, Waiting
  <2>2. ReplyOk(msg)
    BY <1>2, <2>1 DEF OwedInv
  <2>3. Owed(m, Tail(ctx[m].dqueue))
    BY <1>2, <1>4, <2>1, <2>2 DEF ReplyOk
  <2>4. ctx'[m] = Delivered(c)
    BY <1>4 DEF BaseInv, CtxInv
  <2>5. Delivered(c).dqueue = Tail(ctx[m].dqueue)
    <3>1. c \in CtxType
      BY DEF BaseInv, CtxInv, CtxType
    <3> HIDE DEF c
    <3> QED
      BY <1>3, <3>1 DEF Delivered, CtxType
  <2> HIDE DEF c
  <2> QED
    BY <1>1, <1>2, <1>4, <2>3, <2>4, <2>5 DEF AboutMail, MailOk, Owed
<1>5. CASE Abort /\ UNCHANGED ctx
  BY <1>1, <1>2, <1>5 DEF Abort, InLoop, AboutMail, MailOk
<1> QED
  BY <1>4, <1>5 DEF DeliverReply

LEMMA DeliverInChildOwed ==
  ASSUME BaseInv, OwedInv, NEW m \in Mail, DeliverInChild(m)
  PROVE  AboutMail(m) /\ MailOk(m)'
<1> DEFINE q == ctx[m].dqueue
<1>1. /\ DeliverTurn(m) /\ ~Waiting(ctx[m]) /\ q # <<>>
      /\ UNCHANGED <<need, commits, matchq, deliverq, idx>>
  BY DEF DeliverInChild, countVars
<1>2. /\ m \in deliverq /\ m \notin matchq /\ InLoop
      /\ m \in 1 .. idx /\ commits[m] = "none"
  BY <1>1, TurnFacts
<1>3. /\ q \in Seq(Delivery) /\ did[m] \in Seq(Delivery) /\ need[m] = did[m] \o q
  BY <1>1, <1>2 DEF BaseInv, CtxInv, CtxType, DidInv, OwedInv, MailOk, Owed
<1>4. CASE /\ did' = [did EXCEPT ![m] = Append(@, CurrentDelivery(ctx[m]))]
           /\ ctx' = [ctx EXCEPT ![m] = Delivered(@)]
  <2>1. did'[m] = Append(did[m], Head(q)) /\ ctx'[m] = Delivered(ctx[m])
    BY <1>4 DEF BaseInv, CtxInv, DidInv, CurrentDelivery
  <2>2. Delivered(ctx[m]).dqueue = Tail(q)
    BY DEF Delivered, BaseInv, CtxInv, CtxType
  <2>3. need[m] = Append(did[m], Head(q)) \o Tail(q)
    BY <1>1, <1>3, FirstMade
  <2> HIDE DEF q
  <2> QED
    BY <1>1, <1>2, <1>4, <2>1, <2>2, <2>3 DEF AboutMail, MailOk, Owed
<1>5. CASE Abort /\ UNCHANGED <<ctx, did>>
  BY <1>1, <1>2, <1>5 DEF Abort, InLoop, AboutMail, MailOk
<1> QED
  BY <1>4, <1>5 DEF DeliverInChild

LEMMA DeliverDoneOwed ==
  ASSUME BaseInv, OwedInv, NEW m \in Mail, DeliverDone(m)
  PROVE  AboutMail(m) /\ MailOk(m)'
<1>1. /\ DeliverTurn(m) /\ ~Waiting(ctx[m]) /\ ctx[m].dqueue = <<>>
      /\ UNCHANGED <<need, did, commits, ctx, idx>>
      /\ deliverq' = deliverq \ {m} /\ matchq' = matchq \cup {m}
  BY DEF DeliverDone, countVars
<1>2. m \in deliverq /\ InLoop /\ m \in 1 .. idx /\ commits[m] = "none"
  BY <1>1, TurnFacts
<1>3. Owed(m, <<>>)
  BY <1>1, <1>2 DEF OwedInv, MailOk
<1> QED
  BY <1>1, <1>2, <1>3 DEF AboutMail, MailOk, Owed

\* These are the steps of a pass that read and send nothing.
LEMMA PassOwed ==
  ASSUME BaseInv, OwedInv, QueueInv', [Next]_vars, NEW m \in Mail,
         \/ MatchReply(m) \/ MatchItem(m) \/ MatchDone(m)
         \/ DeliverReply(m) \/ DeliverInChild(m) \/ DeliverDone(m)
  PROVE  OwedInv'
<1>1. AboutMail(m) /\ MailOk(m)'
  BY MatchReplyOwed, MatchItemOwed, MatchDoneOwed, DeliverReplyOwed, DeliverInChildOwed,
     DeliverDoneOwed
<1>2. ChanKept
  BY ChanQuiet
<1>3. InLoop' => ~Waiting(ctx'[m]) /\ pc' = pc
  <2> USE DEF BaseInv
  <2>1. CASE MatchReply(m) \/ MatchItem(m)
    <3>1. MatchStepCtx(m)
      BY <2>1, MatchReplyCtx, MatchItemCtx
    <3>2. InLoop' => pc = "match" /\ pc' = pc
      BY <2>1 DEF MatchReply, MatchItem, MatchTurn, MatchOutcome, MatchMoved, MatchFails,
                  Abort, InLoop
    <3> QED
      BY <3>1, <3>2 DEF MatchStepCtx
  <2>2. CASE DeliverReply(m) \/ DeliverInChild(m)
    <3>1. InLoop' => pc = "deliver" /\ pc' = pc
      BY <2>2 DEF DeliverReply, DeliverInChild, DeliverTurn, Abort, InLoop
    <3> QED
      BY <2>2, <3>1, DeliverReplyCtx, DeliverInChildCtx
  <2>3. CASE MatchDone(m)
    BY <2>3, MatchDoneQueues DEF MatchDone, MatchFails, Abort, InLoop
  <2>4. CASE DeliverDone(m)
    BY <2>4, DeliverDoneQueues DEF DeliverDone
  <2> QED
    BY <2>1, <2>2, <2>3, <2>4
<1>4. /\ m \in Queue /\ m \in todo /\ InLoop /\ pc \in {"match", "deliver"}
      /\ Waiting(ctx[m]) => HasReply(m)
  BY DEF MatchReply, MatchItem, MatchDone, DeliverReply, DeliverInChild, DeliverDone,
         MatchTurn, DeliverTurn, BaseInv, QueueInv, Queue, InLoop
<1>5. msg' = msg /\ todo' = todo \ {m}
  BY DEF MatchReply, MatchItem, MatchDone, DeliverReply, DeliverInChild, DeliverDone,
         MatchOutcome, MatchMoved, MatchFails
<1>6. \A n \in Mail \ {m} : SameMail(n)
  BY <1>1, OthersSame
<1> QED
  BY <1>1, <1>2, <1>3, <1>4, <1>5, <1>6, TurnKeeps DEF Turn

\* A mail is fetched.
LEMMA FetchedOwed ==
  ASSUME BaseInv, OwedInv, HandlerMail
  PROVE  OwedInv'
<1>1. PICK m \in Mail :
        /\ m = idx + 1 /\ m \notin Queue /\ m \notin deliverq /\ m \notin 1 .. idx
        /\ m \in 1 .. m /\ \A n \in Mail \ {m} : n \in 1 .. m <=> n \in 1 .. idx
  <2>1. idx + 1 \in Mail
    BY FetchAssumption DEF HandlerMail, BaseInv, QueueInv, Mail
  <2> QED
    BY <2>1, FetchAssumption DEF BaseInv, QueueInv, Mail, Queue
<1>2. /\ InLoop /\ InLoop' /\ msg = NoMsg /\ msg' = msg /\ idx' = m
      /\ ctx' = [ctx EXCEPT ![m] = NewCtx] /\ matchq' = matchq \cup {m}
      /\ UNCHANGED <<deliverq, need, did, commits>>
  BY <1>1 DEF HandlerMail, CallsHandler, InLoop, BaseInv, QueueInv, countVars
<1>3. ChanKept
  BY ChanQuiet
<1>4. AtHand' = {}
  BY <1>2 DEF AtHand
<1>5. \A n \in Mail \ {m} : SameMail(n)
  BY <1>1, <1>2 DEF SameMail, BaseInv, CtxInv
<1>6. MailOk(m)'
  <2>1. ctx'[m].dqueue = <<>>
    BY <1>1, <1>2 DEF BaseInv, CtxInv, NewCtx
  <2>2. need[m] = <<>> /\ did[m] = <<>> /\ commits[m] = "none"
    BY <1>1 DEF OwedInv, MailOk
  <2>3. <<>> \o <<>> = <<>>
    BY EmptySeq, ConcatEmptySeq
  <2> QED
    BY <1>1, <1>2, <2>1, <2>2, <2>3 DEF MailOk, Owed
<1>7. m \notin Waiters
  BY <1>1 DEF Waiters
<1> QED
  BY <1>1, <1>2, <1>3, <1>4, <1>5, <1>6, <1>7, TurnOwed

\* A mail that waits for nothing sends a request and waits for the answer.
LEMMA AskedOwed ==
  ASSUME BaseInv, OwedInv, NEW m \in Mail, NEW w \in {"action", "command"},
         Send(w, m), jobs' = jobs, InLoop, InLoop' => InLoop, m \notin Waiters,
         \A n \in Mail \ {m} : SameMail(n), MailOk(m)',
         RequestOk([what |-> w, id |-> m])',
         msg' = msg, AtHand' \subseteq AtHand \ {m}
  PROVE  OwedInv'
<1>1. PICK r \in Request : r = [what |-> w, id |-> m]
  BY DEF Request
<1>2. r.id = m /\ RequestOk(r)'
  BY <1>1
<1>3. /\ toParent' = Append(toParent, r) /\ UNCHANGED <<rd, wire>>
      /\ toParent \in Seq(Request)
  BY <1>1 DEF Send, BaseInv, ChanInv
<1>4. Msgs(toParent)' = Msgs(toParent) \cup {r}
  <2>1. Msgs(Append(toParent, r)) = Msgs(toParent) \cup {r}
    BY <1>3, MsgsAppend
  <2>2. Msgs(toParent)' = Msgs(toParent')
    BY DEF Msgs
  <2> QED
    BY <1>3, <2>1, <2>2
<1>5. m \notin Ids(toParent) /\ m \notin JobIds
  BY DEF BaseInv, OutInv, Partition
<1>6. Unique'
  <2>1. Ids(Append(toParent, r)) = Ids(toParent) \cup {m} /\ NoRepeats(Append(toParent, r))
    BY <1>2, <1>3, <1>5, IdsAppend DEF OwedInv, Unique
  <2>2. JobIds' = JobIds
    BY DEF JobIds
  <2>3. Ids(toParent)' = Ids(toParent') /\ NoRepeats(toParent)' = NoRepeats(toParent')
    BY DEF Ids, NoRepeats
  <2> QED
    BY <1>3, <1>5, <2>1, <2>2, <2>3 DEF OwedInv, Unique
<1>7. \A n \in Mail : MailOk(n)'
  BY SameMailOk DEF OwedInv
<1>8. ASSUME NEW q \in Msgs(toParent) \cup jobs PROVE RequestOk(q)'
  <2>1. q.id \in Mail \ {m}
    BY TurnMail, IdsTyped DEF BaseInv
  <2> QED
    BY <2>1, SameMailOk DEF OwedInv
<1>9. ASSUME NEW q \in Msgs(wire) \cup Msgs(rd) PROVE ReplyOk(q)'
  <2>1. q.id \in Mail \ {m}
    BY TurnMail, IdsTyped DEF BaseInv
  <2> QED
    BY <2>1, SameMailOk DEF OwedInv
<1>10. Msgs(wire)' = Msgs(wire) /\ Msgs(rd)' = Msgs(rd)
  BY <1>3 DEF Msgs
<1>11. ASSUME AtHand' # {} PROVE ReplyOk(msg)'
  <2>1. PICK n \in AtHand' : TRUE
    BY <1>11
  <2>2. msg.id = n /\ n \in Mail \ {m} /\ n \in AtHand
    BY <2>1, AtHandIs, QueueIsMail DEF BaseInv, Queue
  <2>3. ReplyOk(msg) /\ SameMail(n)
    BY <2>2 DEF OwedInv
  <2> QED
    BY <2>2, <2>3 DEF ReplyOk, SameMail, Owed
<1> QED
  BY <1>2, <1>4, <1>6, <1>7, <1>8, <1>9, <1>10, <1>11 DEF OwedInv

LEMMA AskOwed ==
  ASSUME BaseInv, OwedInv, NEW m \in Mail, MatchAsk(m) \/ DeliverAsk(m)
  PROVE  OwedInv'
<1>0. /\ UNCHANGED <<need, did, commits, idx, msg, matchq, deliverq>> /\ todo' = todo \ {m}
      /\ ~Waiting(ctx[m]) /\ jobs' = jobs /\ InLoop
      /\ \A n \in Mail \ {m} : ctx'[n] = ctx[n]
  BY MatchAskCtx, DeliverAskCtx DEF BaseInv, MatchAsk, DeliverAsk, MatchTurn, DeliverTurn,
     InLoop, queueVars, countVars, jobVars
<1>1. m \notin Waiters /\ m \in 1 .. idx /\ commits[m] = "none"
  BY <1>0, TurnFacts DEF Waiters, MatchAsk, DeliverAsk
<1>2. \A n \in Mail \ {m} : SameMail(n)
  BY <1>0 DEF SameMail
<1>3. CASE MatchAsk(m) /\ Abort /\ UNCHANGED <<ctx, toParent, rd, wire>>
  <2>1. ~InLoop' /\ \A n \in Mail : SameMail(n)
    BY <1>0, <1>3 DEF Abort, InLoop, SameMail
  <2> QED
    BY <1>0, <1>3, <2>1, QuietOwed
<1>4. CASE MatchAsk(m) /\ Send("command", m) /\ pc' = pc
           /\ ctx' = [ctx EXCEPT ![m] = [Started(ctx[m]) EXCEPT !.msgid = m]]
  <2>1. /\ m \in matchq /\ m \notin deliverq /\ ctx[m].dqueue = <<>> /\ Owed(m, <<>>)
    BY <1>0, <1>4, TurnFacts DEF MatchAsk, OwedInv, MailOk
  <2>2. ctx'[m].dqueue = <<>>
    <3>1. Started(ctx[m]) \in CtxType /\ Started(ctx[m]).dqueue = ctx[m].dqueue
      <4>1. GoodCtx(ctx[m]) /\ ctx[m].rule # NoRule
        BY <1>4 DEF MatchAsk, RulesetOver, BaseInv, CtxInv
      <4>2. GoodCtx(Started(ctx[m]))
        BY <4>1, StartedGood
      <4> QED
        BY <4>1, <4>2 DEF GoodCtx, Started, CtxType
    <3> QED
      BY <1>4, <2>1, <3>1 DEF BaseInv, CtxInv, CtxType
  <2>3. MailOk(m)'
    BY <1>0, <1>1, <2>1, <2>2 DEF MailOk, Owed, Queue
  <2>4. RequestOk([what |-> "command", id |-> m])'
    BY <1>0, <2>1 DEF RequestOk
  <2>5. AtHand' \subseteq AtHand \ {m}
    <3>1. m \notin AtHand'
      BY <1>0, <2>1 DEF AtHand
    <3>2. ASSUME NEW n \in AtHand', n # m PROVE n \in AtHand
      <4>1. n \in Mail /\ n \in Queue
        BY <1>0, <3>2, QueueIsMail DEF AtHand, Queue, BaseInv
      <4> QED
        BY <1>0, <1>4, <3>2, <4>1 DEF AtHand
    <3> QED
      BY <3>1, <3>2
  <2> QED
    BY <1>0, <1>1, <1>2, <1>4, <2>3, <2>4, <2>5, AskedOwed DEF InLoop
<1>5. CASE DeliverAsk(m)
  <2>1. /\ Send("action", m) /\ pc' = pc /\ pc = "deliver" /\ m \in deliverq /\ m \notin matchq
        /\ ctx' = [ctx EXCEPT ![m].msgid = m] /\ ctx[m].dqueue # <<>>
    BY <1>5, TurnFacts DEF DeliverAsk, DeliverTurn
  <2>2. ctx'[m].dqueue = ctx[m].dqueue /\ ctx'[m].msgid = m
    BY <2>1 DEF BaseInv, CtxInv, CtxType
  <2>3. Owed(m, ctx[m].dqueue) /\ Waiting(ctx'[m])
    BY <1>0, <2>1, <2>2, FetchAssumption DEF OwedInv, MailOk, Waiting, Mail
  <2>4. MailOk(m)'
    BY <1>0, <1>1, <2>1, <2>3 DEF MailOk, Queue
  <2>5. RequestOk([what |-> "action", id |-> m])'
    BY <1>0, <1>1, <2>1, <2>2, <2>3 DEF RequestOk, Owed
  <2>6. AtHand' \subseteq AtHand \ {m}
    <3>1. m \notin AtHand'
      BY <1>0, <2>1 DEF AtHand
    <3>2. ASSUME NEW n \in AtHand', n # m PROVE n \in AtHand
      <4>1. n \in Mail /\ n \in Queue
        BY <1>0, <3>2, QueueIsMail DEF AtHand, Queue, BaseInv
      <4> QED
        BY <1>0, <2>1, <3>2, <4>1 DEF AtHand
    <3> QED
      BY <3>1, <3>2
  <2> QED
    BY <1>0, <1>1, <1>2, <2>1, <2>4, <2>5, <2>6, AskedOwed DEF InLoop
<1> QED
  BY <1>0, <1>3, <1>4, <1>5 DEF MatchAsk, ioVars, queueVars

-----------------------------------------------------------------------------
(* The steps about no mail.                                                *)

\* The loop goes on, waits or is left, and answers enter the buffer and leave it.
LoopMoves ==
  \/ Top \/ FlushFill \/ Poll \/ AwaitExit
  \/ \E m \in Mail : MatchBlocked(m) \/ DeliverBlocked(m)
  \/ MatchPassEnds \/ DeliverPassEnds
  \/ HandlerAgain \/ HandlerBigMail \/ HandlerError \/ HandlerExit
  \/ HandlerBlocks \/ NoHandler
  \/ PollTimeout \/ ServerCloses \/ ServerAnswers \/ Stopped
  \/ UNCHANGED vars

LEMMA LoopMovesKeep ==
  ASSUME LoopMoves
  PROVE  UNCHANGED <<need, did, commits, ctx, matchq, deliverq, idx, queued, toParent, jobs>>
<1> USE DEF loopVars, queueVars, countVars, ioVars, jobVars
<1>1. CASE Top \/ FlushFill \/ Poll \/ AwaitExit \/ MatchPassEnds \/ DeliverPassEnds
  BY <1>1 DEF Top, FlushFill, Poll, AwaitExit, MatchPassEnds, DeliverPassEnds
<1>2. CASE \E m \in Mail : MatchBlocked(m) \/ DeliverBlocked(m)
  BY <1>2 DEF MatchBlocked, DeliverBlocked
<1>3. CASE \/ HandlerAgain \/ HandlerBigMail \/ HandlerError \/ HandlerExit
           \/ HandlerBlocks \/ NoHandler
  BY <1>3 DEF HandlerAgain, HandlerBigMail, HandlerError, HandlerExit, HandlerBlocks,
              NoHandler
<1>4. CASE PollTimeout \/ ServerCloses \/ ServerAnswers \/ Stopped \/ UNCHANGED vars
  BY <1>4 DEF PollTimeout, ServerCloses, ServerAnswers, Stopped, vars
<1> QED
  BY <1>1, <1>2, <1>3, <1>4 DEF LoopMoves

LEMMA MovesOwed ==
  ASSUME BaseInv, OwedInv, [Next]_vars, LoopMoves
  PROVE  OwedInv'
<1>1. /\ UNCHANGED <<need, did, commits, ctx, matchq, deliverq, idx, toParent, jobs>>
      /\ \A n \in Mail : SameMail(n)
  BY LoopMovesKeep DEF SameMail
<1>2. InLoop' => InLoop
  BY MsgStep DEF BaseInv
<1> SUFFICES ASSUME InLoop'
             PROVE  /\ Msgs(wire)' \cup Msgs(rd)' \subseteq Msgs(wire) \cup Msgs(rd)
                    /\ AtHand' # {} => \/ AtHand' \subseteq AtHand /\ msg' = msg
                                       \/ msg' \in Msgs(rd)
  BY <1>1, <1>2, QuietOwed
<1>3. rd \in Seq(Reply) /\ wire \in Seq(Reply)
  BY <1>2 DEF BaseInv, ChanInv
<1>4. ASSUME UNCHANGED <<rd, wire>>
      PROVE  Msgs(wire)' \cup Msgs(rd)' \subseteq Msgs(wire) \cup Msgs(rd)
  BY <1>4 DEF Msgs
<1>5. msg' = NoMsg => AtHand' = {}
  BY DEF AtHand
<1>6. CASE Top
  <2>1. CASE rd = <<>>
    BY <1>4, <1>5, <1>6, <2>1 DEF Top
  <2>2. CASE rd # <<>>
    <3>1. msg' = Head(rd) /\ rd' = Tail(rd) /\ wire' = wire
      BY <1>6, <2>2 DEF Top
    <3>2. Msgs(Tail(rd)) \subseteq Msgs(rd) /\ Head(rd) \in Msgs(rd)
      BY <1>3, <2>2, MsgsTail
    <3>3. Msgs(wire)' = Msgs(wire') /\ Msgs(rd)' = Msgs(rd')
      BY DEF Msgs
    <3> QED
      BY <3>1, <3>2, <3>3
  <2> QED
    BY <2>1, <2>2
<1>7. CASE FlushFill \/ Poll
  <2>1. rd' = rd \o wire /\ wire' = <<>> /\ msg' = msg
    BY <1>7 DEF FlushFill, Poll, loopVars
  <2>2. Msgs(wire)' = Msgs(wire') /\ Msgs(rd)' = Msgs(rd')
    BY DEF Msgs
  <2>3. Msgs(rd \o wire) \subseteq Msgs(rd) \cup Msgs(wire) /\ Msgs(<<>>) = {}
    BY <1>3, MsgsConcat, MsgsEmpty
  <2>4. AtHand' = AtHand \/ msg' = NoMsg
    BY <1>1, <1>7, <2>1 DEF FlushFill, Poll, loopVars, AtHand, Queue, BaseInv, QueueInv
  <2> QED
    BY <1>5, <2>1, <2>2, <2>3, <2>4
<1>8. CASE AwaitExit \/ PollTimeout \/ ServerCloses
  BY <1>8 DEF AwaitExit, PollTimeout, ServerCloses, Abort, InLoop
<1>9. CASE \E m \in Mail : MatchBlocked(m) \/ DeliverBlocked(m)
  <2>1. UNCHANGED <<rd, wire, msg, pc>> /\ todo' \subseteq todo
    BY <1>9 DEF MatchBlocked, DeliverBlocked, ioVars
  <2>2. AtHand' \subseteq AtHand
    BY <1>1, <2>1 DEF AtHand, Queue
  <2> QED
    BY <1>4, <2>1, <2>2
<1>10. CASE MatchPassEnds
  <2>1. UNCHANGED <<rd, wire, msg>> /\ pc = "match" /\ pc' = "deliver" /\ todo' = deliverq
    BY <1>10 DEF MatchPassEnds, ioVars
  <2>2. AtHand' \subseteq AtHand
    BY <1>1, <2>1 DEF AtHand, Queue
  <2> QED
    BY <1>4, <2>1, <2>2
<1>11. CASE DeliverPassEnds
  BY <1>4, <1>5, <1>11 DEF DeliverPassEnds, ioVars
<1>12. CASE \/ HandlerAgain \/ HandlerBigMail \/ HandlerError \/ HandlerExit
            \/ HandlerBlocks \/ NoHandler
  <2>1. UNCHANGED <<rd, wire, msg>> /\ pc = "fetch"
    BY <1>12 DEF HandlerAgain, HandlerBigMail, HandlerError, HandlerExit, HandlerBlocks,
                 NoHandler, CallsHandler, ioVars
  <2>2. msg' = NoMsg
    BY <2>1 DEF BaseInv, QueueInv
  <2> QED
    BY <1>4, <1>5, <2>1, <2>2
<1>13. CASE ServerAnswers \/ Stopped \/ UNCHANGED vars
  <2>1. UNCHANGED <<rd, wire, msg, pc, todo>>
    BY <1>13 DEF ServerAnswers, Stopped, vars, ioVars, loopVars
  <2>2. AtHand' = AtHand
    BY <1>1, <2>1 DEF AtHand, Queue
  <2> QED
    BY <1>4, <2>1, <2>2
<1> QED
  BY <1>6, <1>7, <1>8, <1>9, <1>10, <1>11, <1>12, <1>13 DEF LoopMoves

-----------------------------------------------------------------------------
(* The parent and the deliver children.                                    *)

LEMMA Errors ==
  /\ DELIVER_SUCCESS \in 0 .. 2 /\ DELIVER_FAILURE \in 0 .. 2
  /\ {MATCH_FALSE, MATCH_TRUE, MATCH_ERROR} \subseteq 0 .. 2
  /\ {TRUE, FALSE} \subseteq BOOLEAN
BY DEF DELIVER_SUCCESS, DELIVER_FAILURE, MATCH_FALSE, MATCH_TRUE, MATCH_ERROR

LEMMA AnswerMsgs ==
  ASSUME ChanInv, InLoop, NEW d \in Reply, Answer(d)
  PROVE  Msgs(wire)' = Msgs(wire) \cup {d}
<1>1. wire \in Seq(Reply) /\ wire' = Append(wire, d)
  BY DEF ChanInv, Answer, InLoop
<1>2. Msgs(wire)' = Msgs(wire')
  BY DEF Msgs
<1> QED
  BY <1>1, <1>2, MsgsAppend

\* No mail changes; requests are moved or settled, and an answer may be sent that
\* reports no delivery.
LEMMA SettledOwed ==
  ASSUME BaseInv, OwedInv, Unique', InLoop' => InLoop,
         UNCHANGED <<need, did, commits, ctx, matchq, deliverq, idx, pc, todo, msg, rd>>,
         Msgs(toParent)' \cup jobs' \subseteq Msgs(toParent) \cup jobs,
         InLoop => \A r \in Msgs(wire)' \ Msgs(wire) : \/ r.error # DELIVER_SUCCESS
                                                       \/ r.id \notin deliverq
  PROVE  OwedInv'
<1>1. \A n \in Mail : MailOk(n)'
  BY DEF OwedInv, MailOk, Owed, InLoop, Queue
<1>2. \A r \in (Msgs(toParent) \cup jobs)' : RequestOk(r)'
  BY DEF OwedInv, RequestOk, Owed, InLoop
<1>3. \A r : ReplyOk(r)' <=> ReplyOk(r)
  BY DEF ReplyOk, Owed
<1>4. \A r \in Msgs(wire)' \ Msgs(wire) : InLoop => ReplyOk(r)
  BY DEF ReplyOk
<1>5. AtHand' = AtHand /\ Msgs(rd)' = Msgs(rd)
  BY DEF AtHand, Queue, Msgs
<1> QED
  BY <1>1, <1>2, <1>3, <1>4, <1>5 DEF OwedInv

LEMMA ParentOwed ==
  ASSUME BaseInv, OwedInv, ParentReads
  PROVE  OwedInv'
<1> DEFINE r == Head(toParent)
<1>1. /\ UNCHANGED <<need, did, commits, ctx, matchq, deliverq, idx, pc, todo, msg, rd>>
      /\ toParent # <<>> /\ toParent' = Tail(toParent) /\ InLoop' = InLoop
      /\ toParent \in Seq(Request \cup {ExitReq})
  BY DEF ParentReads, loopVars, queueVars, countVars, BaseInv, ChanInv, InLoop
<1>2. /\ Msgs(toParent') \subseteq Msgs(toParent) /\ r \in Msgs(toParent)
      /\ Ids(toParent') = Ids(toParent) \ {r.id} /\ r.id \in Ids(toParent)
      /\ NoRepeats(toParent')
  BY <1>1, MsgsTail, IdsTail DEF OwedInv, Unique
<1>3. /\ Msgs(toParent)' = Msgs(toParent') /\ Ids(toParent)' = Ids(toParent')
      /\ NoRepeats(toParent)' = NoRepeats(toParent')
  BY DEF Msgs, Ids, NoRepeats
<1> HIDE DEF r
<1>4. CASE jobs' = jobs \cup {r} /\ UNCHANGED wire
  <2>1. JobIds' = JobIds \cup {r.id} /\ r.id \notin JobIds
    BY <1>2, <1>4 DEF JobIds, OwedInv, Unique
  <2>2. Unique'
    BY <1>2, <1>3, <1>4, <2>1 DEF OwedInv, Unique, JobIds
  <2>3. Msgs(wire)' = Msgs(wire)
    BY <1>4 DEF Msgs
  <2> QED
    BY <1>1, <1>2, <1>3, <1>4, <2>2, <2>3, SettledOwed
<1>5. CASE UNCHANGED jobs /\ (r.what = "exit" \/ Answer(Done(r.id, DELIVER_FAILURE, FALSE)))
  <2>1. Unique'
    BY <1>2, <1>3, <1>5 DEF OwedInv, Unique, JobIds
  <2>2. ASSUME InLoop
        PROVE  \A q \in Msgs(wire)' \ Msgs(wire) : q.error # DELIVER_SUCCESS
    <3>0. r \in Request
      <4>1. toParent \in Seq(Request)
        BY <2>2 DEF BaseInv, ChanInv
      <4> QED
        BY <1>2, <4>1, MsgsTyped
    <3>1. r.what # "exit" /\ r.id \in Mail
      BY <3>0 DEF Request
    <3>2. PICK d \in Reply : d = Done(r.id, DELIVER_FAILURE, FALSE)
      BY <3>1, Errors, DoneTyped
    <3>3. Msgs(wire)' = Msgs(wire) \cup {d}
      BY <1>5, <2>2, <3>1, <3>2, AnswerMsgs DEF BaseInv
    <3> QED
      BY <3>2, <3>3 DEF Done, DELIVER_FAILURE, DELIVER_SUCCESS
  <2> QED
    BY <1>1, <1>2, <1>3, <1>5, <2>1, <2>2, SettledOwed
<1> QED
  BY <1>4, <1>5 DEF ParentReads, r

\* A deliver child has made the delivery it was asked for.
LEMMA MadeOwed ==
  ASSUME BaseInv, OwedInv, NEW j \in jobs, j.what = "action", jobs' = jobs \ {j},
         did' = [did EXCEPT ![j.id] = Append(@, CurrentDelivery(ctx[j.id]))],
         UNCHANGED <<need, commits, ctx, matchq, deliverq, idx, pc, todo, msg, rd, toParent>>,
         UNCHANGED wire \/ Answer(Done(j.id, DELIVER_SUCCESS, TRUE))
  PROVE  OwedInv'
<1> DEFINE q == ctx[j.id].dqueue
<1>1. PICK m \in Mail : m = j.id
  BY DEF BaseInv, ChanInv, Request
<1>2. /\ q # <<>> /\ m \in 1 .. idx /\ commits[m] = "none" /\ Owed(m, q)
      /\ InLoop => m \in deliverq
  BY <1>1 DEF OwedInv, RequestOk
<1>3. did'[m] = Append(did[m], Head(q)) /\ \A n \in Mail \ {m} : did'[n] = did[n]
  BY <1>1 DEF BaseInv, DidInv, CurrentDelivery
<1>4. need[m] = did'[m] \o Tail(q)
  <2>1. q \in Seq(Delivery) /\ did[m] \in Seq(Delivery)
    BY <1>1 DEF BaseInv, CtxInv, CtxType, DidInv
  <2>2. need[m] = did[m] \o q /\ q # <<>>
    BY <1>2 DEF Owed
  <2> HIDE DEF q
  <2>3. did[m] \o q = Append(did[m], Head(q)) \o Tail(q)
    BY <2>1, <2>2, FirstMade
  <2> QED
    BY <1>3, <2>2, <2>3
<1> HIDE DEF q
<1>5. InLoop' = InLoop /\ AtHand' = AtHand /\ Msgs(rd)' = Msgs(rd)
      /\ Msgs(toParent)' = Msgs(toParent) /\ m \in JobIds
  BY <1>1 DEF InLoop, AtHand, Queue, Msgs, JobIds
<1>6. \A n \in Mail \ {m} : SameMail(n)
  BY <1>3 DEF SameMail
<1>7. Unique'
  BY DEF OwedInv, Unique, JobIds, Ids, NoRepeats
<1>8. MailOk(m)'
  <2>1. InLoop => Waiting(ctx[m]) /\ m \notin matchq
    BY <1>2, <1>5 DEF BaseInv, OutInv, Partition, Waiters, QueueInv
  <2> QED
    BY <1>2, <1>5, <2>1 DEF MailOk
<1>9. \A n \in Mail : MailOk(n)'
  BY <1>5, <1>6, <1>8, SameMailOk DEF OwedInv
<1>10. ASSUME NEW r \in Msgs(toParent) \cup (jobs \ {j}) PROVE RequestOk(r)'
  <2>1. CASE r.what \notin {"action", "command"}
    BY <2>1 DEF RequestOk
  <2>2. CASE r.what \in {"action", "command"}
    <3>1. r.id # m
      <4>1. r \in Msgs(toParent) => r.id \in Ids(toParent)
        BY MsgsTyped DEF BaseInv, ChanInv
      <4> QED
        BY <1>1, <1>5, <4>1 DEF OwedInv, Unique
    <3>2. r.id \in Mail \ {m}
      BY <2>2, <3>1, IdsTyped DEF BaseInv
    <3> QED
      BY <1>5, <1>6, <3>2, SameMailOk DEF OwedInv
  <2> QED
    BY <2>1, <2>2
<1>11. ASSUME InLoop, NEW r \in Msgs(wire) \cup Msgs(rd) PROVE ReplyOk(r)'
  <2>1. r.id # m
    <3>1. r \in Msgs(wire) => r.id \in Ids(wire)
      BY MsgsTyped DEF BaseInv, ChanInv
    <3>2. r \in Msgs(rd) => r.id \in Ids(rd)
      BY MsgsTyped DEF BaseInv, ChanInv
    <3> QED
      BY <1>5, <1>11, <3>1, <3>2 DEF BaseInv, OutInv, Partition
  <2>2. r.id \in Mail \ {m}
    BY <1>11, <2>1, IdsTyped DEF BaseInv
  <2> QED
    BY <1>5, <1>6, <1>11, <2>2, SameMailOk DEF OwedInv
<1>12. ASSUME InLoop, NEW r \in Msgs(wire)' \ Msgs(wire) PROVE ReplyOk(r)'
  <2>1. PICK d \in Reply : d = Done(m, DELIVER_SUCCESS, TRUE)
    BY Errors, DoneTyped
  <2>2. Msgs(wire)' \subseteq Msgs(wire) \cup {d}
    <3>1. UNCHANGED wire => Msgs(wire)' = Msgs(wire)
      BY DEF Msgs
    <3> QED
      BY <1>1, <1>12, <2>1, <3>1, AnswerMsgs DEF BaseInv
  <2>3. r.id = m
    BY <1>12, <2>1, <2>2 DEF Done
  <2> QED
    BY <1>1, <1>2, <1>4, <2>3 DEF ReplyOk, Owed, q
<1>13. ASSUME InLoop, AtHand # {} PROVE ReplyOk(msg)'
  <2>1. PICK n \in AtHand : TRUE
    BY <1>13
  <2>2. msg.id = n /\ n \in Mail \ {m}
    BY <1>5, <1>13, <2>1, AtHandIs, QueueIsMail DEF BaseInv, Queue, OutInv, Partition
  <2>3. ReplyOk(msg) /\ SameMail(n)
    BY <1>6, <1>13, <2>2 DEF OwedInv
  <2> QED
    BY <2>2, <2>3 DEF ReplyOk, SameMail, Owed
<1> QED
  BY <1>5, <1>7, <1>9, <1>10, <1>11, <1>12, <1>13 DEF OwedInv

LEMMA JobOwed ==
  ASSUME BaseInv, OwedInv, NEW j \in jobs, JobEnds(j) \/ JobDies(j)
  PROVE  OwedInv'
<1>1. /\ UNCHANGED <<need, commits, ctx, matchq, deliverq, idx, pc, todo, msg, rd, toParent>>
      /\ jobs' = jobs \ {j} /\ j.id \in Mail /\ InLoop' = InLoop
  BY DEF JobEnds, JobDies, loopVars, queueVars, countVars, ioVars, BaseInv, ChanInv, Request,
         InLoop
<1>2. CASE /\ j.what = "action"
           /\ did' = [did EXCEPT ![j.id] = Append(@, CurrentDelivery(ctx[j.id]))]
           /\ UNCHANGED wire \/ Answer(Done(j.id, DELIVER_SUCCESS, TRUE))
  BY <1>1, <1>2, MadeOwed
<1>3. ASSUME UNCHANGED did,
             InLoop => \A r \in Msgs(wire)' \ Msgs(wire) : \/ r.error # DELIVER_SUCCESS
                                                           \/ r.id \notin deliverq
      PROVE  OwedInv'
  <2>1. Unique'
    BY <1>1 DEF OwedInv, Unique, JobIds, Ids, NoRepeats
  <2>2. Msgs(toParent)' \cup jobs' \subseteq Msgs(toParent) \cup jobs
    BY <1>1 DEF Msgs
  <2> QED
    BY <1>1, <1>3, <2>1, <2>2, SettledOwed
<1>4. CASE UNCHANGED <<did, wire>>
  <2>1. Msgs(wire)' = Msgs(wire)
    BY <1>4 DEF Msgs
  <2> QED
    BY <1>3, <1>4, <2>1
<1>5. CASE UNCHANGED did /\ Answer(Done(j.id, DELIVER_FAILURE, TRUE))
  <2>1. PICK d \in Reply : d = Done(j.id, DELIVER_FAILURE, TRUE)
    BY <1>1, Errors, DoneTyped
  <2>2. InLoop => Msgs(wire)' = Msgs(wire) \cup {d}
    BY <1>5, <2>1, AnswerMsgs DEF BaseInv
  <2>3. d.error # DELIVER_SUCCESS
    BY <2>1 DEF Done, DELIVER_FAILURE, DELIVER_SUCCESS
  <2> QED
    BY <1>3, <1>5, <2>2, <2>3
<1>6. CASE /\ UNCHANGED did /\ j.what = "command"
           /\ \E error \in {MATCH_FALSE, MATCH_TRUE, MATCH_ERROR} :
                Answer(Done(j.id, error, TRUE))
  <2>1. PICK error \in 0 .. 2 : Answer(Done(j.id, error, TRUE))
    BY <1>6, Errors
  <2>2. PICK d \in Reply : d = Done(j.id, error, TRUE)
    BY <1>1, DoneTyped
  <2>3. InLoop => Msgs(wire)' = Msgs(wire) \cup {d}
    BY <2>1, <2>2, AnswerMsgs DEF BaseInv
  <2>4. d.id = j.id
    BY <2>2 DEF Done
  <2>5. InLoop => j.id \notin deliverq
    BY <1>6 DEF OwedInv, RequestOk, BaseInv, QueueInv
  <2> QED
    BY <1>3, <1>6, <2>3, <2>4, <2>5
<1> QED
  BY <1>2, <1>4, <1>5, <1>6 DEF JobEnds, JobDies, ioVars

\* The mails are let go of, and the exit message is sent.
LEMMA FinishOwed ==
  ASSUME BaseInv, OwedInv, Finish
  PROVE  OwedInv'
<1>1. /\ ~InLoop' /\ pc = "finished" /\ toParent' = Append(toParent, ExitReq)
      /\ UNCHANGED <<need, did, commits, ctx, idx, jobs>>
  BY DEF Finish, InLoop, countVars, jobVars
<1>2. toParent \in Seq(Request \cup {ExitReq}) /\ toParent \in Seq(Request)
      /\ jobs \subseteq Request
  BY <1>1 DEF BaseInv, ChanInv
<1>3. ExitReq.id \notin Ids(toParent) /\ ExitReq.id \notin JobIds
  <2>1. \A r \in Request : r.id # ExitReq.id
    BY FetchAssumption DEF Request, ExitReq, Mail
  <2>2. \A i \in DOMAIN toParent : toParent[i] \in Request
    BY <1>2, LenProperties, ElementOfSeq
  <2> QED
    BY <1>2, <2>1, <2>2 DEF Ids, JobIds
<1>4. /\ Ids(toParent') = Ids(toParent) \cup {ExitReq.id} /\ NoRepeats(toParent')
      /\ Msgs(toParent') = Msgs(toParent) \cup {ExitReq}
  BY <1>1, <1>2, <1>3, IdsAppend, MsgsAppend DEF OwedInv, Unique
<1>5. /\ Msgs(toParent)' = Msgs(toParent') /\ Ids(toParent)' = Ids(toParent')
      /\ NoRepeats(toParent)' = NoRepeats(toParent') /\ JobIds' = JobIds
  BY <1>1 DEF Msgs, Ids, NoRepeats, JobIds
<1>6. Unique'
  BY <1>1, <1>3, <1>4, <1>5 DEF OwedInv, Unique
<1>7. \A n \in Mail : MailOk(n)'
  BY <1>1 DEF OwedInv, MailOk
<1>8. \A r \in Msgs(toParent) \cup jobs : RequestOk(r)'
  BY <1>1 DEF OwedInv, RequestOk, Owed
<1>9. RequestOk(ExitReq)'
  BY DEF RequestOk, ExitReq
<1> QED
  BY <1>1, <1>4, <1>5, <1>6, <1>7, <1>8, <1>9 DEF OwedInv

LEMMA OwedInit == Init => OwedInv /\ RunInv
<1> SUFFICES ASSUME Init PROVE OwedInv /\ RunInv
  OBVIOUS
<1>1. /\ toParent = <<>> /\ wire = <<>> /\ rd = <<>> /\ jobs = {} /\ Queue = {}
      /\ idx = 0 /\ matchq = {} /\ deliverq = {} /\ aborted = FALSE
      /\ \A m \in Mail : need[m] = <<>> /\ did[m] = <<>> /\ commits[m] = "none"
  BY DEF Init, Queue
<1>2. AtHand = {} /\ Msgs(toParent) = {} /\ Msgs(wire) = {} /\ Msgs(rd) = {}
  BY <1>1, MsgsEmpty DEF AtHand
<1>3. Unique
  BY <1>1 DEF Unique, NoRepeats, Ids, JobIds
<1>4. \A m \in Mail : MailOk(m)
  BY <1>1 DEF MailOk
<1> QED
  BY <1>1, <1>2, <1>3, <1>4 DEF OwedInv, RunInv

LEMMA OwedStep == BaseInv /\ QueueInv' /\ OwedInv /\ [Next]_vars => OwedInv'
<1> SUFFICES ASSUME BaseInv, QueueInv', OwedInv, [Next]_vars PROVE OwedInv'
  OBVIOUS
<1>1. ASSUME NEW m \in Mail,
             \/ MatchReply(m) \/ MatchItem(m) \/ MatchDone(m)
             \/ DeliverReply(m) \/ DeliverInChild(m) \/ DeliverDone(m)
      PROVE  OwedInv'
  BY <1>1, PassOwed
<1>2. ASSUME NEW m \in Mail, MatchAsk(m) \/ DeliverAsk(m) PROVE OwedInv'
  BY <1>2, AskOwed
<1>3. CASE LoopMoves
  BY <1>3, MovesOwed
<1> QED
  BY <1>1, <1>2, <1>3, FetchedOwed, FinishOwed, ParentOwed, JobOwed
     DEF Next, ChildStep, JobStep, LoopMoves

-----------------------------------------------------------------------------
(* The loop is left when something has failed, or when all is done.        *)

\* How a step that is about no mail moves the loop.
LEMMA LoopMovesRun ==
  ASSUME LoopMoves, BaseInv
  PROVE  \/ InLoop' = InLoop /\ aborted' = aborted
         \/ InLoop /\ ~InLoop' /\ aborted' = TRUE
         \/ InLoop /\ ~InLoop' /\ aborted' = aborted /\ queued = 0
<1> USE DEF loopVars, InLoop
<1>1. CASE Top \/ FlushFill \/ Poll \/ AwaitExit \/ MatchPassEnds \/ DeliverPassEnds
  BY <1>1 DEF Top, FlushFill, Poll, AwaitExit, MatchPassEnds, DeliverPassEnds
<1>2. CASE \E m \in Mail : MatchBlocked(m) \/ DeliverBlocked(m)
  BY <1>2 DEF MatchBlocked, DeliverBlocked
<1>3. CASE \/ HandlerAgain \/ HandlerBigMail \/ HandlerError \/ HandlerExit
           \/ HandlerBlocks \/ NoHandler
  BY <1>3 DEF HandlerAgain, HandlerBigMail, HandlerError, HandlerExit, HandlerBlocks,
              NoHandler, CallsHandler, Abort
<1>4. CASE PollTimeout \/ ServerCloses \/ ServerAnswers \/ Stopped \/ UNCHANGED vars
  BY <1>4 DEF PollTimeout, ServerCloses, Sleeping, ServerAnswers, Stopped, vars, Abort
<1> QED
  BY <1>1, <1>2, <1>3, <1>4 DEF LoopMoves

\* How a step about mail m moves it: either it fails, or the loop goes on.
LEMMA TurnRun ==
  ASSUME BaseInv, NEW m \in Mail,
         \/ MatchReply(m) \/ MatchItem(m) \/ MatchAsk(m) \/ MatchDone(m)
         \/ DeliverReply(m) \/ DeliverDone(m) \/ DeliverInChild(m) \/ DeliverAsk(m)
  PROVE  /\ InLoop /\ idx' = idx
         /\ \/ InLoop' /\ aborted' = aborted
            \/ /\ ~InLoop' /\ aborted' = TRUE
               /\ UNCHANGED <<need, did, commits, matchq, deliverq>>
<1> USE DEF InLoop, queueVars, countVars, Abort
<1>1. CASE MatchReply(m) \/ MatchItem(m)
  BY <1>1 DEF MatchReply, MatchItem, MatchTurn, MatchOutcome, MatchMoved, MatchFails
<1>2. CASE MatchAsk(m)
  BY <1>2 DEF MatchAsk, MatchTurn
<1>3. CASE MatchDone(m)
  BY <1>3 DEF MatchDone, MatchTurn, MatchFails
<1>4. CASE DeliverReply(m) \/ DeliverInChild(m)
  BY <1>4 DEF DeliverReply, DeliverInChild, DeliverTurn
<1>5. CASE DeliverDone(m) \/ DeliverAsk(m)
  BY <1>5 DEF DeliverDone, DeliverAsk, DeliverTurn
<1> QED
  BY <1>1, <1>2, <1>3, <1>4, <1>5

LEMMA RunStep == BaseInv /\ RunInv /\ [Next]_vars => RunInv'
<1> SUFFICES ASSUME BaseInv, RunInv, [Next]_vars, InLoop' PROVE RunInv'
  BY DEF RunInv
<1>1. InLoop
  BY MsgStep DEF BaseInv
<1>2. ASSUME UNCHANGED <<aborted, idx>>,
             \A n \in 1 .. idx : \/ n \in Queue => n \in Queue'
                                 \/ commits'[n] # "none",
             \A n \in 1 .. idx : commits'[n] = "none" => commits[n] = "none"
      PROVE  RunInv'
  BY <1>1, <1>2 DEF RunInv
<1>3. CASE LoopMoves
  BY <1>1, <1>2, <1>3, LoopMovesKeep, LoopMovesRun DEF Queue
<1>4. ASSUME NEW m \in Mail,
             \/ MatchReply(m) \/ MatchItem(m) \/ MatchAsk(m) \/ DeliverReply(m)
             \/ DeliverDone(m) \/ DeliverInChild(m) \/ DeliverAsk(m)
      PROVE  RunInv'
  <2>1. UNCHANGED <<aborted, idx, commits>>
    BY <1>4, TurnRun DEF MatchReply, MatchItem, MatchAsk, DeliverReply, DeliverDone,
                         DeliverInChild, DeliverAsk, countVars
  <2>2. Queue \subseteq Queue'
    BY <1>4 DEF MatchReply, MatchItem, MatchAsk, MatchOutcome, MatchMoved, MatchFails,
                DeliverReply, DeliverDone, DeliverInChild, DeliverAsk, DeliverTurn,
                queueVars, Queue
  <2> QED
    BY <1>2, <2>1, <2>2
<1>5. ASSUME NEW m \in Mail, MatchDone(m) PROVE RunInv'
  <2> DEFINE d == IF KeepAll THEN "keep" ELSE FinalDecision(ctx[m])
  <2>1. d # "none" /\ commits \in [Mail -> Decision \cup {"none"}]
    BY DEF FinalDecision, BaseInv, CtxInv, CtxType, Decision, DidInv
  <2>2. \/ UNCHANGED <<commits, matchq>>
        \/ commits' = [commits EXCEPT ![m] = d] /\ matchq' = matchq \ {m}
    BY <1>5 DEF MatchDone, MatchFails, queueVars
  <2> HIDE DEF d
  <2>3. UNCHANGED <<aborted, idx>> /\ deliverq' = deliverq
    BY <1>5, TurnRun, MatchDoneQueues DEF BaseInv
  <2>4. \A n \in Mail : /\ n \in Queue => n \in Queue' \/ commits'[n] # "none"
                        /\ commits'[n] = "none" => commits[n] = "none"
    BY <2>1, <2>2, <2>3 DEF Queue
  <2>5. 1 .. idx \subseteq Mail
    BY FetchAssumption DEF BaseInv, QueueInv, Mail
  <2> QED
    BY <1>2, <2>3, <2>4, <2>5
<1>6. CASE HandlerMail
  <2>1. /\ idx' = idx + 1 /\ Queue' = Queue \cup {idx + 1} /\ UNCHANGED <<aborted, commits>>
    BY <1>6 DEF HandlerMail, Queue, countVars
  <2>2. idx \in Nat
    BY DEF BaseInv, QueueInv
  <2> QED
    BY <1>1, <2>1, <2>2 DEF RunInv
<1>7. CASE Finish
  BY <1>7 DEF Finish, InLoop
<1>8. CASE ParentReads \/ \E j \in jobs : JobEnds(j) \/ JobDies(j)
  BY <1>1, <1>2, <1>8 DEF ParentReads, JobEnds, JobDies, loopVars, queueVars, countVars, Queue
<1> QED
  BY <1>3, <1>4, <1>5, <1>6, <1>7, <1>8 DEF Next, ChildStep, JobStep, LoopMoves

-----------------------------------------------------------------------------
(* The promise, step by step.                                              *)

\* A mail that is fetched and not committed is queued.
LEMMA StatusOf ==
  ASSUME BaseInv, NEW m \in Mail
  PROVE  /\ m \in 1 .. idx /\ commits[m] = "none" => Status[m] = "queued"
         /\ m \notin 1 .. idx /\ commits[m] = "none" => Status[m] = "unseen"
         /\ Status[m] = "queued" => m \in 1 .. idx /\ commits[m] = "none"
<1>1. m \in Nat /\ (m \in 1 .. idx <=> m <= idx)
  BY FetchAssumption DEF BaseInv, QueueInv, Mail
<1>2. commits[m] \in {"drop", "keep", "none"}
  BY DEF BaseInv, DidInv, Decision
<1>3. Status[m] = IF commits[m] # "none" THEN commits[m]
                  ELSE IF m <= idx THEN "queued" ELSE "unseen"
  BY DEF Status
<1> QED
  BY <1>1, <1>2, <1>3

\* What the promise's steps look like from the fetch loop.
LEMMA StutterStep ==
  ASSUME UNCHANGED <<need, did, commits, idx>>, InLoop' = InLoop, aborted' = aborted
  PROVE  UNCHANGED Promise!vars
BY DEF Promise!vars, Status

LEMMA StopStep ==
  ASSUME BaseInv, RunInv, UNCHANGED <<need, did, commits, idx>>, InLoop, ~InLoop',
         aborted' = TRUE \/ (aborted' = aborted /\ queued = 0)
  PROVE  Promise!Next
<1>1. Status' = Status
  BY DEF Status
<1>2. CASE aborted' = TRUE
  BY <1>1, <1>2 DEF Promise!Next, Promise!Stop
<1>3. CASE aborted' = aborted /\ queued = 0
  <2>1. Queue = {}
    <3>1. Cardinality(Queue) = 0
      BY <1>3 DEF BaseInv, CountInv
    <3> QED
      BY <3>1, QueueFinite, FS_EmptySet DEF BaseInv
  <2>2. \A m \in Mail : Status[m] # "queued"
    BY <2>1, StatusOf DEF RunInv
  <2>3. aborted' = FALSE
    BY <1>3 DEF RunInv, BaseInv, QueueInv
  <2> QED
    BY <1>1, <2>2, <2>3 DEF Promise!Next, Promise!Stop
<1> QED
  BY <1>2, <1>3

LEMMA DeliverStep ==
  ASSUME BaseInv, NEW m \in Mail, m \in 1 .. idx, commits[m] = "none",
         ctx[m].dqueue # <<>>, Owed(m, ctx[m].dqueue),
         did' = [did EXCEPT ![m] = Append(@, CurrentDelivery(ctx[m]))],
         UNCHANGED <<need, commits, idx>>, InLoop' = InLoop, aborted' = aborted
  PROVE  Promise!Next
<1> DEFINE q == ctx[m].dqueue
<1>1. q \in Seq(Delivery) /\ did[m] \in Seq(Delivery)
  BY DEF BaseInv, CtxInv, CtxType, DidInv
<1>2. need[m] = did[m] \o q /\ q # <<>> /\ CurrentDelivery(ctx[m]) = Head(q)
  BY DEF Owed, CurrentDelivery
<1>3. Status' = Status /\ Status[m] = "queued"
  BY StatusOf DEF Status
<1> HIDE DEF q
<1>4. Len(did[m]) < Len(need[m]) /\ need[m][Len(did[m]) + 1] = Head(q)
  BY <1>1, <1>2, FirstMade
<1>5. did' = [did EXCEPT ![m] = Append(@, need[m][Len(@) + 1])]
  BY <1>2, <1>4
<1>6. Promise!Deliver(m)
  BY <1>3, <1>4, <1>5 DEF Promise!Deliver
<1> QED
  BY <1>6 DEF Promise!Next

LEMMA AskStep ==
  ASSUME BaseInv, OwedInv, NEW m \in Mail, MatchTurn(m), NEW c, GoodCtx(c), c.item # 0,
         c.dqueue = <<>>, MatchOutcome(m, c), UNCHANGED <<did, commits, idx>>,
         InLoop', aborted' = aborted
  PROVE  Promise!Next \/ UNCHANGED Promise!vars
<1>1. m \in 1 .. idx /\ commits[m] = "none" /\ InLoop
  BY TurnFacts
<1>2. PICK o \in AfterItem(c) : MatchMoved(m, o) \/ (o.move = "deliver" /\ MatchFails(m))
  BY DEF MatchOutcome
<1>3. o.ctx.dqueue \in Seq(Delivery) /\ (o.ctx.dqueue = <<>> <=> o.move = "continue")
  BY AfterItemGood, AfterItemAsks DEF GoodCtx, CtxType
<1>4. CASE UNCHANGED need
  BY <1>1, <1>4, StutterStep
<1>5. CASE need' = [need EXCEPT ![m] = @ \o o.ctx.dqueue] /\ o.move = "deliver"
  <2>1. need[m] \in Seq(Delivery) /\ need'[m] = need[m] \o o.ctx.dqueue
    BY <1>5 DEF BaseInv, DidInv
  <2>2. Len(need'[m]) > Len(need[m]) /\ SubSeq(need'[m], 1, Len(need[m])) = need[m]
    <3> DEFINE x == need[m]
               y == o.ctx.dqueue
    <3>1. x \in Seq(Delivery) /\ y \in Seq(Delivery) /\ y # <<>> /\ need'[m] = x \o y
      BY <1>3, <1>5, <2>1
    <3> HIDE DEF x, y
    <3>2. Len(x \o y) > Len(x) /\ SubSeq(x \o y, 1, Len(x)) = x
      BY <3>1, MoreAsked
    <3> QED
      BY <3>1, <3>2 DEF x
  <2>3. Status' = Status /\ Status[m] = "queued"
    BY <1>1, StatusOf DEF Status
  <2>4. need' = [need EXCEPT ![m] = need'[m]]
    BY <1>5, <2>1
  <2>5. Promise!Ask(m)
    BY <1>1, <2>2, <2>3, <2>4 DEF Promise!Ask
  <2> QED
    BY <2>5 DEF Promise!Next
<1> QED
  BY <1>2, <1>4, <1>5 DEF MatchMoved, MatchFails

LEMMA TakeStep ==
  ASSUME BaseInv, OwedInv, HandlerMail
  PROVE  Promise!Next
<1>1. PICK m \in Mail : m = idx + 1
  BY FetchAssumption DEF HandlerMail, BaseInv, QueueInv, Mail
<1>2. /\ idx' = m /\ UNCHANGED <<need, did, commits, aborted>> /\ InLoop /\ InLoop'
  BY <1>1 DEF HandlerMail, CallsHandler, InLoop, countVars
<1>3. idx \in Nat /\ \A n \in Mail : n \in Nat
  BY FetchAssumption DEF BaseInv, QueueInv, Mail
<1>4. commits[m] = "none" /\ Status[m] = "unseen"
  BY <1>1, <1>3, StatusOf DEF OwedInv, MailOk
<1>5. Status' = [Status EXCEPT ![m] = "queued"]
  <2>1. \A n \in Mail : n <= idx' <=> n <= idx \/ n = m
    BY <1>1, <1>2, <1>3
  <2> QED
    BY <1>2, <1>4, <2>1 DEF Status
<1>6. Promise!Take(m)
  BY <1>2, <1>4, <1>5 DEF Promise!Take
<1> QED
  BY <1>6 DEF Promise!Next

LEMMA CommitStep ==
  ASSUME BaseInv, OwedInv, RunInv, NEW m \in Mail, MatchDone(m)
  PROVE  Promise!Next
<1> DEFINE d == IF KeepAll THEN "keep" ELSE FinalDecision(ctx[m])
<1>1. d \in {"keep", "drop"}
  BY DEF FinalDecision, BaseInv, CtxInv, CtxType, Decision
<1>2. /\ m \in 1 .. idx /\ commits[m] = "none" /\ need[m] = did[m]
  BY TurnFacts DEF MatchDone
<1>3. Status[m] = "queued"
  BY <1>2, StatusOf
<1>4. CASE MatchFails(m) /\ UNCHANGED commits
  <2>1. UNCHANGED <<need, did, idx>> /\ InLoop /\ ~InLoop' /\ aborted' = TRUE
    BY <1>4 DEF MatchDone, MatchFails, Abort, MatchTurn, InLoop, queueVars
  <2> QED
    BY <1>4, <2>1, StopStep
<1>5. CASE commits' = [commits EXCEPT ![m] = d] /\ UNCHANGED <<idx, need, pc, aborted>>
  <2>1. did' = did /\ InLoop /\ InLoop'
    BY <1>5 DEF MatchDone, MatchTurn, InLoop
  <2> HIDE DEF d
  <2>2. Status' = [Status EXCEPT ![m] = d]
    <3>1. \A n \in Mail : commits'[n] = IF n = m THEN d ELSE commits[n]
      BY <1>5 DEF BaseInv, DidInv
    <3> QED
      BY <1>1, <1>5, <3>1 DEF Status
  <2>3. Promise!Commit(m)
    BY <1>1, <1>2, <1>3, <1>5, <2>1, <2>2 DEF Promise!Commit, Promise!Committed
  <2> QED
    BY <2>3 DEF Promise!Next
<1> QED
  BY <1>4, <1>5 DEF MatchDone

LEMMA MatchStep ==
  ASSUME BaseInv, OwedInv, RunInv, NEW m \in Mail, MatchReply(m) \/ MatchItem(m)
  PROVE  Promise!Next \/ UNCHANGED Promise!vars
<1>0. /\ MatchTurn(m) /\ UNCHANGED <<did, commits>> /\ InLoop /\ idx' = idx
      /\ \/ InLoop' /\ aborted' = aborted
         \/ ~InLoop' /\ aborted' = TRUE /\ UNCHANGED <<need>>
      /\ GoodCtx(ctx[m]) /\ ctx[m].dqueue = <<>>
  BY TurnRun, TurnFacts DEF MatchReply, MatchItem, countVars, BaseInv, CtxInv
<1>1. CASE ~InLoop'
  BY <1>0, <1>1, StopStep
<1>2. ASSUME InLoop', NEW c, GoodCtx(c), c.item # 0, c.dqueue = <<>>, MatchOutcome(m, c)
      PROVE  Promise!Next \/ UNCHANGED Promise!vars
  BY <1>0, <1>2, AskStep
<1>3. ASSUME NEW c, GoodCtx(c), c.item # 0, c.dqueue = <<>>, NEW this \in BOOLEAN
      PROVE  /\ GoodCtx(WithResult(c, this)) /\ WithResult(c, this).item # 0
             /\ WithResult(c, this).dqueue = <<>>
  BY <1>3, WithResultGood DEF WithResult, GoodCtx, CtxType
<1>4. CASE InLoop' /\ MatchReply(m)
  <2> DEFINE c == [ctx[m] EXCEPT !.msgid = 0]
             this == (msg.error = MATCH_TRUE)
  <2>1. ctx[m].item # 0
    BY <1>0, <1>4, TurnFacts DEF MatchReply, BaseInv, CtxInv
  <2>2. GoodCtx(c) /\ c.item # 0 /\ c.dqueue = <<>> /\ this \in BOOLEAN
    BY <1>0, <2>1, ReplyGood
  <2>3. MatchOutcome(m, WithResult(c, this))
    BY <1>4 DEF MatchReply, MatchFails, Abort, InLoop
  <2> HIDE DEF c, this
  <2> QED
    BY <1>2, <1>3, <1>4, <2>2, <2>3
<1>5. CASE InLoop' /\ MatchItem(m)
  <2> DEFINE c == Started(ctx[m])
  <2>1. ctx[m].rule # NoRule
    BY <1>5 DEF MatchItem, RulesetOver
  <2>2. GoodCtx(c) /\ c.item # 0 /\ c.dqueue = <<>>
    <3>1. c.dqueue = ctx[m].dqueue
      BY <1>0 DEF Started, GoodCtx, CtxType
    <3> QED
      BY <1>0, <2>1, <3>1, StartedGood
  <2>3. \/ MatchOutcome(m, c)
        \/ \E this \in TestResults(c) : MatchOutcome(m, WithResult(c, this))
    BY <1>5 DEF MatchItem, MatchFails, Abort, InLoop
  <2>4. TestResults(c) \subseteq BOOLEAN
    BY <2>2 DEF TestResults, GoodCtx, CtxType
  <2> HIDE DEF c
  <2> QED
    BY <1>2, <1>3, <1>5, <2>2, <2>3, <2>4
<1> QED
  BY <1>1, <1>4, <1>5

\* The rest of the steps about one mail.
LEMMA OtherTurnStep ==
  ASSUME BaseInv, OwedInv, RunInv, NEW m \in Mail,
         \/ MatchAsk(m) \/ DeliverReply(m) \/ DeliverDone(m)
         \/ DeliverInChild(m) \/ DeliverAsk(m)
  PROVE  Promise!Next \/ UNCHANGED Promise!vars
<1>0. InLoop /\ UNCHANGED <<need, commits, idx>>
  BY TurnRun DEF MatchAsk, DeliverReply, DeliverDone, DeliverInChild, DeliverAsk, countVars
<1>1. CASE ~InLoop'
  BY <1>0, <1>1, TurnRun, StopStep
<1>2. CASE InLoop' /\ UNCHANGED did
  <2>1. aborted' = aborted
    BY <1>2, TurnRun
  <2> QED
    BY <1>0, <1>2, <2>1, StutterStep
<1>3. CASE InLoop' /\ DeliverInChild(m)
  <2>1. aborted' = aborted
    BY <1>3, TurnRun
  <2>2. DeliverTurn(m) /\ ~Waiting(ctx[m]) /\ ctx[m].dqueue # <<>>
    BY <1>3 DEF DeliverInChild
  <2>3. m \in 1 .. idx /\ commits[m] = "none" /\ Owed(m, ctx[m].dqueue)
    BY <1>0, <2>2, TurnFacts DEF OwedInv, MailOk
  <2>4. did' = [did EXCEPT ![m] = Append(@, CurrentDelivery(ctx[m]))]
    BY <1>3 DEF DeliverInChild, Abort, InLoop
  <2> QED
    BY <1>0, <1>3, <2>1, <2>2, <2>3, <2>4, DeliverStep
<1> QED
  BY <1>1, <1>2, <1>3 DEF MatchAsk, DeliverReply, DeliverDone, DeliverAsk

LEMMA JobPromise ==
  ASSUME BaseInv, OwedInv, NEW j \in jobs, JobEnds(j) \/ JobDies(j)
  PROVE  Promise!Next \/ UNCHANGED Promise!vars
<1>1. UNCHANGED <<need, commits, idx, pc, aborted>> /\ j.id \in Mail /\ InLoop' = InLoop
  BY DEF JobEnds, JobDies, loopVars, queueVars, countVars, BaseInv, ChanInv, Request, InLoop
<1>2. CASE UNCHANGED did
  BY <1>1, <1>2, StutterStep
<1>3. CASE /\ j.what = "action"
           /\ did' = [did EXCEPT ![j.id] = Append(@, CurrentDelivery(ctx[j.id]))]
  <2>1. RequestOk(j)
    BY DEF OwedInv
  <2> QED
    BY <1>1, <1>3, <2>1, DeliverStep DEF RequestOk
<1> QED
  BY <1>2, <1>3 DEF JobEnds, JobDies

LEMMA PromiseInit == Init => Promise!Init
<1> SUFFICES ASSUME Init PROVE Promise!Init
  OBVIOUS
<1>1. /\ need = [m \in Mail |-> <<>>] /\ did = [m \in Mail |-> <<>>] /\ pc = "top"
      /\ \A m \in Mail : commits[m] = "none" /\ ~(m <= idx)
  BY FetchAssumption DEF Init, Mail
<1> QED
  BY <1>1 DEF Promise!Init, Status, InLoop

LEMMA PromiseStep ==
  BaseInv /\ OwedInv /\ RunInv /\ [Next]_vars => [Promise!Next]_Promise!vars
<1> SUFFICES ASSUME BaseInv, OwedInv, RunInv, [Next]_vars
             PROVE  Promise!Next \/ UNCHANGED Promise!vars
  OBVIOUS
<1>1. CASE LoopMoves
  BY <1>1, LoopMovesKeep, LoopMovesRun, StutterStep, StopStep
<1>2. CASE Finish \/ ParentReads
  <2>1. UNCHANGED <<need, did, commits, idx, aborted>> /\ InLoop' = InLoop
    <3>1. CASE Finish
      BY <3>1 DEF Finish, countVars, InLoop
    <3>2. CASE ParentReads
      BY <3>2 DEF ParentReads, loopVars, queueVars, countVars, InLoop
    <3> QED
      BY <1>2, <3>1, <3>2
  <2> QED
    BY <2>1, StutterStep
<1>3. ASSUME NEW m \in Mail,
             \/ MatchReply(m) \/ MatchItem(m) \/ MatchAsk(m) \/ MatchDone(m)
             \/ DeliverReply(m) \/ DeliverDone(m) \/ DeliverInChild(m) \/ DeliverAsk(m)
      PROVE  Promise!Next \/ UNCHANGED Promise!vars
  BY <1>3, MatchStep, CommitStep, OtherTurnStep
<1> QED
  BY <1>1, <1>2, <1>3, TakeStep, JobPromise DEF Next, ChildStep, JobStep, LoopMoves

\* Every delivery the rules ask for is made once and in their order, and a mail is
\* committed only when all of them are made, however the deliveries and the answers
\* of several mails interleave, fail or get lost, and even if the fetch is aborted
\* over them (child-fetch.c:352-513, mail-state.c:35-340): the fetch loop implements
\* the promise.
THEOREM PromiseKept == Spec => KeepsPromise
<1>1. Init => BaseInv
  BY QueueInit, CountInit, CtxInit, ChanInit, OutInit, DidInit DEF BaseInv
<1>2. BaseInv /\ [Next]_vars => BaseInv'
  <2>1. BaseInv /\ [Next]_vars => QueueInv' /\ CountInv' /\ CtxInv' /\ ChanInv'
    BY QueueStep, CountStep, CtxStep, ChanStep DEF BaseInv
  <2>2. BaseInv /\ [Next]_vars => OutInv' /\ ActionsInv' /\ DidInv'
    BY <2>1, OutStep, ActionsStep, DidStep DEF BaseInv
  <2> QED
    BY <2>1, <2>2 DEF BaseInv
<1>3. BaseInv' => QueueInv'
  BY DEF BaseInv
<1> QED
  BY <1>1, <1>2, <1>3, OwedInit, OwedStep, RunStep, PromiseInit, PromiseStep, PTL
     DEF Spec, KeepsPromise, Promise!Spec

-----------------------------------------------------------------------------
(* What is dropped was delivered (RuleWalk), for every ruleset that        *)
(* DeliversFirst, any mails and any number of accounts and runs.  A mail   *)
(* that is to be dropped has been delivered before, or is in the cache; so *)
(* the invariant says of each key in the cache who got a mail with that    *)
(* message-id, and of each mail how far it is in the actions of its rule   *)
(* and what the conditions it has passed have shown.                       *)

\* The message-id of a mail, whatever the actions have made of the rest.
IdTag(x)     == IF "message_id" \in DOMAIN x.tags THEN x.tags["message_id"] ELSE <<>>
HasId(x, id) == "tags" \in DOMAIN x /\ IdTag(x) = id

\* The message-id a mail was enqueued with.
IdOf(m) == IdTag(Enqueued(m, setup.mails[m].text))

AtType  == {"server", "match", "deliver", "settled"}
JobType == {"none", "run", "yes", "no", "failed"}

\* The shape of the state.
WalkShape ==
  /\ DOMAIN db = Key /\ setup \in Setups
  /\ server \subseteq DOMAIN setup.mails /\ drops \subseteq Mails
  /\ DOMAIN mail = Mails /\ DOMAIN delivered = Mails
  /\ at \in [Mails -> AtType]
  /\ job \in [Mails -> JobType]
  /\ mctx \in [Mails -> CtxType]
  /\ \A m \in Mails : GoodCtx(mctx[m])

\* What is in the cache was put there by the user or after a delivery.
CacheInv ==
  \A k \in Key : db_contains(k) =>
    k \in byHand \/ \E n \in DOMAIN setup.mails : Id(n) = k /\ delivered[n] # {}

\* A mail keeps its message-id while it is at work.
IdInv(m) ==
  /\ at[m] # "server" => m \in DOMAIN setup.mails
  /\ AtWork(m) => HasId(mail[m], IdOf(m))

\* What the parent does for a mail is what the mail waits for, and a delivery it says
\* has succeeded has been made.
JobInv(m) ==
  job[m] # "none" =>
    /\ AtWork(m) /\ Waiting(mctx[m])
    /\ at[m] = "match" => mctx[m].item # 0 /\ ~mctx[m].done /\ Cond(mctx[m]).is = "command"
    /\ at[m] = "deliver" => /\ mctx[m].dqueue # <<>> /\ Act(mctx[m]).is \notin InChildActs
                            /\ Act(mctx[m]).is = "deliver" /\ job[m] = "yes" => delivered[m] # {}

\* A remove-from-cache that has only looked yet is still to be made.
HalfInv(m) ==
  m \in half => /\ at[m] = "deliver" /\ ~Waiting(mctx[m]) /\ mctx[m].dqueue # <<>>
                /\ Act(mctx[m]).is = "remove-from-cache"

\* A mail that the rules are done with, or that has passed a gate, has been delivered.
MatchInv(m) ==
  at[m] = "match" =>
    /\ mctx[m].dqueue = <<>>
    /\ mctx[m].done => WasDelivered(m) \/ mctx[m].decision = "keep"
    /\ mctx[m].item # 0 => \A g \in Gates(mctx[m].rule) :
                             mctx[m].item > g /\ mctx[m].result => WasDelivered(m)

\* A mail that has had k of the actions of rule r.
LeftOf(r, k) == [i \in 1 .. Len(Ruleset[r].actions) - k |-> <<r, k + i>>]

StopsSafely(m, r, k) ==
  \/ WasDelivered(m)
  \/ \E j \in DOMAIN Acts[r] :
       Delivers(Acts[r][j]) \/ (KeepsAt(r, j) /\ (j <= k => mctx[m].decision = "keep"))

InRule(m, r, k) ==
  /\ mctx[m].dqueue = LeftOf(r, k)
  /\ \A j \in 1 .. k : Delivers(Acts[r][j]) => delivered[m] # {}
  /\ mctx[m].done => StopsSafely(m, r, k)

DeliverInv(m) ==
  at[m] = "deliver" =>
    /\ mctx[m].item = 0
    /\ \E r \in Rule : \E k \in 0 .. Len(Ruleset[r].actions) : InRule(m, r, k)

MailInv(m) == IdInv(m) /\ JobInv(m) /\ HalfInv(m) /\ MatchInv(m) /\ DeliverInv(m)

WalkInv ==
  /\ WalkShape /\ CacheInv
  /\ \A m \in Mails : MailInv(m)
  /\ DroppedWasDelivered

-----------------------------------------------------------------------------
(* What a step of the context may show.                                    *)

\* A rule that matches leaves its actions to be done, and the mail is only done with
\* if the rule stops.
LEMMA RuleMatchedLeaves ==
  ASSUME NEW c, c \in CtxType, c.rule \in Rule, c.dqueue = <<>>, ~c.done, NEW o \in RuleMatched(c)
  PROVE  /\ o.ctx.item = 0
         /\ o.ctx.done => Ruleset[c.rule].stop
         /\ o.move = "continue" => /\ o.ctx.dqueue = <<>>
                                   /\ o.ctx.done => Ruleset[c.rule].actions = <<>>
         /\ o.move = "deliver" => o.ctx.dqueue = Deliveries(c.rule)
<1> DEFINE s == [c EXCEPT !.done = @ \/ Ruleset[c.rule].stop]
<1>1. /\ Ruleset[c.rule].stop \in BOOLEAN /\ s \in CtxType
      /\ s.dqueue = <<>> /\ s.rule = c.rule /\ s.done = Ruleset[c.rule].stop
  BY RuleTyped DEF CtxType
<1>2. CASE Ruleset[c.rule].nested # NoRule
  <2>1. o = [move |-> "continue",
             ctx  |-> [s EXCEPT !.stack = Append(@, c.rule),
                                !.rule = Ruleset[c.rule].nested, !.item = 0]]
    BY <1>2 DEF RuleMatched
  <2>2. ~Ruleset[c.rule].stop
    BY <1>2, RulesetAssumption
  <2> QED
    BY <1>1, <2>1, <2>2 DEF CtxType
<1>3. CASE Ruleset[c.rule].nested = NoRule /\ Ruleset[c.rule].actions = <<>>
  <2> DEFINE t == [s EXCEPT !.matched = TRUE]
  <2>1. PICK n \in NextRule(t) : o = [move |-> "continue", ctx |-> n]
    BY <1>3 DEF RuleMatched
  <2>2. t \in CtxType /\ t.rule \in Rule /\ t.dqueue = <<>> /\ t.done = s.done
    BY <1>1 DEF CtxType
  <2> HIDE DEF t
  <2>3. n.item = 0 /\ n.dqueue = <<>> /\ n.done = s.done
    BY <2>1, <2>2, NextRuleGood
  <2> HIDE DEF s
  <2> QED
    BY <1>1, <1>3, <2>1, <2>3
<1>4. CASE Ruleset[c.rule].nested = NoRule /\ Ruleset[c.rule].actions # <<>>
  <2> DEFINE x == Deliveries(c.rule)
             t == [s EXCEPT !.matched = TRUE, !.dqueue = @ \o x]
  <2>1. PICK n \in NextRule(t) : o = [move |-> "deliver", ctx |-> n]
    BY <1>4 DEF RuleMatched
  <2>2. x \in Seq(Delivery)
    BY RuleTyped, LenProperties, SeqDef DEF Deliveries, Delivery
  <2> HIDE DEF x
  <2>3. s.dqueue \o x = x
    BY <1>1, <2>2, ConcatEmptySeq
  <2>4. t \in CtxType /\ t.rule \in Rule /\ t.dqueue = x /\ t.done = s.done
    BY <1>1, <2>2, <2>3 DEF CtxType
  <2> HIDE DEF t
  <2>5. n.item = 0 /\ n.dqueue = x /\ n.done = s.done
    BY <2>1, <2>4, NextRuleGood
  <2> HIDE DEF s
  <2> QED
    BY <1>1, <2>1, <2>5 DEF x
<1> QED
  BY <1>2, <1>3, <1>4

\* What can follow an item: the next one; the next rule, with the mail not done with;
\* or, of a rule that has come out true, the two above.
LEMMA AfterItemLeaves ==
  ASSUME NEW c, GoodCtx(c), c.item # 0, c.dqueue = <<>>, ~c.done, NEW o \in AfterItem(c)
  PROVE  \/ /\ o.move = "continue" /\ c.item < Len(Ruleset[c.rule].expr)
            /\ o.ctx = [c EXCEPT !.item = @ + 1]
         \/ /\ o.move = "continue"
            /\ o.ctx.item = 0 /\ o.ctx.dqueue = <<>> /\ ~o.ctx.done
         \/ /\ c.result /\ c.item = Len(Ruleset[c.rule].expr)
            /\ o.ctx.item = 0
            /\ o.ctx.done => Ruleset[c.rule].stop
            /\ \/ /\ o.move = "continue" /\ o.ctx.dqueue = <<>>
                  /\ o.ctx.done => Ruleset[c.rule].actions = <<>>
               \/ o.move = "deliver" /\ o.ctx.dqueue = Deliveries(c.rule)
<1>1. c \in CtxType /\ c.rule \in Rule /\ c.item \in 1 .. Len(Ruleset[c.rule].expr)
  BY DEF GoodCtx
<1>2. CASE c.item < Len(Ruleset[c.rule].expr)
  BY <1>2 DEF AfterItem
<1>3. CASE ~(c.item < Len(Ruleset[c.rule].expr)) /\ c.result
  <2>1. o \in RuleMatched(c)
    BY <1>3 DEF AfterItem
  <2>2. c.item = Len(Ruleset[c.rule].expr)
    BY <1>1, <1>3, RuleTyped
  <2> QED
    BY <1>1, <1>3, <2>1, <2>2, RuleMatchedLeaves, RuleMatchedGood
<1>4. CASE ~(c.item < Len(Ruleset[c.rule].expr)) /\ ~c.result
  BY <1>1, <1>4, NextRuleGood DEF AfterItem
<1> QED
  BY <1>2, <1>3, <1>4

-----------------------------------------------------------------------------
(* The message-id of a mail, whatever is done to the mail.                 *)

LEMMA SetWrappedId ==
  ASSUME NEW x, NEW ch, NEW id, HasId(x, id)
  PROVE  HasId(set_wrapped(x, ch), id)
  BY DEF set_wrapped, HasId, IdTag

LEMMA FillWrappedId ==
  ASSUME NEW x, NEW id, HasId(x, id)
  PROVE  HasId(fill_wrapped(x), id)
  BY DEF fill_wrapped, HasId, IdTag

LEMMA TrimFromId ==
  ASSUME NEW x, NEW id, HasId(x, id)
  PROVE  HasId(trim_from(x), id)
  BY DEF trim_from, HasId, IdTag

LEMMA TestedId ==
  ASSUME NEW x, NEW cond, NEW id, HasId(x, id)
  PROVE  HasId(Tested(x, cond), id)
<1>1. HasId(re_block(x, cond), id)
  BY DEF re_block, HasId, IdTag
<1>2. HasId(Built(x), id)
  BY DEF Built, HasId, IdTag
<1> QED
  BY <1>1, <1>2 DEF Tested

\* A tag of another name is no message-id.
LEMMA AddTagId ==
  ASSUME NEW x, NEW key, NEW value, NEW id, HasId(x, id), key # "message_id"
  PROVE  HasId([x EXCEPT !.tags = add_tag(@, key, value)], id)
  BY DEF add_tag, HasId, IdTag

LEMMA UserTagId ==
  ASSUME NEW x, NEW user, NEW id, HasId(x, id)
  PROVE  /\ HasId([x EXCEPT !.tags = update_tags(@, user)], id)
         /\ HasId([x EXCEPT !.tags = reset_tags(@)], id)
  BY DEF update_tags, reset_tags, add_tag, HasId, IdTag

LEMMA AddHeaderId ==
  ASSUME NEW x, NEW name, NEW words, NEW id, HasId(x, id)
  PROVE  HasId(AddHeader(x, name, words), id)
<1> DEFINE y == insert_header(x, HeaderPieces(name, words))
<1>1. HasId(y, id)
  BY DEF insert_header, InsertAtPiece, HasId, IdTag
<1> HIDE DEF y
<1>2. HasId(fill_wrapped(y), id)
  BY <1>1, FillWrappedId
<1>3. AddHeader(x, name, words) = [fill_wrapped(y) EXCEPT !.rml = NoSubmatch]
  BY DEF AddHeader, y
<1> QED
  BY <1>2, <1>3 DEF HasId, IdTag

LEMMA RemoveHeadersId ==
  ASSUME NEW x, NEW patterns, NEW id, HasId(x, id)
  PROVE  HasId(RemoveHeaders(x, patterns), id)
  BY DEF RemoveHeaders, HasId, IdTag

\* What the actions that run in the child make of the mail.
LEMMA ActedId ==
  ASSUME NEW x, NEW act, NEW id, HasId(x, id), act.is = "tag" => act.tag # "message_id"
  PROVE  HasId(Acted(x, act), id)
<1> DEFINE t == [x EXCEPT !.tags = add_tag(@, act.tag, replace(act.value, x))]
           e == CASE act.is = "tag"           -> t
                  [] act.is = "add-header"    -> AddHeader(x, act.name, replace(act.value, x))
                  [] act.is = "remove-header" -> RemoveHeaders(x, act.patterns)
                  [] OTHER                    -> x
<1>1. CASE act.is = "tag"
  <2>1. HasId(t, id)
    BY <1>1, AddTagId
  <2> QED
    BY <1>1, <2>1, UserTagId DEF Acted
<1>2. CASE act.is = "add-header"
  BY <1>2, AddHeaderId, UserTagId DEF Acted
<1>3. CASE act.is = "remove-header"
  BY <1>3, RemoveHeadersId, UserTagId DEF Acted
<1>4. CASE act.is \notin {"tag", "add-header", "remove-header"}
  BY <1>4, UserTagId DEF Acted
<1> QED
  BY <1>1, <1>2, <1>3, <1>4

LEMMA ReceivedId ==
  ASSUME NEW x, NEW text, NEW id, HasId(x, id)
  PROVE  HasId(Received(x, text), id)
<1> DEFINE y == [NewMail(text) EXCEPT !.body = find_body(text), !.tags = x.tags]
<1>1. HasId(y, id)
  BY DEF NewMail, HasId, IdTag
<1> HIDE DEF y
<1>2. HasId(fill_wrapped(trim_from(y)), id)
  BY <1>1, FillWrappedId, TrimFromId
<1>3. Received(x, text) = [fill_wrapped(trim_from(y)) EXCEPT !.attach = x.attach]
  BY DEF Received, Anew, y
<1> QED
  BY <1>2, <1>3 DEF HasId, IdTag

\* A mail that is enqueued has tags.
LEMMA EnqueuedId ==
  ASSUME NEW m, NEW text
  PROVE  HasId(Enqueued(m, text), IdTag(Enqueued(m, text)))
<1> DEFINE f == trim_from([NewMail(text) EXCEPT !.body = find_body(text)])
           r == << Header("received", <<"fdm">>), Fold(<<"date">>) >>
           i == find_header(f, {"message-id"})
           a == add_tag(f.tags, "account", <<Account[m]>>)
           t == IF i = 0 \/ f.text[i].val = <<>> THEN a ELSE add_tag(a, "message_id", f.text[i].val)
           y == insert_before(f, "received", r)
           z == [y EXCEPT !.tags = t]
<1>1. "tags" \in DOMAIN f
  BY DEF trim_from, NewMail
<1> HIDE DEF f, r
<1>2. "tags" \in DOMAIN y
  BY <1>1 DEF insert_before, InsertAtPiece
<1> HIDE DEF y, t
<1>3. "tags" \in DOMAIN z
  BY <1>2
<1> HIDE DEF z
<1>4. "tags" \in DOMAIN fill_wrapped(z)
  BY <1>3 DEF fill_wrapped
<1>5. Enqueued(m, text) = fill_wrapped(z)
  BY DEF Enqueued, f, r, y, t, z
<1> QED
  BY <1>4, <1>5 DEF HasId

\* Two mails of the same message-id have the same key.
LEMMA SameKey ==
  ASSUME NEW x, NEW y, NEW id, HasId(x, id), HasId(y, id)
  PROVE  replace(MsgId, x) = replace(MsgId, y)
<1>1. MsgId = << [is |-> "tag", of |-> <<"message_id">>] >>
  BY DEF MsgId, Tag
<1>2. DOMAIN MsgId = {1} /\ MsgId[1].is = "tag" /\ MsgId[1].of[1] = "message_id"
  BY <1>1
<1> DEFINE P(z) == [i \in DOMAIN MsgId |->
                      CASE MsgId[i].is = "words" -> MsgId[i].of
                        [] MsgId[i].is = "sub"   -> submatch(z)
                        [] MsgId[i].is = "tag"   -> IF MsgId[i].of[1] \in DOMAIN z.tags
                                                    THEN z.tags[MsgId[i].of[1]] ELSE <<>>]
<1>3. P(x) = [i \in {1} |-> IdTag(x)] /\ P(y) = [i \in {1} |-> IdTag(y)]
  BY <1>2 DEF IdTag
<1>4. P(x) = P(y)
  BY <1>3 DEF HasId
<1> QED
  BY <1>4 DEF replace

-----------------------------------------------------------------------------
(* What only grows: the deliveries made and the keys the user has added.   *)

Grows ==
  /\ setup' = setup
  /\ byHand \subseteq byHand'
  /\ \A n \in Mails : delivered[n] # {} => delivered'[n] # {}

LEMMA IdStays ==
  ASSUME setup' = setup, NEW m
  PROVE  /\ Id(m)' = Id(m)
         /\ IdOf(m)' = IdOf(m)
<1>1. Enqueued(m, setup.mails[m].text)' = Enqueued(m, setup.mails[m].text)
  BY DEF Enqueued
<1> QED
  BY <1>1 DEF Id, IdIn, IdOf, IdTag

LEMMA ItsMails ==
  ASSUME WalkShape
  PROVE  DOMAIN setup.mails \subseteq Mails
  BY WalkAssumption DEF WalkShape

LEMMA WasStays ==
  ASSUME WalkShape, Grows, NEW m \in Mails, WasDelivered(m)
  PROVE  WasDelivered(m)'
<1>1. \A n : Id(n)' = Id(n)
  BY IdStays DEF Grows
<1>2. CASE delivered[m] # {}
  BY <1>2 DEF Grows, WasDelivered
<1>3. CASE Id(m) \in byHand
  BY <1>1, <1>3 DEF Grows, WasDelivered
<1>4. CASE Id(m) # <<>> /\ \E n \in DOMAIN setup.mails : Id(n) = Id(m) /\ delivered[n] # {}
  <2>1. PICK n \in DOMAIN setup.mails : Id(n) = Id(m) /\ delivered[n] # {}
    BY <1>4
  <2>2. n \in DOMAIN setup'.mails /\ Id(n)' = Id(m)' /\ delivered'[n] # {}
    BY <1>1, <2>1, ItsMails DEF Grows
  <2>3. Id(m)' # <<>>
    BY <1>1, <1>4
  <2> QED
    BY <2>2, <2>3 DEF WasDelivered
<1> QED
  BY <1>2, <1>3, <1>4 DEF WasDelivered

LEMMA DropsStay ==
  ASSUME WalkShape, Grows, DroppedWasDelivered, drops' = drops
  PROVE  DroppedWasDelivered'
  BY WasStays DEF DroppedWasDelivered, WalkShape

LEMMA CacheKept ==
  ASSUME WalkShape, Grows, CacheInv, \A k \in Key : db'[k] # Absent => db[k] # Absent
  PROVE  CacheInv'
<1> SUFFICES ASSUME NEW k \in Key, db'[k] # Absent
             PROVE  k \in byHand' \/ \E n \in DOMAIN setup'.mails : Id(n)' = k /\ delivered'[n] # {}
  BY DEF CacheInv, db_contains
<1>1. CASE k \in byHand
  BY <1>1 DEF Grows
<1>2. CASE \E n \in DOMAIN setup.mails : Id(n) = k /\ delivered[n] # {}
  BY <1>2, ItsMails, IdStays DEF Grows
<1> QED
  BY <1>1, <1>2 DEF CacheInv, db_contains

\* A mail that a step leaves alone keeps what is known of it.
LEMMA OtherMails ==
  ASSUME WalkShape, Grows, NEW m \in Mails, MailInv(m),
         at'[m] = at[m], mctx'[m] = mctx[m], mail'[m] = mail[m], job'[m] = job[m],
         m \in half' => m \in half
  PROVE  MailInv(m)'
<1>1. IdInv(m)'
  BY IdStays DEF MailInv, IdInv, AtWork, Grows
<1>2. JobInv(m)'
  BY DEF MailInv, JobInv, AtWork, Grows
<1>3. HalfInv(m)'
  BY DEF MailInv, HalfInv
<1>4. MatchInv(m)'
  BY WasStays DEF MailInv, MatchInv
<1>5. DeliverInv(m)'
  <2>1. \A r \in Rule : \A k \in 0 .. Len(Ruleset[r].actions) : InRule(m, r, k) => InRule(m, r, k)'
    BY WasStays DEF InRule, StopsSafely, Grows
  <2> QED
    BY <2>1 DEF MailInv, DeliverInv
<1> QED
  BY <1>1, <1>2, <1>3, <1>4, <1>5 DEF MailInv

LEMMA OneMail ==
  ASSUME WalkShape, Grows, \A n \in Mails : MailInv(n), NEW m \in Mails, MailInv(m)',
         \A n \in Mails \ {m} : /\ at'[n] = at[n] /\ mctx'[n] = mctx[n]
                                /\ mail'[n] = mail[n] /\ job'[n] = job[n]
                                /\ n \in half' => n \in half
  PROVE  \A n \in Mails : MailInv(n)'
<1> SUFFICES ASSUME NEW n \in Mails, n # m PROVE MailInv(n)'
  OBVIOUS
<1> QED
  BY OtherMails

\* A fetch child that is idle has no remove-from-cache to finish.
LEMMA NotHalf ==
  ASSUME NEW m \in Mails, MailInv(m), Idle(Account[m])
  PROVE  m \notin half
  BY DEF MailInv, IdInv, HalfInv, Idle, Mine

-----------------------------------------------------------------------------
(* Matching.                                                               *)

LEMMA ItemsOf ==
  ASSUME NEW r \in Rule
  PROVE  /\ DOMAIN Conds[r] = 1 .. Len(Ruleset[r].expr)
         /\ DOMAIN Acts[r] = 1 .. Len(Ruleset[r].actions)
         /\ Len(Ruleset[r].expr) \in Nat \ {0} /\ Len(Ruleset[r].actions) \in Nat
<1>1. DOMAIN Conds[r] = DOMAIN Ruleset[r].expr
  BY WalkAssumption
<1>2. Ruleset[r].actions = [i \in DOMAIN Acts[r] |-> KindOf(Acts[r][i])]
  BY WalkAssumption
<1>3. DOMAIN Acts[r] = DOMAIN Ruleset[r].actions
  BY <1>2
<1> QED
  BY <1>1, <1>3, RuleTyped, LenProperties

\* A rule that has come out true and stops has a gate the mail has passed, or actions
\* to be safe with.
LEMMA StopsWell ==
  ASSUME DeliversFirst, NEW r \in Rule, Ruleset[r].stop, NEW W,
         \A g \in Gates(r) : W
  PROVE  \/ W
         \/ \E j \in DOMAIN Acts[r] : Delivers(Acts[r][j]) \/ KeepsAt(r, j)
  BY DEF DeliversFirst

\* Where the end of an item leads.
LEMMA Moves ==
  ASSUME WalkShape, DeliversFirst, Grows,
         NEW m \in Mails, at[m] = "match", IdInv(m),
         NEW c, GoodCtx(c), c.item # 0, c.dqueue = <<>>, ~c.done, c.msgid = 0,
         \A g \in Gates(c.rule) : c.item >= g /\ c.result => WasDelivered(m),
         NEW o \in AfterItem(c), Step(m, o),
         job'[m] = "none", m \notin half', HasId(mail'[m], IdOf(m))
  PROVE  /\ MailInv(m)' /\ GoodCtx(o.ctx)
<1>1. /\ o.move \in {"continue", "deliver"}
      /\ GoodCtx(o.ctx) /\ o.ctx.msgid = 0
  BY AfterItemGood
<1>2. /\ mctx'[m] = o.ctx
      /\ at'[m] = IF o.move = "deliver" THEN "deliver" ELSE "match"
  BY DEF Step, WalkShape
<1>3. WasDelivered(m) => WasDelivered(m)'
  BY WasStays
<1>4. IdInv(m)'
  BY <1>1, <1>2, IdStays DEF IdInv, AtWork, Grows
<1>5. JobInv(m)' /\ HalfInv(m)'
  BY DEF JobInv, HalfInv
<1>6. c \in CtxType /\ c.rule \in Rule /\ c.item \in 1 .. Len(Ruleset[c.rule].expr)
  BY DEF GoodCtx
<1>7. \A g \in Gates(c.rule) : g \in 1 .. Len(Ruleset[c.rule].expr)
  BY <1>6, ItemsOf DEF Gates
<1>8. CASE /\ o.move = "continue" /\ c.item < Len(Ruleset[c.rule].expr)
           /\ o.ctx = [c EXCEPT !.item = @ + 1]
  <2>1. /\ o.ctx.dqueue = <<>> /\ ~o.ctx.done /\ o.ctx.rule = c.rule
        /\ o.ctx.item = c.item + 1 /\ o.ctx.result = c.result
    BY <1>6, <1>8 DEF CtxType
  <2>2. \A g \in Gates(c.rule) : c.item + 1 > g => c.item >= g
    BY <1>6, <1>7
  <2>3. MatchInv(m)'
    BY <1>2, <1>3, <1>8, <2>1, <2>2 DEF MatchInv
  <2>4. DeliverInv(m)'
    BY <1>2, <1>8 DEF DeliverInv
  <2> QED
    BY <1>1, <1>4, <1>5, <2>3, <2>4 DEF MailInv
<1>9. CASE /\ o.move = "continue"
           /\ o.ctx.item = 0 /\ o.ctx.dqueue = <<>> /\ ~o.ctx.done
  <2>1. MatchInv(m)'
    BY <1>2, <1>9 DEF MatchInv
  <2>2. DeliverInv(m)'
    BY <1>2, <1>9 DEF DeliverInv
  <2> QED
    BY <1>1, <1>4, <1>5, <2>1, <2>2 DEF MailInv
<1>10. CASE /\ c.result /\ c.item = Len(Ruleset[c.rule].expr)
            /\ o.ctx.item = 0
            /\ o.ctx.done => Ruleset[c.rule].stop
            /\ \/ /\ o.move = "continue" /\ o.ctx.dqueue = <<>>
                  /\ o.ctx.done => Ruleset[c.rule].actions = <<>>
               \/ o.move = "deliver" /\ o.ctx.dqueue = Deliveries(c.rule)
  <2>1. o.ctx.done =>
          \/ WasDelivered(m)
          \/ \E j \in DOMAIN Acts[c.rule] : Delivers(Acts[c.rule][j]) \/ KeepsAt(c.rule, j)
    <3>1. \A g \in Gates(c.rule) : WasDelivered(m)
      BY <1>6, <1>7, <1>10
    <3> QED
      BY <1>6, <1>10, <3>1, StopsWell
  <2>2. CASE /\ o.move = "continue" /\ o.ctx.dqueue = <<>>
             /\ o.ctx.done => Ruleset[c.rule].actions = <<>>
    <3>1. o.ctx.done => DOMAIN Acts[c.rule] = {}
      BY <1>6, <2>2, ItemsOf, EmptySeq
    <3>2. MatchInv(m)'
      BY <1>2, <1>3, <1>10, <2>1, <2>2, <3>1 DEF MatchInv
    <3>3. DeliverInv(m)'
      BY <1>2, <2>2 DEF DeliverInv
    <3> QED
      BY <1>1, <1>4, <1>5, <3>2, <3>3 DEF MailInv
  <2>3. CASE o.move = "deliver" /\ o.ctx.dqueue = Deliveries(c.rule)
    <3>1. Deliveries(c.rule) = LeftOf(c.rule, 0)
      <4>1. Len(Ruleset[c.rule].actions) \in Nat
            /\ DOMAIN Ruleset[c.rule].actions = 1 .. Len(Ruleset[c.rule].actions)
        BY <1>6, RuleTyped, LenProperties
      <4> QED
        BY <4>1 DEF Deliveries, LeftOf
    <3>2. \A j \in DOMAIN Acts[c.rule] : ~(j <= 0)
      BY <1>6, ItemsOf
    <3>3. o.ctx.done => StopsSafely(m, c.rule, 0)'
      BY <1>3, <2>1, <3>2 DEF StopsSafely
    <3>4. InRule(m, c.rule, 0)'
      BY <1>2, <2>3, <3>1, <3>3 DEF InRule
    <3>5. DeliverInv(m)'
      <4>1. 0 \in 0 .. Len(Ruleset[c.rule].actions)
        BY <1>6, ItemsOf
      <4> QED
        BY <1>2, <1>6, <1>10, <3>4, <4>1 DEF DeliverInv
    <3>6. MatchInv(m)'
      BY <1>2, <2>3 DEF MatchInv
    <3> QED
      BY <1>1, <1>4, <1>5, <3>5, <3>6 DEF MailInv
  <2> QED
    BY <1>10, <2>2, <2>3
<1> QED
  BY <1>8, <1>9, <1>10, AfterItemLeaves

\* What the key of a mail is, and what it shows that the cache has it.
LEMMA KeyOf ==
  ASSUME NEW m, NEW x, HasId(x, IdOf(m))
  PROVE  replace(MsgId, x) = Id(m)
<1>1. HasId(Enqueued(m, setup.mails[m].text), IdOf(m))
  BY EnqueuedId DEF IdOf
<1> QED
  BY <1>1, SameKey DEF Id, IdIn

LEMMA IdIsKey ==
  ASSUME WalkShape, DeliversFirst, NEW m \in DOMAIN setup.mails, Id(m) # <<>>
  PROVE  Id(m) \in Key
  BY DEF WalkShape, DeliversFirst, Id

LEMMA InCacheWas ==
  ASSUME WalkShape, CacheInv, DeliversFirst, NEW m \in DOMAIN setup.mails,
         Id(m) # <<>>, db_contains(Id(m))
  PROVE  WasDelivered(m)
  BY IdIsKey DEF CacheInv, WasDelivered

\* An expression that is started.
LEMMA StartedLeaves ==
  ASSUME WalkShape, NEW m \in Mails, at[m] = "match", MatchInv(m), ~RulesetOver(mctx[m]),
         NEW c, c = Started(mctx[m])
  PROVE  /\ GoodCtx(c) /\ c.item # 0 /\ c.dqueue = <<>> /\ ~c.done
         /\ c.msgid = mctx[m].msgid
         /\ \A g \in Gates(c.rule) : c.item > g /\ c.result => WasDelivered(m)
<1>1. GoodCtx(mctx[m]) /\ mctx[m].rule # NoRule /\ ~mctx[m].done /\ mctx[m] \in CtxType
  BY DEF WalkShape, RulesetOver
<1>2. GoodCtx(c) /\ c.item # 0 /\ c.msgid = mctx[m].msgid
  BY <1>1, StartedGood
<1>3. CASE mctx[m].item # 0
  <2>1. c = mctx[m]
    BY <1>3 DEF Started
  <2> QED
    BY <1>1, <1>2, <1>3, <2>1 DEF MatchInv
<1>4. CASE mctx[m].item = 0
  <2>1. c = [mctx[m] EXCEPT !.result = FALSE, !.item = 1]
    BY <1>4 DEF Started
  <2>2. c.dqueue = <<>> /\ c.done = mctx[m].done /\ ~c.result
    BY <1>1, <2>1 DEF MatchInv, CtxType
  <2> QED
    BY <1>1, <1>2, <2>2
<1> QED
  BY <1>3, <1>4

\* An item that the result so far decides is no gate that lets the mail pass.
LEMMA ShortCircuitLeaves ==
  ASSUME NEW c, GoodCtx(c), c.item # 0, ShortCircuit(c), NEW W \in BOOLEAN,
         \A g \in Gates(c.rule) : c.item > g /\ c.result => W
  PROVE  \A g \in Gates(c.rule) : c.item >= g /\ c.result => W
<1>1. /\ c.rule \in Rule /\ c.item \in 1 .. Len(Ruleset[c.rule].expr)
  BY DEF GoodCtx
<1> SUFFICES ASSUME NEW g \in Gates(c.rule), c.item >= g, c.result PROVE W
  OBVIOUS
<1>2. g \in 1 .. Len(Ruleset[c.rule].expr)
  BY <1>1, ItemsOf DEF Gates
<1>3. c.item # g
  <2>1. Ruleset[c.rule].expr[c.item].op = "or"
    BY DEF ShortCircuit, Item
  <2> QED
    BY <2>1 DEF Gates
<1> QED
  BY <1>1, <1>2, <1>3

\* An item that has been tested: a gate lets the mail pass only if it holds.
LEMMA ResultLeaves ==
  ASSUME NEW c, GoodCtx(c), c.item # 0, NEW this, NEW W \in BOOLEAN,
         \A g \in Gates(c.rule) : c.item > g /\ c.result => W,
         c.item \in Gates(c.rule) /\ this # FALSE => W
  PROVE  LET n == WithResult(c, this)
         IN  /\ GoodCtx(n) /\ n.item # 0 /\ n.dqueue = c.dqueue /\ n.done = c.done
             /\ n.msgid = c.msgid
             /\ \A g \in Gates(n.rule) : n.item >= g /\ n.result => W
<1> DEFINE n == WithResult(c, this)
<1>1. /\ c \in CtxType /\ c.rule \in Rule /\ c.item \in 1 .. Len(Ruleset[c.rule].expr)
  BY DEF GoodCtx
<1>2. /\ n.item = c.item /\ n.dqueue = c.dqueue /\ n.done = c.done /\ n.rule = c.rule
      /\ n.result = ApplyResult(Item(c), c.result, this)
  BY <1>1 DEF WithResult, CtxType
<1>3. GoodCtx(n) /\ n.item # 0 /\ n.msgid = c.msgid
  BY WithResultGood
<1>4. ASSUME NEW g \in Gates(c.rule), c.item >= g, n.result PROVE W
  <2>1. g \in 1 .. Len(Ruleset[c.rule].expr) /\ DOMAIN Conds[c.rule] = 1 .. Len(Ruleset[c.rule].expr)
    BY <1>1, ItemsOf DEF Gates
  <2>2. Item(c) \in ItemType
    BY <1>1, RuleTyped, ElementOfSeq DEF Item
  <2>3. CASE c.item = g
    <3>1. /\ Item(c).inverted = FALSE /\ Item(c).op \in {"none", "and"}
      BY <2>2, <2>3 DEF Gates, Item, ItemType
    <3>2. this # FALSE
      BY <1>2, <1>4, <3>1 DEF ApplyResult
    <3> QED
      BY <2>3, <3>2
  <2>4. CASE c.item > g
    <3>1. Item(c).op = "and"
      BY <1>1, <2>1, <2>4 DEF Gates, Item
    <3>2. c.result
      BY <1>1, <1>2, <1>4, <3>1 DEF ApplyResult, CtxType
    <3> QED
      BY <2>4, <3>2
  <2> QED
    BY <1>1, <1>4, <2>1, <2>3, <2>4
<1> HIDE DEF n
<1>5. /\ GoodCtx(n) /\ n.item # 0 /\ n.dqueue = c.dqueue /\ n.done = c.done
      /\ n.msgid = c.msgid
      /\ \A g \in Gates(n.rule) : n.item >= g /\ n.result => W
  BY <1>2, <1>3, <1>4
<1> QED
  BY <1>5 DEF n

-----------------------------------------------------------------------------
(* The steps of one mail.                                                  *)

LEMMA ShapeKept ==
  ASSUME WalkShape, setup' = setup, NEW m \in Mails,
         NEW c, GoodCtx(c), mctx' = [mctx EXCEPT ![m] = c],
         NEW a \in AtType, at' = [at EXCEPT ![m] = a],
         NEW j \in JobType, job' = [job EXCEPT ![m] = j],
         DOMAIN db' = Key, DOMAIN mail' = Mails, DOMAIN delivered' = Mails,
         server' \subseteq server, drops' \subseteq Mails
  PROVE  /\ WalkShape'
         /\ mctx'[m] = c /\ at'[m] = a /\ job'[m] = j
         /\ \A n \in Mails \ {m} : at'[n] = at[n] /\ mctx'[n] = mctx[n] /\ job'[n] = job[n]
<1>1. c \in CtxType
  BY DEF GoodCtx
<1>2. /\ mctx'[m] = c /\ at'[m] = a /\ job'[m] = j
      /\ \A n \in Mails \ {m} : at'[n] = at[n] /\ mctx'[n] = mctx[n] /\ job'[n] = job[n]
  BY DEF WalkShape
<1>3. \A n \in Mails : GoodCtx(mctx'[n])
  BY <1>2 DEF WalkShape
<1>4. /\ at' \in [Mails -> AtType]
      /\ job' \in [Mails -> JobType]
      /\ mctx' \in [Mails -> CtxType]
  BY <1>1 DEF WalkShape
<1> QED
  BY <1>2, <1>3, <1>4 DEF WalkShape

\* A field that a step leaves alone.
LEMMA Unchanged ==
  ASSUME WalkShape, NEW m \in Mails
  PROVE  /\ at = [at EXCEPT ![m] = at[m]] /\ at[m] \in AtType
         /\ job = [job EXCEPT ![m] = job[m]] /\ job[m] \in JobType
         /\ mctx = [mctx EXCEPT ![m] = mctx[m]] /\ GoodCtx(mctx[m])
  BY DEF WalkShape

\* A step that matches has its outcome as Moves says.
LEMMA MovesStep ==
  ASSUME WalkInv, DeliversFirst, NEW m \in Mails, at[m] = "match", m \notin half,
         NEW c, GoodCtx(c), c.item # 0, c.dqueue = <<>>, ~c.done, c.msgid = 0,
         \A g \in Gates(c.rule) : c.item >= g /\ c.result => WasDelivered(m),
         NEW o \in AfterItem(c), Step(m, o),
         NEW x, HasId(x, IdOf(m)), mail' = [mail EXCEPT ![m] = x],
         job' = [job EXCEPT ![m] = "none"],
         UNCHANGED <<cacheVars, setup, server, half, delivered, drops, byHand>>
  PROVE  WalkInv'
<1>1. /\ WalkShape /\ CacheInv /\ MailInv(m) /\ IdInv(m) /\ DroppedWasDelivered
      /\ \A n \in Mails : MailInv(n)
  BY DEF WalkInv, MailInv
<1>2. Grows
  BY DEF Grows
<1>3. /\ mail'[m] = x /\ DOMAIN mail' = Mails
      /\ \A n \in Mails \ {m} : mail'[n] = mail[n]
  BY <1>1 DEF WalkShape
<1>4. job'[m] = "none"
  BY <1>1 DEF WalkShape
<1>5. MailInv(m)' /\ GoodCtx(o.ctx)
  BY <1>1, <1>2, <1>3, <1>4, Moves
<1>6. PICK a \in AtType : at' = [at EXCEPT ![m] = a]
  <2>1. at' = [at EXCEPT ![m] = IF o.move = "deliver" THEN "deliver" ELSE at[m]]
    BY DEF Step
  <2>2. (IF o.move = "deliver" THEN "deliver" ELSE at[m]) \in AtType
    BY DEF AtType
  <2> QED
    BY <2>1, <2>2
<1>7. /\ WalkShape'
      /\ \A n \in Mails \ {m} : at'[n] = at[n] /\ mctx'[n] = mctx[n] /\ job'[n] = job[n]
  <2>1. mctx' = [mctx EXCEPT ![m] = o.ctx]
    BY DEF Step
  <2>2. DOMAIN db' = Key /\ DOMAIN delivered' = Mails /\ server' \subseteq server /\ drops' \subseteq Mails
    BY <1>1 DEF WalkShape, cacheVars
  <2>3. "none" \in JobType
    BY DEF JobType
  <2> QED
    BY <1>1, <1>3, <1>5, <1>6, <2>1, <2>2, <2>3, ShapeKept
<1>8. \A n \in Mails : MailInv(n)'
  BY <1>1, <1>2, <1>3, <1>5, <1>7, OneMail
<1>9. CacheInv'
  BY <1>1, <1>2, CacheKept DEF cacheVars
<1>10. DroppedWasDelivered'
  BY <1>1, <1>2, DropsStay
<1> QED
  BY <1>7, <1>8, <1>9, <1>10 DEF WalkInv

LEMMA MatchesStep ==
  ASSUME WalkInv, DeliversFirst, NEW m \in Mails, Match(m)
  PROVE  WalkInv'
<1> DEFINE c == Started(mctx[m])
           cond == Cond(c)
           u == set_wrapped(mail[m], "sp")
           t == Tested(u, cond)
           n == WithResult(c, Holds(Account[m], t, c, cond))
<1>1. /\ WalkShape /\ CacheInv /\ MailInv(m) /\ IdInv(m) /\ JobInv(m) /\ MatchInv(m)
  BY DEF WalkInv, MailInv
<1>2. /\ at[m] = "match" /\ Idle(Account[m]) /\ ~Waiting(mctx[m]) /\ ~RulesetOver(mctx[m])
      /\ UNCHANGED <<cacheVars, setup, server, job, half, delivered, drops, byHand>>
  BY DEF Match, Testing
<1>3. m \notin half
  BY <1>1, <1>2, NotHalf
<1>4. job' = [job EXCEPT ![m] = "none"]
  BY <1>1, <1>2, Unchanged DEF JobInv
<1>5. m \in DOMAIN setup.mails /\ HasId(u, IdOf(m)) /\ HasId(t, IdOf(m))
  BY <1>1, <1>2, SetWrappedId, TestedId DEF IdInv, AtWork
<1>6. /\ GoodCtx(c) /\ c.item # 0 /\ c.dqueue = <<>> /\ ~c.done /\ c.msgid = 0
      /\ \A g \in Gates(c.rule) : c.item > g /\ c.result => WasDelivered(m)
  BY <1>1, <1>2, StartedLeaves DEF Waiting
<1>7. WasDelivered(m) \in BOOLEAN
  BY DEF WasDelivered
<1>8. CASE /\ ShortCircuit(c)
           /\ mail' = [mail EXCEPT ![m] = u]
           /\ \E move \in AfterItem(c) : Step(m, move)
  <2>1. \A g \in Gates(c.rule) : c.item >= g /\ c.result => WasDelivered(m)
    BY <1>6, <1>7, <1>8, ShortCircuitLeaves
  <2>2. PICK o \in AfterItem(c) : Step(m, o)
    BY <1>8
  <2> HIDE DEF c, u, t
  <2> QED
    BY <1>2, <1>3, <1>4, <1>5, <1>6, <1>8, <2>1, <2>2, MovesStep
<1>9. CASE /\ cond.is = "in-cache" => handle[Account[m]] = Open /\ replace(cond.key, u) # <<>>
           /\ mail' = [mail EXCEPT ![m] = t]
           /\ \E move \in AfterItem(n) : Step(m, move)
  <2>1. ASSUME c.item \in Gates(c.rule), Holds(Account[m], t, c, cond) # FALSE
        PROVE  WasDelivered(m)
    <3>1. cond.is = "in-cache" /\ cond.key = MsgId
      BY <1>6, <2>1 DEF Cond, Gates, DeliversFirst, GoodCtx
    <3>2. Holds(Account[m], t, c, cond) = db_contains(replace(MsgId, t))
      BY <3>1 DEF Holds, match_in_cache
    <3>3. replace(MsgId, t) = Id(m) /\ replace(MsgId, u) = Id(m)
      BY <1>5, KeyOf
    <3>4. db_contains(Id(m)) /\ Id(m) # <<>>
      BY <1>9, <2>1, <3>1, <3>2, <3>3 DEF db_contains
    <3> QED
      BY <1>1, <1>5, <3>4, InCacheWas
  <2> DEFINE this == Holds(Account[m], t, c, cond)
  <2>2. PICK o \in AfterItem(n) : Step(m, o)
    BY <1>9
  <2> HIDE DEF c, u, t, this
  <2>3. /\ GoodCtx(n) /\ n.item # 0 /\ n.dqueue = <<>> /\ ~n.done /\ n.msgid = 0
        /\ \A g \in Gates(n.rule) : n.item >= g /\ n.result => WasDelivered(m)
    <3>1. n = WithResult(c, this)
      BY DEF this
    <3>2. c.item \in Gates(c.rule) /\ this # FALSE => WasDelivered(m)
      BY <2>1 DEF this
    <3> HIDE DEF n
    <3> QED
      BY <1>6, <1>7, <3>1, <3>2, ResultLeaves
  <2> HIDE DEF n
  <2> QED
    BY <1>2, <1>3, <1>4, <1>5, <1>9, <2>2, <2>3, MovesStep
<1> QED
  BY <1>8, <1>9 DEF Match

\* A step of one mail.
LEMMA MailStepInv ==
  ASSUME WalkInv, NEW m \in Mails,
         NEW c, GoodCtx(c), mctx' = [mctx EXCEPT ![m] = c],
         NEW a \in AtType, at' = [at EXCEPT ![m] = a],
         NEW j \in JobType, job' = [job EXCEPT ![m] = j],
         NEW x, DOMAIN mail' = Mails, mail'[m] = x,
         \A n \in Mails \ {m} : mail'[n] = mail[n] /\ (n \in half' => n \in half),
         Grows, DOMAIN delivered' = Mails, DOMAIN db' = Key,
         server' \subseteq server, drops' \subseteq Mails,
         mctx'[m] = c /\ at'[m] = a /\ job'[m] = j => MailInv(m)',
         CacheInv', DroppedWasDelivered'
  PROVE  WalkInv'
<1>1. WalkShape /\ setup' = setup /\ \A n \in Mails : MailInv(n)
  BY DEF WalkInv, WalkShape, Grows
<1>2. /\ WalkShape'
      /\ mctx'[m] = c /\ at'[m] = a /\ job'[m] = j
      /\ \A n \in Mails \ {m} : at'[n] = at[n] /\ mctx'[n] = mctx[n] /\ job'[n] = job[n]
  BY <1>1, ShapeKept
<1>3. \A n \in Mails : MailInv(n)'
  BY <1>1, <1>2, OneMail
<1> QED
  BY <1>2, <1>3 DEF WalkInv

\* One that settles nothing and puts nothing into the cache.
LEMMA MailStep ==
  ASSUME WalkInv, NEW m \in Mails,
         NEW c, GoodCtx(c), mctx' = [mctx EXCEPT ![m] = c],
         NEW a \in AtType, at' = [at EXCEPT ![m] = a],
         NEW j \in JobType, job' = [job EXCEPT ![m] = j],
         NEW x, DOMAIN mail' = Mails, mail'[m] = x,
         \A n \in Mails \ {m} : mail'[n] = mail[n] /\ (n \in half' => n \in half),
         Grows, DOMAIN delivered' = Mails,
         DOMAIN db' = Key, \A k \in Key : db'[k] # Absent => db[k] # Absent,
         server' \subseteq server, drops' = drops,
         mctx'[m] = c /\ at'[m] = a /\ job'[m] = j => MailInv(m)'
  PROVE  WalkInv'
<1>1. WalkShape /\ CacheInv /\ DroppedWasDelivered /\ drops' \subseteq Mails
  BY DEF WalkInv, WalkShape
<1>2. CacheInv' /\ DroppedWasDelivered'
  BY <1>1, CacheKept, DropsStay
<1> QED
  BY <1>1, <1>2, MailStepInv

LEMMA CommandSaysStep ==
  ASSUME WalkInv, DeliversFirst, NEW m \in Mails, CommandSays(m)
  PROVE  WalkInv'
<1> DEFINE c == [mctx[m] EXCEPT !.msgid = 0]
           n == WithResult(c, job[m] = "yes")
<1>1. /\ WalkShape /\ CacheInv /\ MailInv(m) /\ IdInv(m) /\ JobInv(m) /\ MatchInv(m)
  BY DEF WalkInv, MailInv
<1>2. /\ at[m] = "match" /\ Idle(Account[m]) /\ job[m] \in {"yes", "no"}
      /\ job' = [job EXCEPT ![m] = "none"]
      /\ UNCHANGED <<cacheVars, setup, server, half, delivered, drops, byHand>>
  BY DEF CommandSays, history
<1>3. PICK saw \in BOOLEAN :
          mail' = [mail EXCEPT ![m] = [set_wrapped(mail[m], "sp") EXCEPT !.tags =
                                         IF saw THEN add_tag(@, "command0", <<"out">>) ELSE @]]
  BY DEF CommandSays
<1> DEFINE u == set_wrapped(mail[m], "sp")
           x == [u EXCEPT !.tags = IF saw THEN add_tag(@, "command0", <<"out">>) ELSE @]
<1>4. HasId(u, IdOf(m))
  BY <1>1, <1>2, SetWrappedId DEF IdInv, AtWork
<1>5. mail' = [mail EXCEPT ![m] = x]
  BY <1>3
<1> HIDE DEF u
<1>6. HasId(x, IdOf(m))
  BY <1>4 DEF add_tag, HasId, IdTag
<1>7. m \notin half
  BY <1>1, <1>2, NotHalf
<1>8. GoodCtx(mctx[m]) /\ mctx[m].item # 0 /\ ~mctx[m].done /\ Cond(mctx[m]).is = "command"
  BY <1>1, <1>2 DEF WalkShape, JobInv
<1>9. /\ c \in CtxType /\ c.item = mctx[m].item /\ c.rule = mctx[m].rule /\ c.result = mctx[m].result
      /\ c.dqueue = mctx[m].dqueue /\ c.done = mctx[m].done /\ c.msgid = 0
  BY <1>8 DEF GoodCtx, CtxType
<1>10. GoodCtx(c) /\ c.item # 0 /\ c.dqueue = <<>> /\ ~c.done
  BY <1>1, <1>2, <1>8, <1>9 DEF GoodCtx, MatchInv
<1>11. \A g \in Gates(c.rule) : c.item > g /\ c.result => WasDelivered(m)
  BY <1>1, <1>2, <1>8, <1>9 DEF MatchInv
<1>12. c.item \notin Gates(c.rule)
  BY <1>8, <1>9 DEF Gates, Cond
<1>13. PICK o \in AfterItem(n) : Step(m, o)
  BY DEF CommandSays
<1>14. WasDelivered(m) \in BOOLEAN
  BY DEF WasDelivered
<1> HIDE DEF c, x
<1>15. /\ GoodCtx(n) /\ n.item # 0 /\ n.dqueue = <<>> /\ ~n.done /\ n.msgid = 0
       /\ \A g \in Gates(n.rule) : n.item >= g /\ n.result => WasDelivered(m)
  <2> DEFINE this == job[m] = "yes"
  <2>1. n = WithResult(c, this)
    OBVIOUS
  <2> HIDE DEF n, this
  <2> QED
    BY <1>9, <1>10, <1>11, <1>12, <1>14, <2>1, ResultLeaves
<1> HIDE DEF n
<1> QED
  BY <1>2, <1>5, <1>6, <1>7, <1>13, <1>15, MovesStep

LEMMA AskCommandStep ==
  ASSUME WalkInv, DeliversFirst, NEW m \in Mails, AskCommand(m)
  PROVE  WalkInv'
<1> DEFINE c == Started(mctx[m])
           d == [c EXCEPT !.msgid = 1]
           u == set_wrapped(mail[m], "nl")
           x == [u EXCEPT !.tags = reset_tags(@)]
<1>1. /\ WalkShape /\ MailInv(m) /\ IdInv(m) /\ MatchInv(m)
  BY DEF WalkInv, MailInv
<1>2. /\ at[m] = "match" /\ Idle(Account[m]) /\ ~Waiting(mctx[m]) /\ ~RulesetOver(mctx[m])
      /\ Cond(c).is = "command" /\ mctx' = [mctx EXCEPT ![m] = d]
      /\ mail' = [mail EXCEPT ![m] = x] /\ job' = [job EXCEPT ![m] = "run"]
      /\ UNCHANGED <<cacheVars, setup, server, at, half, history>>
  BY DEF AskCommand, Testing
<1>3. m \notin half
  BY <1>1, <1>2, NotHalf
<1>4. HasId(u, IdOf(m))
  BY <1>1, <1>2, SetWrappedId DEF IdInv, AtWork
<1>5. HasId(x, IdOf(m))
  BY <1>4, UserTagId
<1>6. /\ GoodCtx(c) /\ c.item # 0 /\ c.dqueue = <<>> /\ ~c.done
      /\ \A g \in Gates(c.rule) : c.item > g /\ c.result => WasDelivered(m)
  BY <1>1, <1>2, StartedLeaves
<1> HIDE DEF c, x
<1>7. /\ d \in CtxType /\ d.item = c.item /\ d.rule = c.rule /\ d.result = c.result
      /\ d.dqueue = c.dqueue /\ d.done = c.done /\ d.msgid = 1
  BY <1>6 DEF GoodCtx, CtxType
<1>8. GoodCtx(d) /\ Cond(d) = Cond(c)
  BY <1>6, <1>7 DEF GoodCtx, Cond
<1> HIDE DEF d
<1>9. Grows
  BY <1>2 DEF Grows, history
<1>10. mail'[m] = x /\ DOMAIN mail' = Mails /\ \A n \in Mails \ {m} : mail'[n] = mail[n]
  BY <1>1, <1>2 DEF WalkShape
<1>11. ASSUME mctx'[m] = d, at'[m] = "match", job'[m] = "run" PROVE MailInv(m)'
  <2>1. IdInv(m)'
    BY <1>1, <1>2, <1>5, <1>9, <1>10, <1>11, IdStays DEF IdInv, Grows
  <2>2. JobInv(m)'
    BY <1>2, <1>6, <1>7, <1>8, <1>11 DEF JobInv, AtWork, Waiting, Cond
  <2>3. HalfInv(m)' /\ DeliverInv(m)'
    BY <1>2, <1>3, <1>11 DEF HalfInv, DeliverInv
  <2>4. MatchInv(m)'
    BY <1>1, <1>6, <1>7, <1>9, <1>11, WasStays DEF MatchInv
  <2> QED
    BY <2>1, <2>2, <2>3, <2>4 DEF MailInv
<1>12. /\ DOMAIN db' = Key /\ DOMAIN delivered' = Mails /\ drops' = drops
       /\ \A k \in Key : db'[k] # Absent => db[k] # Absent
  BY <1>1, <1>2 DEF WalkShape, cacheVars, history
<1>13. at' = [at EXCEPT ![m] = "match"] /\ "match" \in AtType /\ "run" \in JobType
  BY <1>1, <1>2, Unchanged DEF AtType, JobType
<1>14. /\ \A n \in Mails \ {m} : mail'[n] = mail[n] /\ (n \in half' => n \in half)
       /\ server' \subseteq server /\ mctx' = [mctx EXCEPT ![m] = d] /\ job' = [job EXCEPT ![m] = "run"]
  BY <1>2, <1>10
<1> QED
  BY <1>8, <1>9, <1>10, <1>11, <1>12, <1>13, <1>14, MailStep

LEMMA StillBlockedStep ==
  ASSUME WalkInv, NEW m \in Mails, StillBlocked(m)
  PROVE  WalkInv'
<1> DEFINE x == set_wrapped(mail[m], "sp")
<1>1. /\ WalkShape /\ MailInv(m) /\ IdInv(m)
  BY DEF WalkInv, MailInv
<1>2. /\ at[m] = "match" /\ mail' = [mail EXCEPT ![m] = x]
      /\ UNCHANGED <<cacheVars, setup, server, at, mctx, job, half, history>>
  BY DEF StillBlocked
<1>3. HasId(x, IdOf(m))
  BY <1>1, <1>2, SetWrappedId DEF IdInv, AtWork
<1> HIDE DEF x
<1>4. mail'[m] = x /\ DOMAIN mail' = Mails /\ \A n \in Mails \ {m} : mail'[n] = mail[n]
  BY <1>1, <1>2 DEF WalkShape
<1>5. Grows /\ IdOf(m)' = IdOf(m)
  BY <1>2, IdStays DEF Grows, history
<1>6. MailInv(m)'
  <2>1. IdInv(m)'
    BY <1>1, <1>2, <1>3, <1>4, <1>5 DEF IdInv
  <2>2. JobInv(m)' /\ HalfInv(m)'
    BY <1>1, <1>2 DEF MailInv, JobInv, HalfInv, AtWork, history
  <2>3. MatchInv(m)' /\ DeliverInv(m)'
    BY <1>1, <1>2, <1>5, WasStays DEF MailInv, MatchInv, DeliverInv
  <2> QED
    BY <2>1, <2>2, <2>3 DEF MailInv
<1>7. /\ DOMAIN db' = Key /\ DOMAIN delivered' = Mails /\ drops' = drops
      /\ \A k \in Key : db'[k] # Absent => db[k] # Absent
  BY <1>1, <1>2 DEF WalkShape, cacheVars, history
<1>8. /\ at' = [at EXCEPT ![m] = at[m]] /\ at[m] \in AtType
      /\ job' = [job EXCEPT ![m] = job[m]] /\ job[m] \in JobType
      /\ mctx' = [mctx EXCEPT ![m] = mctx[m]] /\ GoodCtx(mctx[m])
  BY <1>1, <1>2, Unchanged
<1>9. /\ \A n \in Mails \ {m} : mail'[n] = mail[n] /\ (n \in half' => n \in half)
      /\ server' \subseteq server
  BY <1>2, <1>4
<1> QED
  BY <1>4, <1>5, <1>6, <1>7, <1>8, <1>9, MailStep

\* What the ruleset leaves to be dropped was delivered.
LEMMA SettleStep ==
  ASSUME WalkInv, DeliversFirst, NEW m \in Mails, Settle(m)
  PROVE  WalkInv'
<1> DEFINE x == set_wrapped(mail[m], "sp")
<1>1. /\ WalkShape /\ MailInv(m) /\ IdInv(m) /\ JobInv(m) /\ MatchInv(m) /\ CacheInv
      /\ DroppedWasDelivered
  BY DEF WalkInv, MailInv
<1>2. /\ at[m] = "match" /\ Idle(Account[m]) /\ ~Waiting(mctx[m]) /\ RulesetOver(mctx[m])
      /\ at' = [at EXCEPT ![m] = "settled"] /\ mail' = [mail EXCEPT ![m] = x]
      /\ server' \subseteq server
      /\ drops' = drops \/ (FinalDecision(mctx[m]) = "drop" /\ drops' = drops \cup {m})
      /\ UNCHANGED <<cacheVars, setup, mctx, job, half, delivered, byHand>>
  BY DEF Settle
<1> HIDE DEF x
<1>3. m \notin half /\ job[m] = "none"
  BY <1>1, <1>2, NotHalf DEF JobInv
<1>4. mail'[m] = x /\ DOMAIN mail' = Mails /\ \A n \in Mails \ {m} : mail'[n] = mail[n]
  BY <1>1, <1>2 DEF WalkShape
<1>5. Grows
  BY <1>2 DEF Grows
<1>6. FinalDecision(mctx[m]) = "drop" => WasDelivered(m)
  BY <1>1, <1>2 DEF FinalDecision, MatchInv, DeliversFirst
<1>7. ASSUME at'[m] = "settled", job'[m] = "none" PROVE MailInv(m)'
  <2>1. IdInv(m)'
    BY <1>1, <1>2, <1>7 DEF IdInv, AtWork
  <2> QED
    BY <1>2, <1>3, <1>7, <2>1 DEF MailInv, JobInv, HalfInv, MatchInv, DeliverInv
<1>8. DroppedWasDelivered' /\ drops' \subseteq Mails
  <2>1. \A n \in drops : WasDelivered(n)'
    BY <1>1, <1>5, WasStays DEF DroppedWasDelivered, WalkShape
  <2>2. WasDelivered(m) => WasDelivered(m)'
    BY <1>1, <1>5, WasStays
  <2> QED
    BY <1>1, <1>2, <1>6, <2>1, <2>2 DEF DroppedWasDelivered, WalkShape
<1>9. CacheInv' /\ DOMAIN db' = Key /\ DOMAIN delivered' = Mails
  BY <1>1, <1>2, <1>5, CacheKept DEF WalkShape, cacheVars
<1>10. /\ "settled" \in AtType
       /\ job' = [job EXCEPT ![m] = "none"] /\ "none" \in JobType
       /\ mctx' = [mctx EXCEPT ![m] = mctx[m]] /\ GoodCtx(mctx[m])
  BY <1>1, <1>2, <1>3, Unchanged DEF AtType, JobType
<1>11. /\ \A n \in Mails \ {m} : mail'[n] = mail[n] /\ (n \in half' => n \in half)
       /\ server' \subseteq server /\ at' = [at EXCEPT ![m] = "settled"]
  BY <1>2, <1>4
<1> QED
  BY <1>4, <1>5, <1>7, <1>8, <1>9, <1>10, <1>11, MailStepInv

LEMMA FetchStep ==
  ASSUME WalkInv, NEW m \in Mails, Fetch(m)
  PROVE  WalkInv'
<1> DEFINE x == Enqueued(m, setup.mails[m].text)
           c == [NewCtx EXCEPT !.rule = setup.first]
<1>1. /\ WalkShape /\ MailInv(m) /\ IdInv(m) /\ JobInv(m) /\ HalfInv(m)
  BY DEF WalkInv, MailInv
<1>2. /\ m \in server /\ at[m] = "server"
      /\ mail' = [mail EXCEPT ![m] = x] /\ mctx' = [mctx EXCEPT ![m] = c]
      /\ at' = [at EXCEPT ![m] = "match"]
      /\ UNCHANGED <<cacheVars, setup, server, job, half, delivered, drops, byHand>>
  BY DEF Fetch
<1>3. HasId(x, IdOf(m))
  BY EnqueuedId DEF IdOf
<1>4. GoodCtx(c) /\ c.dqueue = <<>> /\ ~c.done /\ c.item = 0
  <2>1. setup.first \in Rule \cup {NoRule}
    BY <1>1, WalkAssumption DEF WalkShape
  <2> QED
    BY <2>1, NewCtxGood DEF GoodCtx, NewCtx, CtxType
<1> HIDE DEF x, c
<1>5. m \in DOMAIN setup.mails /\ m \notin half /\ job[m] = "none"
  BY <1>1, <1>2 DEF WalkShape, HalfInv, JobInv, AtWork
<1>6. mail'[m] = x /\ DOMAIN mail' = Mails /\ \A n \in Mails \ {m} : mail'[n] = mail[n]
  BY <1>1, <1>2 DEF WalkShape
<1>7. Grows /\ IdOf(m)' = IdOf(m)
  BY <1>2, IdStays DEF Grows
<1>8. ASSUME mctx'[m] = c, at'[m] = "match", job'[m] = "none" PROVE MailInv(m)'
  <2>1. IdInv(m)'
    BY <1>2, <1>3, <1>5, <1>6, <1>7 DEF IdInv
  <2> QED
    BY <1>2, <1>4, <1>5, <1>8, <2>1 DEF MailInv, JobInv, HalfInv, MatchInv, DeliverInv
<1>9. /\ DOMAIN db' = Key /\ DOMAIN delivered' = Mails /\ drops' = drops
      /\ \A k \in Key : db'[k] # Absent => db[k] # Absent
  BY <1>1, <1>2 DEF WalkShape, cacheVars
<1>10. /\ "match" \in AtType
       /\ job' = [job EXCEPT ![m] = "none"] /\ "none" \in JobType
  BY <1>1, <1>2, <1>5, Unchanged DEF AtType, JobType
<1>11. /\ \A n \in Mails \ {m} : mail'[n] = mail[n] /\ (n \in half' => n \in half)
       /\ server' \subseteq server
       /\ mctx' = [mctx EXCEPT ![m] = c] /\ at' = [at EXCEPT ![m] = "match"]
  BY <1>2, <1>6
<1> QED
  BY <1>4, <1>6, <1>7, <1>8, <1>9, <1>10, <1>11, MailStep

-----------------------------------------------------------------------------
(* Deliveries.                                                             *)

\* Only keep and drop leave a decision.
LEMMA KindIs ==
  ASSUME NEW act, act.is \in InChildActs \cup {"rewrite", "deliver"}
  PROVE  /\ act.is \in Decision => KindOf(act) = act.is
         /\ KindOf(act) \in Decision => KindOf(act) = act.is
  BY DEF KindOf, InChildActs, Decision

\* The action that is next, of a mail that has had k of the actions of rule r.
LEMMA ActIs ==
  ASSUME NEW r \in Rule, NEW k \in 0 .. Len(Ruleset[r].actions),
         NEW c, c.dqueue = LeftOf(r, k), c.dqueue # <<>>
  PROVE  /\ k + 1 \in DOMAIN Acts[r] /\ k + 1 \in 1 .. Len(Ruleset[r].actions)
         /\ Act(c) = Acts[r][k + 1]
         /\ Kind(Head(c.dqueue)) = KindOf(Acts[r][k + 1])
         /\ Tail(c.dqueue) = LeftOf(r, k + 1)
<1> DEFINE n == Len(Ruleset[r].actions)
<1>1. n \in Nat /\ DOMAIN Acts[r] = 1 .. n
  BY ItemsOf
<1>2. n - k # 0
  <2>1. SUFFICES ASSUME n - k = 0 PROVE LeftOf(r, k) = <<>>
    OBVIOUS
  <2> QED
    BY <2>1 DEF LeftOf
<1>3. k + 1 \in 1 .. n /\ n - k \in Nat \ {0}
  BY <1>1, <1>2
<1>4. Head(c.dqueue) = <<r, k + 1>>
  BY <1>3 DEF LeftOf
<1>5. Len(LeftOf(r, k)) = n - k
  BY <1>3 DEF LeftOf
<1>6. Tail(c.dqueue) = LeftOf(r, k + 1)
  <2>1. LeftOf(r, k) \in Seq(Rule \X Nat) /\ LeftOf(r, k + 1) \in Seq(Rule \X Nat)
    <3>1. n - (k + 1) \in Nat
      BY <1>3
    <3> QED
      BY <1>3, <3>1, SeqDef DEF LeftOf
  <2>2. Len(LeftOf(r, k + 1)) = n - (k + 1)
    BY <1>3 DEF LeftOf
  <2>3. /\ Tail(LeftOf(r, k)) \in Seq(Rule \X Nat)
        /\ Len(Tail(LeftOf(r, k))) = n - (k + 1)
        /\ \A i \in 1 .. n - (k + 1) : Tail(LeftOf(r, k))[i] = LeftOf(r, k)[i + 1]
    <3> DEFINE s == LeftOf(r, k)
    <3>1. s \in Seq(Rule \X Nat) /\ s # <<>> /\ Len(s) = n - k
      BY <1>5, <2>1
    <3> HIDE DEF s
    <3>2. /\ Tail(s) \in Seq(Rule \X Nat) /\ Len(Tail(s)) = Len(s) - 1
          /\ \A i \in 1 .. Len(Tail(s)) : Tail(s)[i] = s[i + 1]
      BY <3>1, HeadTailProperties
    <3>3. Len(Tail(s)) = n - (k + 1)
      BY <1>1, <3>1, <3>2
    <3> QED
      BY <3>2, <3>3 DEF s
  <2>4. \A i \in 1 .. n - (k + 1) : LeftOf(r, k)[i + 1] = LeftOf(r, k + 1)[i]
    <3>1. \A i \in 1 .. n - (k + 1) : i + 1 \in 1 .. n - k /\ k + (i + 1) = k + 1 + i
      BY <1>1
    <3> QED
      BY <3>1 DEF LeftOf
  <2> QED
    BY <2>1, <2>2, <2>3, <2>4, SeqEqual
<1>7. Kind(Head(c.dqueue)) = KindOf(Acts[r][k + 1])
  <2>1. Ruleset[r].actions = [i \in DOMAIN Acts[r] |-> KindOf(Acts[r][i])]
    BY WalkAssumption
  <2>2. Ruleset[r].actions[k + 1] = KindOf(Acts[r][k + 1])
    BY <1>1, <1>3, <2>1
  <2> QED
    BY <1>4, <2>2 DEF Kind
<1>8. Act(c) = Acts[r][k + 1]
  BY <1>4 DEF Act, CurrentDelivery
<1> QED
  BY <1>1, <1>3, <1>6, <1>7, <1>8

\* That action done.
LEMMA ActDone ==
  ASSUME WalkShape, Grows, NEW m \in Mails,
         NEW r \in Rule, NEW k \in 0 .. Len(Ruleset[r].actions), InRule(m, r, k),
         NEW c \in CtxType, c.dqueue = mctx[m].dqueue, c.dqueue # <<>>,
         c.done = mctx[m].done, c.decision = mctx[m].decision,
         mctx'[m] = Delivered(c),
         Delivers(Act(mctx[m])) => delivered'[m] # {}
  PROVE  InRule(m, r, k + 1)' /\ k + 1 \in 0 .. Len(Ruleset[r].actions)
<1> DEFINE act == Acts[r][k + 1]
<1>1. /\ c.dqueue = LeftOf(r, k) /\ mctx[m].dqueue = LeftOf(r, k)
      /\ \A j \in 1 .. k : Delivers(Acts[r][j]) => delivered[m] # {}
      /\ mctx[m].done => StopsSafely(m, r, k)
  BY DEF InRule
<1>2. /\ k + 1 \in DOMAIN Acts[r] /\ k + 1 \in 1 .. Len(Ruleset[r].actions)
      /\ Act(mctx[m]) = act
      /\ Kind(Head(c.dqueue)) = KindOf(act)
      /\ Tail(c.dqueue) = LeftOf(r, k + 1)
  BY <1>1, ActIs
<1>3. /\ mctx'[m].dqueue = LeftOf(r, k + 1) /\ mctx'[m].done = c.done
      /\ mctx'[m].decision = IF KindOf(act) \in Decision THEN KindOf(act) ELSE c.decision
  BY <1>2 DEF Delivered, CtxType
<1>4. act.is \in InChildActs \cup {"rewrite", "deliver"}
  BY <1>2, WalkAssumption
<1>5. \A j \in 1 .. k + 1 : Delivers(Acts[r][j]) => delivered'[m] # {}
  <2>1. \A j \in 1 .. k + 1 : j \in 1 .. k \/ j = k + 1
    OBVIOUS
  <2> QED
    BY <1>1, <1>2, <2>1 DEF Grows
<1>6. ASSUME mctx'[m].done PROVE StopsSafely(m, r, k + 1)'
  <2>1. StopsSafely(m, r, k)
    BY <1>1, <1>3, <1>6
  <2>2. CASE WasDelivered(m)
    BY <2>2, WasStays DEF StopsSafely
  <2>3. CASE \E j \in DOMAIN Acts[r] : Delivers(Acts[r][j])
    BY <2>3 DEF StopsSafely
  <2>4. ASSUME NEW j \in DOMAIN Acts[r], KeepsAt(r, j), j <= k => mctx[m].decision = "keep"
        PROVE  StopsSafely(m, r, k + 1)'
    <3>1. j \in Nat /\ k \in Nat
      BY ItemsOf
    <3>2. ASSUME j <= k + 1 PROVE mctx'[m].decision = "keep"
      <4>1. CASE j = k + 1
        <5>1. act.is = "keep"
          BY <2>4, <4>1 DEF KeepsAt
        <5>2. KindOf(act) = "keep"
          BY <1>4, <5>1, KindIs DEF Decision
        <5> QED
          BY <1>3, <5>2 DEF Decision
      <4>2. CASE j <= k
        <5>1. act.is # "drop"
          BY <1>2, <2>4, <3>1, <4>2 DEF KeepsAt
        <5>2. KindOf(act) \in Decision => KindOf(act) = "keep"
          BY <1>4, <5>1, KindIs DEF Decision
        <5> QED
          BY <1>3, <2>4, <4>2, <5>2
      <4> QED
        BY <3>1, <3>2, <4>1, <4>2
    <3> QED
      BY <2>4, <3>2 DEF StopsSafely
  <2> QED
    BY <2>1, <2>2, <2>3, <2>4 DEF StopsSafely
<1> HIDE DEF act
<1>7. InRule(m, r, k + 1)'
  BY <1>3, <1>5, <1>6 DEF InRule
<1> QED
  BY <1>2, <1>7

\* The end of an action that has succeeded: the next is to be done, of the mail x.
ActionEnds(m, d, x) ==
  /\ mctx' = [mctx EXCEPT ![m] = d] /\ at' = [at EXCEPT ![m] = "deliver"]
  /\ job' = [job EXCEPT ![m] = "none"]
  /\ DOMAIN mail' = Mails /\ mail'[m] = x /\ \A n \in Mails \ {m} : mail'[n] = mail[n]
  /\ half' = half \ {m} /\ server' \subseteq server /\ drops' = drops
  /\ DOMAIN delivered' = Mails /\ DOMAIN db' = Key

LEMMA ActionMail ==
  ASSUME WalkShape, Grows, NEW m \in Mails, at[m] = "deliver", IdInv(m), DeliverInv(m),
         NEW c, GoodCtx(c), c.item = mctx[m].item, c.dqueue = mctx[m].dqueue,
         c.dqueue # <<>>, c.done = mctx[m].done, c.decision = mctx[m].decision, c.msgid = 0,
         at'[m] = "deliver", job'[m] = "none", mctx'[m] = Delivered(c),
         HasId(mail'[m], IdOf(m)), m \notin half',
         Delivers(Act(mctx[m])) => delivered'[m] # {}
  PROVE  MailInv(m)' /\ GoodCtx(Delivered(c))
<1> DEFINE d == Delivered(c)
<1>1. c \in CtxType
  BY DEF GoodCtx
<1>2. GoodCtx(d) /\ d.msgid = 0 /\ d.item = 0
  <2>1. GoodCtx(d) /\ d.msgid = 0
    BY DeliveredGood
  <2>2. mctx[m].item = 0
    BY DEF DeliverInv
  <2> QED
    BY <1>1, <2>1, <2>2 DEF Delivered, CtxType
<1>3. PICK r \in Rule : \E k \in 0 .. Len(Ruleset[r].actions) : InRule(m, r, k)
  BY DEF DeliverInv
<1>4. PICK k \in 0 .. Len(Ruleset[r].actions) : InRule(m, r, k)
  BY <1>3
<1>5. InRule(m, r, k + 1)' /\ k + 1 \in 0 .. Len(Ruleset[r].actions)
  BY <1>1, <1>4, ActDone
<1>6. IdOf(m)' = IdOf(m) /\ setup' = setup
  BY IdStays DEF Grows
<1> HIDE DEF d
<1>7. mctx'[m] = d
  BY DEF d
<1>8. IdInv(m)'
  BY <1>6 DEF IdInv
<1>9. DeliverInv(m)'
  BY <1>2, <1>5, <1>7 DEF DeliverInv
<1>10. JobInv(m)' /\ HalfInv(m)' /\ MatchInv(m)'
  BY DEF JobInv, HalfInv, MatchInv
<1> QED
  BY <1>2, <1>8, <1>9, <1>10 DEF MailInv, d

LEMMA ActionStep ==
  ASSUME WalkInv, Grows, NEW m \in Mails, at[m] = "deliver",
         NEW c, GoodCtx(c), c.item = mctx[m].item, c.dqueue = mctx[m].dqueue,
         c.dqueue # <<>>, c.done = mctx[m].done, c.decision = mctx[m].decision, c.msgid = 0,
         NEW d, d = Delivered(c), NEW x, HasId(x, IdOf(m)), ActionEnds(m, d, x),
         Delivers(Act(mctx[m])) => delivered'[m] # {}, CacheInv'
  PROVE  WalkInv'
<1>1. /\ WalkShape /\ IdInv(m) /\ DeliverInv(m) /\ DroppedWasDelivered
  BY DEF WalkInv, MailInv
<1>2. /\ mail'[m] = x /\ DOMAIN mail' = Mails
      /\ \A n \in Mails \ {m} : mail'[n] = mail[n] /\ (n \in half' => n \in half)
  BY <1>1 DEF WalkShape, ActionEnds
<1>3. /\ at'[m] = "deliver" /\ job'[m] = "none" /\ mctx'[m] = d /\ m \notin half'
  BY <1>1 DEF WalkShape, ActionEnds
<1>4. MailInv(m)' /\ GoodCtx(d)
  BY <1>1, <1>2, <1>3, ActionMail
<1>5. DroppedWasDelivered' /\ drops' \subseteq Mails
  BY <1>1, DropsStay DEF WalkShape, ActionEnds
<1>6. "deliver" \in AtType /\ "none" \in JobType
  BY DEF AtType, JobType
<1>7. /\ mctx' = [mctx EXCEPT ![m] = d] /\ at' = [at EXCEPT ![m] = "deliver"]
      /\ job' = [job EXCEPT ![m] = "none"] /\ server' \subseteq server
      /\ DOMAIN delivered' = Mails /\ DOMAIN db' = Key
  BY DEF ActionEnds
<1> QED
  BY <1>2, <1>4, <1>5, <1>6, <1>7, MailStepInv

\* What a mail at work is before an action.
LEMMA ReadyId ==
  ASSUME NEW m, HasId(mail[m], IdOf(m))
  PROVE  HasId(Ready(m), IdOf(m))
<1> DEFINE u == set_wrapped(mail[m], "nl")
<1>1. HasId(u, IdOf(m))
  BY SetWrappedId
<1> HIDE DEF u
<1>2. HasId([u EXCEPT !.tags = update_tags(@, "user")], IdOf(m))
  BY <1>1, UserTagId
<1> QED
  BY <1>2 DEF Ready, u

\* The action that is next, and what the rules say of it.
LEMMA NextAct ==
  ASSUME WalkShape, DeliversFirst, NEW m \in Mails, at[m] = "deliver", mctx[m].dqueue # <<>>,
         DeliverInv(m), NEW act, act = Act(mctx[m])
  PROVE  /\ act.is = "tag" => act.tag # "message_id"
         /\ act.is = "add-to-cache" => act.key = MsgId /\ delivered[m] # {}
<1>0. PICK r \in Rule : \E k \in 0 .. Len(Ruleset[r].actions) : InRule(m, r, k)
  BY DEF DeliverInv
<1>1. PICK k \in 0 .. Len(Ruleset[r].actions) : InRule(m, r, k)
  BY <1>0
<1>2. k + 1 \in DOMAIN Acts[r] /\ act = Acts[r][k + 1] /\ k \in Nat
  BY <1>1, ActIs, ItemsOf DEF InRule
<1>3. /\ act.is = "tag" => act.tag # "message_id"
      /\ act.is = "add-to-cache" => act.key = MsgId /\ \E j \in 1 .. (k + 1) - 1 : Delivers(Acts[r][j])
  BY <1>2 DEF DeliversFirst
<1>4. (k + 1) - 1 = k
  BY <1>2
<1>5. \A j \in 1 .. k : Delivers(Acts[r][j]) => delivered[m] # {}
  BY <1>1 DEF InRule
<1> QED
  BY <1>3, <1>4, <1>5

\* The key of a mail at work that an action adds, after a delivery.
LEMMA CacheAdds ==
  ASSUME WalkShape, Grows, CacheInv, NEW m \in DOMAIN setup.mails, delivered[m] # {},
         db' = db_add(Id(m))
  PROVE  CacheInv'
<1>1. m \in Mails /\ Id(m)' = Id(m) /\ setup' = setup
  BY ItsMails, IdStays DEF Grows
<1>2. SUFFICES ASSUME NEW k \in Key, db'[k] # Absent
             PROVE  k \in byHand' \/ \E n \in DOMAIN setup'.mails : Id(n)' = k /\ delivered'[n] # {}
  BY DEF CacheInv, db_contains
<1>3. CASE k = Id(m)
  BY <1>1, <1>3 DEF Grows
<1>4. CASE k # Id(m)
  <2>1. db_contains(k)
    BY <1>2, <1>4 DEF db_add, db_contains, WalkShape
  <2>2. CASE k \in byHand
    BY <2>2 DEF Grows
  <2>3. ASSUME NEW n \in DOMAIN setup.mails, Id(n) = k, delivered[n] # {}
        PROVE  Id(n)' = k /\ delivered'[n] # {} /\ n \in DOMAIN setup'.mails
    BY <1>1, <2>3, ItsMails, IdStays DEF Grows
  <2> QED
    BY <2>1, <2>2, <2>3 DEF CacheInv
<1> QED
  BY <1>3, <1>4

LEMMA ActInChildStep ==
  ASSUME WalkInv, DeliversFirst, NEW m \in Mails, ActInChild(m)
  PROVE  WalkInv'
<1> DEFINE act == Act(mctx[m])
           r == Ready(m)
           x == Acted(r, act)
           c == mctx[m]
           d == Delivered(c)
<1>1. /\ WalkShape /\ CacheInv /\ MailInv(m) /\ IdInv(m) /\ JobInv(m) /\ DeliverInv(m)
  BY DEF WalkInv, MailInv
<1>2. /\ at[m] = "deliver" /\ Idle(Account[m]) /\ c.msgid = 0 /\ c.dqueue # <<>>
  BY DEF ActInChild, Delivering, Waiting
<1>3. /\ mail' = [mail EXCEPT ![m] = x]
      /\ db' = IF act.is = "add-to-cache" THEN db_add(replace(act.key, r)) ELSE db
      /\ delivered' = [delivered EXCEPT ![m] = IF act.is = "stdout" THEN @ \cup {r.text} ELSE @]
      /\ mctx' = [mctx EXCEPT ![m] = d]
      /\ UNCHANGED <<setup, server, at, job, half, drops, byHand>>
  BY DEF ActInChild
<1>4. act.is \in InChildActs
  BY DEF ActInChild
<1>5. /\ act.is = "tag" => act.tag # "message_id"
      /\ act.is = "add-to-cache" => act.key = MsgId /\ delivered[m] # {}
  BY <1>1, <1>2, NextAct
<1>6. m \in DOMAIN setup.mails /\ HasId(r, IdOf(m))
  BY <1>1, <1>2, ReadyId DEF IdInv, AtWork
<1> HIDE DEF act, r
<1>7. HasId(x, IdOf(m))
  BY <1>5, <1>6, ActedId
<1>8. Grows
  BY <1>1, <1>3 DEF Grows, WalkShape
<1>9. CacheInv'
  <2>1. CASE act.is = "add-to-cache"
    <3>1. replace(act.key, r) = Id(m)
      BY <1>5, <1>6, <2>1, KeyOf
    <3> QED
      BY <1>1, <1>3, <1>5, <1>6, <1>8, <2>1, <3>1, CacheAdds
  <2>2. CASE act.is # "add-to-cache"
    BY <1>1, <1>3, <1>8, <2>2, CacheKept
  <2> QED
    BY <2>1, <2>2
<1>10. Delivers(Act(mctx[m])) => delivered'[m] # {}
  <2>1. SUFFICES ASSUME Delivers(act) PROVE delivered'[m] # {}
    BY DEF act
  <2>2. act.is = "stdout"
    BY <1>4, <2>1 DEF Delivers, InChildActs
  <2> QED
    BY <1>1, <1>3, <2>2 DEF WalkShape
<1> HIDE DEF x
<1>11. m \notin half /\ job[m] = "none" /\ GoodCtx(mctx[m])
  BY <1>1, <1>2, NotHalf DEF JobInv, WalkShape, Waiting
<1>12. ActionEnds(m, d, x)
  <2>1. /\ at' = [at EXCEPT ![m] = "deliver"] /\ job' = [job EXCEPT ![m] = "none"]
    BY <1>1, <1>2, <1>3, <1>11, Unchanged
  <2>2. DOMAIN delivered' = Mails /\ DOMAIN db' = Key
    BY <1>1, <1>3 DEF WalkShape, db_add
  <2>3. DOMAIN mail' = Mails /\ mail'[m] = x /\ \A n \in Mails \ {m} : mail'[n] = mail[n]
    BY <1>1, <1>3 DEF WalkShape
  <2> QED
    BY <1>3, <1>11, <2>1, <2>2, <2>3 DEF ActionEnds
<1> QED
  BY <1>2, <1>7, <1>8, <1>9, <1>10, <1>11, <1>12, ActionStep

\* The second half of a remove-from-cache that still finds the key.
LEMMA RemoveKeyStep ==
  ASSUME WalkInv, DeliversFirst, NEW m \in Mails, m \in half, RemoveKey(m), db_contains(NextKey(m))
  PROVE  WalkInv'
<1> DEFINE act == Act(mctx[m])
           x == Acted(Ready(m), act)
           c == mctx[m]
           d == Delivered(c)
<1>1. /\ WalkShape /\ CacheInv /\ MailInv(m) /\ IdInv(m) /\ JobInv(m) /\ HalfInv(m) /\ DeliverInv(m)
  BY DEF WalkInv, MailInv
<1>2. /\ at[m] = "deliver" /\ ~Waiting(c) /\ c.msgid = 0 /\ c.dqueue # <<>>
      /\ act.is = "remove-from-cache"
  BY <1>1 DEF HalfInv, Waiting
<1>3. /\ mail' = [mail EXCEPT ![m] = x] /\ db' = db_remove(NextKey(m))
      /\ half' = half \ {m} /\ mctx' = [mctx EXCEPT ![m] = d]
      /\ UNCHANGED <<setup, server, at, job, delivered, drops, byHand>>
  BY DEF RemoveKey, history
<1>4. HasId(x, IdOf(m))
  <2>1. HasId(Ready(m), IdOf(m))
    BY <1>1, <1>2, ReadyId DEF IdInv, AtWork
  <2> QED
    BY <1>2, <2>1, ActedId
<1>5. ~Delivers(Act(mctx[m]))
  BY <1>2 DEF Delivers
<1> HIDE DEF act, x
<1>6. Grows
  BY <1>3 DEF Grows
<1>7. CacheInv' /\ DOMAIN db' = Key
  <2>1. /\ DOMAIN db' = Key /\ \A k \in Key : db'[k] # Absent => db[k] # Absent
    BY <1>1, <1>3 DEF WalkShape, db_remove
  <2> QED
    BY <1>1, <1>6, <2>1, CacheKept
<1>8. job[m] = "none" /\ GoodCtx(mctx[m])
  BY <1>1, <1>2 DEF JobInv, WalkShape
<1>9. ActionEnds(m, d, x)
  <2>1. /\ at' = [at EXCEPT ![m] = "deliver"] /\ job' = [job EXCEPT ![m] = "none"]
    BY <1>1, <1>2, <1>3, <1>8, Unchanged
  <2>2. /\ DOMAIN delivered' = Mails /\ DOMAIN mail' = Mails /\ mail'[m] = x
        /\ \A n \in Mails \ {m} : mail'[n] = mail[n]
    BY <1>1, <1>3 DEF WalkShape
  <2> QED
    BY <1>3, <1>7, <2>1, <2>2 DEF ActionEnds
<1> QED
  BY <1>2, <1>4, <1>5, <1>6, <1>7, <1>8, <1>9, ActionStep

\* What the parent has done is done.
LEMMA AnsweredStep ==
  ASSUME WalkInv, DeliversFirst, NEW m \in Mails, Answered(m)
  PROVE  WalkInv'
<1> DEFINE c == [mctx[m] EXCEPT !.msgid = 0]
           d == Delivered(c)
<1>1. /\ WalkShape /\ CacheInv /\ MailInv(m) /\ IdInv(m) /\ JobInv(m) /\ DeliverInv(m)
  BY DEF WalkInv, MailInv
<1>2. /\ at[m] = "deliver" /\ Idle(Account[m]) /\ job[m] = "yes"
      /\ job' = [job EXCEPT ![m] = "none"] /\ mctx' = [mctx EXCEPT ![m] = d]
      /\ UNCHANGED <<cacheVars, setup, server, at, half, delivered, drops, byHand>>
  BY DEF Answered, Succeeded
<1>3. /\ mctx[m].dqueue # <<>> /\ GoodCtx(mctx[m])
      /\ Act(mctx[m]).is \notin InChildActs
      /\ Act(mctx[m]).is = "deliver" => delivered[m] # {}
  BY <1>1, <1>2 DEF JobInv, WalkShape
<1>4. /\ GoodCtx(c) /\ c.item = mctx[m].item /\ c.dqueue = mctx[m].dqueue
      /\ c.done = mctx[m].done /\ c.decision = mctx[m].decision /\ c.msgid = 0
      /\ c.dqueue # <<>>
  BY <1>3 DEF GoodCtx, CtxType
<1> DEFINE x == mail'[m]
<1>5. /\ DOMAIN mail' = Mails /\ HasId(x, IdOf(m))
      /\ \A n \in Mails \ {m} : mail'[n] = mail[n]
  <2>1. HasId(mail[m], IdOf(m))
    BY <1>1, <1>2 DEF IdInv, AtWork
  <2>2. CASE mail' = mail
    BY <1>1, <2>1, <2>2 DEF WalkShape
  <2>3. ASSUME NEW new \in setup.rewrites, mail' = [mail EXCEPT ![m] = Received(@, new.text)]
        PROVE  /\ DOMAIN mail' = Mails /\ HasId(x, IdOf(m))
               /\ \A n \in Mails \ {m} : mail'[n] = mail[n]
    <3>1. x = Received(mail[m], new.text)
      BY <1>1, <2>3 DEF WalkShape
    <3>2. HasId(Received(mail[m], new.text), IdOf(m))
      BY <2>1, ReceivedId
    <3> QED
      BY <1>1, <2>3, <3>1, <3>2 DEF WalkShape
  <2>4. mail' = mail \/ \E new \in setup.rewrites : mail' = [mail EXCEPT ![m] = Received(@, new.text)]
    BY DEF Answered
  <2> QED
    BY <2>2, <2>3, <2>4
<1>6. Grows
  BY <1>2 DEF Grows
<1>7. CacheInv' /\ DOMAIN db' = Key
  BY <1>1, <1>2, <1>6, CacheKept DEF WalkShape, cacheVars
<1>8. Delivers(Act(mctx[m])) => delivered'[m] # {}
  BY <1>2, <1>3 DEF Delivers, InChildActs
<1> HIDE DEF c
<1>9. m \notin half
  BY <1>1, <1>2, NotHalf
<1>10. ActionEnds(m, d, x)
  <2>1. at' = [at EXCEPT ![m] = "deliver"]
    BY <1>1, <1>2, Unchanged
  <2>2. DOMAIN delivered' = Mails
    BY <1>1, <1>2 DEF WalkShape
  <2> QED
    BY <1>2, <1>5, <1>7, <1>9, <2>1, <2>2 DEF ActionEnds
<1> QED
  BY <1>2, <1>4, <1>5, <1>6, <1>7, <1>8, <1>10, ActionStep

\* A mail waits for the other half of its remove-from-cache.
LEMMA FindKeyStep ==
  ASSUME WalkInv, NEW m \in Mails, FindKey(m)
  PROVE  WalkInv'
<1>1. /\ WalkShape /\ CacheInv /\ DroppedWasDelivered /\ MailInv(m) /\ IdInv(m) /\ JobInv(m)
      /\ \A n \in Mails : MailInv(n)
  BY DEF WalkInv, MailInv
<1>2. /\ at[m] = "deliver" /\ ~Waiting(mctx[m]) /\ mctx[m].dqueue # <<>>
      /\ Act(mctx[m]).is = "remove-from-cache"
      /\ half' = half \cup {m}
      /\ UNCHANGED <<cacheVars, setup, server, at, mctx, mail, job, history>>
  BY DEF FindKey, ChangesCache, Delivering
<1>3. Grows
  BY <1>2 DEF Grows, history
<1>4. MailInv(m)'
  <2>1. IdInv(m)'
    BY <1>1, <1>2, <1>3, IdStays DEF IdInv, AtWork, Grows
  <2>2. JobInv(m)' /\ HalfInv(m)'
    BY <1>1, <1>2 DEF JobInv, HalfInv, AtWork
  <2>3. MatchInv(m)' /\ DeliverInv(m)'
    <3>1. MatchInv(m)'
      BY <1>2 DEF MatchInv
    <3>2. DeliverInv(m)'
      <4>1. /\ mctx[m].item = 0
            /\ \E r \in Rule : \E k \in 0 .. Len(Ruleset[r].actions) : InRule(m, r, k)
        BY <1>1, <1>2 DEF MailInv, DeliverInv
      <4>2. ASSUME NEW r \in Rule, NEW k \in 0 .. Len(Ruleset[r].actions), InRule(m, r, k)
            PROVE  InRule(m, r, k)'
        BY <1>1, <1>2, <1>3, <4>2, WasStays DEF InRule, StopsSafely, history
      <4> QED
        BY <1>2, <4>1, <4>2 DEF DeliverInv
    <3> QED
      BY <3>1, <3>2
  <2> QED
    BY <2>1, <2>2, <2>3 DEF MailInv
<1>5. \A n \in Mails \ {m} : /\ at'[n] = at[n] /\ mctx'[n] = mctx[n]
                             /\ mail'[n] = mail[n] /\ job'[n] = job[n]
                             /\ n \in half' => n \in half
  BY <1>2
<1>6. \A n \in Mails : MailInv(n)'
  BY <1>1, <1>3, <1>4, <1>5, OneMail
<1>7. WalkShape' /\ DroppedWasDelivered' /\ CacheInv'
  <2>1. WalkShape'
    BY <1>1, <1>2 DEF WalkShape, cacheVars, history
  <2>2. drops' = drops /\ db' = db
    BY <1>2 DEF cacheVars, history
  <2> QED
    BY <1>1, <1>3, <2>1, <2>2, DropsStay, CacheKept
<1> QED
  BY <1>6, <1>7 DEF WalkInv

\* An action for the parent.
LEMMA AskActionStep ==
  ASSUME WalkInv, NEW m \in Mails, Ask(m)
  PROVE  WalkInv'
<1> DEFINE c == mctx[m]
           d == [c EXCEPT !.msgid = 1]
           x == [Ready(m) EXCEPT !.tags = reset_tags(@)]
<1>1. /\ WalkShape /\ MailInv(m) /\ IdInv(m) /\ DeliverInv(m)
  BY DEF WalkInv, MailInv
<1>2. /\ at[m] = "deliver" /\ Idle(Account[m]) /\ ~Waiting(c) /\ c.dqueue # <<>>
      /\ Act(c).is \notin InChildActs
      /\ mail' = [mail EXCEPT ![m] = x] /\ job' = [job EXCEPT ![m] = "run"]
      /\ mctx' = [mctx EXCEPT ![m].msgid = 1]
      /\ UNCHANGED <<cacheVars, setup, server, at, half, history>>
  BY DEF Ask, Delivering
<1>3. m \notin half
  BY <1>1, <1>2, NotHalf
<1>4. HasId(x, IdOf(m))
  <2>1. HasId(Ready(m), IdOf(m))
    BY <1>1, <1>2, ReadyId DEF IdInv, AtWork
  <2> QED
    BY <2>1, UserTagId
<1> HIDE DEF x
<1>5. GoodCtx(c) /\ mctx' = [mctx EXCEPT ![m] = d]
  BY <1>1, <1>2 DEF WalkShape
<1>6. /\ GoodCtx(d) /\ d.item = c.item /\ d.dqueue = c.dqueue
      /\ d.done = c.done /\ d.decision = c.decision /\ d.msgid = 1
  BY <1>5 DEF GoodCtx, CtxType
<1>7. Act(d) = Act(c)
  BY <1>6 DEF Act, CurrentDelivery
<1> HIDE DEF d
<1>8. Grows /\ delivered' = delivered
  BY <1>2 DEF Grows, history
<1>9. mail'[m] = x /\ DOMAIN mail' = Mails /\ \A n \in Mails \ {m} : mail'[n] = mail[n]
  BY <1>1, <1>2 DEF WalkShape
<1>10. ASSUME mctx'[m] = d, at'[m] = "deliver", job'[m] = "run" PROVE MailInv(m)'
  <2>1. IdInv(m)'
    BY <1>1, <1>2, <1>4, <1>8, <1>9, <1>10, IdStays DEF IdInv, Grows
  <2>2. JobInv(m)'
    BY <1>2, <1>6, <1>7, <1>10 DEF JobInv, AtWork, Waiting
  <2>3. HalfInv(m)' /\ MatchInv(m)'
    BY <1>2, <1>3, <1>10 DEF HalfInv, MatchInv
  <2>4. DeliverInv(m)'
    <3>1. ASSUME NEW r \in Rule, NEW k \in 0 .. Len(Ruleset[r].actions), InRule(m, r, k)
          PROVE  InRule(m, r, k)'
      BY <1>1, <1>6, <1>8, <1>10, <3>1, WasStays DEF InRule, StopsSafely
    <3>2. /\ c.item = 0
          /\ \E r \in Rule : \E k \in 0 .. Len(Ruleset[r].actions) : InRule(m, r, k)
      BY <1>1, <1>2 DEF DeliverInv
    <3> QED
      BY <1>6, <1>10, <3>1, <3>2 DEF DeliverInv
  <2> QED
    BY <2>1, <2>2, <2>3, <2>4 DEF MailInv
<1>11. /\ DOMAIN db' = Key /\ DOMAIN delivered' = Mails /\ drops' = drops
       /\ \A k \in Key : db'[k] # Absent => db[k] # Absent
  BY <1>1, <1>2 DEF WalkShape, cacheVars, history
<1>12. at' = [at EXCEPT ![m] = "deliver"] /\ "deliver" \in AtType /\ "run" \in JobType
  BY <1>1, <1>2, Unchanged DEF AtType, JobType
<1>13. /\ \A n \in Mails \ {m} : mail'[n] = mail[n] /\ (n \in half' => n \in half)
       /\ server' \subseteq server /\ job' = [job EXCEPT ![m] = "run"]
  BY <1>2, <1>9
<1> QED
  BY <1>5, <1>6, <1>8, <1>9, <1>10, <1>11, <1>12, <1>13, MailStep

\* The rule is done with the mail, and has delivered it if it stops there.
LEMMA ToMatchStep ==
  ASSUME WalkInv, NEW m \in Mails, ToMatch(m)
  PROVE  WalkInv'
<1> DEFINE c == mctx[m]
           x == set_wrapped(mail[m], "nl")
<1>1. /\ WalkShape /\ MailInv(m) /\ IdInv(m) /\ JobInv(m) /\ DeliverInv(m)
  BY DEF WalkInv, MailInv
<1>2. /\ at[m] = "deliver" /\ Idle(Account[m]) /\ ~Waiting(c) /\ c.dqueue = <<>>
      /\ mail' = [mail EXCEPT ![m] = x] /\ at' = [at EXCEPT ![m] = "match"]
      /\ UNCHANGED <<cacheVars, setup, server, mctx, job, half, history>>
  BY DEF ToMatch
<1>3. m \notin half /\ job[m] = "none"
  BY <1>1, <1>2, NotHalf DEF JobInv
<1>4. HasId(x, IdOf(m))
  BY <1>1, <1>2, SetWrappedId DEF IdInv, AtWork
<1> HIDE DEF x
<1>5. Grows /\ delivered' = delivered
  BY <1>2 DEF Grows, history
<1>6. mail'[m] = x /\ DOMAIN mail' = Mails /\ \A n \in Mails \ {m} : mail'[n] = mail[n]
  BY <1>1, <1>2 DEF WalkShape
<1>7. c.item = 0 /\ (c.done => WasDelivered(m) \/ c.decision = "keep")
  <2>1. PICK r \in Rule : \E k \in 0 .. Len(Ruleset[r].actions) : InRule(m, r, k)
    BY <1>1, <1>2 DEF DeliverInv
  <2>2. PICK k \in 0 .. Len(Ruleset[r].actions) : InRule(m, r, k)
    BY <2>1
  <2> DEFINE n == Len(Ruleset[r].actions)
  <2>3. n \in Nat /\ DOMAIN Acts[r] = 1 .. n
    BY ItemsOf
  <2>4. k = n
    <3>1. LeftOf(r, k) = <<>>
      BY <1>2, <2>2 DEF InRule
    <3>2. n - k = 0
      <4>1. DOMAIN LeftOf(r, k) = 1 .. n - k
        BY DEF LeftOf
      <4>2. DOMAIN LeftOf(r, k) = {}
        BY <3>1
      <4>3. n - k \in Nat
        BY <2>3
      <4>4. 1 \notin 1 .. n - k
        BY <4>1, <4>2
      <4> QED
        BY <4>3, <4>4
    <3> QED
      BY <2>3, <3>2
  <2>5. ASSUME c.done PROVE WasDelivered(m) \/ c.decision = "keep"
    <3>1. StopsSafely(m, r, n)
      BY <2>2, <2>4, <2>5 DEF InRule
    <3>2. \A j \in DOMAIN Acts[r] : j <= n /\ (Delivers(Acts[r][j]) => WasDelivered(m))
      BY <2>2, <2>3, <2>4 DEF InRule, WasDelivered
    <3> QED
      BY <3>1, <3>2 DEF StopsSafely
  <2> QED
    BY <1>1, <1>2, <2>5 DEF DeliverInv
<1>8. ASSUME mctx'[m] = c, at'[m] = "match", job'[m] = "none" PROVE MailInv(m)'
  <2>1. IdInv(m)'
    BY <1>1, <1>2, <1>4, <1>5, <1>6, <1>8, IdStays DEF IdInv, AtWork, Grows
  <2>2. WasDelivered(m) => WasDelivered(m)'
    BY <1>1, <1>5, WasStays
  <2>3. JobInv(m)' /\ HalfInv(m)' /\ DeliverInv(m)'
    BY <1>2, <1>3, <1>8 DEF JobInv, HalfInv, DeliverInv
  <2>4. MatchInv(m)'
    BY <1>2, <1>7, <1>8, <2>2 DEF MatchInv
  <2> QED
    BY <2>1, <2>3, <2>4 DEF MailInv
<1>9. /\ DOMAIN db' = Key /\ DOMAIN delivered' = Mails /\ drops' = drops
      /\ \A k \in Key : db'[k] # Absent => db[k] # Absent
  BY <1>1, <1>2 DEF WalkShape, cacheVars, history
<1>10. /\ mctx' = [mctx EXCEPT ![m] = c] /\ GoodCtx(c) /\ "match" \in AtType
       /\ job' = [job EXCEPT ![m] = "none"] /\ "none" \in JobType
  BY <1>1, <1>2, <1>3, Unchanged DEF AtType, JobType
<1>11. /\ \A n \in Mails \ {m} : mail'[n] = mail[n] /\ (n \in half' => n \in half)
       /\ server' \subseteq server /\ at' = [at EXCEPT ![m] = "match"]
  BY <1>2, <1>6
<1> HIDE DEF c
<1> QED
  BY <1>5, <1>6, <1>8, <1>9, <1>10, <1>11, MailStep

\* A deliver child has tried: what it says it has delivered is delivered.
LEMMA WorkEndsStep ==
  ASSUME WalkInv, NEW m \in Mails, WorkEnds(m)
  PROVE  WalkInv'
<1> DEFINE c == mctx[m]
<1>1. /\ WalkShape /\ MailInv(m) /\ IdInv(m) /\ JobInv(m) /\ MatchInv(m) /\ DeliverInv(m)
  BY DEF WalkInv, MailInv
<1>2. /\ job[m] = "run"
      /\ UNCHANGED <<cacheVars, setup, server, at, mctx, mail, half, drops, byHand>>
  BY DEF WorkEnds
<1>3. PICK j \in JobType :
        /\ job' = [job EXCEPT ![m] = j]
        /\ \/ j # "yes" /\ delivered' = delivered
           \/ at[m] = "match" /\ delivered' = delivered
           \/ /\ at[m] = "deliver"
              /\ delivered' = [delivered EXCEPT ![m] = IF Act(c).is = "deliver"
                                                       THEN @ \cup {mail[m].text} ELSE @]
  BY DEF WorkEnds, JobType
<1>4. /\ AtWork(m) /\ Waiting(c)
      /\ at[m] = "match" => c.item # 0 /\ ~c.done /\ Cond(c).is = "command"
      /\ at[m] = "deliver" => c.dqueue # <<>> /\ Act(c).is \notin InChildActs
  BY <1>1, <1>2 DEF JobInv
<1>5. Grows /\ DOMAIN delivered' = Mails
  BY <1>1, <1>2, <1>3 DEF Grows, WalkShape
<1>6. at[m] = "deliver" /\ Act(c).is = "deliver" /\ j = "yes" => delivered'[m] # {}
  BY <1>1, <1>3 DEF WalkShape
<1>7. ASSUME mctx'[m] = c, at'[m] = at[m], job'[m] = j PROVE MailInv(m)'
  <2>1. IdInv(m)'
    BY <1>1, <1>2, <1>5, IdStays DEF IdInv, AtWork, Grows
  <2>2. JobInv(m)'
    BY <1>2, <1>4, <1>6, <1>7 DEF JobInv, AtWork
  <2>3. HalfInv(m)'
    BY <1>1, <1>2 DEF MailInv, HalfInv
  <2>4. MatchInv(m)'
    BY <1>1, <1>2, <1>5, WasStays DEF MatchInv
  <2>5. DeliverInv(m)'
    <3>1. ASSUME at[m] = "deliver",
                 NEW r \in Rule, NEW k \in 0 .. Len(Ruleset[r].actions), InRule(m, r, k)
          PROVE  InRule(m, r, k)'
      BY <1>1, <1>2, <1>5, <3>1, WasStays DEF InRule, StopsSafely, Grows
    <3> QED
      BY <1>1, <1>2, <3>1 DEF DeliverInv
  <2> QED
    BY <2>1, <2>2, <2>3, <2>4, <2>5 DEF MailInv
<1>8. /\ DOMAIN db' = Key /\ drops' = drops
      /\ \A k \in Key : db'[k] # Absent => db[k] # Absent
  BY <1>1, <1>2 DEF WalkShape, cacheVars
<1>9. /\ mctx' = [mctx EXCEPT ![m] = c] /\ GoodCtx(c)
      /\ at' = [at EXCEPT ![m] = at[m]] /\ at[m] \in AtType
      /\ job' = [job EXCEPT ![m] = j]
  BY <1>1, <1>2, <1>3, Unchanged
<1>10. /\ DOMAIN mail' = Mails /\ mail'[m] = mail[m] /\ server' \subseteq server
       /\ \A n \in Mails \ {m} : mail'[n] = mail[n] /\ (n \in half' => n \in half)
  BY <1>1, <1>2 DEF WalkShape
<1> HIDE DEF c
<1> QED
  BY <1>5, <1>7, <1>8, <1>9, <1>10, MailStep

\* The mails of a fetch child that ends are on their server again; what its deliver
\* children have delivered is.
LEMMA GiveUpStep ==
  ASSUME WalkInv, NEW p, GiveUp(p)
  PROVE  WalkInv'
<1>1. /\ WalkShape /\ CacheInv /\ DroppedWasDelivered
      /\ \A n \in Mails : MailInv(n)
  BY DEF WalkInv
<1>2. /\ at'  = [m \in Mails |-> IF m \in Mine(p) THEN "server" ELSE at[m]]
      /\ job' = [m \in Mails |-> IF m \in Mine(p) THEN "none" ELSE job[m]]
      /\ half' = half \ Mine(p)
      /\ UNCHANGED <<setup, server, mctx, mail, db, drops, byHand>>
  BY DEF GiveUp
<1>3. PICK d : delivered' = [m \in Mails |-> IF m \in d THEN delivered[m] \cup {mail[m].text}
                                             ELSE delivered[m]]
  BY DEF GiveUp
<1>4. Grows /\ DOMAIN delivered' = Mails
  BY <1>2, <1>3 DEF Grows
<1>5. ASSUME NEW n \in Mails PROVE MailInv(n)'
  <2>1. CASE n \in Mine(p)
    <3>1. at'[n] = "server" /\ job'[n] = "none" /\ n \notin half'
      BY <1>2, <2>1
    <3> QED
      BY <3>1 DEF MailInv, IdInv, AtWork, JobInv, HalfInv, MatchInv, DeliverInv
  <2>2. CASE n \notin Mine(p)
    <3>1. /\ at'[n] = at[n] /\ mctx'[n] = mctx[n] /\ mail'[n] = mail[n] /\ job'[n] = job[n]
          /\ n \in half' => n \in half
      BY <1>2, <2>2
    <3> QED
      BY <1>1, <1>4, <3>1, OtherMails
  <2> QED
    BY <2>1, <2>2
<1>6. WalkShape'
  <2>1. at' \in [Mails -> AtType] /\ job' \in [Mails -> JobType]
    BY <1>1, <1>2 DEF WalkShape, AtType, JobType
  <2> QED
    BY <1>1, <1>2, <1>4, <2>1 DEF WalkShape
<1>7. CacheInv' /\ DroppedWasDelivered'
  BY <1>1, <1>2, <1>4, CacheKept, DropsStay
<1> QED
  BY <1>5, <1>6, <1>7 DEF WalkInv

\* A step that does nothing to the mails.
LEMMA MailsKept ==
  ASSUME WalkInv, setup' = setup, byHand \subseteq byHand',
         UNCHANGED <<server, at, mctx, mail, job, half, delivered, drops>>,
         DOMAIN db' = Key,
         \A k \in Key : db'[k] # Absent => db[k] # Absent \/ k \in byHand'
  PROVE  WalkInv'
<1>1. /\ WalkShape /\ CacheInv /\ DroppedWasDelivered
      /\ \A n \in Mails : MailInv(n)
  BY DEF WalkInv
<1>2. Grows
  BY DEF Grows
<1>3. \A n \in Mails : MailInv(n)'
  BY <1>1, <1>2, OtherMails
<1>4. WalkShape' /\ DroppedWasDelivered'
  <2>1. WalkShape'
    BY <1>1 DEF WalkShape
  <2> QED
    BY <1>1, <1>2, <2>1, DropsStay
<1>5. CacheInv'
  <2>1. ASSUME NEW k \in Key, db'[k] # Absent
        PROVE  k \in byHand' \/ \E n \in DOMAIN setup'.mails : Id(n)' = k /\ delivered'[n] # {}
    <3>1. CASE k \in byHand'
      BY <3>1
    <3>2. CASE k \in byHand
      BY <3>2
    <3>3. CASE db_contains(k) /\ k \notin byHand
      <4>1. PICK n \in DOMAIN setup.mails : Id(n) = k /\ delivered[n] # {}
        BY <1>1, <3>3 DEF CacheInv
      <4>2. Id(n)' = k /\ delivered'[n] # {} /\ n \in DOMAIN setup'.mails
        BY <4>1, IdStays
      <4> QED
        BY <4>2
    <3> QED
      BY <2>1, <3>1, <3>2, <3>3 DEF db_contains
  <2> QED
    BY <2>1 DEF CacheInv, db_contains
<1> QED
  BY <1>3, <1>4, <1>5 DEF WalkInv

LEMMA CacheStep ==
  ASSUME WalkInv, UNCHANGED mailVars, UNCHANGED <<delivered, drops>>,
         \/ \E p \in Process : OpenCache(p) \/ ExpireRead(p) \/ ExpireDelete(p) \/ ExpireEnd(p)
         \/ Tick
         \/ \E k \in Key : CacheOpRemove(k),
         byHand' = byHand
  PROVE  WalkInv'
<1>1. UNCHANGED <<setup, server, at, mctx, mail, job, half, delivered, drops>>
  BY DEF mailVars
<1>2. DOMAIN db = Key
  BY DEF WalkInv, WalkShape
<1>3. DOMAIN db' = Key /\ \A k \in Key : db'[k] # Absent => db[k] # Absent
  <2>1. db' = db \/ \E k : db' = db_remove(k)
    BY DEF OpenCache, ExpireRead, ExpireDelete, ExpireEnd, Tick, CacheOpRemove
  <2> QED
    BY <1>2, <2>1 DEF db_remove
<1> QED
  BY <1>1, <1>3, MailsKept

LEMMA WalkIsInit ==
  ASSUME WalkInit
  PROVE  WalkInv
<1>1. /\ DOMAIN db = Key /\ setup \in Setups
      /\ server = DOMAIN setup.mails
      /\ at = [m \in Mails |-> "server"]
      /\ mctx = [m \in Mails |-> NewCtx]
      /\ mail = [m \in Mails |-> NewMail(<<>>)]
      /\ job = [m \in Mails |-> "none"]
      /\ half = {} /\ drops = {}
      /\ delivered = [m \in Mails |-> {}]
      /\ \A k \in Key : ~db_contains(k)
  BY DEF WalkInit, CacheInit, db_contains
<1>2. WalkShape
  BY <1>1, NewCtxGood DEF WalkShape, GoodCtx, AtType, JobType
<1>3. \A m \in Mails : MailInv(m)
  BY <1>1 DEF MailInv, IdInv, AtWork, JobInv, HalfInv, MatchInv, DeliverInv
<1> QED
  BY <1>1, <1>2, <1>3 DEF WalkInv, CacheInv, DroppedWasDelivered

LEMMA WalkIsNext ==
  ASSUME WalkInv, DeliversFirst, [WalkNext]_walkVars
  PROVE  WalkInv'
<1>1. ASSUME NEW m \in Mails, Fetch(m) PROVE WalkInv'
  BY <1>1, FetchStep
<1>2. ASSUME NEW m \in Mails, Match(m) PROVE WalkInv'
  BY <1>2, MatchesStep
<1>3. ASSUME NEW m \in Mails, EmptyKey(m) PROVE WalkInv'
  BY <1>3, GiveUpStep DEF EmptyKey
<1>4. ASSUME NEW m \in Mails, AskCommand(m) PROVE WalkInv'
  BY <1>4, AskCommandStep
<1>5. ASSUME NEW m \in Mails, StillBlocked(m) PROVE WalkInv'
  BY <1>5, StillBlockedStep
<1>6. ASSUME NEW m \in Mails, CommandSays(m) PROVE WalkInv'
  BY <1>6, CommandSaysStep
<1>7. ASSUME NEW m \in Mails, Settle(m) PROVE WalkInv'
  BY <1>7, SettleStep
<1>8. ASSUME NEW m \in Mails, ActInChild(m) PROVE WalkInv'
  BY <1>8, ActInChildStep
<1>9. ASSUME NEW m \in Mails, FindKey(m) PROVE WalkInv'
  BY <1>9, FindKeyStep
<1>10. ASSUME NEW m \in Mails, RemoveKey(m) PROVE WalkInv'
  <2>1. m \in half
    BY <1>10 DEF RemoveKey
  <2>2. CASE db_contains(NextKey(m))
    BY <1>10, <2>1, <2>2, RemoveKeyStep
  <2>3. CASE ~db_contains(NextKey(m))
    <3>1. GiveUp(Account[m])
      BY <1>10, <2>3 DEF RemoveKey
    <3> QED
      BY <3>1, GiveUpStep
  <2> QED
    BY <2>2, <2>3
<1>11. ASSUME NEW m \in Mails, Ask(m) PROVE WalkInv'
  BY <1>11, AskActionStep
<1>12. ASSUME NEW m \in Mails, WorkEnds(m) PROVE WalkInv'
  BY <1>12, WorkEndsStep
<1>13. ASSUME NEW m \in Mails, Answered(m) PROVE WalkInv'
  BY <1>13, AnsweredStep
<1>14. ASSUME NEW m \in Mails, Failed(m) PROVE WalkInv'
  BY <1>14, GiveUpStep DEF Failed
<1>15. ASSUME NEW m \in Mails, ToMatch(m) PROVE WalkInv'
  BY <1>15, ToMatchStep
<1>16. ASSUME NEW p \in Process, open_cache(p) PROVE WalkInv'
  <2>1. OpenCache(p) /\ UNCHANGED mailVars /\ UNCHANGED <<delivered, drops>> /\ byHand' = byHand
    BY <1>16 DEF open_cache, history
  <2> QED
    BY <2>1, CacheStep
<1>17. ASSUME NEW p \in Process, Expire(p) PROVE WalkInv'
  <2>1. /\ ExpireRead(p) \/ ExpireDelete(p) \/ ExpireEnd(p)
        /\ UNCHANGED mailVars /\ UNCHANGED <<delivered, drops>> /\ byHand' = byHand
    BY <1>17 DEF Expire, history
  <2> QED
    BY <2>1, CacheStep
<1>18. ASSUME NEW p \in Process, ChildEnds(p) PROVE WalkInv'
  BY <1>18, GiveUpStep DEF ChildEnds
<1>19. ASSUME NEW p \in Process, Killed(p) PROVE WalkInv'
  BY <1>19, GiveUpStep DEF Killed
<1>20. CASE RunAgain \/ UNCHANGED walkVars
  <2>1. /\ setup' = setup /\ byHand' = byHand /\ db' = db
        /\ UNCHANGED <<server, at, mctx, mail, job, half, delivered, drops>>
    BY <1>20 DEF RunAgain, walkVars, mailVars, cacheVars, history
  <2>2. DOMAIN db = Key
    BY DEF WalkInv, WalkShape
  <2> QED
    BY <2>1, <2>2, MailsKept
<1>21. CASE ByHand
  <2>1. UNCHANGED mailVars /\ UNCHANGED <<delivered, drops>>
    BY <1>21 DEF ByHand
  <2>2. ASSUME NEW k \in Key, CacheOpAdd(k), byHand' = byHand \cup {k} PROVE WalkInv'
    <3>1. DOMAIN db = Key
      BY DEF WalkInv, WalkShape
    <3>2. /\ DOMAIN db' = Key /\ byHand \subseteq byHand'
          /\ \A l \in Key : db'[l] # Absent => db[l] # Absent \/ l \in byHand'
      BY <2>2, <3>1 DEF CacheOpAdd, db_add
    <3>3. setup' = setup /\ UNCHANGED <<server, at, mctx, mail, job, half, delivered, drops>>
      BY <2>1 DEF mailVars
    <3> QED
      BY <3>2, <3>3, MailsKept
  <2>3. ASSUME NEW k \in Key, CacheOpRemove(k), byHand' = byHand PROVE WalkInv'
    BY <2>1, <2>3, CacheStep
  <2> QED
    BY <1>21, <2>2, <2>3 DEF ByHand
<1>22. CASE Clock
  <2>1. /\ Tick /\ UNCHANGED mailVars /\ UNCHANGED <<delivered, drops>> /\ byHand' = byHand
    BY <1>22 DEF Clock, history
  <2> QED
    BY <2>1, CacheStep
<1> QED
  BY <1>1, <1>2, <1>3, <1>4, <1>5, <1>6, <1>7, <1>8, <1>9, <1>10, <1>11, <1>12, <1>13,
     <1>14, <1>15, <1>16, <1>17, <1>18, <1>19, <1>20, <1>21, <1>22 DEF WalkNext

\* DroppedWasDelivered, of the configurations that deliver first: a mail is deleted
\* from its server only if it, or one with its message-id, has been delivered, or the
\* user has put its message-id into the cache.
THEOREM DropsWereDelivered ==
  ASSUME DeliversFirst
  PROVE  WalkSpec => []DroppedWasDelivered
<1>1. WalkInit => WalkInv
  BY WalkIsInit
<1>2. WalkInv /\ [WalkNext]_walkVars => WalkInv'
  BY WalkIsNext
<1>3. WalkInv => DroppedWasDelivered
  BY DEF WalkInv
<1> QED
  BY <1>1, <1>2, <1>3, PTL DEF WalkSpec

=============================================================================

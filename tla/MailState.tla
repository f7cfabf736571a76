------------------------------ MODULE MailState ------------------------------
(***************************************************************************)
(* What happens to one mail between being enqueued and being committed:    *)
(* the context (struct mail_ctx) that walks the ruleset and the queue of   *)
(* deliveries the matched rules ask for (mail-state.c).                    *)
(*                                                                         *)
(* The operators here are the transitions of that context; the fetch loop  *)
(* (FetchLoop) and the walk of a single mail (RuleWalk) apply them.        *)
(***************************************************************************)
EXTENDS Integers, Sequences, FiniteSets

CONSTANTS
  Rule,        \* the rules of the configuration, nested ones included
  NoRule,      \* a null rule pointer
  Ruleset,     \* [Rule -> RuleType]
  FirstRule,   \* TAILQ_FIRST(&conf.rules), or NoRule
  ImplAct      \* conf.impl_act: what unmatched-mail says

-----------------------------------------------------------------------------
(* The parsed configuration.                                               *)

\* One condition: how it joins the result so far, and who evaluates it.
\* "child" is any match the fetch child decides by itself, "parent" one that
\* needs a command run as another user.
ItemType == [op       : {"none", "and", "or"},
             inverted : BOOLEAN,
             by       : {"child", "parent", "matched", "unmatched"}]

\* The kinds of action.  Every in-child action that does not touch the
\* decision (tag, add-header, add-to-cache, stdout, ...) is "inchild".
ActionKind == {"inchild", "keep", "drop", "asuser", "wrback"}
InChild    == {"inchild", "keep", "drop"}

\* nested is the first rule between the braces, next the following sibling.
\* actions is what fill_from_action makes of the rule's actions: the chained
\* ones expanded, one entry for each user.
RuleType == [expr    : Seq(ItemType),
             stop    : BOOLEAN,
             nested  : Rule \cup {NoRule},
             actions : Seq(ActionKind),
             next    : Rule \cup {NoRule}]

ASSUME RulesetAssumption ==
  /\ NoRule \notin Rule
  /\ Ruleset \in [Rule -> RuleType]
  /\ FirstRule \in Rule \cup {NoRule}
  /\ ImplAct \in {"none", "keep", "drop"}
  /\ \A r \in Rule :
       /\ Len(Ruleset[r].expr) > 0
       /\ Ruleset[r].nested # NoRule =>   \* parse.y: a block has no actions
            ~Ruleset[r].stop /\ Ruleset[r].actions = <<>>

-----------------------------------------------------------------------------
(* The result codes both kinds of answer from the parent are encoded in.   *)

DELIVER_SUCCESS == 0
DELIVER_FAILURE == 1

MATCH_FALSE == 0
MATCH_TRUE  == 1
MATCH_ERROR == 2

Decision == {"drop", "keep"}

\* A delivery: the rule that asked for it and its place in that rule's list.
Delivery == Rule \X (Nat \ {0})

Kind(d) == Ruleset[d[1]].actions[d[2]]

Deliveries(r) == [i \in DOMAIN Ruleset[r].actions |-> <<r, i>>]

-----------------------------------------------------------------------------
(* The context.  item is the position in the rule's expression, 0 when no  *)
(* expression has been started; msgid the request the mail waits for, 0    *)
(* when it waits for none.                                                 *)

CtxType == [rule     : Rule \cup {NoRule},
            item     : Nat,
            result   : BOOLEAN,
            matched  : BOOLEAN,
            done     : BOOLEAN,
            stack    : Seq(Rule),
            dqueue   : Seq(Delivery),
            msgid    : Nat,
            decision : Decision]

NewCtx == [rule |-> FirstRule, item |-> 0, result |-> FALSE,
           matched |-> FALSE, done |-> FALSE, stack |-> <<>>,
           dqueue |-> <<>>, msgid |-> 0, decision |-> "drop"]

Waiting(c) == c.msgid # 0

-----------------------------------------------------------------------------
(* Matching.                                                               *)

\* The ruleset has nothing more to say about this mail.
RulesetOver(c) == c.done \/ c.rule = NoRule

\* The decision such a mail leaves the ruleset with: one the actions left if
\* a rule stopped it, the configured default if it ran off the end.
FinalDecision(c) ==
  IF c.done THEN c.decision
  ELSE IF ImplAct = "drop" THEN "drop" ELSE "keep"

\* Start the expression if it is not started.
Started(c) == IF c.item = 0 THEN [c EXCEPT !.result = FALSE, !.item = 1] ELSE c

Item(c) == Ruleset[c.rule].expr[c.item]

ShortCircuit(c) == \/ Item(c).op = "and" /\ ~c.result
                   \/ Item(c).op = "or"  /\ c.result

\* apply_result: fold what this item says into the result.
ApplyResult(ei, result, this) ==
  LET v == this # ei.inverted
  IN  CASE ei.op = "none" -> v
        [] ei.op = "or"   -> result \/ v
        [] ei.op = "and"  -> result /\ v

WithResult(c, this) == [c EXCEPT !.result = ApplyResult(Item(c), c.result, this)]

\* Move to the rule's sibling, or up the stack to the first enclosing rule
\* that has one: k is the depth the pops stop at, so the set has one element.
NextRule(c) ==
  IF Ruleset[c.rule].next # NoRule
  THEN {[c EXCEPT !.rule = Ruleset[c.rule].next, !.item = 0]}
  ELSE {[c EXCEPT !.rule  = IF k = 0 THEN NoRule ELSE Ruleset[c.stack[k]].next,
                  !.stack = IF k = 0 THEN <<>> ELSE SubSeq(c.stack, 1, k - 1),
                  !.item  = 0] :
          k \in {k \in 0 .. Len(c.stack) :
                   /\ k # 0 => Ruleset[c.stack[k]].next # NoRule
                   /\ \A j \in (k + 1) .. Len(c.stack) :
                        Ruleset[c.stack[j]].next = NoRule}}

\* The end of a rule whose expression came out true.
RuleMatched(c) ==
  LET r == Ruleset[c.rule]
      s == [c EXCEPT !.done = @ \/ r.stop]
  IN  IF r.nested # NoRule
      THEN {[move |-> "continue",
             ctx  |-> [s EXCEPT !.stack = Append(@, c.rule),
                                !.rule = r.nested, !.item = 0]]}
      ELSE IF r.actions = <<>>
           THEN {[move |-> "continue", ctx |-> n] :
                   n \in NextRule([s EXCEPT !.matched = TRUE])}
           ELSE {[move |-> "deliver", ctx |-> n] :
                   n \in NextRule([s EXCEPT !.matched = TRUE,
                                            !.dqueue = @ \o Deliveries(c.rule)])}

\* What a condition the child decides by itself may say of this mail.
TestResults(c) ==
  CASE Item(c).by = "matched"   -> {c.matched}
    [] Item(c).by = "unmatched" -> {~c.matched}
    [] OTHER                    -> BOOLEAN

\* next_expritem: what follows once an item is dealt with.
AfterItem(c) ==
  IF c.item < Len(Ruleset[c.rule].expr)
  THEN {[move |-> "continue", ctx |-> [c EXCEPT !.item = @ + 1]]}
  ELSE IF c.result
       THEN RuleMatched(c)
       ELSE {[move |-> "continue", ctx |-> n] : n \in NextRule(c)}

-----------------------------------------------------------------------------
(* Delivery.                                                               *)

CurrentDelivery(c) == Head(c.dqueue)

\* An action has succeeded: remove it from the queue; keep and drop also
\* leave their decision.
Delivered(c) ==
  [c EXCEPT !.dqueue   = Tail(@),
            !.decision = IF Kind(Head(c.dqueue)) \in Decision
                         THEN Kind(Head(c.dqueue)) ELSE @]

=============================================================================

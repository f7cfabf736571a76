------------------------------ MODULE RuleWalk ------------------------------
(***************************************************************************)
(* The walk of mails through the ruleset (MailState) with what the         *)
(* conditions test and the actions change: the text and tags of the mail   *)
(* (MailText), its attachments (Attach), and a cache that the fetch        *)
(* children share (Cache).  match-*.c and the deliver-*.c that run in the  *)
(* fetch child; those that do not are jobs of the parent here.             *)
(***************************************************************************)
EXTENDS MailState, Attach, Cache

CONSTANTS
  Mails,
  Account,    \* [Mails -> Process]: the account of a mail, by its fetch child
  Conds,      \* [Rule -> Seq]: what each item of the expression tests
  Acts,       \* [Rule -> Seq]: what each action does
  Setups,     \* the situations to start from
  MaxRuns,    \* bound on how often fdm is run
  MaxByHand   \* bound on the fdm cache commands of the user

\* Actions a rule may have, by where they run.
InChildActs == {"tag", "add-header", "remove-header", "add-to-cache", "remove-from-cache",
                "stdout", "keep", "drop"}
KindOf(act) == CASE act.is \in Decision -> act.is
                 [] act.is \in InChildActs \ Decision -> "inchild"
                 [] act.is = "rewrite" -> "wrback"
                 [] act.is = "deliver" -> "asuser"

ASSUME WalkAssumption ==
  /\ Account \in [Mails -> Process]
  /\ MaxRuns \in Nat /\ MaxByHand \in Nat
  /\ \A r \in Rule :
       /\ DOMAIN Conds[r] = DOMAIN Ruleset[r].expr
       /\ \A i \in DOMAIN Conds[r] :
            Ruleset[r].expr[i].by = CASE Conds[r][i].is = "command" -> "parent"
                                      [] Conds[r][i].is \in {"matched", "unmatched"} -> Conds[r][i].is
                                      [] OTHER -> "child"
       /\ Ruleset[r].actions = [i \in DOMAIN Acts[r] |-> KindOf(Acts[r][i])]
       /\ \A i \in DOMAIN Acts[r] : Acts[r][i].is \in InChildActs \cup {"rewrite", "deliver"}
  /\ \A s \in Setups : s.first \in Rule \cup {NoRule} /\ DOMAIN s.mails \subseteq Mails

VARIABLES
  setup,      \* what was chosen from Setups
  up,         \* the accounts whose fetch child runs
  runs,       \* how often fdm has been run
  server,     \* the mails that are on their servers
  at,         \* where a mail is: "server", "match", "deliver", "settled"
  mctx,       \* its struct mail_ctx
  mail,       \* its struct mail
  job,        \* what the parent does for it, or the answer
  half,       \* the mail whose remove-from-cache has only looked yet
  \* History.
  delivered,  \* the texts that were delivered of a mail
  drops,      \* the mails settled with the decision to drop them
  said,       \* what the bracket of the last regexp matched
  parts,      \* the attachments the text was made with
  byHand      \* the keys the user has added

mailVars == <<setup, up, runs, server, at, mctx, mail, job, half>>
history  == <<delivered, drops, said, parts, byHand>>
walkVars == <<cacheVars, mailVars, history>>

WalkInit ==
  /\ CacheInit
  /\ setup \in Setups
  /\ up = {Account[m] : m \in DOMAIN setup.mails} /\ runs = 1
  /\ server = DOMAIN setup.mails
  /\ at = [m \in Mails |-> "server"]
  /\ mctx = [m \in Mails |-> NewCtx]
  /\ mail = [m \in Mails |-> NewMail(<<>>)]
  /\ job = [m \in Mails |-> "none"]
  /\ half = {}
  /\ delivered = [m \in Mails |-> {}]
  /\ drops = {} /\ byHand = {}
  /\ said = [m \in Mails |-> <<>>]
  /\ parts = [m \in Mails |-> NoTree]

-----------------------------------------------------------------------------
(* A fetch child does one thing at a time.                                 *)

Mine(p) == {m \in DOMAIN setup.mails : Account[m] = p}
AtWork(m) == at[m] \in {"match", "deliver"}

Idle(p) == p \in up /\ handle[p].is # "expiring" /\ half \cap Mine(p) = {}

\* An error of any call ends the fetch; so does a signal.  The mails in its queues
\* are freed.  The parent kills its deliver children, some of which may have
\* delivered by then.
GiveUp(p) ==
  LET delivers == {m \in Mine(p) : job[m] = "run" /\ at[m] = "deliver"
                                   /\ Kind(CurrentDelivery(mctx[m])) = "asuser"}
  IN  /\ up' = up \ {p}
      /\ at'  = [m \in Mails |-> IF m \in Mine(p) THEN "server" ELSE at[m]]
      /\ job' = [m \in Mails |-> IF m \in Mine(p) THEN "none" ELSE job[m]]
      /\ half' = half \ Mine(p)
      /\ handle' = [handle EXCEPT ![p] = Shut]
      /\ \E d \in SUBSET delivers :
           delivered' = [m \in Mails |-> IF m \in d THEN delivered[m] \cup {mail[m].text}
                                        ELSE delivered[m]]
      /\ UNCHANGED <<setup, runs, server, mctx, mail, db, now, drops, said, parts, byHand>>

Killed(p) == p \in up /\ GiveUp(p)

\* fetch_enqueue.  The text is one of the account's; the tags are the account and
\* the message-id, the first line of it.
Enqueued(m, text) ==
  LET f == trim_from([NewMail(text) EXCEPT !.body = find_body(text)])
      i == find_header(f, {"message-id"})
      a == add_tag(f.tags, "account", <<Account[m]>>)
      t == IF i = 0 \/ f.text[i].val = <<>> THEN a ELSE add_tag(a, "message_id", f.text[i].val)
  IN  fill_wrapped([insert_before(f, "received", << Header("received", <<"fdm">>), Fold(<<"date">>) >>)
                      EXCEPT !.tags = t])

Fetch(m) ==
  /\ m \in server /\ at[m] = "server" /\ Idle(Account[m])
  /\ mail' = [mail EXCEPT ![m] = Enqueued(m, setup.mails[m].text)]
  /\ parts' = [parts EXCEPT ![m] = setup.mails[m].parts]
  /\ mctx' = [mctx EXCEPT ![m] = [NewCtx EXCEPT !.rule = setup.first]]
  /\ at' = [at EXCEPT ![m] = "match"]
  /\ said' = [said EXCEPT ![m] = <<>>]
  /\ UNCHANGED <<cacheVars, setup, up, runs, server, job, half, delivered, drops, byHand>>

-----------------------------------------------------------------------------
(* Conditions: mail_match.                                                 *)

Cond(c) == Conds[c.rule][c.item]

\* What a condition leaves in the mail: the submatches of a regexp, of which there
\* is none to look at in a mail without headers; or the attachments.
Tested(m, cond) ==
  CASE cond.is = "regexp" /\ (cond.area # "headers" \/ m.body # 0) -> re_block(m, cond)
    [] cond.is = "attachment" -> Built(m)
    [] OTHER -> m

\* Whether it is true, of a mail Tested has been through.
match_account(p, cond) == cond.name = p
match_tagged(m, cond) == cond.tag \in DOMAIN m.tags
match_size(m, cond) == Len(m.text) > cond.size
match_in_cache(m, cond) == db_contains(replace(cond.key, m))
match_regexp(m, cond) == (cond.area # "headers" \/ m.body # 0) /\ MatchingLines(m, cond) # {}

\* An empty expression is one for the empty string.
match_string(m, cond) ==
  LET words == replace(cond.str, m)
  IN  IF cond.re = <<>> THEN words = <<>> ELSE ToSet(cond.re) \subseteq ToSet(words)

Holds(p, m, c, cond) ==
  CASE cond.is = "all"        -> TRUE
    [] cond.is = "matched"    -> c.matched
    [] cond.is = "unmatched"  -> ~c.matched
    [] cond.is = "account"    -> match_account(p, cond)
    [] cond.is = "tagged"     -> match_tagged(m, cond)
    [] cond.is = "size"       -> match_size(m, cond)
    [] cond.is = "string"     -> match_string(m, cond)
    [] cond.is = "regexp"     -> match_regexp(m, cond)
    [] cond.is = "attachment" -> AttachmentMatches(m, cond)
    [] cond.is = "in-cache"   -> match_in_cache(m, cond)

\* What the bracket of a regexp has matched, as a reader of the mail sees it.
Matched(m, cond) ==
  LET i == Least(MatchingLines(m, cond))
  IN  IF cond.bracket THEN WithoutEnds(Words(m.text, i, LineEnd(m.text, i))) ELSE <<>>

Step(m, move) ==
  /\ mctx' = [mctx EXCEPT ![m] = move.ctx]
  /\ at' = [at EXCEPT ![m] = IF move.move = "deliver" THEN "deliver" ELSE @]

\* mail_match has an item to test.
Testing(m) == at[m] = "match" /\ Idle(Account[m]) /\ ~Waiting(mctx[m]) /\ ~RulesetOver(mctx[m])

\* An item the child decides by itself, or that the result so far decides.
Match(m) ==
  /\ Testing(m)
  /\ LET c    == Started(mctx[m])
         cond == Cond(c)
         u    == set_wrapped(mail[m], "sp")
         t    == Tested(u, cond)
     IN  \/ /\ ShortCircuit(c)
            /\ mail' = [mail EXCEPT ![m] = u]
            /\ \E move \in AfterItem(c) : Step(m, move)
            /\ UNCHANGED said
         \/ /\ ~ShortCircuit(c) /\ cond.is # "command"
            /\ cond.is = "in-cache" => handle[Account[m]] = Open /\ replace(cond.key, u) # <<>>
            /\ mail' = [mail EXCEPT ![m] = t]
            /\ \E move \in AfterItem(WithResult(c, Holds(Account[m], t, c, cond))) : Step(m, move)
            /\ said' = [said EXCEPT ![m] =
                          IF cond.is = "regexp" /\ MatchingLines(u, cond) # {} THEN Matched(u, cond)
                          ELSE @]
  /\ UNCHANGED <<cacheVars, setup, up, runs, server, job, half, delivered, drops, parts, byHand>>

\* match_command_match: fold the headers and ask the parent.
AskCommand(m) ==
  /\ Testing(m)
  /\ LET c == Started(mctx[m])
     IN  /\ ~ShortCircuit(c) /\ Cond(c).is = "command"
         /\ mctx' = [mctx EXCEPT ![m] = [c EXCEPT !.msgid = 1]]
  /\ mail' = [mail EXCEPT ![m] = [set_wrapped(mail[m], "nl") EXCEPT !.tags = reset_tags(@)]]
  /\ job' = [job EXCEPT ![m] = "run"]
  /\ UNCHANGED <<cacheVars, setup, up, runs, server, at, half, history>>

\* mail_match of a mail that waits: its headers are unfolded all the same.
StillBlocked(m) ==
  /\ at[m] = "match" /\ Idle(Account[m]) /\ Waiting(mctx[m]) /\ mail[m].wrapchar # "sp"
  /\ mail' = [mail EXCEPT ![m] = set_wrapped(@, "sp")]
  /\ UNCHANGED <<cacheVars, setup, up, runs, server, at, mctx, job, half, history>>

\* The answer, with the tags child_deliver_cmd_hook has added to.
CommandSays(m) ==
  /\ at[m] = "match" /\ Idle(Account[m]) /\ job[m] \in {"yes", "no"}
  /\ job' = [job EXCEPT ![m] = "none"]
  /\ \E saw \in BOOLEAN :
       mail' = [mail EXCEPT ![m] = [set_wrapped(mail[m], "sp") EXCEPT !.tags =
                                      IF saw THEN add_tag(@, "command0", <<"out">>) ELSE @]]
  /\ \E move \in AfterItem(WithResult([mctx[m] EXCEPT !.msgid = 0], job[m] = "yes")) : Step(m, move)
  /\ UNCHANGED <<cacheVars, setup, up, runs, server, half, history>>

\* The end of the ruleset: fetch_dequeue.  What is to be dropped is deleted from the
\* server, unless the connection is lost before that.
Settle(m) ==
  /\ at[m] = "match" /\ Idle(Account[m]) /\ ~Waiting(mctx[m]) /\ RulesetOver(mctx[m])
  /\ at' = [at EXCEPT ![m] = "settled"]
  /\ IF FinalDecision(mctx[m]) = "drop"
     THEN drops' = drops \cup {m} /\ server' \in {server, server \ {m}}
     ELSE UNCHANGED <<drops, server>>
  /\ mail' = [mail EXCEPT ![m] = set_wrapped(@, "sp")]
  /\ UNCHANGED <<cacheVars, setup, up, runs, mctx, job, half, delivered, said, parts, byHand>>

-----------------------------------------------------------------------------
(* Actions: mail_deliver.                                                  *)

Act(c) == LET d == CurrentDelivery(c) IN Acts[d[1]][d[2]]

Delivering(m) ==
  at[m] = "deliver" /\ Idle(Account[m]) /\ ~Waiting(mctx[m]) /\ mctx[m].dqueue # <<>>

\* start_action: fold the headers, set the tags of the user.
Ready(m) == [set_wrapped(mail[m], "nl") EXCEPT !.tags = update_tags(@, "user")]

\* What an action that runs in the child makes of the mail.
Acted(m, act) ==
  LET e == CASE act.is = "tag"           -> [m EXCEPT !.tags = add_tag(@, act.tag, replace(act.value, m))]
             [] act.is = "add-header"    -> AddHeader(m, act.name, replace(act.value, m))
             [] act.is = "remove-header" -> RemoveHeaders(m, act.patterns)
             [] OTHER                    -> m
  IN  [e EXCEPT !.tags = reset_tags(@)]

CacheActs == {"add-to-cache", "remove-from-cache"}

\* One that ends in this call.
ActInChild(m) ==
  /\ Delivering(m)
  /\ LET act == Act(mctx[m])
         r   == Ready(m)
     IN  /\ act.is \in InChildActs
         /\ act.is \in CacheActs => handle[Account[m]] = Open /\ replace(act.key, r) # <<>>
         /\ act.is = "remove-from-cache" => ~db_contains(replace(act.key, r))
         /\ mail' = [mail EXCEPT ![m] = Acted(r, act)]
         /\ db' = IF act.is = "add-to-cache" THEN db_add(replace(act.key, r)) ELSE db
         /\ delivered' = [delivered EXCEPT ![m] = IF act.is = "stdout" THEN @ \cup {r.text} ELSE @]
  /\ mctx' = [mctx EXCEPT ![m] = Delivered(@)]
  /\ UNCHANGED <<now, handle, setup, up, runs, server, at, job, half, drops, said, parts, byHand>>

\* The cache condition or action that is next, and its key.
TestsCache(m) ==
  Testing(m) /\ LET c == Started(mctx[m]) IN ~ShortCircuit(c) /\ Cond(c).is = "in-cache"

ChangesCache(m) == Delivering(m) /\ Act(mctx[m]).is \in CacheActs

NextKey(m) ==
  IF at[m] = "match" THEN replace(Cond(Started(mctx[m])).key, set_wrapped(mail[m], "sp"))
  ELSE replace(Act(mctx[m]).key, Ready(m))

\* An empty key is an error; with any other the cache is opened, the first time.
EmptyKey(m) ==
  /\ TestsCache(m) \/ ChangesCache(m)
  /\ NextKey(m) = <<>>
  /\ GiveUp(Account[m])

open_cache(p) ==
  /\ \E m \in Mine(p) : (TestsCache(m) \/ ChangesCache(m)) /\ NextKey(m) # <<>>
  /\ OpenCache(p)
  /\ UNCHANGED <<mailVars, history>>

Expire(p) ==
  /\ p \in up
  /\ ExpireRead(p) \/ ExpireDelete(p) \/ ExpireEnd(p)
  /\ UNCHANGED <<mailVars, history>>

\* deliver_remove_from_cache_deliver has found the key and is about to remove it.
FindKey(m) ==
  /\ ChangesCache(m) /\ Act(mctx[m]).is = "remove-from-cache"
  /\ handle[Account[m]] = Open /\ NextKey(m) # <<>> /\ db_contains(NextKey(m))
  /\ half' = half \cup {m}
  /\ UNCHANGED <<cacheVars, setup, up, runs, server, at, mctx, mail, job, history>>

\* If it has gone in the meantime the action has failed.
RemoveKey(m) ==
  /\ m \in half
  /\ IF db_contains(NextKey(m))
     THEN /\ db' = db_remove(NextKey(m))
          /\ half' = half \ {m}
          /\ mctx' = [mctx EXCEPT ![m] = Delivered(@)]
          /\ mail' = [mail EXCEPT ![m] = Acted(Ready(m), Act(mctx[m]))]
          /\ UNCHANGED <<now, handle, setup, up, runs, server, at, job, history>>
     ELSE GiveUp(Account[m])

\* An action for the parent: the mail goes to a deliver child as it now is.
Ask(m) ==
  /\ Delivering(m) /\ Act(mctx[m]).is \notin InChildActs
  /\ mail' = [mail EXCEPT ![m] = [Ready(m) EXCEPT !.tags = reset_tags(@)]]
  /\ mctx' = [mctx EXCEPT ![m].msgid = 1]
  /\ job' = [job EXCEPT ![m] = "run"]
  /\ UNCHANGED <<cacheVars, setup, up, runs, server, at, half, history>>

\* A deliver child ends its work, whatever the fetch child is doing.
WorkEnds(m) ==
  /\ job[m] = "run"
  /\ \/ /\ job' = [job EXCEPT ![m] = "failed"]
        /\ UNCHANGED delivered
     \/ /\ at[m] = "match"
        /\ \E answer \in {"yes", "no"} : job' = [job EXCEPT ![m] = answer]
        /\ UNCHANGED delivered
     \/ /\ at[m] = "deliver"
        /\ job' = [job EXCEPT ![m] = "yes"]
        /\ delivered' = [delivered EXCEPT ![m] = IF Act(mctx[m]).is = "deliver"
                                                 THEN @ \cup {mail[m].text} ELSE @]
  /\ UNCHANGED <<cacheVars, setup, up, runs, server, at, mctx, mail, half, drops, said, parts, byHand>>

\* finish_action.  A rewritten mail takes the place of the old one, and keeps the
\* tags and what it knows of the attachments to build them anew.  A slip: the
\* attachments are taken to be those of the mail before.
Anew(m, text) == fill_wrapped(trim_from([NewMail(text) EXCEPT !.body = find_body(text), !.tags = m.tags]))

ReceivedWithAttachments(m, text) ==
  [Anew(m, text) EXCEPT !.attach = m.attach, !.attach_built = m.attach_built]

Received(m, text) == [Anew(m, text) EXCEPT !.attach = m.attach]

\* finish_action looks at the error first.  A slip: it does not.
SucceededOrNot(m) == job[m] \in {"yes", "failed"}
Succeeded(m) == job[m] = "yes"

Answered(m) ==
  /\ at[m] = "deliver" /\ Idle(Account[m]) /\ Succeeded(m)
  /\ job' = [job EXCEPT ![m] = "none"]
  /\ mctx' = [mctx EXCEPT ![m] = Delivered([@ EXCEPT !.msgid = 0])]
  /\ IF Act(mctx[m]).is = "rewrite"
     THEN \E new \in setup.rewrites :
            /\ mail' = [mail EXCEPT ![m] = Received(@, new.text)]
            /\ parts' = [parts EXCEPT ![m] = new.parts]
     ELSE UNCHANGED <<mail, parts>>
  /\ UNCHANGED <<cacheVars, setup, up, runs, server, at, half, delivered, drops, said, byHand>>

\* A failed delivery or command ends the fetch.
Failed(m) == job[m] = "failed" /\ Idle(Account[m]) /\ GiveUp(Account[m])

\* Nothing is left to deliver: back to the rules.
ToMatch(m) ==
  /\ at[m] = "deliver" /\ Idle(Account[m]) /\ ~Waiting(mctx[m]) /\ mctx[m].dqueue = <<>>
  /\ at' = [at EXCEPT ![m] = "match"]
  /\ mail' = [mail EXCEPT ![m] = set_wrapped(@, "nl")]
  /\ UNCHANGED <<cacheVars, setup, up, runs, server, mctx, job, half, history>>

-----------------------------------------------------------------------------
(* Around it.                                                              *)

\* All the mails of an account have been settled.
ChildEnds(p) ==
  /\ Idle(p)
  /\ \A m \in Mine(p) : at[m] = "settled" \/ (at[m] = "server" /\ m \notin server)
  /\ GiveUp(p)

RunAgain ==
  /\ up = {} /\ runs < MaxRuns
  /\ runs' = runs + 1
  /\ up' = {Account[m] : m \in DOMAIN setup.mails}
  /\ UNCHANGED <<cacheVars, setup, server, at, mctx, mail, job, half, history>>

\* fdm cache add, remove and clear.
ByHand ==
  /\ setup.byHand
  /\ \/ /\ Cardinality(byHand) < MaxByHand
        /\ \E k \in Key : CacheOpAdd(k) /\ byHand' = byHand \cup {k}
     \/ /\ \E k \in Key : CacheOpRemove(k)
        /\ UNCHANGED byHand
  /\ UNCHANGED <<mailVars, delivered, drops, said, parts>>

Clock == setup.clock /\ Tick /\ UNCHANGED <<mailVars, history>>

WalkNext ==
  \/ \E m \in Mails :
       \/ Fetch(m) \/ Match(m) \/ EmptyKey(m) \/ AskCommand(m) \/ StillBlocked(m)
       \/ CommandSays(m) \/ Settle(m) \/ ActInChild(m) \/ FindKey(m) \/ RemoveKey(m)
       \/ Ask(m) \/ WorkEnds(m) \/ Answered(m) \/ Failed(m) \/ ToMatch(m)
  \/ \E p \in Process : open_cache(p) \/ Expire(p) \/ ChildEnds(p) \/ Killed(p)
  \/ RunAgain \/ ByHand \/ Clock

WalkSpec == WalkInit /\ [][WalkNext]_walkVars

-----------------------------------------------------------------------------
(* Properties.                                                             *)

\* WalkTypeOK: of what is not in the modules this one is made of.
WalkTypeOK ==
  /\ CacheTypeOK
  /\ up \subseteq Process /\ runs \in 1 .. MaxRuns
  /\ server \subseteq Mails /\ half \subseteq Mails /\ drops \subseteq Mails
  /\ at \in [Mails -> {"server", "match", "deliver", "settled"}]
  /\ mctx \in [Mails -> CtxType]
  /\ job \in [Mails -> {"none", "run", "yes", "no", "failed"}]

\* A mail is known by its message-id.
MsgId == <<Tag("message_id")>>

IdIn(s, m) == replace(MsgId, Enqueued(m, s.mails[m].text))
Id(m)      == IdIn(setup, m)

\* A mail has been delivered, or one with its message-id has, or the user has put that
\* into the cache.
WasDelivered(m) ==
  \/ delivered[m] # {}
  \/ Id(m) \in byHand
  \/ Id(m) # <<>> /\ \E n \in DOMAIN setup.mails : Id(n) = Id(m) /\ delivered[n] # {}

\* DroppedWasDelivered: a mail is deleted from its server only if it WasDelivered,
\* whatever two fetches do at the same time, wherever one of them is killed and
\* whatever fails (match-in-cache.c, deliver-add-to-cache.c, mail-state.c:297).
DroppedWasDelivered == \A m \in drops : WasDelivered(m)

\* The configurations of which that is true: a message-id is added to the cache after
\* a delivery in the same rule, and a rule that stops delivers, has what is in the
\* cache to itself or says in the end to keep the mail.  The order of MANUAL.in:1310
\* and examples/n-marriott.conf:168, which add first, is not one of them.
Delivers(act) == act.is \in {"deliver", "stdout"}

KeepsAt(r, i) ==
  Acts[r][i].is = "keep" /\ \A j \in DOMAIN Acts[r] : j > i => Acts[r][j].is # "drop"

\* The conditions a rule has to itself what is in the cache by.
Gates(r) ==
  {g \in DOMAIN Conds[r] :
     /\ Conds[r][g].is = "in-cache" /\ ~Ruleset[r].expr[g].inverted
     /\ Ruleset[r].expr[g].op # "or"
     /\ \A i \in DOMAIN Conds[r] : i > g => Ruleset[r].expr[i].op = "and"}

DeliversFirst ==
  /\ ImplAct # "drop"
  /\ \A s \in Setups : \A m \in DOMAIN s.mails : IdIn(s, m) \in Key \cup {<<>>}
  /\ \A r \in Rule :
       /\ \A i \in DOMAIN Conds[r] : Conds[r][i].is = "in-cache" => Conds[r][i].key = MsgId
       /\ \A i \in DOMAIN Acts[r] :
            /\ Acts[r][i].is = "tag" => Acts[r][i].tag # "message_id"
            /\ Acts[r][i].is = "add-to-cache" =>
                 Acts[r][i].key = MsgId /\ \E j \in 1 .. i - 1 : Delivers(Acts[r][j])
       /\ Ruleset[r].stop => \/ Gates(r) # {}
                             \/ \E i \in DOMAIN Acts[r] : Delivers(Acts[r][i]) \/ KeepsAt(r, i)

\* What is known of a mail at work is true of its text as it now is.
BodyKnown(m) == m.body = find_body(m.text)

FoldsKnown(m) ==
  /\ m.wrapped = {i \in 1 .. m.body - 1 : m.text[i + 1].name = "fold"}
  /\ \A i \in DOMAIN m.text :
       m.text[i].end = IF i \in m.wrapped /\ m.wrapchar = "sp" THEN "sp" ELSE "nl"

SubmatchKnown(m, words) == m.rml # NoSubmatch => WithoutEnds(submatch(m)) = words

AttachmentsKnown(m, tree) ==
  m.attach_built => m.attach = tree /\ (tree # NoTree => Visited(m.attach) = DOMAIN tree)

\* RemembersText: the offset of the body, the list of folds, the submatches of the last
\* regexp and the attachments are kept beside the text, by actions that move it under
\* them and by programs that put another in its place (deliver-remove-header.c:75,
\* deliver-add-header.c:67, mail-state.c:556, match-attachment.c:46).
\* The folds are lost by a remove-header of two patterns (deliver-remove-header.c:58),
\* the submatches wrong after a bracket in a regexp on the body (match-regexp.c:62), and
\* the attachments of a tree that ends in a multipart and a blank line are none
\* (attach.c:388): with any of these it does not hold.
RemembersText ==
  \A m \in DOMAIN setup.mails :
    AtWork(m) => /\ BodyKnown(mail[m])
                 /\ FoldsKnown(mail[m])
                 /\ SubmatchKnown(mail[m], said[m])
                 /\ AttachmentsKnown(mail[m], parts[m])

\* Texts as MailEdits has them.
NotHere == [headers |-> <<>>, text |-> <<>>, here |-> FALSE]

ActsThat(is) == {act \in UNION {ToSet(Acts[r]) : r \in Rule} : act.is = is}

Bare(t) == [i \in DOMAIN t |-> [t[i] EXCEPT !.end = "nl"]]

Abstract(t) ==
  LET b == find_body(t)
      S == {i \in 1 .. b - 1 : i = 1 \/ t[i].name # "fold"}
      E(i) == Least({j \in i .. b - 1 : t[j + 1].name # "fold"})
      s(k) == CHOOSE i \in S : Cardinality({j \in S : j <= i}) = k
  IN  [headers |-> [k \in 1 .. Cardinality(S) |-> SubSeq(Bare(t), s(k), E(s(k)))],
       text |-> Bare(SubSeq(t, b + 1, Len(t))), here |-> TRUE]

Folded(t) == \A i \in DOMAIN t : t[i].end = "nl"

WithoutFrom(t) == IF find_body(t) # 0 /\ t[1].name = "from" THEN Tail(t) ELSE t

Original(s, m) ==
  IF m \in DOMAIN s.mails THEN Abstract(WithoutFrom(s.mails[m].text)) ELSE NotHere

Rewrites(s) == {Abstract(WithoutFrom(new.text)) : new \in s.rewrites}

AbstractMails == [m \in Mails |-> IF AtWork(m) THEN Abstract(mail[m].text) ELSE NotHere]

AbstractOut ==
  [m \in Mails |-> {[mail |-> Abstract(t), folded |-> Folded(t)] : t \in delivered[m]}]

Edits == INSTANCE MailEdits WITH
  Mails   <- Mails,
  Adds    <- {act.name : act \in ActsThat("add-header")},
  Removes <- {UNION ToSet(act.patterns) : act \in ActsThat("remove-header")},
  given   <- setup,
  mails   <- AbstractMails,
  out     <- AbstractOut

\* KeepsTexts: what is delivered, at the first attempt or the last, is the mail of the
\* server with the headers that actions have added and without those they have
\* removed, or what a program has made of it; and headers are folded as they came,
\* however often they were unfolded for a match (mail-state.c:64, 266;
\* deliver-remove-header.c:62; mail.c:211).
KeepsTexts == Edits!Spec
=============================================================================

------------------------------ MODULE MCRuleWalk ------------------------------
(* Configurations and mails for TLC: fdm reads its configuration, and if   *)
(* there is nothing wrong with it fetches and sorts.                       *)
EXTENDS RuleWalk, Config

CONSTANTS m1, m2, m3, A, B

MCAccount == (m1 :> A) @@ (m2 :> B) @@ (m3 :> A)

-----------------------------------------------------------------------------
(* Rules: conditions, which all have to be true, actions, and what follows.  *)

In(area, name, ws, bracket) ==
  [is |-> "regexp", area |-> area, name |-> name, words |-> ws, bracket |-> bracket]

All      == [is |-> "all"]
Deliver  == [is |-> "deliver"]
InCache  == [is |-> "in-cache", key |-> MsgId]
AddKey   == [is |-> "add-to-cache", key |-> MsgId]
RemKey   == [is |-> "remove-from-cache", key |-> MsgId]
HasId    == [is |-> "string", str |-> MsgId, re |-> <<>>]
AddH(v)  == [is |-> "add-header", name |-> "x-fdm", value |-> v]
RemH(ns) == [is |-> "remove-header", patterns |-> <<ns>>]

R(conds, acts, stop, next) == [conds |-> conds, acts |-> acts, stop |-> stop, next |-> next]

Rules ==
  [ \* Once per message-id.
    d1 |-> R(<<HasId>>, <<Deliver>>, TRUE, "d2"),
    d2 |-> R(<<InCache>>, <<[is |-> "drop"]>>, TRUE, "d3"),
    d3 |-> R(<<All>>, <<Deliver, AddKey>>, TRUE, "none"),
    \* Forget it again.
    f1 |-> R(<<[is |-> "unmatched"]>>, <<[is |-> "stdout"], AddKey>>, FALSE, "f2"),
    f2 |-> R(<<InCache, [is |-> "matched"]>>, <<RemKey>>, FALSE, "none"),
    \* Edit.
    e1 |-> R(<<In("headers", "subject", {"news"}, TRUE)>>,
             <<AddH(<<Sub, Says(<<"!">>)>>), RemH({"subject", "x-old"})>>, FALSE, "e2"),
    e2 |-> R(<<In("any", "subject", {"old"}, TRUE), In("body", "text", {"hello"}, FALSE)>>,
             <<[is |-> "tag", tag |-> "topic", value |-> <<Sub>>], Deliver>>, FALSE, "e3"),
    e3 |-> R(<<[is |-> "tagged", tag |-> "topic"], [is |-> "command"]>>,
             <<RemH({"subject"}), AddH(<<Tag("topic")>>), [is |-> "keep"]>>, FALSE, "e4"),
    e4 |-> R(<<In("headers", "x-old", {}, TRUE), [is |-> "command"],
               [is |-> "account", name |-> A]>>,
             <<RemH({"x-old"}), Deliver>>, FALSE, "e5"),
    e5 |-> R(<<[is |-> "size", size |-> 3]>>, <<Deliver>>, TRUE, "none"),
    \* Whatever the attachments, rewrite; then count.
    a1 |-> R(<<[is |-> "attachment", op |-> "count", num |-> 9]>>, <<[is |-> "rewrite"]>>, FALSE, "a2"),
    a2 |-> R(<<[is |-> "attachment", op |-> "any-type", type |-> "image"]>>,
             <<RemH({"content-type"}), Deliver, [is |-> "drop"]>>, TRUE, "a3"),
    a3 |-> R(<<[is |-> "attachment", op |-> "count", num |-> 0]>>, <<Deliver>>, FALSE, "none") ]

MCRule    == DOMAIN Rules
ByOf(c)   == IF c.is = "command" THEN "parent"
             ELSE IF c.is \in {"matched", "unmatched"} THEN c.is ELSE "child"
MCConds   == [r \in MCRule |-> Rules[r].conds]
MCActs    == [r \in MCRule |-> Rules[r].acts]
MCRuleset ==
  [r \in MCRule |->
     [expr    |-> [i \in DOMAIN Rules[r].conds |->
                     [op |-> IF i = 1 THEN "none" ELSE "and", inverted |-> r = "a1",
                      by |-> ByOf(Rules[r].conds[i])]],
      stop    |-> Rules[r].stop, nested |-> "none",
      actions |-> [i \in DOMAIN Rules[r].acts |-> KindOf(Rules[r].acts[i])],
      next    |-> Rules[r].next]]

-----------------------------------------------------------------------------
(* Mails.                                                                  *)

H(name, w)  == Header(name, <<w>>)
Text(w)     == Piece("text", <<w>>, "")
Plain(id)   == << H("message-id", id), BlankLine, Text("hello") >>
NoId        == << H("subject", "old"), BlankLine, Text("hello") >>

\* The shapes a text can have: with the From line of an mbox, headers of several
\* lines, one header twice, no blank line, no text.
Long  == << Piece("from", <<"me">>, ""), H("x-old", "a"), H("received", "there"), Fold(<<"at">>),
            H("subject", "old"), Fold(<<"news">>), Fold(<<"too">>), H("x-old", "b"), Fold(<<"c">>),
            H("x-last", "d"), Fold(<<"e">>), BlankLine, Text("hello"), H("subject", "old") >>
Short == << H("x-old", "a"), Fold(<<"b">>), BlankLine >>
Body  == << H("subject", "old"), Fold(<<"news">>), Text("hello") >>

\* Attachments: a list, a tree, and a tree that ends with a multipart in it.
List == << ContentType(Multipart, "x"), H("subject", "old"), BlankLine, Delim("x"), ContentType("text", ""),
           BlankLine, Text("hello"), Delim("x"), ContentType("image", ""), BlankLine, Close("x") >>
Tree == << ContentType(Multipart, "x"), BlankLine, Delim("x"), ContentType(Multipart, "y"), BlankLine,
           Delim("y"), ContentType("text", ""), BlankLine, Text("hello"), Close("y"),
           Delim("x"), ContentType("image", ""), BlankLine, Close("x") >>
Nest == << ContentType(Multipart, "x"), BlankLine, Delim("x"), ContentType(Multipart, "y"), BlankLine,
           Delim("y"), ContentType("text", ""), BlankLine, Text("hello"), Close("y"), Close("x") >>

ListParts == (<<>> :> Multipart) @@ (<<1>> :> "text") @@ (<<2>> :> "image")
TreeParts == (<<>> :> Multipart) @@ (<<1>> :> Multipart) @@ (<<1, 1>> :> "text") @@ (<<2>> :> "image")
NestParts == (<<>> :> Multipart) @@ (<<1>> :> Multipart) @@ (<<1, 1>> :> "text")

T(text)         == [text |-> text, parts |-> NoTree]
WithList        == [text |-> List, parts |-> ListParts]
WithTree        == [text |-> Tree, parts |-> TreeParts]
WithNest        == [text |-> Nest, parts |-> NestParts]

S(first, mails) == [first |-> first, mails |-> mails, rewrites |-> {}, byHand |-> FALSE,
                    clock |-> FALSE]

One(t)      == m1 :> t
Two(t, u)   == (m1 :> t) @@ (m2 :> u)
Id1         == T(Plain("id1"))
SameChild   == (m1 :> Id1) @@ (m3 :> Id1)
Three       == Two(Id1, Id1) @@ SameChild

MCKey == {<<"id1">>}

NoMails == S("d1", <<>>)

MCSetups ==
  {NoMails}
  \cup {S("d1", Two(Id1, Id1)), S("d1", SameChild), S("d1", Two(Id1, T(NoId))),
   [S("d1", Two(Id1, Id1)) EXCEPT !.clock = TRUE],
   [S("d1", Two(Id1, Id1)) EXCEPT !.byHand = TRUE],
   [S("d1", One(Id1)) EXCEPT !.clock = TRUE, !.byHand = TRUE],
   S("f1", Three), S("f1", Two(Id1, T(NoId)))}
  \cup {S("e1", One(T(t))) : t \in {Long, Short, Body}}
  \cup {[S("a1", One(t)) EXCEPT !.rewrites = {T(Plain("id1")), T(Long), WithList, WithTree}] :
          t \in {WithList, WithTree, WithNest, T(NoId)}}

-----------------------------------------------------------------------------
(* Configurations: short ones, and those with a block around a short one.  *)

Alphabet == {Ifdef("x"), Ifndef("x"), Endif, Define("x", Str("f")), Include(Str("f")), Rule1("r"),
             Opens("o"), Closes}

UpTo(n) == UNION {[1..k -> Alphabet] : k \in 0..n}
Mains   == UpTo(3) \cup {<<c>> \o s \o <<Endif, RuleOn("s")>> : c \in {Ifdef("x"), Ifndef("x")}, s \in UpTo(3)}
Macros  == {<<>>, <<[name |-> "x", value |-> "f"]>>}

MainAnd(main, file) == ("main" :> main) @@ ("f" :> file)

\* Paths of macros: defined, defined twice, of another macro, and not quoted.
Paths == { <<Define("x", Str("f")), Include(StrOf("x"))>>,
           <<Include(StrOf("x"))>>,
           <<Define("x", Str("f")), Define("x", Str("g")), Include(StrOf("x"))>>,
           <<Define("x", Str("g")), Define("y", StrOf("x")), Include(StrOf("y"))>>,
           <<Define("x", Str("f")), Include(Macro("x"))>> }

Nothing == [files |-> MainAnd(<<>>, <<>>), macros |-> <<>>]
MCConfs ==
  {Nothing}
  \cup {[files |-> MainAnd(m, f), macros |-> ms] :
          m \in Mains, f \in {<<>>, <<Define("x", Str("f"))>>, <<Endif, Rule1("q")>>}, ms \in Macros}
  \cup {[files |-> MainAnd(m, <<Rule1("q")>>), macros |-> ms] : m \in Paths, ms \in Macros}

\* The rules are such that nothing is dropped that was not delivered.
ASSUME MCDeliversFirst == DeliversFirst

MCInit  == WalkInit /\ ConfInit /\ (setup = NoMails) # (conf = Nothing)
MCNext  == \/ ConfNext /\ UNCHANGED walkVars
           \/ result = "read" /\ WalkNext /\ UNCHANGED confVars
MCSpec  == MCInit /\ [][MCNext]_<<walkVars, confVars>>
=============================================================================

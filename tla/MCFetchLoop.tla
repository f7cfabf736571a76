---------------------------- MODULE MCFetchLoop ----------------------------
(* Rules for TLC's instance of FetchLoop.                                  *)
EXTENDS FetchLoop

It(op, inv, by) == [op |-> op, inverted |-> inv, by |-> by]

MCRule == {1, 2, 3}

\* match A { match B or not command actions { tag rewrite } }
\* match unmatched or C action keep
MCRuleset ==
  [r \in MCRule |->
     CASE r = 1 -> [expr |-> <<It("none", FALSE, "child")>>,
                    stop |-> FALSE, nested |-> 3, actions |-> <<>>, next |-> 2]
       [] r = 2 -> [expr |-> <<It("none", FALSE, "unmatched"), It("or", FALSE, "child")>>,
                    stop |-> TRUE, nested |-> NoRule, actions |-> <<"keep">>,
                    next |-> NoRule]
       [] r = 3 -> [expr |-> <<It("none", FALSE, "child"), It("or", TRUE, "parent")>>,
                    stop |-> FALSE, nested |-> NoRule,
                    actions |-> <<"inchild", "wrback">>, next |-> NoRule]]
=============================================================================

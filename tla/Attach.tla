-------------------------------- MODULE Attach --------------------------------
(***************************************************************************)
(* The attachments of a mail (attach.c, match-attachment.c).               *)
(*                                                                         *)
(* A tree is a function from paths to types: <<>> is the mail itself,      *)
(* <<2, 1>> the first part of its second part.  Sizes and names are left   *)
(* out, and with them the conditions total-size, any-size and any-name.    *)
(***************************************************************************)
EXTENDS MailText

Multipart == "multipart"

\* A Content-Type, with the boundary of a multipart; and the boundaries.
ContentType(type, b) == Piece("content-type", <<type>>, b)
Delim(b)             == Piece("delim", <<>>, b)
Close(b)             == Piece("close", <<>>, b)

IsType(p)     == p.name = "content-type"
\* attach_type has a boundary to give.
IsMultipart(p) == p.val = <<Multipart>> /\ p.b # ""

-----------------------------------------------------------------------------
(* Building the tree.                                                      *)

\* The first piece from here on that is one of these, 0 if there is none.
NextIs(t, from, Is(_)) == Least({i \in from .. Len(t) : Is(t[i])})
NextDelim(t, from, b)  == NextIs(t, from, LAMBDA p : p = [Delim(b) EXCEPT !.end = p.end])
NextClose(t, from, b)  == NextIs(t, from, LAMBDA p : p = [Close(b) EXCEPT !.end = p.end])

Node(type, kids) ==
  [path \in {<<>>} \cup UNION {{<<k>> \o q : q \in DOMAIN kids[k]} : k \in DOMAIN kids} |->
     IF path = <<>> THEN type ELSE kids[Head(path)][Tail(path)]]

NoPart == [ok |-> FALSE, tree |-> NoTree, kids |-> <<>>, at |-> 0, last |-> FALSE]

\* A part that is not a multipart: its headers, a blank line, its text up to the
\* next boundary of the multipart it is in.
Leaf(t, q, b) ==
  LET r == NextIs(t, q, LAMBDA p : p.name = "blank")
      s == IF r = 0 THEN 0
           ELSE NextIs(t, r + 1, LAMBDA p : p.name \in {"delim", "close"} /\ p.b = b)
  IN  IF s = 0 THEN NoPart
      ELSE [ok |-> TRUE, tree |-> Node(t[q].val[1], <<>>), kids |-> <<>>, at |-> s,
            last |-> t[s].name = "close"]

\* attach_get ("part") from piece x.at on in a multipart of boundary x.b, and the
\* loop that calls it ("parts").  A part says where it ends; at is Len(t) + 1
\* for the NULL at the end of the text.
Parse(t) ==
  LET Bs == {t[i].b : i \in DOMAIN t}
      Nested(q, parts) ==   \* skip to the end of the multipart, and past it
        LET e == IF parts.ok THEN NextClose(t, parts.at, t[q].b) ELSE 0
        IN  IF e = 0 THEN NoPart
            ELSE [ok |-> TRUE, tree |-> Node(Multipart, parts.kids), kids |-> <<>>,
                  at |-> e + 1, last |-> FALSE]
      f[x \in [do : {"part", "parts"}, at : 1 .. Len(t) + 1, b : Bs]] ==
        IF x.do = "part"
        THEN LET q == NextIs(t, x.at, IsType)
             IN  IF q = 0 THEN NoPart
                 ELSE IF t[q].val # <<Multipart>> THEN Leaf(t, q, x.b)
                 ELSE LET s == IF t[q].b = "" THEN 0 ELSE NextDelim(t, q, t[q].b)
                      IN  IF s = 0 THEN NoPart
                          ELSE Nested(q, f[[do |-> "parts", at |-> s, b |-> t[q].b]])
        ELSE LET one == f[[x EXCEPT !.do = "part"]]
             IN  IF ~one.ok THEN NoPart
                 ELSE IF one.last \/ one.at > Len(t) THEN [one EXCEPT !.kids = <<one.tree>>]
                 ELSE LET rest == f[[x EXCEPT !.at = one.at]]
                      IN  IF rest.ok THEN [rest EXCEPT !.kids = <<one.tree>> \o @] ELSE NoPart
  IN  f

\* attach_build.  Its own loop, unlike the one in attach_get, looks for the end of
\* the multipart before each part; it then has last = FALSE and a line to be at.
attach_build(m) ==
  LET t == m.text
      q == find_header(m, {"content-type"})
      s == IF q = 0 \/ ~IsMultipart(t[q]) THEN 0 ELSE NextDelim(t, 1, t[q].b)
      b == t[q].b
      g[at \in 1 .. Len(t) + 1] ==
        IF at > Len(t) THEN NoPart
        ELSE IF t[at].name = "close" /\ t[at].b = b
             THEN [NoPart EXCEPT !.ok = TRUE, !.at = at]
             ELSE LET one == Parse(t)[[do |-> "part", at |-> at, b |-> b]]
                  IN  IF ~one.ok THEN NoPart
                      ELSE IF one.last THEN [one EXCEPT !.kids = <<one.tree>>]
                      ELSE LET rest == g[one.at]
                           IN  IF rest.ok THEN [rest EXCEPT !.kids = <<one.tree>> \o @]
                               ELSE NoPart
  IN  IF s = 0 \/ ~g[s].ok THEN NoTree ELSE Node(Multipart, g[s].kids)

-----------------------------------------------------------------------------
(* Going through it.                                                       *)

Sibling(p) == Append(Front(p), Last(p) + 1)

\* attach_visit, from one part to the next: <<>> is also the end, as nothing leads
\* back to the mail itself.
attach_visit(tree, p) ==
  IF Append(p, 1) \in DOMAIN tree THEN Append(p, 1)
  ELSE IF p # <<>> /\ Sibling(p) \in DOMAIN tree THEN Sibling(p)
  ELSE IF Len(p) > 1 /\ Sibling(Front(p)) \in DOMAIN tree THEN Sibling(Front(p))
  ELSE <<>>

\* The parts the loops of match_attachment_match see.
Visited(tree) ==
  IF tree = NoTree THEN {}
  ELSE LET v[n \in 1 .. Cardinality(DOMAIN tree)] ==
             IF n = 1 THEN <<>> ELSE attach_visit(tree, v[n - 1])
       IN  {v[n] : n \in 1 .. Cardinality(DOMAIN tree)}

\* match_attachment_match: the tree is built once for a mail.
Built(m) == IF m.attach_built THEN m
            ELSE [m EXCEPT !.attach = attach_build(m), !.attach_built = TRUE]

AttachmentMatches(m, ei) ==
  LET seen == Visited(m.attach)
  IN  CASE ei.op = "count"    -> Cardinality(seen) = ei.num
        [] ei.op = "any-type" -> \E p \in seen : m.attach[p] = ei.type
=============================================================================

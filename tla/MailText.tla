------------------------------ MODULE MailText ------------------------------
(***************************************************************************)
(* The text of a mail and what fdm remembers of it (struct mail, mail.c,   *)
(* re.c, replace.c, strb.c).                                               *)
(*                                                                         *)
(* A text is a sequence of pieces: the lines it came with.  What ends a    *)
(* piece is part of it, as set_wrapped makes one line of several and back. *)
(* Offsets are counted in pieces; case, blanks and characters stripped     *)
(* from what is put in for a tag are left out.                             *)
(***************************************************************************)
EXTENDS Integers, SequencesExt

\* name says what a piece starts with: the name of a header, or "fold" (a
\* blank), "blank" (nothing else), "text", "from" (the From line of an mbox),
\* "delim" and "close" (the two boundaries of MIME).  val is the words after
\* it, b the boundary it has or gives.
Piece(name, val, b) == [name |-> name, val |-> val, b |-> b, end |-> "nl"]

Header(name, val) == Piece(name, val, "")
Fold(val)         == Piece("fold", val, "")
BlankLine         == Piece("blank", <<>>, "")

NoSubmatch == <<>>   \* rml: invalid, or without a first bracket
NoTree     == <<>>   \* attach: NULL

\* append_line and mail_open: a mail as it is fetched or comes from a command.
NewMail(text) ==
  [text |-> text, body |-> 0, wrapped |-> {}, wrapchar |-> "", rml |-> NoSubmatch,
   tags |-> <<>>, attach_built |-> FALSE, attach |-> NoTree]

-----------------------------------------------------------------------------
(* Lines.                                                                  *)

\* line_init, line_next: where the lines of a text start, and where one ends.
Lines(t) == {i \in DOMAIN t : i = 1 \/ t[i - 1].end = "nl"}

LineEnd(t, i) ==
  CHOOSE j \in i .. Len(t) : t[j].end = "nl" /\ \A k \in i .. j - 1 : t[k].end # "nl"

Least(S) == IF S = {} THEN 0 ELSE CHOOSE i \in S : \A j \in S : i <= j

\* The pieces before the body: up to the first blank line, if there is one.
find_body(t) == Least({i \in Lines(t) : t[i].name = "blank"})

\* find_header and match_header: the first header of one of these names.
find_header(m, names) ==
  Least({i \in Lines(m.text) : i <= m.body /\ m.text[i].name \in names})

\* The words of a part of the text.  An end of line in it stays in it.
Words(t, from, to) ==
  FlattenSeq([k \in 1 .. to - from + 1 |->
                t[from + k - 1].val \o IF from + k - 1 < to
                                       THEN << t[from + k - 1].end >> ELSE <<>>])

WithoutEnds(words) == SelectSeq(words, LAMBDA w : w \notin {"nl", "sp"})

-----------------------------------------------------------------------------
(* Wrapped headers.                                                        *)

fill_wrapped(m) ==
  [m EXCEPT !.wrapchar = "",
            !.wrapped  = {i \in 1 .. m.body - 1 : m.text[i].end = "nl"
                                                  /\ m.text[i + 1].name = "fold"}]

set_wrapped(m, ch) ==
  IF m.wrapchar = ch THEN m
  ELSE [m EXCEPT !.wrapchar = ch,
                 !.text = [i \in DOMAIN @ |-> IF i \in m.wrapped
                                              THEN [@[i] EXCEPT !.end = ch] ELSE @[i]]]

-----------------------------------------------------------------------------
(* Changes.                                                                *)

\* insert_header: pieces put in before piece i.  In front of a mail without a
\* body they become its headers.
InsertAtPiece(m, i, ps) ==
  [m EXCEPT !.text = SubSeq(@, 1, i - 1) \o ps \o SubSeq(@, i, Len(@)), !.body = @ + Len(ps)]

insert_header(m, ps) ==
  IF m.body = 0 THEN InsertAtPiece(m, 1, Append(ps, BlankLine)) ELSE InsertAtPiece(m, m.body, ps)

insert_before(m, before, ps) ==
  LET i == find_header(m, {before}) IN IF i = 0 THEN m ELSE InsertAtPiece(m, i, ps)

\* The first line is the From line of an mbox: leave it out.
trim_from(m) ==
  IF m.body = 0 \/ m.text[1].name # "from" THEN m
  ELSE [m EXCEPT !.text = Tail(@), !.body = @ - 1]

\* The pieces a header of several words becomes.
HeaderPieces(name, words) ==
  FoldLeft(LAMBDA ps, w : IF w = "nl" THEN Append(ps, Fold(<<>>))
                          ELSE [ps EXCEPT ![Len(ps)].val = Append(@, w)],
           << Header(name, <<>>) >>, words)

\* deliver_add_header_deliver.
AddHeader(m, name, words) ==
  [fill_wrapped(insert_header(m, HeaderPieces(name, words))) EXCEPT !.rml = NoSubmatch]

\* The pieces of the headers of these names, with their folds.
PiecesOf(m, names) ==
  UNION {i .. LineEnd(m.text, i) :
           i \in {i \in Lines(m.text) : i <= m.body /\ m.text[i].name \in names}}

\* Where a piece comes to be when only those in left are left.
Place(left, i) == Cardinality({j \in left : j <= i})

Keep(t, left) == [k \in 1 .. Cardinality(left) |-> t[CHOOSE i \in left : Place(left, i) = k]]

\* The loop of deliver_remove_header_deliver for one pattern: leave out every header
\* it matches, and move up what is remembered of others.  A slip: that of wrapped
\* lines after the header is not moved up.
RemoveLinesOnly(m, names) ==
  LET left == DOMAIN m.text \ PiecesOf(m, names)
  IN  [m EXCEPT !.text    = Keep(@, left),
                !.wrapped = @ \cap left \cap 1 .. Cardinality(left),
                !.body    = Place(left, @)]

RemoveLines(m, names) ==
  LET left == DOMAIN m.text \ PiecesOf(m, names)
  IN  [m EXCEPT !.text    = Keep(@, left),
                !.wrapped = {Place(left, i) : i \in @ \cap left},
                !.body    = Place(left, @)]

RemovePattern(m, names) == RemoveLines(set_wrapped(fill_wrapped(m), "sp"), names)

RemoveHeaders(m, patterns) ==
  LET left == set_wrapped(FoldLeft(RemovePattern, m, patterns), "nl")
  IN  [m EXCEPT !.text = left.text, !.body = left.body, !.wrapped = left.wrapped,
                !.wrapchar = left.wrapchar, !.rml = NoSubmatch]

-----------------------------------------------------------------------------
(* Tags and what is put in for them.                                       *)

\* strb_vadd, strb_find: a later value takes the place of an earlier one.
add_tag(tags, key, value) ==
  [k \in DOMAIN tags \cup {key} |-> IF k = key THEN value ELSE tags[k]]

update_tags(tags, user) == add_tag(tags, "user", <<user>>)
reset_tags(tags)        == add_tag(tags, "user", <<>>)

\* %1: what the first bracket of the last regexp matched.  rml counts from where
\* that regexp began, submatch from the start of the mail.
submatch(m) ==
  IF m.rml = NoSubmatch THEN <<>> ELSE Words(m.text, m.rml[1], m.rml[2])

\* replacestr.  A string is a sequence of parts: %[tag], %1 or words.
Tag(k)   == [is |-> "tag", of |-> <<k>>]
Sub      == [is |-> "sub", of |-> <<>>]
Says(ws) == [is |-> "words", of |-> ws]

replace(parts, m) ==
  FlattenSeq([i \in DOMAIN parts |->
    CASE parts[i].is = "words" -> parts[i].of
      [] parts[i].is = "sub"   -> submatch(m)
      [] parts[i].is = "tag"   -> IF parts[i].of[1] \in DOMAIN m.tags
                                  THEN m.tags[parts[i].of[1]] ELSE <<>>])

-----------------------------------------------------------------------------
(* Regular expressions: a line that starts with this and has these words;  *)
(* a bracket, if it has one, is all that follows what it starts with.      *)

First(m, area) == IF area = "body" THEN m.body ELSE 0
Limit(m, area) == IF area = "headers" THEN m.body ELSE Len(m.text)

\* The lines of an area that match.
MatchingLines(m, re) ==
  {i \in Lines(m.text) :
     /\ i > First(m, re.area) /\ i <= Limit(m, re.area)
     /\ m.text[i].name = re.name
     /\ re.words \subseteq ToSet(Words(m.text, i, LineEnd(m.text, i)))}

\* re_block as match_regexp_match calls it: so and eo of the first bracket.
re_block(m, re) ==
  LET i == Least(MatchingLines(m, re))
  IN  [m EXCEPT !.rml = IF i = 0 \/ ~re.bracket THEN NoSubmatch
                        ELSE << i - First(m, re.area),
                                LineEnd(m.text, i) - First(m, re.area) >>]
=============================================================================

------------------------------- MODULE Config -------------------------------
(***************************************************************************)
(* Reading the configuration: the lexer with its files and conditions      *)
(* (lex.c), and of the parser (parse.y) the definition of macros and the   *)
(* nesting of rules.  The parser looks one token ahead where a statement   *)
(* may go on; the lexer looks up macros when it comes to their name.       *)
(*                                                                         *)
(* A file is a sequence of statements, and a statement one of tokens.      *)
(* What a rule tests and does, accounts, actions, options and numbers are  *)
(* left out.                                                               *)
(***************************************************************************)
EXTENDS Integers, TLC, SequencesExt

CONSTANTS
  Confs    \* [files: a file by its name, macros: those of -D, in their order]

VARIABLES
  conf,         \* what is read
  files,        \* parse_filestack and parse_file: name and place of each
  lex_include, lex_ifdef, lex_skip,
  fresh,        \* yylex has been called and has not begun to read
  parser,       \* what the parser has built
  result        \* "reading", "read" or, after yyerror, "error"

confVars == <<conf, files, lex_include, lex_ifdef, lex_skip, fresh, parser, result>>

-----------------------------------------------------------------------------
(* Statements and their tokens.                                            *)

Token(is) == [is |-> is, of |-> "", macro |-> FALSE]
Named(is, name) == [Token(is) EXCEPT !.of = name]

\* A string, one that consists of a macro, and a macro.
Str(s)   == Named("string", s)
StrOf(m) == [Str(m) EXCEPT !.macro = TRUE]
Macro(m) == [Named("macro", m) EXCEPT !.macro = TRUE]

Define(m, s) == << Macro(m), Token("="), s >>
Ifdef(m)     == << Named("ifdef", m) >>
Ifndef(m)    == << Named("ifndef", m) >>
Endif        == << Token("endif") >>
Include(s)   == << Token("include"), s >>
Rule1(r)     == << Named("match", r), Token("action") >>
RuleOn(r)    == Append(Rule1(r), Token("continue"))
Opens(r)     == << Named("match", r), Token("{") >>
Closes       == << Token("}") >>

NONE == Token("NONE")

-----------------------------------------------------------------------------
(* The parser, as a function of what it has and a token.                   *)

\* at: where it is in a statement; name, value: what it has of it.
NewParser(macros) ==
  [ok |-> TRUE, at |-> "cmds", name |-> "", value |-> "", macros |-> macros, last |-> Len(macros),
   rules |-> <<>>, open |-> <<>>]

YYError(p) == [p EXCEPT !.ok = FALSE]

\* The first of the name, or none.
Found(p, m) == SelectSeq(p.macros, LAMBDA x : x.name = m)
find_macro(p, m) == Found(p, m) # <<>>

\* read_string: a macro that is not defined stands for nothing.
ValueOf(p, t) ==
  IF ~t.macro THEN t.of ELSE IF find_macro(p, t.of) THEN Head(Found(p, t.of)).value ELSE ""

\* defmacro: the new one goes before the others of the file and after those of -D.
defmacro(p) ==
  [p EXCEPT !.at = "cmds", !.macros = InsertAt(@, p.last + 1, [name |-> p.name, value |-> p.value])]

\* A rule goes to the end of those of the innermost open one.
perform(p, stop) ==
  LET in == IF p.open = <<>> THEN 0 ELSE Last(p.open)
  IN  [p EXCEPT !.at = "cmds", !.rules = Append(@, [name |-> p.name, in |-> in, stop |-> stop])]

performOpen(p) == [perform(p, FALSE) EXCEPT !.open = Append(@, Len(p.rules) + 1)]

close(p) == IF p.open = <<>> THEN YYError(p) ELSE [p EXCEPT !.open = Front(@)]

\* What the parser has waited with until it saw the next token.
Reduce(p) == CASE p.at = "string" -> defmacro(p)
               [] p.at = "action" -> perform(p, TRUE)
               [] OTHER           -> p

Shift(p, t) ==
  CASE p.at = "cmds"  /\ t.is = "NONE"   -> p
    [] p.at = "cmds"  /\ t.is = "}"      -> close(p)
    [] p.at = "cmds"  /\ t.is = "macro"  -> [p EXCEPT !.at = "macro", !.name = t.of]
    [] p.at = "cmds"  /\ t.is = "match"  -> [p EXCEPT !.at = "match", !.name = t.of]
    [] p.at = "macro" /\ t.is = "="      -> [p EXCEPT !.at = "="]
    [] p.at = "="     /\ t.is = "string" -> [p EXCEPT !.at = "string", !.value = ValueOf(p, t)]
    [] p.at = "match" /\ t.is = "action" -> [p EXCEPT !.at = "action"]
    [] p.at = "match" /\ t.is = "{"      -> performOpen(p)
    [] OTHER                             -> YYError(p)

Take(p, t) == IF p.at = "action" /\ t.is = "continue" THEN perform(p, FALSE) ELSE Shift(Reduce(p), t)

\* The end of the files.
yyparseEnds(p) ==
  LET q == Reduce(p) IN IF q.at = "cmds" /\ q.open = <<>> THEN q ELSE YYError(q)

-----------------------------------------------------------------------------
(* The lexer: yylex, by what it comes to.                                  *)

ConfInit ==
  /\ conf \in Confs
  /\ files = << [name |-> "main", at |-> 1] >>
  /\ lex_include = FALSE /\ lex_ifdef = 0 /\ lex_skip = FALSE
  /\ fresh = TRUE
  /\ parser = NewParser(conf.macros)
  /\ result = "reading"

parse_file == Last(files)
Tokens == FlattenSeq(conf.files[parse_file.name])
AtEOF  == parse_file.at > Len(Tokens)
tok    == Tokens[parse_file.at]

GoOn == files' = [files EXCEPT ![Len(files)].at = @ + 1]

\* A token for the parser.
Return(t) ==
  /\ fresh' = TRUE
  /\ parser' = Take(parser, t)
  /\ result' = IF parser'.ok THEN "reading" ELSE "error"

\* goto restart: the call goes on.
Restart == fresh' = FALSE /\ UNCHANGED <<parser, result>>

\* out: nothing is returned of what is skipped.
Out(t) == IF lex_skip' THEN Restart ELSE Return(t)

Switches == fresh /\ lex_include
Reads(S) == result = "reading" /\ ~Switches /\ ~AtEOF /\ tok.is \in S

\* The file to include comes next; anything but a string is an error, and so is a
\* file that is not there.
include_start ==
  /\ result = "reading" /\ Switches
  /\ IF ~AtEOF /\ tok.is = "string" /\ ValueOf(parser, tok) \in DOMAIN conf.files
     THEN /\ files' = Append([files EXCEPT ![Len(files)].at = @ + 1],
                             [name |-> ValueOf(parser, tok), at |-> 1])
          /\ UNCHANGED result
     ELSE result' = "error" /\ UNCHANGED files
  /\ lex_include' = FALSE /\ fresh' = FALSE
  /\ UNCHANGED <<conf, lex_ifdef, lex_skip, parser>>

include_finish ==
  /\ result = "reading" /\ ~Switches /\ AtEOF /\ Len(files) > 1
  /\ files' = Front(files)
  /\ fresh' = FALSE
  /\ UNCHANGED <<conf, lex_include, lex_ifdef, lex_skip, parser, result>>

EndOfFiles ==
  /\ result = "reading" /\ ~Switches /\ AtEOF /\ Len(files) = 1
  /\ parser' = yyparseEnds(parser)
  /\ result' = IF lex_ifdef = 0 /\ parser'.ok THEN "read" ELSE "error"
  /\ UNCHANGED <<conf, files, lex_include, lex_ifdef, lex_skip, fresh>>

\* ifdef and ifndef, whether or not they are skipped themselves.
ReadIfdef ==
  /\ Reads({"ifdef", "ifndef"})
  /\ lex_skip' = (lex_skip \/ (tok.is = "ifdef") # find_macro(parser, tok.of))
  /\ lex_ifdef' = lex_ifdef + 1
  /\ GoOn /\ Out(NONE)
  /\ UNCHANGED <<conf, lex_include>>

ReadEndif ==
  /\ Reads({"endif"}) /\ lex_ifdef > 0
  /\ lex_ifdef' = lex_ifdef - 1
  /\ lex_skip' = (lex_skip /\ lex_ifdef' > 0)
  /\ GoOn /\ Out(NONE)
  /\ UNCHANGED <<conf, lex_include>>

SpuriousEndif ==
  /\ Reads({"endif"}) /\ lex_ifdef = 0
  /\ result' = "error"
  /\ UNCHANGED <<conf, files, lex_include, lex_ifdef, lex_skip, fresh, parser>>

\* A slip: the parser gets nothing, and may still wait with what is before.
ReadIncludeAtOnce ==
  /\ Reads({"include"})
  /\ lex_include' = TRUE
  /\ UNCHANGED lex_skip
  /\ GoOn /\ fresh' = TRUE /\ UNCHANGED <<parser, result>>
  /\ UNCHANGED <<conf, lex_ifdef>>

\* The parser gets a token to end its statement with; the file is switched at the
\* next call.
ReadInclude ==
  /\ Reads({"include"})
  /\ lex_include' = TRUE
  /\ UNCHANGED lex_skip
  /\ GoOn /\ Out(NONE)
  /\ UNCHANGED <<conf, lex_ifdef>>

ReadOther ==
  /\ Reads({"string", "macro", "=", "match", "action", "continue", "{", "}"})
  /\ UNCHANGED lex_skip
  /\ GoOn /\ Out(tok)
  /\ UNCHANGED <<conf, lex_include, lex_ifdef>>

ConfNext ==
  include_start \/ include_finish \/ EndOfFiles \/ ReadIfdef \/ ReadEndif \/ SpuriousEndif
  \/ ReadInclude \/ ReadOther

-----------------------------------------------------------------------------
(* What the manual says: the text of a file stands where it is included; a *)
(* block is read if its macro is defined, by -D or before it, and the      *)
(* block it is in is read.                                                 *)

\* conds: whether the conditions of the blocks are true; news: the macro that the
\* statement before has defined for the first time; odd: what the code reads in
\* another way.
NewReader(macros) ==
  [ok |-> TRUE, conds |-> <<>>, given |-> {macros[i].name : i \in DOMAIN macros},
   defs |-> [x \in {macros[i].name : i \in DOMAIN macros} |->
               (CHOOSE y \in ToSet(macros) : y.name = x).value],
   rules |-> <<>>, open |-> <<>>, news |-> {}, odd |-> {}]

Holding(conds) == \A i \in DOMAIN conds : conds[i]
Wrong(s)       == [s EXCEPT !.ok = FALSE]
Odd(s, what, when) == [s EXCEPT !.odd = IF when THEN @ \cup {what} ELSE @]

Means(s, t) == IF t.macro THEN IF t.of \in DOMAIN s.defs THEN s.defs[t.of] ELSE "" ELSE t.of

\* Does the block start that t opens?
Starts(s, t) == (t.is = "ifdef") = (t.of \in DOMAIN s.defs)

BlockMeans(s, t) ==
  LET nested    == s.conds # <<>> /\ Holding(s.conds) /\ ~Starts(s, t)
      lookahead == t.of \in s.news
  IN  [Odd(Odd(s, "nested", nested), "lookahead", lookahead)
         EXCEPT !.conds = Append(@, Starts(s, t)), !.news = {}]

EndMeans(s) == IF s.conds = <<>> THEN Wrong(s) ELSE [s EXCEPT !.conds = Front(@), !.news = {}]

DefinitionMeans(s, m, t) ==
  [s EXCEPT !.defs = IF m \in s.given THEN @ ELSE (m :> Means(s, t)) @@ @,
            !.news = {m} \ DOMAIN s.defs]

RuleMeans(s, r, stop, opens) ==
  [s EXCEPT !.rules = Append(@, [name |-> r, in |-> IF s.open = <<>> THEN 0 ELSE Last(s.open),
                                 stop |-> stop]),
            !.open  = IF opens THEN Append(@, Len(s.rules) + 1) ELSE @,
            !.news  = {}]

CloseMeans(s) == IF s.open = <<>> THEN Wrong(s) ELSE [s EXCEPT !.open = Front(@), !.news = {}]

RECURSIVE FileMeans(_, _)
IncludeMeans(s, t) ==
  LET plain == [Odd(s, "macro", t.is = "macro") EXCEPT !.news = {}]
  IN  IF Means(s, t) \in DOMAIN conf.files THEN FileMeans(plain, Means(s, t)) ELSE Wrong(plain)

StatementMeans(s, st) ==
  LET t == Head(st)
  IN  CASE ~s.ok -> s
        [] s.ok /\ t.is \in {"ifdef", "ifndef"} -> BlockMeans(s, t)
        [] s.ok /\ t.is = "endif"               -> EndMeans(s)
        [] s.ok /\ t.is \notin {"ifdef", "ifndef", "endif"} /\ ~Holding(s.conds) ->
             Odd(s, "include", t.is = "include")
        [] OTHER ->
             CASE t.is = "macro"   -> DefinitionMeans(s, t.of, st[3])
               [] t.is = "include" -> IncludeMeans(s, st[2])
               [] t.is = "match"   -> RuleMeans(s, t.of, Len(st) = 2 /\ st[2].is = "action", st[2].is = "{")
               [] t.is = "}"       -> CloseMeans(s)

FileMeans(s, name) == FoldLeft(StatementMeans, s, conf.files[name])

Meaning ==
  LET s == FileMeans(NewReader(conf.macros), "main")
  IN  [s EXCEPT !.ok = @ /\ s.conds = <<>> /\ s.open = <<>>]

(* A configuration is read as it is written: in error if and only if there is *)
(* something wrong with it, and otherwise to the rules of the blocks whose    *)
(* macros are defined, each in the rule that is open around it.  Except that  *)
(* a block that is not read ends the block around it, that a macro does not   *)
(* exist for an ifdef right after its definition, that an include that is     *)
(* skipped takes effect later, and that its file cannot be an unquoted macro. *)
\* lex.c yylex and read_token, parse.y defmacro, perform and close.
ReadAsWritten ==
  LET m == Meaning
  IN  result # "reading" /\ m.odd = {} =>
        /\ (result = "read") = m.ok
        /\ m.ok => parser.rules = m.rules
=============================================================================

----------------------------- MODULE NetDeliver -----------------------------
(***************************************************************************)
(* The delivery of one mail to a server: over SMTP (deliver-smtp.c) or     *)
(* into a folder over IMAP (deliver-imap.c), in a deliver child of its     *)
(* own, on a connection that module Connect opens.                         *)
(*                                                                         *)
(* The mail is lines of characters.  The IMAP login is one exchange here   *)
(* (module Imap has it), tags and the XYZZY capability are left out, and   *)
(* names are what they are for.  The server is no part of the program: it  *)
(* accepts or refuses anything, in one line or two, or keeps silent.       *)
(***************************************************************************)
EXTENDS Connect, SequencesExt

CONSTANT Char   \* the characters of mails

\* Besides what a connection needs.  No line is empty, and no mail is: an empty
\* one is not delivered (child-fetch.c:563).  All but the last line end in LF.
MailLines == Seq(Char) \ {<<>>}
SetupType(s) ==
  /\ ConnectType(s)
  /\ s.kind \in {"smtp", "imap"}
  /\ s.mail \in Seq(MailLines) /\ s.mail # <<>>
  /\ s.empty \in BOOLEAN          \* do the recipient or the folder expand to nothing?
  /\ s.exists \in BOOLEAN         \* does the folder exist?
  /\ s.chatty \in BOOLEAN         \* does the server say more than it must?

ASSUME SetupsAssumption == \A s \in Setups : SetupType(s)

VARIABLES
  st,         \* enum deliver_smtp_state, or the place in deliver_imap_deliver
  sent,       \* lines of the mail written
  polled,     \* has deliver_imap_poll returned since the last line?
  result,     \* "none", "success", "failure" or "crash"
  out,        \* written, and not read by the server
  mode,       \* the server: what it waits for
  need,       \* bytes of the literal it waits for
  text,       \* what it has of the mail
  exists,     \* does the folder exist?
  taken       \* texts it has accepted

clientVars == <<st, sent, polled, result>>
serverVars == <<mode, need, text, exists, taken>>
netVars == <<setup, connVars, clientVars, out, serverVars>>

LF == "lf"
CR == "cr"
mail == setup.mail

\* A line but the LF at its end, which io_write(io, ptr, len - 1) leaves out
\* without looking.
Body(line) == IF Len(line) > 1 THEN SubSeq(line, 1, Len(line) - 1) ELSE <<>>

\* What can be written: a command, with its number, or a line of text.
Command(c, n) == [is |-> c, text |-> <<c>>, n |-> n]
TextLine(t)   == [is |-> "text", text |-> t, n |-> 0]
Quit          == Command("QUIT", 0)

Commands      == {"HELO", "MAIL", "RCPT", "DATA", "QUIT",
                  "APPEND", "CREATE", "NAME", "FOLDER", "LOGOUT"}
Symbol        == Char \cup {".", CR, LF} \cup Commands
WrittenType   == [is : {"text"} \cup Commands, text : Seq(Symbol), n : Nat]

NetInit ==
  /\ setup \in Setups /\ ConnectInit
  /\ st = "connect" /\ sent = 0 /\ polled = FALSE /\ result = "none"
  /\ out = <<>>
  /\ mode = "greet" /\ need = 0 /\ text = <<>> /\ exists = setup.exists
  /\ taken = <<>>

-----------------------------------------------------------------------------
(* What both kinds share.                                                  *)

Ends(how) == st' = "end" /\ result' = how
OneOf(S)  == \E how \in S : Ends(how)

\* Without a connection the delivery fails; an unknown proxy is fatal.  With one
\* and nobody to deliver to, IMAP's error frees a context that is not yet there.
Connected ==
  /\ st = "connect" /\ conn \in {"up", "failed", "fatal"}
  /\ CASE conn = "failed" -> Ends("failure") /\ UNCHANGED out
       [] conn = "fatal"  -> Ends("crash") /\ UNCHANGED out
       [] conn = "up" /\ setup.empty ->
            /\ OneOf(IF setup.kind = "imap" THEN {"failure", "crash"} ELSE {"failure"})
            /\ out' = Append(out, Quit)
       [] OTHER ->
            /\ st' = IF setup.kind = "smtp" THEN "connecting" ELSE "login"
            /\ UNCHANGED <<result, out>>
  /\ UNCHANGED <<setup, connVars, sent, polled, serverVars>>

\* The next line: the server's first with all that the proxy has left before it.
First    == Cardinality(FromProxy) + 1
HaveLine == First <= Len(inp)
Line     == IF First = 1 THEN inp[1].v ELSE "junk"
ReadLine == Skip(First) /\ UNCHANGED <<setup, conn, untried, asked, tunnel, wire>>

\* A slip: the mail is ended before the QUIT.
AbortEnded(w) == Ends("failure") /\ out' = out \o w \o <<TextLine(<<".">>), Quit>>

\* To "error", which writes a QUIT whatever the server waits for.
AbortAfter(w) == Ends("failure") /\ out' = out \o w \o <<Quit>>
Abort         == AbortAfter(<<>>)

-----------------------------------------------------------------------------
(* deliver_smtp_deliver.                                                   *)

Expected == [connecting |-> {"220"}, helo |-> {"250"}, from |-> {"250"}, to |-> {"250"},
             data |-> {"354"}, done |-> {"250"}, quit |-> {"221", "500"}]
Follows  == [connecting |-> "helo", helo |-> "from", from |-> "to", to |-> "data",
             data |-> "lines", done |-> "quit"]
NextCommand == [connecting |-> "HELO", helo |-> "MAIL", from |-> "RCPT", to |-> "DATA",
                done |-> "QUIT"]

\* io_pollline2: a line that is there is taken before anything is polled for.
SmtpReply ==
  /\ st \in DOMAIN Expected /\ HaveLine /\ ReadLine
  /\ IF Line \notin Expected[st] THEN Abort
     ELSE IF st = "quit" THEN Ends("success") /\ UNCHANGED out
     ELSE /\ st' = Follows[st]
          /\ out' = IF st \in DOMAIN NextCommand THEN Append(out, Command(NextCommand[st], 0)) ELSE out
          /\ UNCHANGED result
  /\ UNCHANGED <<sent, polled, serverVars>>

SmtpPoll ==
  /\ st \in DOMAIN Expected /\ ~HaveLine
  /\ IF wire = <<>> THEN Abort /\ UNCHANGED connVars       \* timeout, or closed
     ELSE /\ inp' = inp \o wire /\ wire' = <<>>
          /\ UNCHANGED <<conn, untried, asked, tunnel, st, result, out>>
  /\ UNCHANGED <<setup, sent, polled, serverVars>>

\* A slip: a dot is written as it is.
StuffedNever(line) == Body(line)

\* What is written of a line of the mail: a dot at its start is doubled.
Stuffed(line) == IF Len(line) > 1 /\ line[1] = "." THEN <<".">> \o Body(line)
                 ELSE Body(line)

-----------------------------------------------------------------------------
(* deliver_imap_deliver.                                                   *)

\* count_lines and the size: the last LF is the one that ends the command.
MailLen == Len(FlattenSeq(mail)) + Len(mail) - 1

Put(next, c, n) == st' = next /\ out' = Append(out, Command(c, n)) /\ UNCHANGED result

SendAppend == Put("append", "APPEND", 0)

\* A slip: the APPEND is sent again, without a CREATE.
TryAgain == SendAppend

TryCreate == Put("create", "CREATE", 0)

\* waitappend in three places, and imap_getln with IMAP_CONTINUE or IMAP_TAGGED
WaitsAppend == {"append", "folder", "appended"}
WaitsLn     == {"login", "create", "created", "logout"}

\* deliver_imap_poll, before every line of waitappend, and in waitokay and
\* waitcontinue when they have run out of lines.  It waits for something new,
\* whatever is already in the buffer.  On its error "line" is what it was: at
\* the first APPEND, nothing at all.  After the OK buffers are freed twice.
ImapPoll ==
  /\ st \in WaitsAppend \cup WaitsLn /\ ~polled
  /\ \/ /\ wire # <<>>
        /\ inp' = inp \o wire /\ wire' = <<>> /\ polled' = TRUE
        /\ UNCHANGED <<conn, untried, asked, tunnel, st, result, out>>
     \/ /\ wire = <<>>
        /\ OneOf(IF st \in {"append", "logout"} THEN {"failure", "crash"} ELSE {"failure"})
        /\ out' = Append(out, Quit)
        /\ UNCHANGED <<connVars, polled>>
  /\ UNCHANGED <<setup, sent, serverVars>>

\* An untagged line is passed over; waitappend polls again then, imap_getln
\* only if no other is there.
Untagged ==
  /\ st \in WaitsAppend \cup WaitsLn /\ polled
  /\ HaveLine /\ Line = "*" /\ ReadLine
  /\ polled' = (st \in WaitsLn /\ Len(inp) > First)
  /\ UNCHANGED <<st, sent, result, out, serverVars>>

\* The server's answer where each is waited for.
ImapReply ==
  /\ st \in WaitsAppend \cup WaitsLn /\ polled
  /\ HaveLine /\ Line # "*" /\ ReadLine
  /\ polled' = FALSE
  /\ CASE st = "login" /\ Line = "OK"               -> SendAppend /\ UNCHANGED sent
       [] st = "append" /\ Line = "+"               -> Put("folder", "FOLDER", MailLen) /\ UNCHANGED sent
       [] st = "folder" /\ Line = "+"               -> st' = "lines" /\ sent' = 0 /\ UNCHANGED <<result, out>>
       [] st = "appended" /\ Line = "OK"            -> Put("logout", "LOGOUT", 0) /\ UNCHANGED sent
       [] st \in WaitsAppend /\ Line = "TRYCREATE"  -> TryCreate /\ UNCHANGED sent
       [] st = "create" /\ Line = "+"               -> Put("created", "NAME", 0) /\ UNCHANGED sent
       [] st = "created" /\ Line = "OK"             -> SendAppend /\ UNCHANGED sent
       [] st = "logout" /\ Line = "OK"              -> Ends("success") /\ UNCHANGED <<sent, out>>
       [] st = "logout" /\ Line # "OK"              ->
            /\ OneOf({"failure", "crash"}) /\ out' = Append(out, Quit) /\ UNCHANGED sent
       [] OTHER                                     -> Abort /\ UNCHANGED sent
  /\ UNCHANGED serverVars

-----------------------------------------------------------------------------
(* The lines of the mail, for both.                                        *)

WrittenLine == TextLine(IF setup.kind = "smtp" THEN Stuffed(mail[sent + 1])
                    ELSE Body(mail[sent + 1]))

\* io_update fails if the server does not take what is written.
SendLine ==
  /\ st = "lines" /\ sent < Len(mail)
  /\ sent' = sent + 1
  /\ \/ out' = Append(out, WrittenLine) /\ UNCHANGED <<st, result>>
     \/ AbortAfter(<<WrittenLine>>)
  /\ UNCHANGED <<setup, connVars, polled, serverVars>>

SendEnd ==
  /\ st = "lines" /\ sent = Len(mail)
  /\ IF setup.kind = "smtp" THEN st' = "done" /\ out' = Append(out, TextLine(<<".">>))
     ELSE st' = "appended" /\ UNCHANGED out
  /\ UNCHANGED <<setup, connVars, sent, polled, result, serverVars>>

Opening == /\ st = "connect" /\ Connecting
           /\ UNCHANGED <<setup, clientVars, out, serverVars>>

Client == \/ Opening \/ Connected
          \/ SmtpReply \/ SmtpPoll \/ ImapPoll \/ Untagged \/ ImapReply
          \/ SendLine \/ SendEnd

-----------------------------------------------------------------------------
(* The server.                                                             *)

Answers(s) ==
  /\ wire' = wire \o Units("server", s)
  /\ UNCHANGED <<setup, conn, untried, asked, tunnel, inp, clientVars>>

\* One line, or if it is chatty another of the same code or one untagged first.
Either(v) == {<<v>>} \cup
  (IF ~setup.chatty THEN {}
   ELSE IF setup.kind = "smtp" THEN {<<v, v>>} ELSE {<<"*", v>>})
AnyOf(S) == \E v \in S : \E s \in Either(v) : Answers(s)

Greet ==
  /\ mode = "greet" /\ tunnel /\ (setup.tls => conn = "up")
  /\ AnyOf(IF setup.kind = "smtp" THEN {"220", "554"} ELSE {"OK", "NO"})
  /\ mode' = "command"
  /\ UNCHANGED <<out, need, text, exists, taken>>

ServerReads(is) == out # <<>> /\ out[1].is \in is /\ out' = Tail(out)
Stays     == UNCHANGED <<mode, need, text, exists, taken>>

Replies(is, v) == ServerReads(is) /\ AnyOf(v) /\ Stays
Goes(m)        == mode' = m /\ UNCHANGED <<need, text, exists, taken>>

SmtpCommand ==
  /\ mode = "command"
  /\ \/ Replies({"HELO", "MAIL", "RCPT"}, {"250", "550"})
     \/ Replies({"QUIT"}, {"221", "500"})
     \/ Replies({"text"}, {"500"})
     \/ Replies({"DATA"}, {"503"})

SmtpData ==
  /\ mode = "command" /\ ServerReads({"DATA"}) /\ AnyOf({"354"})
  /\ mode' = "data" /\ text' = <<>>
  /\ UNCHANGED <<need, exists, taken>>

SmtpLine ==
  /\ mode = "data" /\ out # <<>> /\ out[1].text # <<".">>
  /\ out' = Tail(out)
  /\ LET line == out[1].text IN
     text' = Append(text, IF line # <<>> /\ line[1] = "." THEN Tail(line) ELSE line)
  /\ UNCHANGED <<setup, connVars, clientVars, mode, need, exists, taken>>

SmtpDot ==
  /\ mode = "data" /\ out # <<>> /\ out[1].text = <<".">>
  /\ out' = Tail(out)
  /\ \/ AnyOf({"250"}) /\ taken' = Append(taken, text)
     \/ AnyOf({"554"}) /\ UNCHANGED taken
  /\ mode' = "command"
  /\ UNCHANGED <<need, text, exists>>

SmtpServer == setup.kind = "smtp" /\ (SmtpCommand \/ SmtpData \/ SmtpLine \/ SmtpDot)

\* A server that lacks the folder says so at its name or after the mail.
NoFolder == {"NO"} \cup (IF exists THEN {} ELSE {"TRYCREATE"})

ImapCommand ==
  /\ mode = "command"
  /\ \/ ServerReads({"APPEND"}) /\ AnyOf({"+"}) /\ Goes("name")
     \/ ServerReads({"CREATE"}) /\ AnyOf({"+"}) /\ Goes("create")
     \/ Replies({"APPEND", "CREATE"}, {"NO"})
     \/ Replies({"LOGOUT"}, {"OK"})
     \/ Replies({"QUIT", "text"}, {"BAD"})

ImapCreates ==
  /\ mode = "create" /\ ServerReads({"NAME"}) /\ AnyOf({"OK"})
  /\ mode' = "command" /\ exists' = TRUE
  /\ UNCHANGED <<need, text, taken>>

ImapFolder ==
  /\ mode = "name" /\ ServerReads({"FOLDER"}) /\ AnyOf({"+"})
  /\ mode' = "literal" /\ need' = out[1].n /\ text' = <<>>
  /\ UNCHANGED <<exists, taken>>

ImapRefuses ==
  /\ \/ mode = "create" /\ ServerReads({"NAME", "QUIT"}) /\ AnyOf({"NO"})
     \/ mode = "name" /\ ServerReads({"FOLDER", "QUIT"}) /\ AnyOf(NoFolder)
  /\ Goes("command")

ImapLiteral ==
  /\ mode = "literal" /\ out # <<>>
  /\ out' = Tail(out)
  /\ text' = text \o out[1].text \o <<CR, LF>>
  /\ IF Len(text') < need
     THEN UNCHANGED <<setup, connVars, clientVars, mode, taken>>
     ELSE /\ \/ exists /\ AnyOf({"OK"}) /\ taken' = Append(taken, SubSeq(text', 1, need))
             \/ AnyOf(NoFolder) /\ UNCHANGED taken
          /\ mode' = "command"
  /\ UNCHANGED <<need, exists>>

ImapServer ==
  setup.kind = "imap" /\ (ImapCommand \/ ImapCreates \/ ImapFolder \/ ImapRefuses \/ ImapLiteral)

\* The proxy answers.
Through == Proxy /\ UNCHANGED <<setup, clientVars, out, serverVars>>

NetEnded == st = "end" /\ UNCHANGED netVars

NetNext == Client \/ Through \/ Greet \/ SmtpServer \/ ImapServer \/ NetEnded

NetSpec == NetInit /\ [][NetNext]_netVars /\ WF_netVars(Client)

-----------------------------------------------------------------------------
(* Properties.                                                             *)

NetTypeOK ==
  /\ setup \in Setups
  /\ conn \in {"start", "trying", "http", "header", "method", "auth", "request",
               "tls", "up", "failed", "fatal"}
  /\ untried \in Nat /\ tunnel \in BOOLEAN /\ polled \in BOOLEAN /\ exists \in BOOLEAN
  /\ asked \in {"none", "http", "method", "auth", "request"}
  /\ st \in {"connect", "lines", "end"} \cup DOMAIN Expected \cup WaitsAppend \cup WaitsLn
  /\ sent \in 0 .. Len(mail)
  /\ result \in {"none", "success", "failure", "crash"} /\ (result = "none" <=> st # "end")
  /\ mode \in {"greet", "command", "data", "name", "create", "literal"} /\ need \in Nat
  /\ out \in Seq(WrittenType)
  /\ text \in Seq(IF setup.kind = "smtp" THEN Seq(Symbol) ELSE Symbol)

\* What the server should have of a mail of which the last line ends in LF.
Terminated == \A i \in DOMAIN mail : mail[i][Len(mail[i])] = LF
Wanted ==
  IF setup.kind = "smtp" THEN [i \in DOMAIN mail |-> Body(mail[i])]
  ELSE Front(FlattenSeq([i \in DOMAIN mail |-> Body(mail[i]) \o <<CR, LF>>]))

\* A success is only reported of a mail that the server has accepted, whole and
\* once, however many lines it has answered in (deliver-smtp.c:180, "case
\* SMTP_DONE", and deliver-imap.c:275, "Wait for an okay from the server").
ReportedWasAccepted == result = "success" /\ Terminated => taken = <<Wanted>>

\* Over SMTP, whenever a delivery is given up, nothing but the whole mail is ever
\* accepted, and over either nothing twice (deliver-smtp.c:208, "error:").
OnlyTheMailIsTaken ==
  /\ Len(taken) <= 1
  /\ setup.kind = "smtp" /\ Terminated => \A i \in DOMAIN taken : taken[i] = Wanted

\* Every delivery ends: with each answer or timeout it comes nearer to its end,
\* and a folder that was created is not asked to be created again
\* (deliver-imap.c:302, "Try to create the folder").
DeliveryEnds == <>(st = "end")

-----------------------------------------------------------------------------
(* Of these the README tells how they fail.                                *)

\* A mail that was accepted is reported so (deliver-smtp.c:188).
AcceptedIsReported == st = "end" /\ taken # <<>> => result = "success"

\* Over IMAP too nothing but the mail is taken.
ImapTakesOnlyTheMail ==
  setup.kind = "imap" /\ Terminated => \A i \in DOMAIN taken : taken[i] = Wanted

\* A delivery fails, but does not crash (deliver-imap.c:139).
NoCrash == result # "crash"

\* The last character is kept, LF or not.
LastIsKept ==
  result = "success" /\ setup.kind = "smtp" =>
    Last(taken[1]) = (IF Terminated THEN Body(Last(mail)) ELSE Last(mail))

\* Nothing is waited for that has come.
AnswersAreRead == st = "end" /\ result = "failure" /\ ~polled /\ setup.kind = "imap"
                  => \A i \in DOMAIN inp : inp[i].v # "OK"
=============================================================================

------------------------------ MODULE Command ------------------------------
(***************************************************************************)
(* A command a deliver child runs (command.c over Io) for an action        *)
(* (deliver-pipe.c, deliver-rewrite.c) or a condition (child-deliver.c):   *)
(* the mail is written to it while its output and its errors are read, and *)
(* in the end its status is collected.                                     *)
(*                                                                         *)
(* The command is any program: it reads, writes, closes what it was given, *)
(* exits, also while a process it has started holds its pipes, or stays    *)
(* for ever, and may ignore SIGTERM.  What the lines say, the failures of  *)
(* pipe, fork and exec, and the use of cmd_poll with its timeout at zero   *)
(* (the POP3 and IMAP pipes) are left out.                                 *)
(***************************************************************************)
EXTENDS Io

CONSTANTS
  Size,         \* the mail, in pieces
  MaxOut,       \* bound: pieces the command writes to either output
  Calls         \* the callers, see CallType

\* Is the mail written to the command, its output read, and is the first line
\* that matches enough?
CallType == [in : BOOLEAN, out : BOOLEAN, early : BOOLEAN]

ASSUME CommandAssumption ==
  Size \in Nat \ {0} /\ MaxOut \in Nat /\ Calls \subseteq CallType

VARIABLES
  call,         \* one of Calls, never changed
  pc, res,      \* the place in cmd_poll; the result of the command
  left,         \* cmd->len
  heard,        \* the lines read from each output, each with an end
  timedout,     \* has a timeout ended it?
  proc,         \* the command's process
  held,         \* the ends of pipes it, or what it has started, has open
  term,         \* has it been sent SIGTERM?
  said          \* what it has written to each output

cmdVars   == <<call, pc, res, left, heard, timedout>>
childVars == <<proc, held, term, said>>
vars == <<cmdVars, childVars, ioVars>>

Given == {"err"} \cup (IF call.in THEN {"in"} ELSE {})
                 \cup (IF call.out THEN {"out"} ELSE {})

\* cmd_start
Init ==
  /\ call \in Calls
  /\ pc = "write" /\ res = "none" /\ left = (IF call.in THEN Size ELSE 0)
  /\ heard = [s \in Reader |-> <<>>] /\ timedout = FALSE
  /\ io = [s \in {"in"} \cup Reader |-> IF s \in Given THEN "open" ELSE "null"]
  /\ pipe = [s \in {"in"} \cup Reader |-> <<>>] /\ rd = [s \in Reader |-> <<>>]
  /\ proc = "run" /\ held = Given /\ term = FALSE
  /\ said = [s \in Reader |-> <<>>]

-----------------------------------------------------------------------------
(* cmd_poll and the loop that calls it.                                    *)

Goto(p) == pc' = p

\* kill(cmd->pid, SIGTERM)
Kill == term' = TRUE

\* The caller has what it wants or gives up: cmd_free.
End(r) == Goto("done") /\ res' = r

Text(n) == [i \in 1 .. n |-> "text"]

\* A slip: the pipe is not closed when all has been written.
WriteKeepsOpen ==
  /\ pc = "write" /\ Goto("poll")
  /\ LET n == Least(left, PipeSize - Len(pipe["in"]))
     IN  IF left = 0 \/ io["in"] # "open" THEN UNCHANGED <<left, pipe>>
         ELSE /\ left' = IF "in" \in held THEN left - n ELSE 0
              /\ pipe' = IF "in" \in held
                         THEN [pipe EXCEPT !["in"] = @ \o Text(n)] ELSE pipe
  /\ UNCHANGED <<call, res, heard, timedout, childVars, rd, io>>

\* Write as much as the pipe takes; at the end, or if the command has closed
\* it, close it (all callers set CMD_ONCE).
Write ==
  /\ pc = "write" /\ Goto("poll")
  /\ LET n == Least(left, PipeSize - Len(pipe["in"]))
     IN  IF left = 0 \/ io["in"] # "open" THEN UNCHANGED <<left, io, pipe>>
         ELSE /\ left' = IF "in" \in held THEN left - n ELSE 0
              /\ pipe' = IF "in" \in held
                         THEN [pipe EXCEPT !["in"] = @ \o Text(n)] ELSE pipe
              /\ io' = IF left' = 0 THEN [io EXCEPT !["in"] = "null"] ELSE io
  /\ UNCHANGED <<call, res, heard, timedout, childVars, rd>>

AllNull == \A s \in DOMAIN io : io[s] = "null"

\* A slip: an output that has closed is given up with what is buffered of it.
PollClosedDrops ==
  /\ pc = "poll"
  /\ \E s \in DOMAIN io :
       /\ FirstBad(s) /\ io[s] = "closed"
       /\ io' = [io EXCEPT ![s] = "null"]
  /\ Kill /\ Goto("line")
  /\ UNCHANGED <<call, res, left, heard, timedout, proc, held, said, pipe, rd>>

\* A slip: the input is left to the caller when the command has closed it.
PollClosedKeepsIn ==
  /\ pc = "poll"
  /\ \E s \in DOMAIN io :
       /\ FirstBad(s) /\ io[s] = "closed"
       /\ io' = IF s \in Reader /\ rd[s] = <<>> THEN [io EXCEPT ![s] = "null"] ELSE io
  /\ Kill /\ Goto("line")
  /\ UNCHANGED <<call, res, left, heard, timedout, proc, held, said, pipe, rd>>

\* An io has been found closed: the command is killed, and the io freed once
\* nothing is left in its buffer.
PollClosed ==
  /\ pc = "poll"
  /\ \E s \in DOMAIN io :
       /\ FirstBad(s) /\ io[s] = "closed"
       /\ io' = IF s = "in" \/ rd[s] = <<>> THEN [io EXCEPT ![s] = "null"] ELSE io
  /\ Kill /\ Goto("line")
  /\ UNCHANGED <<call, res, left, heard, timedout, proc, held, said, pipe, rd>>

\* An io is in error.
PollError ==
  /\ pc = "poll"
  /\ \E s \in DOMAIN io : FirstBad(s) /\ io[s] = "error"
  /\ Kill /\ End("error")
  /\ UNCHANGED <<call, left, heard, timedout, proc, held, said, ioVars>>

PollReady ==
  /\ pc = "poll" /\ ~AnyBad /\ Ready(held, left # 0)
  /\ AfterPoll(held) /\ Goto("line")
  /\ UNCHANGED <<call, res, left, heard, timedout, childVars>>

PollNothing ==
  /\ pc = "poll" /\ AllNull
  /\ Goto("line")
  /\ UNCHANGED <<call, res, left, heard, timedout, childVars, ioVars>>

Sleeping == pc = "poll" /\ ~AnyBad /\ ~AllNull /\ ~Ready(held, left # 0)

\* conf.timeout passes.
PollTimeout ==
  /\ Sleeping
  /\ timedout' = TRUE /\ Kill /\ End("error")
  /\ UNCHANGED <<call, left, heard, proc, held, said, ioVars>>

\* The errors are looked at before the output.
NextLine == IF GivesLine("err") THEN {"err"}
            ELSE IF GivesLine("out") THEN {"out"} ELSE {}

\* A buffer searched without finding a line may be found too long.
Searched(s) == IF NextLine = {"err"} /\ s = "out" THEN FALSE ELSE TooLong(s)

\* What the caller may stop at: the match it looks for; a line that cannot be
\* matched, or that makes the rewritten mail too large.
Stops == IF ~call.out THEN {} ELSE {"error"} \cup (IF call.early THEN {"found"} ELSE {})

\* A line is handed to the caller.
TakeLine ==
  /\ pc = "line"
  /\ \E s \in NextLine :
       /\ heard' = [heard EXCEPT ![s] = @ \o Append(LineOf(s), "eol")]
       /\ rd' = [rd EXCEPT ![s] = RestOf(s)]
       /\ \/ Goto("write") /\ UNCHANGED <<res, term>>
          \/ s = "out" /\ Kill /\ \E r \in Stops : End(r)
  /\ io' = [s \in DOMAIN io |->
              IF s \in Reader /\ Searched(s) THEN "error" ELSE io[s]]
  /\ UNCHANGED <<call, left, timedout, proc, held, said, pipe>>

\* There is none.  When everything has closed wait for the command.
NoLine ==
  /\ pc = "line" /\ NextLine = {}
  /\ Goto(IF AllNull THEN "wait" ELSE "write")
  /\ io' = [s \in DOMAIN io |-> IF s \in Reader /\ TooLong(s) THEN "error" ELSE io[s]]
  /\ UNCHANGED <<call, res, left, heard, timedout, childVars, pipe, rd>>

\* waitpid
Wait ==
  /\ pc = "wait" /\ proc \in {"ok", "bad", "killed"}
  /\ proc' = "reaped"
  /\ End(IF proc = "killed" THEN "error" ELSE proc)
  /\ UNCHANGED <<call, left, heard, timedout, held, term, said, ioVars>>

\* timer_expired
WaitTimeout ==
  /\ pc = "wait" /\ proc = "run"
  /\ timedout' = TRUE /\ Kill /\ End("error")
  /\ UNCHANGED <<call, left, heard, proc, held, said, ioVars>>

-----------------------------------------------------------------------------
(* The command, while anybody cares.                                       *)

Reads ==
  /\ pc # "done" /\ "in" \in held /\ pipe["in"] # <<>>
  /\ pipe' = [pipe EXCEPT !["in"] = Tail(@)]
  /\ UNCHANGED <<cmdVars, childVars, io, rd>>

Says(s, p) ==
  /\ pc # "done" /\ s \in held
  /\ Len(pipe[s]) < PipeSize /\ Len(said[s]) < MaxOut
  /\ pipe' = [pipe EXCEPT ![s] = Append(@, p)]
  /\ said' = [said EXCEPT ![s] = Append(@, p)]
  /\ UNCHANGED <<cmdVars, proc, held, term, io, rd>>

Closes(s) ==
  /\ pc # "done" /\ s \in held
  /\ held' = held \ {s}
  /\ UNCHANGED <<cmdVars, proc, term, said, ioVars>>

\* It exits, or SIGTERM ends it; what it has started may hold its pipes.
Exits ==
  /\ pc # "done" /\ proc = "run"
  /\ proc' \in {"ok", "bad"} \cup (IF term THEN {"killed"} ELSE {})
  /\ held' \in {{}, held}
  /\ UNCHANGED <<cmdVars, term, said, ioVars>>

-----------------------------------------------------------------------------
CmdStep == \/ Write \/ PollClosed \/ PollError \/ PollReady \/ PollNothing
           \/ TakeLine \/ NoLine \/ Wait

Timeouts == PollTimeout \/ WaitTimeout

ChildStep == \/ Reads \/ Exits \/ \E s \in held : Closes(s)
             \/ \E s \in Reader, p \in Piece : Says(s, p)

Rest == pc = "done" /\ UNCHANGED vars

Next == CmdStep \/ Timeouts \/ ChildStep \/ Rest

Spec == Init /\ [][Next]_vars

\* The deliver child runs and its timers expire; the command may do anything.
FairSpec == Spec /\ WF_vars(CmdStep) /\ WF_vars(Timeouts)

-----------------------------------------------------------------------------
(* Properties.                                                             *)

\* Every variable keeps its type; no pipe is filled beyond what it holds.
TypeOK ==
  /\ call \in Calls /\ pc \in {"write", "poll", "line", "wait", "done"}
  /\ res \in {"none", "ok", "bad", "error", "found"}
  /\ left \in 0 .. Size /\ heard \in [Reader -> Seq(Piece)] /\ timedout \in BOOLEAN
  /\ io \in [{"in"} \cup Reader -> Flags] /\ rd \in [Reader -> Seq(Piece)]
  /\ pipe \in [{"in"} \cup Reader -> Seq(Piece)]
  /\ \A s \in DOMAIN pipe : Len(pipe[s]) <= PipeSize
  /\ proc \in {"run", "ok", "bad", "killed", "reaped"} /\ held \subseteq Given
  /\ term \in BOOLEAN
  /\ said \in [Reader -> Seq(Piece)]

\* With an end after what is no whole line.
Whole(q) == IF q # <<>> /\ q[Len(q)] = "text" THEN Append(q, "eol") ELSE q

\* When a command has given its status, everything it has written has been
\* read, also what came with its end and what is no whole line.
OutputWhole == res \in {"ok", "bad"} => \A s \in Reader : heard[s] = Whole(said[s])

\* fdm never waits for a command that waits for it: when it sleeps, a read of
\* the command would give it something or the end, and a write would find room.
\* command.c:222 says "We can't just write everything in cmd_start as the child
\* may block waiting for us to read."
NeverStuck ==
  Sleeping =>
    /\ "in" \in held => pipe["in"] # <<>> \/ io["in"] = "null"
    /\ \A s \in Reader \cap held : Len(pipe[s]) < PipeSize

\* A command comes to an end for fdm, also one that never exits or ignores
\* SIGTERM, if it does not write for ever.
CommandEnds == <>(pc = "done")

-----------------------------------------------------------------------------
(* What the documentation says and the code does not do.                   *)

\* A command that has closed nothing but its input is left alone.  command.c:240
\* says "Ignore closed input, rely on child returning non-zero on error"; the
\* poll that finds it closed kills the command (:283).
ClosedInputIgnored == term /\ pc # "done" => ~(Reader \cap Given \subseteq held)

\* A line that has been read is handed on before waiting for more.  command.c:199
\* says "0 if output is found"; the poll comes first (:274).
NoSleepOnBufferedLine == Sleeping => NextLine = {}
=============================================================================

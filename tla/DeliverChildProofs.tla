------------------------- MODULE DeliverChildProofs -------------------------
(***************************************************************************)
(* Proofs about what runs in a deliver child.                              *)
(*                                                                         *)
(* A command and fdm at its pipes, for every size of a mail, of a pipe and *)
(* of a line: fdm never sleeps while the command waits for it.             *)
(*                                                                         *)
(* And a delivery to a server, for every mail and every alphabet, through  *)
(* any proxy: nothing of the proxy is taken for the server's, and what is  *)
(* reported as delivered was taken, whole and once.                        *)
(***************************************************************************)
EXTENDS Command, NetDeliver, FiniteSetTheorems, SequenceTheorems, WellFoundedInduction, TLAPS

-----------------------------------------------------------------------------
(* A command.                                                              *)

Pipe == {"in"} \cup Reader

LEMMA Names == /\ Reader \subseteq Pipe /\ "in" \in Pipe /\ "in" \notin Reader
               /\ DOMAIN Stream = 1 .. 3 /\ \A s \in Pipe : \E i \in 1 .. 3 : Stream[i] = s
BY DEF Pipe, Reader, Stream

-----------------------------------------------------------------------------
(* Lines.                                                                  *)

\* io_readline2 takes a line from within the buffer.
LEMMA LineEndIn ==
  ASSUME NEW s \in Reader, rd[s] \in Seq(Piece)
  PROVE  /\ LineEnd(s) \in 1 .. (Len(rd[s]) + 1)
         /\ Eols(s) # {} => LineEnd(s) \in Eols(s)
         /\ Eols(s) \subseteq 1 .. Len(rd[s])
<1>1. Len(rd[s]) \in Nat
  BY LenProperties
<1>0. Eols(s) \subseteq 1 .. Len(rd[s])
  BY <1>1, IoAssumption DEF Eols, Least
<1>2. CASE Eols(s) = {}
  BY <1>0, <1>1, <1>2 DEF LineEnd
<1>3. CASE Eols(s) # {}
  <2>1. Eols(s) \subseteq Nat /\ Eols(s) \subseteq 1 .. Len(rd[s])
    BY <1>0
  <2>2. PICK i \in Eols(s) : \A j \in Eols(s) : <<j, i>> \notin OpToRel(<, Nat)
    BY <1>3, <2>1, NatLessThanWellFounded, WFMin
  <2>3. ASSUME NEW j \in Eols(s) PROVE i <= j
    <3>1. i \in Nat /\ j \in Nat
      BY <2>1
    <3>2. j < i => <<j, i>> \in OpToRel(<, Nat)
      BY <3>1, Zenon DEF OpToRel
    <3>3. ~(j < i)
      BY <3>2, <2>2, Zenon
    <3> QED
      BY <3>1, <3>3
  <2>4. LineEnd(s) \in Eols(s)
    BY <1>3, <2>3 DEF LineEnd
  <2> QED
    BY <2>1, <2>4, <1>1
<1> QED
  BY <1>2, <1>3

LEMMA LineTypes ==
  ASSUME NEW s \in Reader, rd[s] \in Seq(Piece)
  PROVE  LineOf(s) \in Seq(Piece) /\ RestOf(s) \in Seq(Piece)
<1>1. Len(rd[s]) \in Nat /\ LineEnd(s) \in 1 .. (Len(rd[s]) + 1)
  BY LineEndIn, LenProperties
<1>2. \A i \in 1 .. Len(rd[s]) : rd[s][i] \in Piece
  BY ElementOfSeq
<1>3. \A i \in 1 .. (LineEnd(s) - 1) : rd[s][i] \in Piece
  BY <1>1, <1>2
<1>4. \A i \in (LineEnd(s) + 1) .. Len(rd[s]) : rd[s][i] \in Piece
  BY <1>1, <1>2
<1>5. LineEnd(s) - 1 \in Int /\ LineEnd(s) + 1 \in Int /\ Len(rd[s]) \in Int
  BY <1>1
<1>6. SubSeq(rd[s], 1, LineEnd(s) - 1) \in Seq(Piece)
  BY <1>3, <1>5, SubSeqProperties
<1>7. SubSeq(rd[s], LineEnd(s) + 1, Len(rd[s])) \in Seq(Piece)
  BY <1>4, <1>5, SubSeqProperties
<1> QED
  BY <1>6, <1>7 DEF LineOf, RestOf

LEMMA TextType == ASSUME NEW n \in Nat
                  PROVE  Text(n) \in Seq(Piece) /\ Len(Text(n)) = n
BY DEF Text, Piece

-----------------------------------------------------------------------------
(* Types.                                                                  *)

LEMMA TypeInit == Init => TypeOK
<1> SUFFICES ASSUME Init PROVE TypeOK
  OBVIOUS
<1>1. << >> \in Seq(Piece) /\ Len(<< >>) = 0
  OBVIOUS
<1>2. left \in 0 .. Size
  BY CommandAssumption DEF Init
<1>3. heard \in [Reader -> Seq(Piece)] /\ rd \in [Reader -> Seq(Piece)]
      /\ said \in [Reader -> Seq(Piece)]
  BY <1>1 DEF Init
<1>4. pipe \in [{"in"} \cup Reader -> Seq(Piece)]
      /\ \A s \in {"in"} \cup Reader : Len(pipe[s]) <= PipeSize
  BY <1>1, IoAssumption DEF Init
<1>5. DOMAIN pipe = {"in"} \cup Reader
  BY <1>4
<1>6. io \in [{"in"} \cup Reader -> Flags]
  BY DEF Init, Flags
<1> QED
  BY <1>2, <1>3, <1>4, <1>5, <1>6 DEF Init, TypeOK

LEMMA WriteType == TypeOK /\ Write => TypeOK'
<1> SUFFICES ASSUME TypeOK, Write PROVE TypeOK'
  OBVIOUS
<1> DEFINE n == Least(left, PipeSize - Len(pipe["in"]))
<1>1. /\ pipe \in [Pipe -> Seq(Piece)] /\ io \in [Pipe -> Flags] /\ left \in 0 .. Size
      /\ pipe["in"] \in Seq(Piece) /\ Len(pipe["in"]) \in Nat
      /\ Len(pipe["in"]) <= PipeSize
  BY Names, LenProperties DEF TypeOK, Pipe
<1>2. n \in Nat /\ n <= left /\ n + Len(pipe["in"]) <= PipeSize
  BY <1>1, IoAssumption, CommandAssumption DEF Least
<1>3. Text(n) \in Seq(Piece) /\ Len(Text(n)) = n
  BY <1>2, TextType
<1>4. /\ pipe["in"] \o Text(n) \in Seq(Piece)
      /\ Len(pipe["in"] \o Text(n)) = Len(pipe["in"]) + n
  BY <1>1, <1>3, ConcatProperties
<1>5. /\ \/ UNCHANGED <<left, io, pipe>>
         \/ /\ left' = (IF "in" \in held THEN left - n ELSE 0)
            /\ \/ pipe' = [pipe EXCEPT !["in"] = @ \o Text(n)]
               \/ pipe' = pipe
            /\ io' = (IF left' = 0 THEN [io EXCEPT !["in"] = "null"] ELSE io)
      /\ UNCHANGED <<call, res, heard, timedout, childVars, rd>>
      /\ pc' = "poll"
  BY DEF Write, Goto
<1> HIDE DEF n
<1>6. left' \in 0 .. Size
  BY <1>1, <1>2, <1>5, CommandAssumption
<1>7. io' \in [Pipe -> Flags]
  BY <1>1, <1>5 DEF Flags
<1>8. pipe' \in [Pipe -> Seq(Piece)] /\ \A s \in Pipe : Len(pipe'[s]) <= PipeSize
  <2>1. \A s \in Pipe : Len(pipe[s]) <= PipeSize
    BY <1>1 DEF TypeOK
  <2>2. CASE pipe' = pipe
    BY <1>1, <2>1, <2>2
  <2>3. CASE pipe' = [pipe EXCEPT !["in"] = @ \o Text(n)]
    <3>1. pipe' \in [Pipe -> Seq(Piece)] /\ pipe'["in"] = pipe["in"] \o Text(n)
      BY <1>1, <1>4, <2>3, Names
    <3>2. \A s \in Pipe : s # "in" => pipe'[s] = pipe[s]
      BY <1>1, <2>3
    <3>3. Len(pipe'["in"]) <= PipeSize
      BY <1>1, <1>2, <1>4, <3>1, IoAssumption
    <3> QED
      BY <2>1, <3>1, <3>2, <3>3
  <2> QED
    BY <1>5, <2>2, <2>3
<1>9. DOMAIN pipe' = Pipe
  BY <1>8
<1> QED
  BY <1>5, <1>6, <1>7, <1>8, <1>9 DEF TypeOK, Given, childVars, Pipe

LEMMA PollType ==
  TypeOK /\ (PollClosed \/ PollError \/ PollReady \/ PollNothing \/ PollTimeout)
    => TypeOK'
<1> SUFFICES ASSUME TypeOK,
                    PollClosed \/ PollError \/ PollReady \/ PollNothing \/ PollTimeout
             PROVE  TypeOK'
  OBVIOUS
<1>1. CASE PollClosed
  BY <1>1 DEF PollClosed, Kill, Goto, TypeOK, Flags, Given
<1>2. CASE PollError
  BY <1>2 DEF PollError, Kill, End, Goto, TypeOK, Given, ioVars
<1>3. CASE PollReady
  <2>1. /\ \A s \in Reader : rd[s] \o pipe[s] \in Seq(Piece)
        /\ << >> \in Seq(Piece) /\ Len(<< >>) = 0
    BY ConcatProperties DEF TypeOK
  <2>2. rd' \in [Reader -> Seq(Piece)]
    BY <1>3, <2>1 DEF PollReady, AfterPoll, TypeOK
  <2>3. pipe' \in [Pipe -> Seq(Piece)] /\ \A s \in Pipe : Len(pipe'[s]) <= PipeSize
    BY <1>3, <2>1, IoAssumption DEF PollReady, AfterPoll, TypeOK, Pipe
  <2>4. io' \in [Pipe -> Flags]
    BY <1>3 DEF PollReady, AfterPoll, TypeOK, Flags, Pipe
  <2>5. DOMAIN pipe' = Pipe
    BY <2>3
  <2> QED
    BY <1>3, <2>2, <2>3, <2>4, <2>5 DEF PollReady, Goto, TypeOK, Given, childVars, Pipe
<1>4. CASE PollNothing
  BY <1>4 DEF PollNothing, Goto, TypeOK, Given, childVars, ioVars
<1>5. CASE PollTimeout
  BY <1>5 DEF PollTimeout, Sleeping, Kill, End, Goto, TypeOK, Given, ioVars
<1> QED
  BY <1>1, <1>2, <1>3, <1>4, <1>5

LEMMA LineType == TypeOK /\ (TakeLine \/ NoLine) => TypeOK'
<1> SUFFICES ASSUME TypeOK, TakeLine \/ NoLine PROVE TypeOK'
  OBVIOUS
<1>1. io' \in [Pipe -> Flags]
  BY DEF TakeLine, NoLine, TypeOK, Flags, Pipe
<1>2. CASE TakeLine
  <2>1. PICK s \in NextLine :
          /\ heard' = [heard EXCEPT ![s] = @ \o Append(LineOf(s), "eol")]
          /\ rd' = [rd EXCEPT ![s] = RestOf(s)]
          /\ \/ pc' = "write" /\ UNCHANGED <<res, term>>
             \/ term' = TRUE /\ pc' = "done" /\ res' \in {"error", "found"}
    BY <1>2 DEF TakeLine, Goto, Kill, End, Stops
  <2>2. s \in Reader
    BY DEF NextLine, Reader
  <2>3. LineOf(s) \in Seq(Piece) /\ RestOf(s) \in Seq(Piece)
    BY <2>2, LineTypes DEF TypeOK
  <2>4. heard[s] \o Append(LineOf(s), "eol") \in Seq(Piece)
    <3>1. "eol" \in Piece /\ heard[s] \in Seq(Piece)
      BY <2>2 DEF TypeOK, Piece
    <3>2. Append(LineOf(s), "eol") \in Seq(Piece)
      BY <2>3, <3>1, AppendProperties
    <3> QED
      BY <3>1, <3>2, ConcatProperties
  <2>5. heard' \in [Reader -> Seq(Piece)] /\ rd' \in [Reader -> Seq(Piece)]
    BY <2>1, <2>2, <2>3, <2>4 DEF TypeOK
  <2> QED
    BY <1>1, <1>2, <2>1, <2>5 DEF TakeLine, TypeOK, Given, Pipe
<1>3. CASE NoLine
  BY <1>1, <1>3 DEF NoLine, Goto, TypeOK, Given, childVars, Pipe
<1> QED
  BY <1>2, <1>3

LEMMA WaitType == TypeOK /\ (Wait \/ WaitTimeout) => TypeOK'
BY DEF Wait, WaitTimeout, End, Goto, Kill, TypeOK, Given, ioVars

LEMMA ChildType == TypeOK /\ ChildStep => TypeOK'
<1> SUFFICES ASSUME TypeOK, ChildStep PROVE TypeOK'
  OBVIOUS
<1>1. CASE Reads
  <2>1. /\ pipe["in"] \in Seq(Piece) /\ pipe["in"] # << >> /\ "in" \in Pipe
        /\ Len(pipe["in"]) <= PipeSize /\ Len(pipe["in"]) \in Nat
    BY <1>1, LenProperties DEF Reads, TypeOK, Pipe
  <2>2. Tail(pipe["in"]) \in Seq(Piece) /\ Len(Tail(pipe["in"])) <= PipeSize
    BY <2>1, HeadTailProperties, IoAssumption
  <2>3. pipe' \in [Pipe -> Seq(Piece)] /\ \A s \in Pipe : Len(pipe'[s]) <= PipeSize
    BY <1>1, <2>2 DEF Reads, TypeOK, Pipe
  <2>4. DOMAIN pipe' = Pipe
    BY <2>3
  <2> QED
    BY <1>1, <2>3, <2>4 DEF Reads, TypeOK, Given, cmdVars, childVars, Pipe
<1>2. ASSUME NEW s \in Reader, NEW p \in Piece, Says(s, p)
      PROVE  TypeOK'
  <2>1. /\ pipe[s] \in Seq(Piece) /\ said[s] \in Seq(Piece) /\ s \in Pipe
        /\ Len(pipe[s]) < PipeSize /\ Len(pipe[s]) \in Nat
    BY <1>2, LenProperties DEF Says, TypeOK, Pipe
  <2>2. /\ Append(pipe[s], p) \in Seq(Piece) /\ Append(said[s], p) \in Seq(Piece)
        /\ Len(Append(pipe[s], p)) <= PipeSize
    BY <2>1, AppendProperties, IoAssumption
  <2>3. pipe' \in [Pipe -> Seq(Piece)] /\ \A t \in Pipe : Len(pipe'[t]) <= PipeSize
    BY <1>2, <2>2 DEF Says, TypeOK, Pipe
  <2>4. DOMAIN pipe' = Pipe /\ said' \in [Reader -> Seq(Piece)]
    BY <1>2, <2>2, <2>3 DEF Says, TypeOK
  <2> QED
    BY <1>2, <2>3, <2>4 DEF Says, TypeOK, Given, cmdVars, Pipe
<1>3. ASSUME NEW s \in held, Closes(s)
      PROVE  TypeOK'
  BY <1>3 DEF Closes, TypeOK, Given, cmdVars, ioVars
<1>4. CASE Exits
  BY <1>4 DEF Exits, TypeOK, Given, cmdVars, ioVars
<1> QED
  BY <1>1, <1>2, <1>3, <1>4 DEF ChildStep

LEMMA TypeStep == TypeOK /\ [Next]_vars => TypeOK'
<1>1. TypeOK /\ UNCHANGED vars => TypeOK'
  BY DEF vars, cmdVars, childVars, ioVars, TypeOK, Given
<1> QED
  BY <1>1, WriteType, PollType, LineType, WaitType, ChildType
  DEF Next, CmdStep, Timeouts, Rest

\* Every variable keeps its type, and no pipe is filled beyond what it holds:
\* cmd_poll writes what there is room for (command.c:229).
THEOREM TypeCorrect == Spec => []TypeOK
BY TypeInit, TypeStep, PTL DEF Spec

-----------------------------------------------------------------------------
(* Nobody is stuck.                                                        *)

\* The input is open only while there is something to write, and an output the
\* command holds has not been taken for closed.
OpenInv ==
  /\ io["in"] = "open" => left # 0
  /\ \A s \in Reader \cap held : io[s] \notin {"null", "closed"}

LEMMA OpenInit == Init => OpenInv
<1> SUFFICES ASSUME Init PROVE OpenInv
  OBVIOUS
<1>1. io["in"] = "open" => left # 0
  BY Names, CommandAssumption DEF Init, Given, Reader
<1>2. \A s \in Reader \cap held : io[s] = "open"
  BY DEF Init
<1> QED
  BY <1>1, <1>2 DEF OpenInv

LEMMA OpenStep == TypeOK /\ OpenInv /\ [Next]_vars => OpenInv'
<1> SUFFICES ASSUME TypeOK, OpenInv, [Next]_vars PROVE OpenInv'
  OBVIOUS
<1>0. io \in [Pipe -> Flags] /\ "in" \in Pipe /\ Reader \subseteq Pipe /\ "in" \notin Reader
  BY Names DEF TypeOK, Pipe
<1>1. CASE Write
  <2>1. /\ \/ UNCHANGED <<left, io>>
           \/ io' = (IF left' = 0 THEN [io EXCEPT !["in"] = "null"] ELSE io)
        /\ held' = held
    BY <1>1 DEF Write, childVars
  <2>2. \A s \in Reader : io'[s] = io[s]
    BY <1>0, <2>1
  <2>3. io'["in"] = "open" => left' # 0
    BY <1>0, <2>1 DEF OpenInv
  <2> QED
    BY <2>1, <2>2, <2>3 DEF OpenInv
<1>2. CASE PollClosed
  \* What is freed had closed.
  <2>1. /\ \A s \in Pipe : io'[s] = io[s] \/ (io'[s] = "null" /\ io[s] = "closed")
        /\ held' = held /\ left' = left
    BY <1>0, <1>2 DEF PollClosed
  <2> QED
    BY <1>0, <2>1 DEF OpenInv
<1>3. CASE PollReady
  \* What closes is not held.
  <2>1. /\ \A s \in Pipe : io'[s] = io[s] \/ (io'[s] = "closed" /\ s \notin held)
        /\ held' = held /\ left' = left
    BY <1>0, <1>3 DEF PollReady, AfterPoll, childVars
  <2> QED
    BY <1>0, <2>1 DEF OpenInv
<1>4. CASE TakeLine \/ NoLine
  <2>1. /\ \A s \in Pipe : io'[s] = io[s] \/ (io'[s] = "error" /\ s \in Reader)
        /\ held' = held /\ left' = left
    BY <1>0, <1>4 DEF TakeLine, NoLine, childVars
  <2> QED
    BY <1>0, <2>1 DEF OpenInv
<1>5. CASE PollError \/ PollNothing \/ Timeouts \/ Wait
  BY <1>5 DEF PollError, PollNothing, Timeouts, PollTimeout, WaitTimeout, Wait,
              OpenInv, childVars, ioVars
<1>6. CASE ChildStep
  <2>1. io' = io /\ left' = left /\ held' \subseteq held
    BY <1>6 DEF ChildStep, Reads, Says, Closes, Exits, cmdVars, childVars, ioVars
  <2> QED
    BY <2>1 DEF OpenInv
<1>7. CASE UNCHANGED vars
  BY <1>7 DEF vars, cmdVars, childVars, ioVars, OpenInv
<1> QED
  BY <1>1, <1>2, <1>3, <1>4, <1>5, <1>6, <1>7 DEF Next, CmdStep, Rest

LEMMA NotStuck == TypeOK /\ OpenInv => NeverStuck
<1> SUFFICES ASSUME TypeOK, OpenInv, Sleeping
             PROVE  /\ "in" \in held => pipe["in"] # << >> \/ io["in"] = "null"
                    /\ \A s \in Reader \cap held : Len(pipe[s]) < PipeSize
  BY DEF NeverStuck
<1>1. /\ io \in [Pipe -> Flags] /\ pipe \in [Pipe -> Seq(Piece)]
      /\ "in" \in Pipe /\ Reader \subseteq Pipe
  BY Names DEF TypeOK, Pipe
<1>2. \A s \in Pipe : ~Bad(s)
  BY Names DEF Sleeping, AnyBad
<1>3. \A s \in Pipe : io[s] \in {"null", "open"}
  BY <1>1, <1>2 DEF Bad, Flags
<1>4. ~Writable(held, left # 0) /\ \A s \in Reader : ~Readable(s, held)
  BY DEF Sleeping, Ready
<1>5. "in" \in held => pipe["in"] # << >> \/ io["in"] = "null"
  <2>1. SUFFICES ASSUME "in" \in held, io["in"] = "open" PROVE pipe["in"] # << >>
    BY <1>1, <1>3
  <2>2. ~(Len(pipe["in"]) < PipeSize)
    BY <1>4, <2>1 DEF Writable, OpenInv
  <2> QED
    BY <2>2, EmptySeq, IoAssumption
<1>6. ASSUME NEW s \in Reader \cap held PROVE Len(pipe[s]) < PipeSize
  <2>1. io[s] = "open"
    BY <1>1, <1>3 DEF OpenInv
  <2>2. pipe[s] = << >>
    BY <1>4, <2>1 DEF Readable
  <2> QED
    BY <2>2, EmptySeq, IoAssumption
<1> QED
  BY <1>5, <1>6

\* fdm never waits for a command that waits for it: while it sleeps in the poll
\* the command has something to read, or the end of it, and room for what it
\* writes (command.c:222).
THEOREM NobodyStuck == Spec => []NeverStuck
<1>1. Init => TypeOK /\ OpenInv
  BY TypeInit, OpenInit
<1>2. TypeOK /\ OpenInv /\ [Next]_vars => (TypeOK /\ OpenInv)'
  BY TypeStep, OpenStep
<1>3. TypeOK /\ OpenInv => NeverStuck
  BY NotStuck
<1> QED
  BY <1>1, <1>2, <1>3, PTL DEF Spec

-----------------------------------------------------------------------------
(* All that is written is read.                                            *)

Ended(q, p) == q # << >> /\ q[Len(q)] = p

\* What the command has written is in the lines handed on, the buffer and the
\* pipe; or all of it is in the lines, the last of them given an end.
Flow(s) ==
  \/ /\ heard[s] \o (rd[s] \o pipe[s]) = said[s]
     /\ heard[s] = << >> \/ Ended(heard[s], "eol")
  \/ /\ heard[s] = Append(said[s], "eol") /\ Ended(said[s], "text")
     /\ rd[s] = << >> /\ pipe[s] = << >>
     /\ s \notin held /\ io[s] \in {"closed", "null"}

\* An output that has closed has been emptied, one that is freed also read.
Emptied(s) ==
  /\ io[s] = "closed" => s \notin held /\ pipe[s] = << >>
  /\ io[s] = "null" => s \notin held /\ pipe[s] = << >> /\ rd[s] = << >>

FlowInv == \A s \in Reader : Flow(s) /\ Emptied(s)

\* There is a status only when everything has been freed.
StatusInv ==
  /\ pc = "wait" => AllNull
  /\ res \in {"ok", "bad"} => pc = "done" /\ AllNull

\* A step that leaves what an output carries alone, or only closes, frees or
\* gives up the output.
LEMMA SameFlow ==
  ASSUME NEW s \in Reader, Flow(s), Emptied(s),
         heard'[s] = heard[s], rd'[s] = rd[s], pipe'[s] = pipe[s],
         said'[s] = said[s], held' \subseteq held,
         \/ io'[s] = io[s]
         \/ io'[s] = "null" /\ io[s] = "closed" /\ rd[s] = << >>
         \/ io'[s] = "error" /\ rd[s] # << >>
  PROVE  Flow(s)' /\ Emptied(s)'
BY DEF Flow, Emptied, Ended

LEMMA PollReadyFlow ==
  ASSUME TypeOK, FlowInv, PollReady, NEW s \in Reader
  PROVE  Flow(s)' /\ Emptied(s)'
<1>1. /\ heard[s] \in Seq(Piece) /\ rd[s] \in Seq(Piece) /\ pipe[s] \in Seq(Piece)
      /\ s \in DOMAIN pipe /\ s \in DOMAIN io /\ Flow(s) /\ Emptied(s)
  BY DEF TypeOK, FlowInv
<1>2. /\ heard' = heard /\ said' = said /\ held' = held
      /\ rd'[s] = IF Readable(s, held) THEN rd[s] \o pipe[s] ELSE rd[s]
      /\ pipe'[s] = IF Readable(s, held) THEN << >> ELSE pipe[s]
      /\ io'[s] = IF io[s] = "open" /\ s \notin held THEN "closed" ELSE io[s]
  BY <1>1 DEF PollReady, AfterPoll, childVars
<1>3. CASE Readable(s, held)
  <2>1. io[s] = "open"
    BY <1>3 DEF Readable
  <2>2. /\ heard[s] \o (rd[s] \o pipe[s]) = said[s]
        /\ heard[s] = << >> \/ Ended(heard[s], "eol")
    BY <1>1, <2>1 DEF Flow
  <2>3. (rd[s] \o pipe[s]) \o << >> = rd[s] \o pipe[s]
    BY <1>1, ConcatProperties, ConcatEmptySeq
  <2>4. Flow(s)'
    BY <1>2, <1>3, <2>2, <2>3 DEF Flow, Ended
  <2> QED
    BY <1>2, <1>3, <2>1, <2>4 DEF Emptied
<1>4. CASE ~Readable(s, held)
  <2>1. io'[s] = io[s]
    BY <1>2, <1>4 DEF Readable
  <2> QED
    BY <1>1, <1>2, <1>4, <2>1, SameFlow
<1> QED
  BY <1>3, <1>4

LEMMA AppendToLast ==
  ASSUME NEW a \in Seq(Piece), NEW b \in Seq(Piece), NEW c \in Seq(Piece),
         NEW p \in Piece
  PROVE  a \o (b \o Append(c, p)) = Append(a \o (b \o c), p)
<1>1. b \o c \in Seq(Piece) /\ <<p>> \in Seq(Piece)
  BY ConcatProperties
<1>2. a \o (b \o c) \in Seq(Piece)
  BY <1>1, ConcatProperties
<1>3. Append(c, p) = c \o <<p>> /\ Append(a \o (b \o c), p) = (a \o (b \o c)) \o <<p>>
  BY <1>2, AppendIsConcat
<1>4. b \o (c \o <<p>>) = (b \o c) \o <<p>>
  BY <1>1, ConcatAssociative
<1>5. a \o ((b \o c) \o <<p>>) = (a \o (b \o c)) \o <<p>>
  BY <1>1, ConcatAssociative
<1> QED
  BY <1>3, <1>4, <1>5

LEMMA SaysFlow ==
  ASSUME TypeOK, FlowInv, NEW t \in Reader, NEW p \in Piece, Says(t, p),
         NEW s \in Reader
  PROVE  Flow(s)' /\ Emptied(s)'
<1>1. /\ heard[s] \in Seq(Piece) /\ rd[s] \in Seq(Piece) /\ pipe[s] \in Seq(Piece)
      /\ said[s] \in Seq(Piece) /\ said \in [Reader -> Seq(Piece)]
      /\ s \in DOMAIN pipe /\ pipe \in [{"in"} \cup Reader -> Seq(Piece)]
      /\ Flow(s) /\ Emptied(s)
  BY DEF TypeOK, FlowInv
<1>2. /\ heard' = heard /\ rd' = rd /\ held' = held /\ io' = io /\ t \in held
      /\ pipe' = [pipe EXCEPT ![t] = Append(@, p)]
      /\ said' = [said EXCEPT ![t] = Append(@, p)]
  BY DEF Says, cmdVars
<1>3. CASE s = t
  <2>1. pipe'[s] = Append(pipe[s], p) /\ said'[s] = Append(said[s], p)
    BY <1>1, <1>2, <1>3
  <2>2. /\ heard[s] \o (rd[s] \o pipe[s]) = said[s]
        /\ heard[s] = << >> \/ Ended(heard[s], "eol")
    BY <1>1, <1>2, <1>3 DEF Flow
  <2>3. heard[s] \o (rd[s] \o Append(pipe[s], p)) = Append(said[s], p)
    <3>1. heard[s] \o (rd[s] \o Append(pipe[s], p)) = Append(heard[s] \o (rd[s] \o pipe[s]), p)
      <4>1. \A a, b, c \in Seq(Piece) : a \o (b \o Append(c, p)) = Append(a \o (b \o c), p)
        BY AppendToLast
      <4>2. heard[s] \in Seq(Piece) /\ rd[s] \in Seq(Piece) /\ pipe[s] \in Seq(Piece)
        BY <1>1
      <4> QED
        BY <4>1, <4>2, Zenon
    <3> QED
      BY <2>2, <3>1
  <2>4. Flow(s)'
    BY <1>2, <2>1, <2>2, <2>3 DEF Flow, Ended
  <2> QED
    BY <1>1, <1>2, <1>3, <2>4 DEF Emptied
<1>4. CASE s # t
  <2>1. pipe'[s] = pipe[s] /\ said'[s] = said[s]
    BY <1>1, <1>2, <1>4
  <2> QED
    BY <1>1, <1>2, <2>1, SameFlow
<1> QED
  BY <1>3, <1>4

\* A line that is taken out of the buffer, with its end and what is behind it.
LEMMA Split ==
  ASSUME NEW q \in Seq(Piece), NEW k \in 1 .. Len(q)
  PROVE  q = SubSeq(q, 1, k - 1) \o (<<q[k]>> \o SubSeq(q, k + 1, Len(q)))
<1>1. Len(q) \in Nat /\ k \in Nat
  BY LenProperties
<1>2. SubSeq(q, 1, k - 1) \o SubSeq(q, k, Len(q)) = SubSeq(q, 1, Len(q))
  <2>1. /\ 1 \in 1 .. (Len(q) + 1) /\ k - 1 \in (1 - 1) .. Len(q)
        /\ Len(q) \in (k - 1) .. Len(q)
    BY <1>1
  <2>2. SubSeq(q, 1, k - 1) \o SubSeq(q, (k - 1) + 1, Len(q)) = SubSeq(q, 1, Len(q))
    <3>1. \A m \in 1 .. (Len(q) + 1) : \A j \in (m - 1) .. Len(q) : \A n \in j .. Len(q) :
            SubSeq(q, m, j) \o SubSeq(q, j + 1, n) = SubSeq(q, m, n)
      BY ConcatAdjacentSubSeq
    <3> QED
      BY <2>1, <3>1, Zenon
  <2>3. (k - 1) + 1 = k
    BY <1>1
  <2> QED
    BY <2>2, <2>3
<1>3. SubSeq(q, 1, Len(q)) = q
  BY SubSeqFull
<1>4. SubSeq(q, k, Len(q)) = <<q[k]>> \o SubSeq(q, k + 1, Len(q))
  <2>1. Len(q) \in k .. Len(q)
    BY <1>1
  <2> QED
    BY <2>1, SubSeqRecursiveFirst
<1> QED
  BY <1>2, <1>3, <1>4

LEMMA MoveLine ==
  ASSUME NEW h \in Seq(Piece), NEW l \in Seq(Piece), NEW r \in Seq(Piece),
         NEW p \in Seq(Piece), NEW e \in Piece
  PROVE  h \o ((l \o (<<e>> \o r)) \o p) = (h \o Append(l, e)) \o (r \o p)
<1>1. <<e>> \in Seq(Piece)
  OBVIOUS
<1>2. Append(l, e) = l \o <<e>> /\ Append(l, e) \in Seq(Piece)
  BY AppendIsConcat, AppendProperties
<1>3. l \o (<<e>> \o r) = Append(l, e) \o r
  BY <1>1, <1>2, ConcatAssociative
<1>4. (Append(l, e) \o r) \o p = Append(l, e) \o (r \o p) /\ r \o p \in Seq(Piece)
  BY <1>2, ConcatAssociative, ConcatProperties
<1>5. h \o (Append(l, e) \o (r \o p)) = (h \o Append(l, e)) \o (r \o p)
  <2>1. ASSUME NEW a \in Seq(Piece), NEW b \in Seq(Piece), NEW c \in Seq(Piece)
        PROVE  (a \o b) \o c = a \o (b \o c)
    BY ConcatAssociative, SMTT(60)
  <2> QED
    BY <1>2, <1>4, <2>1, Zenon
<1> QED
  BY <1>3, <1>4, <1>5

LEMMA EndsLast ==
  ASSUME NEW h \in Seq(Piece), NEW l \in Seq(Piece), NEW e \in Piece
  PROVE  Ended(h \o Append(l, e), e)
<1> DEFINE a == Append(l, e)
<1>1. a \in Seq(Piece) /\ Len(a) = Len(l) + 1 /\ a[Len(l) + 1] = e
  BY AppendProperties
<1>2. Len(h) \in Nat /\ Len(l) \in Nat
  BY LenProperties
<1> HIDE DEF a
<1>3. /\ h \o a \in Seq(Piece) /\ Len(h \o a) = Len(h) + Len(a)
      /\ \A i \in 1 .. Len(h) + Len(a) : (h \o a)[i] =
            IF i <= Len(h) THEN h[i] ELSE a[i - Len(h)]
  BY <1>1, ConcatProperties
<1>4. (h \o a)[Len(h) + Len(a)] = a[(Len(h) + Len(a)) - Len(h)]
  BY <1>1, <1>2, <1>3
<1>5. (Len(h) + Len(a)) - Len(h) = Len(l) + 1
  BY <1>1, <1>2
<1>6. (h \o a)[Len(h \o a)] = e
  BY <1>1, <1>3, <1>4, <1>5
<1>7. h \o a # << >>
  BY <1>1, <1>2, <1>3
<1> QED
  BY <1>6, <1>7 DEF Ended, a

LEMMA EndsConcat ==
  ASSUME NEW h \in Seq(Piece), NEW q \in Seq(Piece), NEW e, Ended(q, e)
  PROVE  Ended(h \o q, e)
<1>1. Len(h) \in Nat /\ Len(q) \in Nat /\ Len(q) # 0
  BY LenProperties, EmptySeq DEF Ended
<1>2. /\ h \o q \in Seq(Piece) /\ Len(h \o q) = Len(h) + Len(q)
      /\ \A i \in 1 .. Len(h) + Len(q) : (h \o q)[i] =
            IF i <= Len(h) THEN h[i] ELSE q[i - Len(h)]
  BY ConcatProperties
<1>3. (h \o q)[Len(h) + Len(q)] = q[(Len(h) + Len(q)) - Len(h)]
  BY <1>1, <1>2
<1>4. (Len(h) + Len(q)) - Len(h) = Len(q)
  BY <1>1
<1>5. (h \o q)[Len(h \o q)] = e
  BY <1>2, <1>3, <1>4 DEF Ended
<1>6. h \o q # << >>
  BY <1>1, <1>2
<1> QED
  BY <1>5, <1>6 DEF Ended

LEMMA AppendTail ==
  ASSUME NEW h \in Seq(Piece), NEW q \in Seq(Piece), NEW e \in Piece
  PROVE  h \o Append(q, e) = Append(h \o q, e)
<1>1. <<e>> \in Seq(Piece) /\ h \o q \in Seq(Piece)
  BY ConcatProperties
<1>2. Append(q, e) = q \o <<e>> /\ Append(h \o q, e) = (h \o q) \o <<e>>
  BY <1>1, AppendIsConcat
<1>3. h \o (q \o <<e>>) = (h \o q) \o <<e>>
  BY <1>1, ConcatAssociative
<1> QED
  BY <1>2, <1>3

\* What is taken without an end: the rest of an output that has closed.
LEMMA RestTaken ==
  ASSUME NEW s \in Reader, rd[s] \in Seq(Piece), Eols(s) = {}, rd[s] # << >>,
         Len(rd[s]) < MaxLine
  PROVE  LineOf(s) = rd[s] /\ RestOf(s) = << >> /\ Ended(rd[s], "text")
<1>1. Len(rd[s]) \in Nat /\ rd[s][Len(rd[s])] \in Piece /\ Len(rd[s]) # 0
  <2>1. Len(rd[s]) \in Nat /\ Len(rd[s]) # 0
    BY EmptySeq
  <2> QED
    BY <2>1, ElementOfSeq
<1>2. LineEnd(s) = Len(rd[s]) + 1
  BY DEF LineEnd
<1>3. LineEnd(s) - 1 = Len(rd[s]) /\ Len(rd[s]) < LineEnd(s) + 1 /\ LineEnd(s) + 1 \in Int
  BY <1>1, <1>2
<1>4. LineOf(s) = rd[s]
  BY <1>3, SubSeqFull DEF LineOf
<1>5. RestOf(s) = << >>
  BY <1>1, <1>3, SubSeqEmpty DEF RestOf
<1>6. rd[s][Len(rd[s])] # "eol"
  BY <1>1, IoAssumption DEF Eols, Least
<1> QED
  BY <1>1, <1>4, <1>5, <1>6 DEF Ended, Piece

LEMMA TakeLineFlow ==
  ASSUME TypeOK, FlowInv, TakeLine, NEW s \in Reader
  PROVE  Flow(s)' /\ Emptied(s)'
<1>1. /\ heard \in [Reader -> Seq(Piece)] /\ rd \in [Reader -> Seq(Piece)]
      /\ \A t \in Reader : heard[t] \in Seq(Piece) /\ rd[t] \in Seq(Piece)
                           /\ pipe[t] \in Seq(Piece) /\ t \in DOMAIN io
                           /\ Flow(t) /\ Emptied(t)
  BY DEF TypeOK, FlowInv
<1>2. PICK t \in NextLine :
        /\ heard' = [heard EXCEPT ![t] = @ \o Append(LineOf(t), "eol")]
        /\ rd' = [rd EXCEPT ![t] = RestOf(t)]
  BY DEF TakeLine
<1>3. t \in Reader /\ GivesLine(t)
  BY DEF NextLine, Reader
<1>4. /\ pipe' = pipe /\ held' = held /\ said' = said
      /\ io'[s] = IF Searched(s) THEN "error" ELSE io[s]
  BY <1>1 DEF TakeLine
<1>5. Searched(s) => rd[s] # << >>
  BY EmptySeq, IoAssumption DEF Searched, TooLong
<1>6. CASE s # t
  <2>1. heard'[s] = heard[s] /\ rd'[s] = rd[s]
    BY <1>1, <1>2, <1>6
  <2> QED
    BY <1>1, <1>4, <1>5, <2>1, SameFlow
<1>7. CASE s = t
  <2>1. /\ heard'[s] = heard[s] \o Append(LineOf(s), "eol") /\ rd'[s] = RestOf(s)
        /\ GivesLine(s) /\ Flow(s) /\ Emptied(s)
        /\ heard[s] \in Seq(Piece) /\ rd[s] \in Seq(Piece) /\ pipe[s] \in Seq(Piece)
    BY <1>1, <1>2, <1>3, <1>7
  <2>0. heard[s] \in Seq(Piece) /\ rd[s] \in Seq(Piece) /\ pipe[s] \in Seq(Piece)
    BY <2>1
  <2>2. LineOf(s) \in Seq(Piece) /\ RestOf(s) \in Seq(Piece) /\ "eol" \in Piece
    BY <2>1, LineTypes DEF Piece
  <2>3. rd[s] # << >>
    <3>1. Eols(s) # {} => Len(rd[s]) # 0
      BY <2>1, IoAssumption DEF Eols, Least
    <3> QED
      BY <2>1, <3>1, EmptySeq DEF GivesLine
  <2>4. heard[s] \o (rd[s] \o pipe[s]) = said[s]
    BY <2>1, <2>3 DEF Flow
  <2>5. Ended(heard'[s], "eol")
    BY <2>1, <2>2, EndsLast
  <2>6. io'[s] = io[s] /\ io[s] \in {"open", "closed"}
    BY <1>3, <1>4, <1>7, <2>1 DEF Searched, TooLong, GivesLine, NextLine
  <2>7. Emptied(s)'
    BY <1>4, <2>1, <2>6 DEF Emptied
  <2>8. CASE Eols(s) # {}
    <3>1. LineEnd(s) \in Eols(s) /\ LineEnd(s) \in 1 .. Len(rd[s])
      BY <2>1, <2>8, LineEndIn
    <3>2. rd[s][LineEnd(s)] = "eol"
      BY <3>1 DEF Eols
    <3>3. rd[s] = LineOf(s) \o (<<"eol">> \o RestOf(s))
      BY <2>1, <3>1, <3>2, Split DEF LineOf, RestOf
    <3>4. heard[s] \o ((LineOf(s) \o (<<"eol">> \o RestOf(s))) \o pipe[s])
            = (heard[s] \o Append(LineOf(s), "eol")) \o (RestOf(s) \o pipe[s])
      <4>1. \A h, l, q, p \in Seq(Piece) : \A e \in Piece :
              h \o ((l \o (<<e>> \o q)) \o p) = (h \o Append(l, e)) \o (q \o p)
        BY MoveLine
      <4>2. \A q, p \in Seq(Piece) : \A e \in Piece :
              heard[s] \o ((LineOf(s) \o (<<e>> \o q)) \o p)
                = (heard[s] \o Append(LineOf(s), e)) \o (q \o p)
        BY <2>0, <2>2, <4>1, Zenon
      <4> QED
        BY <2>0, <2>2, <4>2, Zenon
    <3> QED
      BY <1>4, <2>1, <2>4, <2>5, <2>7, <3>3, <3>4 DEF Flow, Ended
  <2>9. CASE Eols(s) = {}
    <3>1. io[s] = "closed" /\ Len(rd[s]) < MaxLine
      <4>1. Len(rd[s]) \in Nat
        BY <2>1, LenProperties
      <4> QED
        BY <2>1, <2>9, <4>1, IoAssumption DEF GivesLine, TooLong
    <3>2. LineOf(s) = rd[s] /\ RestOf(s) = << >> /\ Ended(rd[s], "text")
      BY <2>1, <2>3, <2>9, <3>1, RestTaken
    <3>3. pipe[s] = << >> /\ s \notin held
      BY <2>1, <3>1 DEF Emptied
    <3>4. said[s] = heard[s] \o rd[s]
      BY <2>1, <2>4, <3>3, ConcatEmptySeq
    <3>5. heard[s] \o Append(rd[s], "eol") = Append(said[s], "eol")
      <4>1. \A h, q \in Seq(Piece) : \A e \in Piece :
              h \o Append(q, e) = Append(h \o q, e)
        BY AppendTail
      <4>2. heard[s] \o Append(rd[s], "eol") = Append(heard[s] \o rd[s], "eol")
        BY <2>0, <2>2, <4>1, Zenon
      <4> QED
        BY <3>4, <4>2
    <3>6. Ended(said[s], "text")
      BY <2>1, <3>2, <3>4, EndsConcat
    <3> QED
      BY <1>4, <2>1, <2>6, <2>7, <3>1, <3>2, <3>3, <3>5, <3>6 DEF Flow, Ended
  <2> QED
    BY <2>8, <2>9
<1> QED
  BY <1>6, <1>7

LEMMA FlowInit == Init => FlowInv
<1> SUFFICES ASSUME Init, NEW s \in Reader PROVE Flow(s) /\ Emptied(s)
  BY DEF FlowInv
<1>1. /\ heard[s] = << >> /\ rd[s] = << >> /\ pipe[s] = << >> /\ said[s] = << >>
      /\ io[s] # "closed" /\ (io[s] = "null" => s \notin held)
  BY DEF Init
<1>2. << >> \o (<< >> \o << >>) = << >>
  BY EmptySeq, ConcatEmptySeq
<1> QED
  BY <1>1, <1>2 DEF Flow, Emptied

LEMMA FlowStep == TypeOK /\ FlowInv /\ [Next]_vars => FlowInv'
<1> SUFFICES ASSUME TypeOK, FlowInv, [Next]_vars, NEW s \in Reader
             PROVE  Flow(s)' /\ Emptied(s)'
  BY DEF FlowInv
<1>0. /\ Flow(s) /\ Emptied(s) /\ s # "in" /\ s \in DOMAIN io /\ s \in DOMAIN pipe
      /\ s \in Pipe
  BY Names DEF FlowInv, TypeOK, Pipe
<1>1. CASE Write
  <2>1. /\ io'[s] = io[s] /\ pipe'[s] = pipe[s] /\ heard' = heard /\ rd' = rd
        /\ held' = held /\ said' = said
    BY <1>0, <1>1 DEF Write, TypeOK, childVars
  <2> QED
    BY <1>0, <2>1, SameFlow
<1>2. CASE PollClosed
  <2>1. /\ UNCHANGED <<heard, rd, pipe, said, held>>
        /\ io'[s] = io[s] \/ (io'[s] = "null" /\ io[s] = "closed" /\ rd[s] = << >>)
    BY <1>0, <1>2 DEF PollClosed, TypeOK
  <2> QED
    BY <1>0, <2>1, SameFlow
<1>3. CASE PollReady
  BY <1>3, PollReadyFlow
<1>4. CASE TakeLine
  BY <1>4, TakeLineFlow
<1>5. CASE NoLine
  <2>1. /\ UNCHANGED <<heard, rd, pipe, said, held>>
        /\ io'[s] = IF TooLong(s) THEN "error" ELSE io[s]
    BY <1>0, <1>5 DEF NoLine, childVars
  <2>2. TooLong(s) => rd[s] # << >>
    BY EmptySeq, IoAssumption DEF TooLong
  <2> QED
    BY <1>0, <2>1, <2>2, SameFlow
<1>6. CASE PollError \/ PollNothing \/ Timeouts \/ Wait
  <2>1. UNCHANGED <<heard, rd, pipe, said, held, io>>
    BY <1>6 DEF PollError, PollNothing, Timeouts, PollTimeout, WaitTimeout, Wait,
                childVars, ioVars
  <2> QED
    BY <1>0, <2>1, SameFlow
<1>7. CASE ChildStep
  <2>1. CASE Reads \/ Exits \/ \E t \in held : Closes(t)
    <3>1. /\ UNCHANGED <<heard, rd, said, io>> /\ held' \subseteq held
          /\ pipe'[s] = pipe[s]
      BY <1>0, <2>1 DEF Reads, Exits, Closes, cmdVars, childVars, ioVars, TypeOK
    <3> QED
      BY <1>0, <3>1, SameFlow
  <2>2. ASSUME NEW t \in Reader, NEW p \in Piece, Says(t, p)
        PROVE  Flow(s)' /\ Emptied(s)'
    BY <2>2, SaysFlow
  <2> QED
    BY <1>7, <2>1, <2>2 DEF ChildStep
<1>8. CASE UNCHANGED vars
  <2>1. UNCHANGED <<heard, rd, pipe, said, held, io>>
    BY <1>8 DEF vars, cmdVars, childVars, ioVars
  <2> QED
    BY <1>0, <2>1, SameFlow
<1> QED
  BY <1>1, <1>2, <1>3, <1>4, <1>5, <1>6, <1>7, <1>8 DEF Next, CmdStep, Rest

LEMMA StatusStep == StatusInv /\ [Next]_vars => StatusInv'
<1> SUFFICES ASSUME StatusInv, [Next]_vars PROVE StatusInv'
  OBVIOUS
<1>1. CASE Write \/ PollClosed \/ PollReady \/ PollNothing
  BY <1>1 DEF Write, PollClosed, PollReady, PollNothing, Goto, StatusInv
<1>2. CASE PollError \/ Timeouts
  BY <1>2 DEF PollError, Timeouts, PollTimeout, WaitTimeout, End, Goto, StatusInv
<1>3. CASE TakeLine
  <2>1. \/ pc' = "write" /\ res' = res /\ pc # "done"
        \/ pc' = "done" /\ res' \in {"error", "found"}
    BY <1>3 DEF TakeLine, Goto, End, Stops
  <2> QED
    BY <2>1 DEF StatusInv
<1>4. CASE NoLine
  <2>1. /\ res' = res /\ pc = "line"
        /\ \/ pc' = "write"
           \/ pc' = "wait" /\ AllNull
    BY <1>4 DEF NoLine, Goto
  <2>2. AllNull => AllNull'
    BY <1>4 DEF NoLine, AllNull, TooLong, Reader
  <2> QED
    BY <2>1, <2>2 DEF StatusInv
<1>5. CASE Wait
  BY <1>5 DEF Wait, End, Goto, StatusInv, AllNull, ioVars
<1>6. CASE ChildStep \/ UNCHANGED vars
  <2>1. UNCHANGED <<pc, res, io>>
    BY <1>6 DEF ChildStep, Reads, Exits, Closes, Says, vars, cmdVars, childVars, ioVars
  <2> QED
    BY <2>1 DEF StatusInv, AllNull
<1> QED
  BY <1>1, <1>2, <1>3, <1>4, <1>5, <1>6 DEF Next, CmdStep, Rest

LEMMA AllRead == TypeOK /\ FlowInv /\ StatusInv => OutputWhole
<1> SUFFICES ASSUME TypeOK, FlowInv, StatusInv, res \in {"ok", "bad"}, NEW s \in Reader
             PROVE  heard[s] = Whole(said[s])
  BY DEF OutputWhole
<1>1. io[s] = "null" /\ Flow(s) /\ Emptied(s) /\ heard[s] \in Seq(Piece) /\ said[s] \in Seq(Piece)
  BY DEF StatusInv, AllNull, FlowInv, TypeOK
<1>2. rd[s] = << >> /\ pipe[s] = << >>
  BY <1>1 DEF Emptied
<1>3. heard[s] \o (<< >> \o << >>) = heard[s]
  BY <1>1, EmptySeq, ConcatEmptySeq
<1>4. \/ heard[s] = said[s] /\ (heard[s] = << >> \/ Ended(heard[s], "eol"))
      \/ heard[s] = Append(said[s], "eol") /\ Ended(said[s], "text")
  BY <1>1, <1>2, <1>3 DEF Flow
<1> QED
  BY <1>4 DEF Whole, Ended

\* When a command has given its status, every line it has written has been
\* handed on, whatever was still in a pipe or a buffer when it ended, and what
\* is no whole line too (command.c:295).
THEOREM OutputRead == Spec => []OutputWhole
<1>1. Init => TypeOK /\ FlowInv /\ StatusInv
  BY TypeInit, FlowInit DEF Init, StatusInv
<1>2. TypeOK /\ FlowInv /\ StatusInv /\ [Next]_vars => (TypeOK /\ FlowInv /\ StatusInv)'
  BY TypeStep, FlowStep, StatusStep
<1>3. TypeOK /\ FlowInv /\ StatusInv => OutputWhole
  BY AllRead
<1> QED
  BY <1>1, <1>2, <1>3, PTL DEF Spec

-----------------------------------------------------------------------------
(* A delivery to a server.  The connection.                                *)

\* All that has come and is not taken off yet.
Coming == inp \o wire

Word == {"200", "407", "header", "empty", "junk", "*", "+", "OK", "NO", "BAD", "TRYCREATE",
         "220", "221", "250", "354", "500", "503", "550", "554"}
UnitType == [by : {"proxy", "server"}, v : Nat \cup Word]
BuffersOK == wire \in Seq(UnitType) /\ inp \in Seq(UnitType)

\* The first p units are the proxy's and the others the server's.
Leads(s, p) == p \in 0 .. Len(s)
               /\ \A i \in 1 .. Len(s) : s[i].by = IF i <= p THEN "proxy" ELSE "server"

\* An HTTP proxy's lines end with an empty one, the p-th.
Header(p) == Coming[p].v = "empty" /\ \A i \in 1 .. p - 1 : Coming[i].v # "empty"

Answered ==
  /\ conn = "http" =>
       \E p \in 1 .. Len(Coming) : Leads(Coming, p) /\
         (Coming[1].v = "200" => p > 1 /\ tunnel /\ Header(p))
  /\ conn \in {"method", "auth"} => Len(Coming) = 2 /\ ~tunnel
  /\ conn = "request" =>
       \E p \in 5 .. Len(Coming) : Leads(Coming, p) /\ Coming[5].v \in Nat /\
         (Coming[2].v = 0 => tunnel /\ (setup.atyp = 1 => p = 10 /\ Coming[4].v = 1))

\* How far the proxy is when the connection is so far.
InStep ==
  /\ conn \in {"start", "trying"} => asked = "none" /\ ~tunnel /\ Coming = <<>>
  /\ conn \in {"http", "method", "auth", "request"} =>
       \/ asked = conn /\ ~tunnel /\ Coming = <<>>
       \/ asked = "none" /\ Answered
  /\ conn = "header" =>
       asked = "none" /\ tunnel /\ \E p \in 1 .. Len(Coming) : Leads(Coming, p) /\ Header(p)
  /\ conn \in {"tls", "up"} =>
       asked = "none" /\ \E p \in 0 .. Len(Coming) : Leads(Coming, p) /\ (setup.atyp = 1 => p = 0)

\* And the client and the server before a mail is on its way.
Before ==
  /\ conn \in {"start", "trying"} => untried # 0
  /\ st = "connect" => out = <<>> /\ mode \in {"greet", "command"}
  /\ st \notin {"connect", "end"} => conn = "up"
  /\ st = "end" => conn \in {"up", "failed", "fatal"}

-----------------------------------------------------------------------------
Came(v)   == \E i \in 1 .. Len(Coming) : Coming[i].by = "server" /\ Coming[i].v = v
GoesOn    == \A i \in 1 .. Len(Coming) : Coming[i].by = "server" /\ Coming[i].v = "354" =>
               \A j \in i .. Len(Coming) : Coming[j].v = "354"
Dot       == <<".">>
NoDot     == \A i \in 1 .. Len(out) : out[i].text # Dot
WholeMail == [i \in 1 .. Len(mail) |-> Body(mail[i])]
Early     == {"connect", "connecting", "helo", "from", "to"}

\* The server has the first lines of the mail, and the next n are on their way.
OnTheWay(n) ==
  /\ mode = "data" /\ taken = <<>> /\ n \in Nat /\ n <= Len(out)
  /\ sent = Len(text) + n
  /\ \A i \in 1 .. Len(text) : text[i] = Body(mail[i])
  /\ \A i \in 1 .. n : out[i].text = Stuffed(mail[Len(text) + i])

\* And the end behind them, and nothing that looks like one.
Ending(n) ==
  /\ OnTheWay(n) /\ sent = Len(mail) /\ n < Len(out)
  /\ out[n + 1].text = Dot /\ \A i \in n + 2 .. Len(out) : out[i].text # Dot

SmtpInv ==
  /\ st \in Early \cup {"data", "lines", "done", "quit", "end"}
  /\ st \in Early \cup {"data"} => sent = 0
  /\ st \in Early => /\ mode \in {"greet", "command"} /\ ~Came("354") /\ NoDot /\ taken = <<>>
                     /\ \A i \in 1 .. Len(out) : out[i].is # "DATA"
  /\ st = "data" =>
       /\ NoDot /\ taken = <<>>
       /\ \/ /\ mode \in {"greet", "command"} /\ ~Came("354")
             /\ \A i \in 1 .. Len(out) - 1 : out[i].is # "DATA"
          \/ mode = "data" /\ out = <<>> /\ text = <<>> /\ GoesOn
  /\ st = "lines" => OnTheWay(Len(out)) /\ ~Came("250")
  /\ st = "done" => \/ (\E n \in Nat : Ending(n) /\ Len(out) = n + 1) /\ ~Came("250")
                    \/ out = <<>> /\ mode = "command" /\ (Came("250") => taken = <<WholeMail>>)
  /\ st = "quit" => NoDot /\ taken = <<WholeMail>>
  /\ st = "end" => /\ NoDot \/ \E n \in Nat : Ending(n)
                   /\ result = "success" => taken = <<WholeMail>>
  /\ taken \in {<<>>, <<WholeMail>>}

-----------------------------------------------------------------------------
\* The text of the first k lines, as a server is to have it over IMAP.
Wired(k) == FlattenSeq([i \in 1 .. k |-> Body(mail[i]) \o <<CR, LF>>])
WholeText == SubSeq(Wired(Len(mail)), 1, MailLen)

Server(v) == Unit("server", v)
\* The client has asked and the server not read it, or it has answered.
Asks(c, n, m) == out = <<Command(c, n)>> /\ Coming = <<>> /\ mode = m
Has(V, m) == /\ out = <<>> /\ mode = m
             /\ \E v \in V : Coming = <<Server(v)>> \/ Coming = <<Server("*"), Server(v)>>

Filling ==
  /\ mode = "literal" /\ need = MailLen /\ taken = <<>> /\ Coming = <<>>
  /\ \E k \in 0 .. sent :
       /\ k < Len(mail) /\ text = Wired(k) /\ Len(out) = sent - k
       /\ \A i \in 1 .. Len(out) : out[i].text = Body(mail[k + i])
Filled ==
  /\ sent = Len(mail)
  /\ \/ taken = <<WholeText>> /\ Has({"OK"}, "command")
     \/ taken = <<>> /\ Has({"NO", "TRYCREATE"}, "command")

ImapInv ==
  /\ st \in {"connect", "login", "append", "folder", "lines", "appended", "create", "created",
             "logout", "end"}
  /\ st \in {"connect", "login"} =>
       /\ taken = <<>> /\ out = <<>>
       /\ \/ mode = "greet" /\ \A i \in 1 .. Len(Coming) : Coming[i].by = "proxy"
          \/ mode = "command"
       /\ conn \notin {"failed", "fatal"} => \A i \in 1 .. Len(Coming) - 1 : ~(Coming[i].by = "server" /\ Coming[i].v = "OK")
  /\ st = "append" => taken = <<>> /\
       (Asks("APPEND", 0, "command") \/ Has({"+"}, "name") \/ Has({"NO"}, "command"))
  /\ st = "folder" => taken = <<>> /\
       (\/ Asks("FOLDER", MailLen, "name") \/ Has({"NO", "TRYCREATE"}, "command")
        \/ Has({"+"}, "literal") /\ need = MailLen /\ text = <<>>)
  /\ st = "lines" => Filling \/ Filled
  /\ st = "appended" => sent = Len(mail) /\ (Filling \/ Filled)
  /\ st = "create" => taken = <<>> /\
       (Asks("CREATE", 0, "command") \/ Has({"+"}, "create") \/ Has({"NO"}, "command"))
  /\ st = "created" => taken = <<>> /\
       (Asks("NAME", 0, "create") \/ Has({"OK", "NO"}, "command"))
  /\ st = "logout" => taken = <<WholeText>>
  /\ st = "end" /\ result = "success" => taken = <<WholeText>>

\* At most one literal is to come, and none after one was taken.
Once ==
  /\ \A i \in 2 .. Len(out) : out[i].is # "FOLDER"
  /\ mode = "literal" \/ taken # <<>> => \A i \in 1 .. Len(out) : out[i].is # "FOLDER"
  /\ taken # <<>> => mode # "literal"
  /\ Len(taken) <= 1

SI == setup.kind = "smtp" => SmtpInv
II == setup.kind = "imap" => ImapInv
OO == setup.kind = "imap" => Once
NetInv == /\ NetTypeOK /\ BuffersOK /\ InStep /\ Before
          /\ setup.kind = "smtp" => SmtpInv
          /\ setup.kind = "imap" => ImapInv /\ Once

Min2(a, b) == IF a <= b THEN a ELSE b

\* The assumption, of the instance at hand.
LEMMA Setup == setup \in Setups => SetupType(setup)
BY SetupsAssumption

-----------------------------------------------------------------------------
\* What is left of two sequences in a row when n are taken off the first.
LEMMA DropFront ==
  ASSUME NEW U, NEW a \in Seq(U), NEW b \in Seq(U), NEW n \in 0 .. Len(a), NEW c,
         c = SubSeq(a, n + 1, Len(a)) \o b
  PROVE  /\ SubSeq(a, n + 1, Len(a)) \in Seq(U)
         /\ Len(c) = Len(a \o b) - n /\ Len(a \o b) \in Nat /\ n <= Len(a \o b)
         /\ \A i \in 1 .. Len(c) : c[i] = (a \o b)[i + n]
<1>1. PICK d : d = SubSeq(a, n + 1, Len(a))
  OBVIOUS
<1>2. /\ d \in Seq(U) /\ Len(d) = Len(a) - n /\ Len(a) \in Nat /\ Len(b) \in Nat
      /\ \A i \in 1 .. Len(d) : d[i] = a[n + i]
  BY <1>1, SubSeqProperties, LenProperties
<1>3. /\ Len(c) = Len(d) + Len(b)
      /\ \A i \in 1 .. Len(d) : c[i] = d[i]
      /\ \A i \in Len(d) + 1 .. Len(d) + Len(b) : c[i] = b[i - Len(d)]
  BY <1>1, <1>2, ConcatProperties
<1>4. /\ Len(a \o b) = Len(a) + Len(b)
      /\ \A i \in 1 .. Len(a) : (a \o b)[i] = a[i]
      /\ \A i \in Len(a) + 1 .. Len(a) + Len(b) : (a \o b)[i] = b[i - Len(a)]
  BY ConcatProperties
<1>5. ASSUME NEW i \in 1 .. Len(c) PROVE c[i] = (a \o b)[i + n]
  <2>1. CASE i <= Len(d)
    <3>1. i \in 1 .. Len(d) /\ i + n \in 1 .. Len(a) /\ n + i = i + n
      BY <2>1, <1>2
    <3> QED
      BY <3>1, <1>2, <1>3, <1>4
  <2>2. CASE ~(i <= Len(d))
    <3>1. /\ i \in Len(d) + 1 .. Len(d) + Len(b) /\ i + n \in Len(a) + 1 .. Len(a) + Len(b)
          /\ (i + n) - Len(a) = i - Len(d)
      BY <2>2, <1>2, <1>3
    <3> QED
      BY <3>1, <1>3, <1>4
  <2> QED
    BY <2>1, <2>2
<1>6. Len(c) = Len(a \o b) - n /\ Len(a \o b) \in Nat /\ n <= Len(a \o b)
  BY <1>2, <1>3, <1>4
<1> QED
  BY <1>1, <1>2, <1>5, <1>6, Zenon

\* What two sequences in a row are made of.
LEMMA AddBack ==
  ASSUME NEW U, NEW a \in Seq(U), NEW s \in Seq(U), NEW c, c = a \o s
  PROVE  /\ c \in Seq(U) /\ Len(c) = Len(a) + Len(s) /\ Len(a) \in Nat /\ Len(s) \in Nat
         /\ \A i \in 1 .. Len(a) : c[i] = a[i]
         /\ \A i \in Len(a) + 1 .. Len(c) : c[i] = s[i - Len(a)]
BY ConcatProperties, LenProperties

-----------------------------------------------------------------------------
Lost(n) == /\ Len(Coming') = Len(Coming) - n /\ n <= Len(Coming)
           /\ \A i \in 1 .. Len(Coming') : Coming'[i] = Coming[i + n]

\* What is to come is units, and the buffer is the first of it.
LEMMA ComingType ==
  ASSUME BuffersOK
  PROVE  /\ Coming \in Seq(UnitType) /\ Len(Coming) \in Nat /\ Len(inp) \in Nat
         /\ Len(inp) <= Len(Coming)
         /\ \A i \in 1 .. Len(Coming) : Coming[i] \in UnitType
         /\ \A i \in 1 .. Len(inp) : inp[i] = Coming[i]
BY ConcatProperties, LenProperties, ElementOfSeq DEF BuffersOK, Coming

\* What is to come behind the first n units of the buffer,
LEMMA ComingRest ==
  ASSUME BuffersOK, NEW n \in 0 .. Len(inp), NEW w, w = SubSeq(inp, n + 1, Len(inp)) \o wire
  PROVE  /\ SubSeq(inp, n + 1, Len(inp)) \in Seq(UnitType)
         /\ Len(w) = Len(Coming) - n /\ n <= Len(Coming)
         /\ \A i \in 1 .. Len(w) : w[i] = Coming[i + n]
<1>1. inp \in Seq(UnitType) /\ wire \in Seq(UnitType)
  BY DEF BuffersOK
<1>2. /\ SubSeq(inp, n + 1, Len(inp)) \in Seq(UnitType)
      /\ Len(w) = Len(inp \o wire) - n /\ n <= Len(inp \o wire)
      /\ \A i \in 1 .. Len(w) : w[i] = (inp \o wire)[i + n]
  BY <1>1, DropFront
<1>3. PICK d : d = Coming
  OBVIOUS
<1>4. d = inp \o wire
  BY <1>3 DEF Coming
<1> QED
  BY <1>2, <1>3, <1>4

\* so that Skip loses just these n.
LEMMA ComingSkip ==
  ASSUME BuffersOK, NEW n \in 0 .. Len(inp), Skip(n), wire' = wire
  PROVE  BuffersOK' /\ Lost(n)
<1>1. inp \in Seq(UnitType) /\ wire \in Seq(UnitType)
  BY DEF BuffersOK
<1>2. Coming' = SubSeq(inp, n + 1, Len(inp)) \o wire
  BY DEF Coming, Skip
<1> QED
  <2>1. PICK c : c = Coming'
    OBVIOUS
  <2>2. /\ SubSeq(inp, n + 1, Len(inp)) \in Seq(UnitType)
        /\ Len(c) = Len(Coming) - n /\ n <= Len(Coming)
        /\ \A i \in 1 .. Len(c) : c[i] = Coming[i + n]
    BY <1>2, <2>1, ComingRest
  <2> QED
    BY <1>1, <2>1, <2>2 DEF BuffersOK, Skip, Lost

\* A poll moves units from the socket to the buffer and nothing else.
LEMMA ComingPoll ==
  ASSUME BuffersOK, inp' = inp \o wire, wire' = <<>>
  PROVE  BuffersOK' /\ Coming' = Coming
<1>1. inp \o wire \in Seq(UnitType) /\ <<>> \in Seq(UnitType)
  BY ConcatProperties, EmptySeq DEF BuffersOK
<1>2. Coming' = (inp \o wire) \o <<>>
  BY DEF Coming
<1> QED
  BY <1>1, <1>2, ConcatEmptySeq DEF BuffersOK, Coming

\* Whoever speaks only adds to what is to come.
LEMMA ComingMore ==
  ASSUME BuffersOK, NEW s \in Seq(UnitType), wire' = wire \o s, inp' = inp
  PROVE  /\ BuffersOK' /\ Coming' = Coming \o s
         /\ Len(Coming') = Len(Coming) + Len(s) /\ Len(Coming) \in Nat /\ Len(s) \in Nat
         /\ \A i \in 1 .. Len(Coming) : Coming'[i] = Coming[i]
         /\ \A i \in Len(Coming) + 1 .. Len(Coming') : Coming'[i] = s[i - Len(Coming)]
<1>1. inp \in Seq(UnitType) /\ wire \in Seq(UnitType)
  BY DEF BuffersOK
<1>2. Coming \in Seq(UnitType)
  BY ComingType
<1>3. Coming' = Coming \o s
  BY <1>1, ConcatAssociative DEF Coming
<1>4. BuffersOK'
  BY <1>1, ConcatProperties DEF BuffersOK
<1> QED
  BY <1>2, <1>3, <1>4, AddBack

\* Nothing is read, and nothing said.
LEMMA SameComing ==
  ASSUME UNCHANGED <<inp, wire>>
  PROVE  Coming' = Coming /\ (BuffersOK => BuffersOK')
BY DEF Coming, BuffersOK

-----------------------------------------------------------------------------
\* What the proxy has said and the server comes in front of what the server has.
LEMMA ProxyFirst ==
  ASSUME BuffersOK, NEW p \in Nat, Leads(Coming, p)
  PROVE  FromProxy = 1 .. Min2(p, Len(inp)) /\ Cardinality(FromProxy) = Min2(p, Len(inp))
<1>1. Len(inp) \in Nat /\ Len(inp) <= Len(Coming) /\ Len(Coming) \in Nat
      /\ \A i \in 1 .. Len(inp) : inp[i] = Coming[i]
  BY ComingType
<1>2. \A i \in 1 .. Len(inp) : inp[i].by = IF i <= p THEN "proxy" ELSE "server"
  BY <1>1 DEF Leads
<1>3. FromProxy = 1 .. Min2(p, Len(inp))
  BY <1>1, <1>2 DEF FromProxy, Min2
<1>4. Min2(p, Len(inp)) \in Nat
  BY <1>1 DEF Min2
<1>5. Cardinality(1 .. Min2(p, Len(inp))) = Min2(p, Len(inp))
  BY <1>4, FS_Interval
<1> QED
  BY <1>3, <1>5

\* With nothing of a proxy to come the first line is the server's own.
LEMMA NoProxy ==
  ASSUME BuffersOK, \A i \in 1 .. Len(Coming) : Coming[i].by = "server"
  PROVE  FromProxy = {} /\ First = 1
<1>1. FromProxy = {}
  BY ComingType DEF FromProxy
<1> QED
  BY <1>1, FS_EmptySet DEF First

-----------------------------------------------------------------------------
(* What is said.                                                           *)

\* What is said becomes units of who says it.
LEMMA UnitsType ==
  ASSUME NEW b \in {"proxy", "server"}, NEW s \in Seq(Nat \cup Word)
  PROVE  /\ Units(b, s) \in Seq(UnitType) /\ Len(Units(b, s)) = Len(s) /\ Len(s) \in Nat
         /\ \A i \in 1 .. Len(s) : Units(b, s)[i] = Unit(b, s[i])
<1>1. Len(s) \in Nat /\ \A i \in 1 .. Len(s) : s[i] \in Nat \cup Word
  BY LenProperties, ElementOfSeq
<1>2. \A i \in 1 .. Len(s) : Unit(b, s[i]) \in UnitType
  BY <1>1 DEF Unit, UnitType
<1>3. PICK u : u = Units(b, s)
  OBVIOUS
<1>4. u \in [1 .. Len(s) -> UnitType] /\ \A i \in 1 .. Len(s) : u[i] = Unit(b, s[i])
  BY <1>2, <1>3 DEF Units
<1>5. u \in Seq(UnitType)
  BY <1>1, <1>4, IsASeq
<1>6. Len(u) = Len(s)
  BY <1>1, <1>4, <1>5, LenProperties
<1> QED
  BY <1>1, <1>3, <1>4, <1>5, <1>6

\* Sequences that are written out.
LEMMA Words ==
  ASSUME NEW T
  PROVE  /\ \A a \in T : <<a>> \in Seq(T) /\ Len(<<a>>) = 1 /\ <<a>>[1] = a
         /\ \A a \in T, b \in T : /\ <<a, b>> \in Seq(T) /\ Len(<<a, b>>) = 2
                                 /\ <<a, b>>[1] = a /\ <<a, b>>[2] = b
         /\ \A a \in T, b \in T, c \in T : <<a, b, c>> \in Seq(T) /\ Len(<<a, b, c>>) = 3
OBVIOUS

\* The server has said v, and over SMTP perhaps once more or over IMAP * before.
Heard(v) ==
  /\ Len(Coming') > Len(Coming)
  /\ \A i \in 1 .. Len(Coming) : Coming'[i] = Coming[i]
  /\ \A i \in Len(Coming) + 1 .. Len(Coming') :
       /\ Coming'[i].by = "server" /\ Coming'[i].v \in {v, "*"}
       /\ setup.kind = "smtp" => Coming'[i].v = v
       /\ setup.kind = "imap" /\ i < Len(Coming') => Coming'[i].v = "*"
  /\ Coming = <<>> /\ setup.kind = "imap" =>
       Coming' = <<Server(v)>> \/ Coming' = <<Server("*"), Server(v)>>

\* Any answer of a server is a word, once or twice, or behind an untagged line.
LEMMA Heeded ==
  ASSUME BuffersOK, setup.kind \in {"smtp", "imap"}, NEW V \in SUBSET Word, AnyOf(V)
  PROVE  /\ BuffersOK' /\ \E v \in V : Heard(v)
         /\ UNCHANGED <<setup, conn, untried, asked, tunnel, inp, st, sent, polled, result>>
<1>1. PICK v \in V : \E s \in Either(v) : Answers(s)
  BY DEF AnyOf
<1>2. PICK s \in Either(v) : Answers(s)
  BY <1>1
<1>3. /\ s = <<v>> \/ (setup.kind = "smtp" /\ s = <<v, v>>)
                   \/ (setup.kind = "imap" /\ s = <<"*", v>>)
      /\ v \in Word
  BY <1>2 DEF Either
<1>4. /\ s \in Seq(Nat \cup Word) /\ (Len(s) = 1 \/ Len(s) = 2)
      /\ Len(s) = 1 => s[1] = v
      /\ Len(s) = 2 => s[2] = v /\ s[1] = IF setup.kind = "smtp" THEN v ELSE "*"
  <2>0. v \in Nat \cup Word /\ "*" \in Nat \cup Word
    BY <1>3 DEF Word
  <2>1. CASE s = <<v>>
    BY <2>0, <2>1, Words
  <2>2. CASE setup.kind = "smtp" /\ s = <<v, v>>
    BY <2>0, <2>2, Words
  <2>3. CASE setup.kind = "imap" /\ s = <<"*", v>>
    <3>1. s \in Seq(Nat \cup Word) /\ Len(s) = 2 /\ s[1] = "*" /\ s[2] = v
      BY <2>0, <2>3, Words
    <3> QED
      BY <3>1, <2>3
  <2> QED
    BY <1>3, <2>1, <2>2, <2>3
<1>5. PICK u : u = Units("server", s)
  OBVIOUS
<1>6. /\ u \in Seq(UnitType) /\ Len(u) = Len(s)
      /\ \A i \in 1 .. Len(s) : u[i] = Unit("server", s[i])
  BY <1>4, <1>5, UnitsType
<1>7. wire' = wire \o u /\ inp' = inp
  BY <1>2, <1>5 DEF Answers
<1>8. /\ BuffersOK' /\ Coming' = Coming \o u
      /\ Len(Coming') = Len(Coming) + Len(u) /\ Len(Coming) \in Nat /\ Len(u) \in Nat
      /\ \A i \in 1 .. Len(Coming) : Coming'[i] = Coming[i]
      /\ \A i \in Len(Coming) + 1 .. Len(Coming') : Coming'[i] = u[i - Len(Coming)]
  BY <1>6, <1>7, ComingMore
<1>9. ASSUME NEW i \in Len(Coming) + 1 .. Len(Coming')
      PROVE  /\ Coming'[i].by = "server" /\ Coming'[i].v \in {v, "*"}
             /\ setup.kind = "smtp" => Coming'[i].v = v
             /\ setup.kind = "imap" /\ i < Len(Coming') => Coming'[i].v = "*"
  <2>1. PICK j \in 1 .. Len(s) : j = i - Len(Coming)
    BY <1>6, <1>8
  <2>2. Coming'[i] = Unit("server", s[j])
    BY <1>6, <1>8, <2>1
  <2>3. Coming'[i].by = "server" /\ Coming'[i].v = s[j]
    BY <2>2 DEF Unit
  <2>4. Len(Coming') = Len(Coming) + Len(s) /\ Len(Coming) \in Nat /\ Len(s) \in Nat
    BY <1>6, <1>8
  <2>5. i < Len(Coming') => j < Len(s)
    BY <2>1, <2>4
  <2>6. (j = 1 \/ (j = 2 /\ Len(s) = 2)) /\ (j < Len(s) => j = 1 /\ Len(s) = 2)
    <3>1. CASE Len(s) = 1
      BY <2>1, <3>1
    <3>2. CASE Len(s) = 2
      BY <2>1, <3>2
    <3> QED
      BY <1>4, <3>1, <3>2
  <2>7. s[j] \in {v, "*"} /\ (setup.kind = "smtp" => s[j] = v)
        /\ (setup.kind = "imap" /\ j < Len(s) => s[j] = "*")
    BY <1>4, <2>6
  <2> QED
    BY <2>3, <2>5, <2>7
<1>10. ASSUME Coming = <<>>, setup.kind = "imap"
       PROVE  Coming' = <<Server(v)>> \/ Coming' = <<Server("*"), Server(v)>>
  <2>1. Coming' = u
    BY <1>6, <1>8, <1>10, ConcatEmptySeq
  <2>2. CASE s = <<v>>
    BY <1>5, <2>1, <2>2 DEF Units, Server
  <2>3. CASE s = <<"*", v>>
    <3>1. u \in Seq(UnitType) /\ Len(u) = 2 /\ u[1] = Server("*") /\ u[2] = Server(v)
      BY <1>6, <2>3 DEF Server
    <3> QED
      BY <2>1, <3>1
  <2> QED
    BY <1>3, <1>10, <2>2, <2>3
<1> QED
  <2>1. Len(Coming') > Len(Coming)
    BY <1>4, <1>6, <1>8
  <2>2. Heard(v)
    BY <1>8, <1>9, <1>10, <2>1 DEF Heard
  <2> QED
    BY <1>2, <1>8, <2>2 DEF Answers, clientVars

\* The proxy has said something.
Relayed ==
  /\ Len(Coming') >= Len(Coming)
  /\ \A i \in 1 .. Len(Coming) : Coming'[i] = Coming[i]
  /\ \A i \in Len(Coming) + 1 .. Len(Coming') : Coming'[i].by = "proxy"

\* And nothing else is there.
LEMMA ProxyHeard ==
  ASSUME BuffersOK, NEW s \in Seq(Nat \cup Word), NEW t, ProxySays(s, t)
  PROVE  /\ BuffersOK' /\ Relayed
         /\ Coming = <<>> =>
              /\ Len(Coming') = Len(s) /\ Len(s) \in Nat
              /\ \A i \in 1 .. Len(s) : Coming'[i] = Unit("proxy", s[i])
<1>1. PICK u : u = Units("proxy", s)
  OBVIOUS
<1>2. /\ u \in Seq(UnitType) /\ Len(u) = Len(s) /\ Len(s) \in Nat
      /\ \A i \in 1 .. Len(s) : u[i] = Unit("proxy", s[i])
  BY <1>1, UnitsType
<1>3. wire' = wire \o u /\ inp' = inp
  BY <1>1 DEF ProxySays
<1>4. /\ BuffersOK' /\ Coming' = Coming \o u
      /\ Len(Coming') = Len(Coming) + Len(u) /\ Len(Coming) \in Nat /\ Len(u) \in Nat
      /\ \A i \in 1 .. Len(Coming) : Coming'[i] = Coming[i]
      /\ \A i \in Len(Coming) + 1 .. Len(Coming') : Coming'[i] = u[i - Len(Coming)]
  BY <1>2, <1>3, ComingMore
<1>5. ASSUME NEW i \in Len(Coming) + 1 .. Len(Coming') PROVE Coming'[i].by = "proxy"
  <2>1. PICK j \in 1 .. Len(s) : j = i - Len(Coming)
    BY <1>2, <1>4
  <2>2. Coming'[i] = Unit("proxy", s[j])
    BY <1>2, <1>4, <2>1
  <2> QED
    BY <2>2 DEF Unit
<1>6. Relayed
  BY <1>4, <1>5 DEF Relayed
<1> QED
  BY <1>2, <1>4, <1>6, ConcatEmptySeq

\* Where the connection goes once TCP is up.
LEMMA AfterConnecting ==
  /\ AfterProxy \in {"tls", "up"}
  /\ AfterTcp \in {"tls", "up", "http", "failed", "method", "fatal"}
     \/ setup.proxy \notin {"none", "http", "socks5", "https"}
  /\ setup.proxy = "none" => AfterTcp \in {"tls", "up"}
  /\ setup.proxy \in {"http", "socks5", "https"} => AfterTcp \in {"http", "failed", "method", "fatal"}
BY DEF AfterProxy, AfterTcp

\* The answers of proxies are sequences of numbers and words,
LEMMA ProxyWords ==
  /\ \A s \in {<<"200", "empty">>, <<"200", "header", "empty">>, <<"407", "empty">>} :
       s \in Seq(Nat \cup Word) /\ Len(s) \in Nat
  /\ \A a \in Nat, b \in Nat : <<a, b>> \in Seq(Nat \cup Word) /\ Len(<<a, b>>) = 2
  /\ Refused \in Seq(Nat \cup Word) /\ Len(Refused) = 10 /\ Refused[2] = 2 /\ Refused[5] = 0
<1>1. \A s \in {<<"200", "empty">>, <<"200", "header", "empty">>, <<"407", "empty">>} :
       s \in Seq(Word) /\ Len(s) \in Nat
  <2>1. "200" \in Word /\ "empty" \in Word /\ "header" \in Word /\ "407" \in Word
    BY DEF Word
  <2>2. /\ <<"200", "empty">> \in Seq(Word) /\ Len(<<"200", "empty">>) = 2
        /\ <<"407", "empty">> \in Seq(Word) /\ Len(<<"407", "empty">>) = 2
        /\ <<"200", "header", "empty">> \in Seq(Word) /\ Len(<<"200", "header", "empty">>) = 3
    BY <2>1, Words
  <2> QED
    BY <2>2
<1>2. \A a \in Nat, b \in Nat : <<a, b>> \in Seq(Nat) /\ Len(<<a, b>>) = 2
  OBVIOUS
<1>3. Refused \in Seq(Nat) /\ Len(Refused) = 10 /\ Refused[2] = 2 /\ Refused[5] = 0
  BY DEF Refused
<1>4. Seq(Word) \subseteq Seq(Nat \cup Word) /\ Seq(Nat) \subseteq Seq(Nat \cup Word)
  BY SeqMonotonic
<1> QED
  BY <1>1, <1>2, <1>3, <1>4

\* Two sequences in a row, with the first of the second.
LEMMA Joined ==
  ASSUME NEW T, NEW a \in Seq(T), NEW b \in Seq(T), NEW c, c = a \o b
  PROVE  /\ c \in Seq(T) /\ Len(c) = Len(a) + Len(b) /\ Len(b) \in Nat
         /\ \A i \in 1 .. Len(a) : c[i] = a[i]
         /\ Len(b) > 0 => c[Len(a) + 1] = b[1]
         /\ Len(a) = 1 => \A i \in 1 .. Len(b) : c[i + 1] = b[i]
<1>1. /\ c \in Seq(T) /\ Len(c) = Len(a) + Len(b) /\ Len(b) \in Nat /\ Len(a) \in Nat
      /\ \A i \in 1 .. Len(a) : c[i] = a[i]
      /\ \A i \in Len(a) + 1 .. Len(c) : c[i] = b[i - Len(a)]
  BY AddBack
<1>2. ASSUME Len(b) > 0 PROVE Len(a) + 1 \in Len(a) + 1 .. Len(c) /\ (Len(a) + 1) - Len(a) = 1
  BY <1>1, <1>2
<1>3. ASSUME Len(a) = 1, NEW i \in 1 .. Len(b) PROVE i + 1 \in Len(a) + 1 .. Len(c) /\ (i + 1) - Len(a) = i
  BY <1>1, <1>3
<1> QED
  BY <1>1, <1>2, <1>3

\* and a granted reply has the type of its address in the fourth byte.
LEMMA Grants ==
  ASSUME setup.atyp \in {1, 3, 4}
  PROVE  /\ Granted \in Seq(Nat \cup Word) /\ Len(Granted) >= 5 /\ Len(Granted) \in Nat
         /\ Granted[5] \in Nat /\ Granted[2] = 0
         /\ setup.atyp = 1 => Len(Granted) = 10 /\ Granted[4] = 1
<1>1. PICK a : a = Address
  OBVIOUS
<1>2. a \in Seq(Nat) /\ Len(a) > 0 /\ (setup.atyp = 1 => Len(a) = 4)
  <2>1. CASE setup.atyp = 1
    BY <1>1, <2>1 DEF Address
  <2>2. CASE setup.atyp = 3
    BY <1>1, <2>2 DEF Address
  <2>3. CASE setup.atyp = 4
    BY <1>1, <2>3 DEF Address
  <2> QED
    BY <2>1, <2>2, <2>3
<1>3. PICK h : h = <<5, 0, 0, setup.atyp>>
  OBVIOUS
<1>4. h \in Seq(Nat) /\ Len(h) = 4 /\ h[2] = 0 /\ h[4] = setup.atyp
  BY <1>3
<1>5. PICK e : e = <<0, 25>>
  OBVIOUS
<1>6. e \in Seq(Nat) /\ Len(e) = 2
  BY <1>5
<1>7. Granted = (h \o a) \o e
  BY <1>1, <1>3, <1>5 DEF Granted
<1>8. PICK f : f = h \o a
  OBVIOUS
<1>12. f \in Seq(Nat) /\ Len(f) = 4 + Len(a) /\ Len(a) \in Nat
       /\ f[2] = 0 /\ f[4] = setup.atyp /\ f[5] = a[1]
  <2>1. h \in Seq(Nat) /\ a \in Seq(Nat)
    BY <1>2, <1>4
  <2>2. /\ f \in Seq(Nat) /\ Len(f) = Len(h) + Len(a) /\ Len(a) \in Nat
        /\ \A i \in 1 .. Len(h) : f[i] = h[i]
        /\ Len(a) > 0 => f[Len(h) + 1] = a[1]
    BY <2>1, <1>8, Joined
  <2>3. 2 \in 1 .. Len(h) /\ 4 \in 1 .. Len(h) /\ Len(h) + 1 = 5
    BY <1>4
  <2> QED
    BY <1>2, <1>4, <2>2, <2>3
<1>9. Granted \in Seq(Nat) /\ Len(Granted) = 6 + Len(a)
      /\ Granted[2] = 0 /\ Granted[4] = setup.atyp /\ Granted[5] = a[1]
  <2>0. f \in Seq(Nat) /\ e \in Seq(Nat) /\ Granted = f \o e
    BY <1>6, <1>7, <1>8, <1>12
  <2>1. /\ Granted \in Seq(Nat) /\ Len(Granted) = Len(f) + Len(e)
        /\ \A i \in 1 .. Len(f) : Granted[i] = f[i]
    BY <2>0, Joined
  <2>2. 2 \in 1 .. Len(f) /\ 4 \in 1 .. Len(f) /\ 5 \in 1 .. Len(f)
    BY <1>2, <1>12
  <2> QED
    BY <1>6, <1>12, <2>1, <2>2
<1>10. Granted \in Seq(Nat \cup Word)
  BY <1>9, SeqMonotonic
<1>11. a[1] \in Nat
  BY <1>2, <1>12, ElementOfSeq
<1>13. Len(Granted) >= 5 /\ Len(Granted) \in Nat /\ (setup.atyp = 1 => Len(Granted) = 10)
  <2>1. Len(Granted) = 6 + Len(a) /\ Len(a) \in Nat /\ Len(a) > 0
    BY <1>2, <1>12, <1>9
  <2>2. setup.atyp = 1 => Len(a) = 4
    BY <1>2
  <2>3. PICK n, g : n = Len(a) /\ g = Len(Granted)
    OBVIOUS
  <2>4. g = 6 + n /\ n \in Nat /\ n > 0 /\ (setup.atyp = 1 => n = 4)
    BY <2>1, <2>2, <2>3
  <2>5. g >= 5 /\ g \in Nat /\ (setup.atyp = 1 => g = 10)
    BY <2>4
  <2> QED
    BY <2>3, <2>5
<1> QED
  BY <1>9, <1>10, <1>11, <1>13

-----------------------------------------------------------------------------
(* The connection.                                                         *)

\* The proxy's units are taken off before the server's,
LEMMA LeadsLost ==
  ASSUME BuffersOK, BuffersOK', NEW p \in Nat, Leads(Coming, p), NEW n \in Nat, Lost(n)
  PROVE  Leads(Coming', IF n <= p THEN p - n ELSE 0)
<1>1. Len(Coming) \in Nat /\ Len(Coming') \in Nat
  BY ComingType DEF BuffersOK, Coming
<1>2. /\ Len(Coming') = Len(Coming) - n /\ n <= Len(Coming)
      /\ \A i \in 1 .. Len(Coming') : Coming'[i] = Coming[i + n]
      /\ p <= Len(Coming)
      /\ \A i \in 1 .. Len(Coming) : Coming[i].by = IF i <= p THEN "proxy" ELSE "server"
  BY DEF Lost, Leads
<1>0. PICK q : q = IF n <= p THEN p - n ELSE 0
  OBVIOUS
<1>3. q \in Nat /\ q = IF n <= p THEN p - n ELSE 0
  BY <1>0
<1>4. q \in 0 .. Len(Coming')
  BY <1>1, <1>2, <1>3
<1>5. ASSUME NEW i \in 1 .. Len(Coming')
      PROVE  Coming'[i].by = IF i <= q THEN "proxy" ELSE "server"
  <2>1. i + n \in 1 .. Len(Coming) /\ (i <= q <=> i + n <= p)
    BY <1>1, <1>2, <1>3
  <2> QED
    BY <1>2, <2>1
<1> QED
  BY <1>3, <1>4, <1>5 DEF Leads

\* and what a server says comes behind them.
LEMMA LeadsHeard ==
  ASSUME BuffersOK, BuffersOK', NEW p \in Nat, Leads(Coming, p), NEW v, Heard(v)
  PROVE  Leads(Coming', p)
<1>1. Len(Coming) \in Nat /\ Len(Coming') \in Nat
  BY ComingType DEF BuffersOK, Coming
<1>2. /\ Len(Coming') > Len(Coming) /\ p \in 0 .. Len(Coming)
      /\ \A i \in 1 .. Len(Coming) : Coming'[i] = Coming[i]
      /\ \A i \in Len(Coming) + 1 .. Len(Coming') : Coming'[i].by = "server"
      /\ \A i \in 1 .. Len(Coming) : Coming[i].by = IF i <= p THEN "proxy" ELSE "server"
  BY DEF Heard, Leads
<1>3. ASSUME NEW i \in 1 .. Len(Coming')
      PROVE  Coming'[i].by = IF i <= p THEN "proxy" ELSE "server"
  <2>1. CASE i <= Len(Coming)
    <3>1. i \in 1 .. Len(Coming)
      BY <2>1
    <3> QED
      BY <1>2, <3>1
  <2>2. CASE ~(i <= Len(Coming))
    <3>1. i \in Len(Coming) + 1 .. Len(Coming') /\ ~(i <= p)
      BY <1>1, <1>2, <2>2
    <3> QED
      BY <1>2, <3>1
  <2> QED
    BY <2>1, <2>2
<1> QED
  BY <1>1, <1>2, <1>3 DEF Leads

\* When nothing is there and nothing asked, nobody is in front of the server.
LEMMA NobodyLeads ==
  ASSUME Coming = <<>>
  PROVE  Leads(Coming, 0) /\ 0 \in 0 .. Len(Coming) /\ Len(Coming) = 0
BY EmptySeq, LenProperties DEF Leads

\* The first p units are taken off, and of the next one perhaps a part.
Thinned(p) ==
  /\ Len(Coming') = Len(Coming) - p /\ p <= Len(Coming)
  /\ \A i \in 1 .. Len(Coming') :
       \/ Coming'[i] = Coming[i + p]
       \/ i = 1 /\ Coming'[i] = Unit("server", "junk") /\ Coming[i + p].by = "server"

\* Take, of n units, loses n of the proxy's, or all and the start of a line.
LEMMA TakeThins ==
  ASSUME BuffersOK, NEW p \in Nat, Leads(Coming, p), NEW n \in Nat, Enough(n), Take(n), wire' = wire
  PROVE  BuffersOK' /\ ((n <= p /\ Lost(n)) \/ Thinned(p))
<1>1. /\ Len(Coming) \in Nat /\ Len(inp) \in Nat /\ Len(inp) <= Len(Coming)
      /\ \A i \in 1 .. Len(inp) : inp[i] = Coming[i]
  BY ComingType
<1>2. PICK q \in Nat : q = Min2(p, Len(inp))
  BY <1>1 DEF Min2
<1>3. Cardinality(FromProxy) = q /\ q <= Len(inp) /\ q <= p /\ p <= Len(Coming)
  BY <1>1, <1>2, ProxyFirst DEF Min2, Leads
<1>4. CASE n <= q
  <2>1. Skip(n) /\ n \in 0 .. Len(inp)
    BY <1>1, <1>3, <1>4 DEF Take
  <2>2. BuffersOK' /\ Lost(n)
    BY <2>1, ComingSkip
  <2> QED
    BY <1>3, <1>4, <2>2
<1>5. CASE ~(n <= q)
  <2>1. Len(inp) > q /\ inp' = <<Unit("server", "junk")>> \o SubSeq(inp, q + 2, Len(inp))
    BY <1>1, <1>3, <1>5 DEF Take, Enough
  <2>2. q = p
    BY <1>1, <1>2, <2>1 DEF Min2
  <2>3. PICK m \in Nat : m = q + 1
    OBVIOUS
  <2>4. m + 1 = q + 2 /\ m \in 0 .. Len(inp)
    BY <1>1, <2>1, <2>3
  <2>5. PICK r : r = SubSeq(inp, m + 1, Len(inp))
    OBVIOUS
  <2>6. PICK w : w = r \o wire
    OBVIOUS
  <2>7. /\ r \in Seq(UnitType) /\ Len(w) = Len(Coming) - m /\ m <= Len(Coming)
        /\ \A i \in 1 .. Len(w) : w[i] = Coming[i + m]
    BY <2>4, <2>5, <2>6, ComingRest
  <2>8. PICK j : j = <<Unit("server", "junk")>>
    OBVIOUS
  <2>9. j \in Seq(UnitType) /\ Len(j) = 1 /\ j[1] = Unit("server", "junk")
    <3>1. Unit("server", "junk") \in UnitType
      BY DEF Unit, UnitType, Word
    <3> QED
      BY <2>8, <3>1, Words
  <2>10. inp' = j \o r
    BY <2>1, <2>4, <2>5, <2>8
  <2>11. wire \in Seq(UnitType) /\ w \in Seq(UnitType)
    BY <2>6, <2>7, ConcatProperties DEF BuffersOK
  <2>12. BuffersOK' /\ Coming' = (j \o r) \o wire
    BY <2>7, <2>9, <2>10, <2>11, ConcatProperties DEF BuffersOK, Coming
  <2>13. PICK c : c = Coming'
    OBVIOUS
  <2>14. c = j \o w
    <3>1. j \in Seq(UnitType) /\ r \in Seq(UnitType) /\ wire \in Seq(UnitType)
      BY <2>7, <2>9, <2>11
    <3>2. PICK v \in Seq(UnitType) : v = wire
      BY <3>1
    <3>3. (j \o r) \o v = j \o (r \o v)
      BY <3>1, ConcatAssociative
    <3> QED
      BY <2>6, <2>12, <2>13, <3>2, <3>3
  <2>15. /\ Len(c) = Len(j) + Len(w) /\ Len(w) \in Nat
         /\ \A i \in 1 .. Len(j) : c[i] = j[i]
         /\ \A i \in Len(j) + 1 .. Len(c) : c[i] = w[i - Len(j)]
    <3>1. j \in Seq(UnitType) /\ w \in Seq(UnitType) /\ c = j \o w
      BY <2>9, <2>11, <2>14
    <3> QED
      BY <3>1, AddBack
  <2>16. ASSUME NEW i \in 1 .. Len(c)
         PROVE  \/ c[i] = Coming[i + p]
                \/ i = 1 /\ c[i] = Unit("server", "junk") /\ Coming[i + p].by = "server"
    <3>1. CASE i = 1
      <4>1. c[i] = Unit("server", "junk")
        BY <2>9, <2>15, <3>1
      <4>2. i + p \in 1 .. Len(Coming) /\ ~(i + p <= p)
        BY <1>1, <2>2, <2>3, <2>7, <3>1
      <4> QED
        BY <3>1, <4>1, <4>2 DEF Leads
    <3>2. CASE i # 1
      <4>1. i \in Len(j) + 1 .. Len(c) /\ i - Len(j) \in 1 .. Len(w) /\ (i - Len(j)) + m = i + p
        BY <2>2, <2>3, <2>9, <2>15, <3>2
      <4> QED
        BY <2>7, <2>15, <4>1
    <3> QED
      BY <3>1, <3>2
  <2>17. Len(c) = Len(Coming) - p
    BY <1>1, <2>2, <2>3, <2>7, <2>9, <2>15
  <2> QED
    BY <1>3, <2>12, <2>13, <2>16, <2>17 DEF Thinned
<1> QED
  BY <1>4, <1>5

\* What the connection does while it is opened, a step with each of its actions.
LEMMA OpeningInStep ==
  ASSUME BuffersOK, InStep, setup \in Setups, Opening
  PROVE  InStep' /\ BuffersOK'
<1>0. SetupType(setup) /\ ConnectType(setup) /\ setup' = setup /\ setup.atyp \in {1, 3, 4}
      /\ setup.proxy \in {"none", "http", "https", "socks5"}
  BY Setup DEF SetupType, ConnectType, Opening
<1> USE <1>0
<1>1. CASE Lookup
  BY <1>1, SameComing DEF Lookup, Fails, InStep
<1>2. CASE TryAddress
  <2>1. Coming' = Coming /\ BuffersOK' /\ asked = "none" /\ ~tunnel /\ Coming = <<>> /\ conn = "trying"
    BY <1>2, SameComing DEF TryAddress, InStep
  <2>2. CASE conn' \in {"failed", "trying"} /\ UNCHANGED <<asked, tunnel>>
    BY <2>1, <2>2 DEF InStep
  <2>3. CASE /\ conn' = AfterTcp
             /\ asked' = IF AfterTcp \in {"http", "method"} THEN AfterTcp ELSE "none"
             /\ tunnel' = (setup.proxy = "none")
    <3>1. CASE AfterTcp \in {"tls", "up"}
      <4>1. Leads(Coming', 0) /\ 0 \in 0 .. Len(Coming')
        BY <2>1, NobodyLeads
      <4> QED
        BY <2>1, <2>3, <3>1, <4>1 DEF InStep
    <3>2. CASE AfterTcp \in {"http", "method"}
      <4>1. tunnel' = FALSE
        BY <2>3, <3>2 DEF AfterTcp
      <4> QED
        BY <2>1, <2>3, <3>2, <4>1 DEF InStep
    <3>3. CASE AfterTcp \in {"failed", "fatal"}
      BY <2>1, <2>3, <3>3 DEF InStep
    <3> QED
      BY <3>1, <3>2, <3>3, AfterConnecting
  <2> QED
    BY <1>2, <2>2, <2>3 DEF TryAddress
<1>3. CASE MakeTls
  <2>1. UNCHANGED <<asked, tunnel>> /\ Coming' = Coming /\ BuffersOK' /\ conn = "tls" /\ conn' \in {"up", "failed"}
    BY <1>3, SameComing DEF MakeTls, Fails
  <2> QED
    BY <2>1 DEF InStep
<1>4. CASE HttpLine
  <2>1. /\ inp # <<>> /\ Skip(1) /\ UNCHANGED <<asked, tunnel, wire>> /\ conn \in {"http", "header"}
        /\ conn' = IF conn = "http" THEN (IF inp[1].v = "200" THEN "header" ELSE "failed")
                   ELSE IF inp[1].v = "empty" THEN AfterProxy ELSE "header"
    BY <1>4 DEF HttpLine
  <2>2. 1 \in 1 .. Len(inp) /\ 1 \in 0 .. Len(inp) /\ inp[1] = Coming[1] /\ 1 <= Len(Coming)
        /\ Len(Coming) \in Nat
    BY <2>1, ComingType, EmptySeq, LenProperties DEF BuffersOK
  <2>3. BuffersOK' /\ Lost(1)
    BY <2>1, <2>2, ComingSkip
  <2>4. asked = "none"
    BY <2>1, <2>2, NobodyLeads DEF InStep
  <2>5. CASE conn = "http" /\ inp[1].v = "200"
    <3>1. PICK p \in 1 .. Len(Coming) : Leads(Coming, p) /\ p > 1 /\ tunnel /\ Header(p)
      BY <2>2, <2>4, <2>5 DEF InStep, Answered
    <3>2. Leads(Coming', p - 1) /\ p - 1 \in 1 .. Len(Coming')
      <4>1. p \in Nat /\ 1 <= p /\ Leads(Coming, p)
        BY <3>1
      <4>2. Leads(Coming', p - 1)
        BY <2>3, <4>1, LeadsLost
      <4> QED
        BY <2>2, <2>3, <3>1, <4>2 DEF Lost
    <3>3. /\ Coming'[p - 1] = Coming[p]
          /\ \A i \in 1 .. (p - 1) - 1 : Coming'[i] = Coming[i + 1] /\ i + 1 \in 1 .. p - 1
      BY <2>2, <2>3, <3>1, <3>2 DEF Lost
    <3>4. Coming'[p - 1].v = "empty" /\ \A i \in 1 .. (p - 1) - 1 : Coming'[i].v # "empty"
      BY <3>1, <3>3 DEF Header
    <3>5. conn' = "header" /\ asked' = "none" /\ tunnel'
      BY <2>1, <2>4, <2>5, <3>1
    <3> QED
      BY <2>3, <3>2, <3>4, <3>5 DEF InStep, Header
  <2>6. CASE conn = "http" /\ inp[1].v # "200"
    <3>1. conn' = "failed"
      BY <2>1, <2>6
    <3> QED
      BY <2>3, <3>1 DEF InStep
  <2>7. CASE conn = "header"
    <3>1. PICK p \in 1 .. Len(Coming) : Leads(Coming, p) /\ Header(p)
      BY <2>7 DEF InStep
    <3>2. Leads(Coming', p - 1) /\ p - 1 \in 0 .. Len(Coming')
      BY <2>2, <2>3, <3>1, LeadsLost DEF Lost
    <3>3. asked' = "none" /\ tunnel'
      BY <2>1, <2>7 DEF InStep
    <3>4. CASE p = 1
      <4>1. conn' = AfterProxy
        BY <2>1, <2>2, <2>7, <3>1, <3>4 DEF Header
      <4> QED
        BY <2>3, <3>2, <3>3, <3>4, <4>1, AfterConnecting DEF InStep
    <3>5. CASE p # 1
      <4>1. 1 \in 1 .. p - 1
        BY <3>5
      <4>2. conn' = "header"
        BY <2>1, <2>2, <2>7, <3>1, <4>1 DEF Header
      <4>3. /\ Coming'[p - 1] = Coming[p] /\ p - 1 \in 1 .. Len(Coming')
            /\ \A i \in 1 .. (p - 1) - 1 : Coming'[i] = Coming[i + 1] /\ i + 1 \in 1 .. p - 1
        BY <2>2, <2>3, <3>1, <3>2, <4>1 DEF Lost
      <4>4. Coming'[p - 1].v = "empty" /\ \A i \in 1 .. (p - 1) - 1 : Coming'[i].v # "empty"
        BY <3>1, <4>3 DEF Header
      <4> QED
        BY <2>3, <3>2, <3>3, <4>2, <4>3, <4>4 DEF InStep, Header
    <3> QED
      BY <3>4, <3>5
  <2> QED
    BY <2>1, <2>5, <2>6, <2>7
<1>5. CASE SocksMethod \/ SocksAuth
  <2>1. /\ Len(inp) >= 2 /\ Skip(2) /\ wire' = wire /\ tunnel' = tunnel
        /\ conn \in {"method", "auth"}
        /\ conn' = "failed" \/ (conn' \in {"auth", "request"} /\ asked' = conn')
    BY <1>5 DEF SocksMethod, SocksAuth, Fails
  <2>2. 2 \in 0 .. Len(inp) /\ Len(Coming) >= 2 /\ Len(Coming) \in Nat
    BY <2>1, ComingType
  <2>3. BuffersOK' /\ Lost(2)
    BY <2>1, <2>2, ComingSkip
  <2>4. Len(Coming) = 2 /\ ~tunnel
    BY <2>1, <2>2, NobodyLeads DEF InStep, Answered
  <2>5. Coming' = <<>>
    <3>1. Len(Coming') = 0 /\ Coming' \in Seq(UnitType)
      BY <2>3, <2>4, ConcatProperties DEF Lost, BuffersOK, Coming
    <3> QED
      BY <3>1, EmptySeq
  <2> QED
    BY <2>1, <2>3, <2>4, <2>5 DEF InStep
<1>6. CASE SocksReply
  <2>1. /\ conn = "request" /\ Len(inp) >= 5 /\ UNCHANGED <<asked, tunnel, wire>>
    BY <1>6 DEF SocksReply
  <2>2. Len(Coming) \in Nat /\ Len(inp) \in Nat /\ Len(inp) <= Len(Coming)
        /\ \A i \in 1 .. Len(inp) : inp[i] = Coming[i]
    BY ComingType
  <2>3. asked = "none" /\ Answered
    BY <2>1, <2>2, NobodyLeads DEF InStep
  <2>4. PICK p \in 5 .. Len(Coming) : Leads(Coming, p) /\ Coming[5].v \in Nat /\
          (Coming[2].v = 0 => tunnel /\ (setup.atyp = 1 => p = 10 /\ Coming[4].v = 1))
    BY <2>1, <2>3 DEF Answered
  <2>5. PICK q \in Nat : q = Min2(p, Len(inp))
    BY <2>2 DEF Min2
  <2>6. Cardinality(FromProxy) = q /\ q >= 5 /\ q <= Len(inp) /\ q <= p
    BY <2>1, <2>2, <2>4, <2>5, ProxyFirst DEF Min2
  <2>7. CASE ~Granting(Values(5))
    <3>1. conn' = "failed" /\ Take(5) /\ Enough(5)
      BY <1>6, <2>2, <2>6, <2>7 DEF SocksReply, Fails, Enough
    <3>2. BuffersOK'
      BY <2>1, <2>4, <3>1, TakeThins
    <3> QED
      BY <3>1, <3>2 DEF InStep
  <2>8. CASE Granting(Values(5))
    <3>1. \A i \in 1 .. 5 : Values(5)[i] = Coming[i].v
      BY <2>1, <2>2 DEF Values
    <3>2. Coming[2].v = 0 /\ Coming[4].v \in {1, 3, 4}
      BY <2>8, <3>1 DEF Granting
    <3>3. PICK n : n = 5 + RestLen(Values(5))
      OBVIOUS
    <3>4. n \in Nat /\ n >= 5 /\ (setup.atyp = 1 => n = 10)
      BY <2>4, <3>1, <3>2, <3>3 DEF RestLen
    <3>5. Enough(n) /\ Take(n) /\ conn' = AfterProxy
      BY <1>6, <2>8, <3>3 DEF SocksReply
    <3>6. BuffersOK' /\ ((n <= p /\ Lost(n)) \/ Thinned(p)) /\ p \in Nat
      BY <2>1, <2>2, <2>4, <3>4, <3>5, TakeThins
    <3>7. CASE n <= p /\ Lost(n)
      <4>1. Leads(Coming', p - n)
        BY <2>4, <3>4, <3>6, <3>7, LeadsLost
      <4>2. p - n \in 0 .. Len(Coming') /\ (setup.atyp = 1 => p - n = 0)
        BY <2>2, <2>4, <3>2, <3>4, <3>7 DEF Lost
      <4> QED
        BY <2>1, <2>3, <3>5, <3>6, <4>1, <4>2, AfterConnecting DEF InStep
    <3>8. CASE Thinned(p)
      <4>1. Len(Coming') \in Nat /\ Len(Coming') = Len(Coming) - p
        BY <2>2, <2>4, <3>8 DEF Thinned
      <4>2. ASSUME NEW i \in 1 .. Len(Coming') PROVE Coming'[i].by = "server"
        <5>1. i + p \in 1 .. Len(Coming) /\ ~(i + p <= p)
          BY <2>2, <2>4, <4>1
        <5>2. Coming[i + p].by = "server"
          BY <2>4, <5>1 DEF Leads
        <5> QED
          BY <3>8, <5>2 DEF Thinned, Unit
      <4>3. Leads(Coming', 0) /\ 0 \in 0 .. Len(Coming')
        BY <4>1, <4>2 DEF Leads
      <4> QED
        BY <2>1, <2>3, <3>5, <3>6, <4>3, AfterConnecting DEF InStep
    <3> QED
      BY <3>6, <3>7, <3>8
  <2> QED
    BY <2>7, <2>8
<1>7. CASE Poll
  <2>1. BuffersOK' /\ Coming' = Coming /\ UNCHANGED <<conn, asked, tunnel>>
    BY <1>7, ComingPoll DEF Poll
  <2> QED
    BY <2>1 DEF InStep, Answered, Header
<1>8. CASE GiveUp
  BY <1>8, SameComing DEF GiveUp, Fails, InStep
<1> QED
  BY <1>1, <1>2, <1>3, <1>4, <1>5, <1>6, <1>7, <1>8 DEF Opening, Connecting

\* A proxy speaks when it was asked and nothing is to come; it stays in step.
LEMMA ProxyInStep ==
  ASSUME BuffersOK, InStep, setup \in Setups, Through
  PROVE  /\ InStep' /\ BuffersOK' /\ Relayed /\ asked # "none"
         /\ conn \in {"http", "method", "auth", "request"} => Coming = <<>>
<1>0. setup.atyp \in {1, 3, 4} /\ setup' = setup /\ conn' = conn
  BY Setup DEF SetupType, ConnectType, Through, Proxy, ProxyHttp, ProxyMethod, ProxyAuth,
     ProxyReply, ProxySays
<1>1. PICK s \in Seq(Nat \cup Word), t \in BOOLEAN :
        /\ ProxySays(s, t)
        /\ \/ /\ asked = "http"
              /\ \/ t = TRUE /\ s \in {<<"200", "empty">>, <<"200", "header", "empty">>}
                 \/ s = <<"407", "empty">>
           \/ asked \in {"method", "auth"} /\ t = FALSE /\ Len(s) = 2
           \/ asked = "request" /\ ((t = TRUE /\ s = Granted) \/ s = Refused)
  <2>1. CASE ProxyHttp
    <3>1. CASE \E s \in {<<"200", "empty">>, <<"200", "header", "empty">>} : ProxySays(s, TRUE)
      BY <2>1, <3>1, ProxyWords DEF ProxyHttp
    <3>2. CASE ProxySays(<<"407", "empty">>, FALSE)
      BY <2>1, <3>2, ProxyWords DEF ProxyHttp
    <3> QED
      BY <2>1, <3>1, <3>2 DEF ProxyHttp
  <2>2. CASE ProxyMethod
    <3>1. PICK v \in Nat : asked = "method" /\ ProxySays(<<5, v>>, FALSE)
      BY <2>2 DEF ProxyMethod
    <3> QED
      BY <3>1, ProxyWords
  <2>3. CASE ProxyAuth
    <3>1. PICK a \in Nat, b \in Nat : asked = "auth" /\ ProxySays(<<a, b>>, FALSE)
      BY <2>3 DEF ProxyAuth
    <3> QED
      BY <3>1, ProxyWords
  <2>4. CASE ProxyReply
    BY <2>4, <1>0, ProxyWords, Grants DEF ProxyReply
  <2> QED
    BY <2>1, <2>2, <2>3, <2>4 DEF Through, Proxy
<1>2. /\ BuffersOK' /\ Relayed /\ tunnel' = t /\ asked' = "none" /\ asked # "none"
      /\ Coming = <<>> =>
           /\ Len(Coming') = Len(s) /\ Len(s) \in Nat
           /\ \A i \in 1 .. Len(s) : Coming'[i] = Unit("proxy", s[i])
  BY <1>1, ProxyHeard DEF ProxySays
<1>3. CASE conn \in {"failed", "fatal"}
  BY <1>0, <1>2, <1>3 DEF InStep
<1>4. CASE conn \notin {"http", "method", "auth", "request", "failed", "fatal"}
  BY <1>0, <1>2, <1>4 DEF InStep
<1>5. CASE conn \in {"http", "method", "auth", "request"}
  <2>1. asked = conn /\ Coming = <<>>
    BY <1>2, <1>5 DEF InStep
  <2>2. /\ Len(Coming') = Len(s) /\ Len(s) \in Nat
        /\ \A i \in 1 .. Len(s) : Coming'[i].by = "proxy" /\ Coming'[i].v = s[i]
    <3>1. /\ Len(Coming') = Len(s) /\ Len(s) \in Nat
          /\ \A i \in 1 .. Len(s) : Coming'[i] = Unit("proxy", s[i])
      BY <1>2, <2>1
    <3>2. ASSUME NEW i \in 1 .. Len(s) PROVE Coming'[i].by = "proxy" /\ Coming'[i].v = s[i]
      <4>1. Coming'[i] = Unit("proxy", s[i])
        BY <3>1
      <4> QED
        BY <4>1 DEF Unit
    <3> QED
      BY <3>1, <3>2
  <2>3. Leads(Coming', Len(s))
    BY <2>2 DEF Leads
  <2>4. CASE conn = "http"
    <3>1. CASE t = TRUE /\ s = <<"200", "empty">>
      <4>1. Len(s) = 2 /\ s[1] = "200" /\ s[2] = "empty"
        BY <3>1
      <4>2. 2 \in 1 .. Len(Coming') /\ Coming'[2].v = "empty" /\ \A i \in 1 .. 2 - 1 : Coming'[i].v # "empty"
        BY <2>2, <4>1
      <4> QED
        BY <1>0, <1>2, <2>3, <2>4, <3>1, <4>1, <4>2 DEF InStep, Answered, Header
    <3>2. CASE t = TRUE /\ s = <<"200", "header", "empty">>
      <4>1. Len(s) = 3 /\ s[1] = "200" /\ s[2] = "header" /\ s[3] = "empty"
        BY <3>2
      <4>2. 3 \in 1 .. Len(Coming') /\ Coming'[3].v = "empty" /\ \A i \in 1 .. 3 - 1 : Coming'[i].v # "empty"
        BY <2>2, <4>1
      <4> QED
        BY <1>0, <1>2, <2>3, <2>4, <3>2, <4>1, <4>2 DEF InStep, Answered, Header
    <3>3. CASE s = <<"407", "empty">>
      <4>1. Len(s) = 2 /\ s[1] = "407"
        BY <3>3
      <4>2. 2 \in 1 .. Len(Coming') /\ Coming'[1].v # "200"
        BY <2>2, <4>1
      <4> QED
        BY <1>0, <1>2, <2>3, <2>4, <4>1, <4>2 DEF InStep, Answered
    <3> QED
      BY <1>1, <2>1, <2>4, <3>1, <3>2, <3>3
  <2>5. CASE conn \in {"method", "auth"}
    BY <1>0, <1>1, <1>2, <2>1, <2>2, <2>5 DEF InStep, Answered
  <2>6. CASE conn = "request"
    <3>1. /\ Len(s) >= 5 /\ s[5] \in Nat
          /\ s[2] = 0 => t = TRUE /\ (setup.atyp = 1 => Len(s) = 10 /\ s[4] = 1)
      <4>1. CASE t = TRUE /\ s = Granted
        BY <1>0, <4>1, Grants
      <4>2. CASE s = Refused
        <5>1. Len(Refused) = 10 /\ Refused[2] = 2 /\ Refused[5] = 0
          BY ProxyWords
        <5> QED
          BY <4>2, <5>1
      <4> QED
        BY <1>1, <2>1, <2>6, <4>1, <4>2
    <3>2. PICK n \in Nat : n = Len(s)
      BY <2>2
    <3>3. 5 \in 1 .. Len(s) /\ 2 \in 1 .. Len(s) /\ 4 \in 1 .. Len(s) /\ n \in 5 .. Len(Coming')
      BY <2>2, <3>1, <3>2
    <3>4. /\ Leads(Coming', n) /\ Coming'[5].v \in Nat
          /\ Coming'[2].v = 0 => t = TRUE /\ (setup.atyp = 1 => n = 10 /\ Coming'[4].v = 1)
      BY <2>2, <2>3, <3>1, <3>2, <3>3
    <3> QED
      BY <1>0, <1>2, <2>6, <3>3, <3>4 DEF InStep, Answered
  <2> QED
    BY <1>5, <2>4, <2>5, <2>6
<1> QED
  BY <1>2, <1>3, <1>4, <1>5

\* More of the server's changes nothing of that.
LEMMA HeardInStep ==
  ASSUME BuffersOK, BuffersOK', InStep, UNCHANGED <<setup, conn, asked, tunnel>>,
         tunnel \/ conn \in {"up", "failed", "fatal"}, NEW v, Heard(v)
  PROVE  InStep'
<1>1. /\ Len(Coming') > Len(Coming) /\ Len(Coming) \in Nat /\ Len(Coming') \in Nat
      /\ \A i \in 1 .. Len(Coming) : Coming'[i] = Coming[i]
  BY ComingType DEF Heard, BuffersOK, Coming
<1>2. CASE conn \in {"failed", "fatal"}
  BY <1>2 DEF InStep
<1>3. CASE conn \in {"start", "trying", "method", "auth"}
  BY <1>3 DEF InStep, Answered
<1>4. CASE conn = "http"
  <2>1. PICK p \in 1 .. Len(Coming) : Leads(Coming, p) /\
          (Coming[1].v = "200" => p > 1 /\ tunnel /\ Header(p))
    BY <1>4 DEF InStep, Answered
  <2>2. Leads(Coming', p) /\ p \in 1 .. Len(Coming') /\ Coming'[1] = Coming[1]
    BY <1>1, <2>1, LeadsHeard
  <2>3. Coming'[p] = Coming[p] /\ \A i \in 1 .. p - 1 : Coming'[i] = Coming[i]
    BY <1>1, <2>1
  <2> QED
    BY <1>4, <2>1, <2>2, <2>3 DEF InStep, Answered, Header
<1>5. CASE conn = "header"
  <2>1. PICK p \in 1 .. Len(Coming) : Leads(Coming, p) /\ Header(p)
    BY <1>5 DEF InStep
  <2>2. Leads(Coming', p) /\ p \in 1 .. Len(Coming')
    BY <1>1, <2>1, LeadsHeard
  <2>3. Coming'[p] = Coming[p] /\ \A i \in 1 .. p - 1 : Coming'[i] = Coming[i]
    BY <1>1, <2>1
  <2> QED
    BY <1>5, <2>1, <2>2, <2>3 DEF InStep, Header
<1>6. CASE conn = "request"
  <2>1. PICK p \in 5 .. Len(Coming) : Leads(Coming, p) /\ Coming[5].v \in Nat /\
         (Coming[2].v = 0 => tunnel /\ (setup.atyp = 1 => p = 10 /\ Coming[4].v = 1))
    BY <1>6 DEF InStep, Answered
  <2>2. Leads(Coming', p) /\ p \in 5 .. Len(Coming')
    BY <1>1, <2>1, LeadsHeard
  <2>3. Coming'[5] = Coming[5] /\ Coming'[2] = Coming[2] /\ Coming'[4] = Coming[4]
    BY <1>1, <2>1
  <2> QED
    BY <1>6, <2>1, <2>2, <2>3 DEF InStep, Answered
<1>7. CASE conn \in {"tls", "up"}
  <2>1. PICK p \in 0 .. Len(Coming) : Leads(Coming, p) /\ (setup.atyp = 1 => p = 0)
    BY <1>7 DEF InStep
  <2>2. Leads(Coming', p) /\ p \in 0 .. Len(Coming')
    BY <1>1, <2>1, LeadsHeard
  <2> QED
    BY <1>7, <2>1, <2>2 DEF InStep
<1> QED
  BY <1>2, <1>3, <1>4, <1>5, <1>6, <1>7 DEF InStep

\* A line that is read is the server's first, with what of the proxy is before it.
LEMMA ReadInStep ==
  ASSUME BuffersOK, InStep, conn = "up", HaveLine, ReadLine
  PROVE  /\ BuffersOK' /\ InStep' /\ UNCHANGED <<setup, conn>>
         /\ \/ Line = "junk"
            \/ 1 <= Len(Coming) /\ Coming[1].by = "server" /\ Line = Coming[1].v /\ Lost(1)
<1>1. PICK p \in 0 .. Len(Coming) : Leads(Coming, p) /\ (setup.atyp = 1 => p = 0)
  BY DEF InStep
<1>2. /\ Len(inp) \in Nat /\ Len(inp) <= Len(Coming) /\ Len(Coming) \in Nat
      /\ \A i \in 1 .. Len(inp) : inp[i] = Coming[i]
  BY ComingType
<1>3. Cardinality(FromProxy) = Min2(p, Len(inp))
  BY <1>1, ProxyFirst
<1>4. First = p + 1 /\ p + 1 <= Len(inp)
  BY <1>1, <1>2, <1>3 DEF First, HaveLine, Min2
<1>5. BuffersOK' /\ Lost(p + 1)
  <2>1. PICK n \in 0 .. Len(inp) : n = First
    BY <1>1, <1>2, <1>4
  <2>2. Skip(n) /\ wire' = wire
    BY <2>1 DEF ReadLine
  <2> QED
    BY <1>4, <2>1, <2>2, ComingSkip
<1>6. Leads(Coming', 0)
  <2>1. PICK n \in Nat : n = p + 1 /\ ~(n <= p)
    BY <1>1
  <2> QED
    BY <1>1, <1>5, <2>1, LeadsLost
<1>7. InStep' /\ UNCHANGED <<setup, conn>>
  <2>1. 0 \in 0 .. Len(Coming')
    BY <1>6 DEF Leads
  <2> QED
    BY <1>6, <2>1 DEF InStep, ReadLine
<1>8. CASE p = 0
  <2>1. 1 \in 1 .. Len(inp) /\ 1 \in 1 .. Len(Coming)
    BY <1>2, <1>4, <1>8
  <2> QED
    BY <1>1, <1>2, <1>4, <1>5, <1>7, <1>8, <2>1 DEF Leads, Line
<1>9. CASE p # 0
  BY <1>1, <1>4, <1>5, <1>7, <1>9 DEF Line
<1> QED
  BY <1>8, <1>9

\* How far the proxy is does not change by itself.
LEMMA SameInStep ==
  ASSUME BuffersOK', InStep, UNCHANGED <<setup, conn, asked, tunnel>>, Coming' = Coming
  PROVE  InStep'
BY DEF InStep, Answered, Header

\* A set of numbers has a smallest one (they are well-founded),
LEMMA Smallest ==
  ASSUME NEW S \in SUBSET Nat, S # {}
  PROVE  \E n \in S : \A m \in S : n <= m
<1>1. PICK n \in S : \A m \in S : <<m, n>> \notin OpToRel(<, Nat)
  BY NatLessThanWellFounded, WFMin
<1>2. ASSUME NEW m \in S PROVE n <= m
  <2>1. m \in Nat /\ n \in Nat
    OBVIOUS
  <2>2. m < n => <<m, n>> \in OpToRel(<, Nat)
    BY <2>1, Zenon DEF OpToRel
  <2>3. ~(m < n)
    BY <1>1, <2>2, Zenon
  <2> QED
    BY <2>1, <2>3
<1> QED
  BY <1>2

\* and so a set with 0 and all successors has all numbers.
LEMMA Induction ==
  ASSUME NEW S, 0 \in S, \A n \in Nat : n \in S => n + 1 \in S
  PROVE  Nat \subseteq S
<1> SUFFICES ASSUME Nat \ S # {} PROVE FALSE
  OBVIOUS
<1>1. PICK n \in Nat \ S : \A m \in Nat \ S : n <= m
  BY Smallest
<1>2. n # 0 /\ n \in Nat
  BY <1>1
<1>3. n - 1 \in Nat /\ ~(n <= n - 1) /\ (n - 1) + 1 = n
  BY <1>2
<1>4. n - 1 \in S
  BY <1>1, <1>3, Zenon
<1> QED
  BY <1>1, <1>3, <1>4, Zenon

-----------------------------------------------------------------------------
\* f is what FlattenSeq computes of the first n of the sequences of s.
Flattens(f, s, n) == f = [i \in 1 .. n |-> IF i = 1 THEN s[i] ELSE f[i - 1] \o s[i]]

\* By that induction a sequence of sequences has a function that flattens it,
LEMMA FlattenExists ==
  ASSUME NEW T, NEW s \in Seq(Seq(T)), NEW n \in 0 .. Len(s)
  PROVE  \E f \in [1 .. n -> Seq(T)] : Flattens(f, s, n)
<1> DEFINE S == {k \in Nat : k <= Len(s) => \E f \in [1 .. k -> Seq(T)] : Flattens(f, s, k)}
<1>0. Len(s) \in Nat /\ \A i \in 1 .. Len(s) : s[i] \in Seq(T)
  OBVIOUS
<1>1. 0 \in S
  <2> DEFINE f == [i \in 1 .. 0 |-> <<>>]
  <2>1. f \in [1 .. 0 -> Seq(T)] /\ Flattens(f, s, 0)
    BY DEF Flattens
  <2> QED
    BY <2>1
<1>2. ASSUME NEW k \in Nat, k \in S PROVE k + 1 \in S
  <2> SUFFICES ASSUME k + 1 <= Len(s)
               PROVE  \E f \in [1 .. k + 1 -> Seq(T)] : Flattens(f, s, k + 1)
    BY <1>2
  <2>1. PICK f \in [1 .. k -> Seq(T)] : Flattens(f, s, k)
    BY <1>2, <1>0
  <2> DEFINE g == [i \in 1 .. k + 1 |->
                    IF i = k + 1 THEN IF i = 1 THEN s[i] ELSE f[k] \o s[i] ELSE f[i]]
  <2>2. g \in [1 .. k + 1 -> Seq(T)]
    BY <1>0
  <2>3. ASSUME NEW i \in 1 .. k + 1
        PROVE  g[i] = IF i = 1 THEN s[i] ELSE g[i - 1] \o s[i]
    <3>1. CASE i = k + 1
      BY <3>1
    <3>2. CASE i # k + 1
      <4>1. i \in 1 .. k
        BY <3>2
      <4>2. f[i] = IF i = 1 THEN s[i] ELSE f[i - 1] \o s[i]
        BY <4>1, <2>1 DEF Flattens
      <4>3. g[i] = f[i] /\ (i # 1 => g[i - 1] = f[i - 1])
        <5>1. i # k + 1 /\ i \in 1 .. k + 1 /\ (i # 1 => i - 1 \in 1 .. k + 1 /\ i - 1 # k + 1)
          BY <4>1
        <5> QED
          BY <5>1
      <4> QED
        BY <4>2, <4>3
    <3> QED
      BY <3>1, <3>2
  <2>4. Flattens(g, s, k + 1)
    <3> HIDE DEF g
    <3> QED
      BY <2>2, <2>3 DEF Flattens
  <2> QED
    BY <2>2, <2>4
<1>3. Nat \subseteq S
  <2> HIDE DEF S
  <2> QED BY <1>1, <1>2, Induction
<1> QED
  BY <1>3

\* of which the values are the only ones, also of longer sequences:
LEMMA FlattenUnique ==
  ASSUME NEW f, NEW g, NEW s, NEW t, NEW n \in Nat, NEW m \in Nat, n <= m,
         \A i \in 1 .. n : s[i] = t[i], Flattens(f, s, n), Flattens(g, t, m)
  PROVE  \A i \in 1 .. n : f[i] = g[i]
<1> DEFINE S == {k \in Nat : k \in 1 .. n => f[k] = g[k]}
<1>1. 0 \in S
  OBVIOUS
<1>2. ASSUME NEW k \in Nat, k \in S PROVE k + 1 \in S
  <2> SUFFICES ASSUME k + 1 \in 1 .. n PROVE f[k + 1] = g[k + 1]
    OBVIOUS
  <2>1. f[k + 1] = IF k + 1 = 1 THEN s[k + 1] ELSE f[(k + 1) - 1] \o s[k + 1]
    BY DEF Flattens
  <2>2. k + 1 \in 1 .. m
    OBVIOUS
  <2>3. g[k + 1] = IF k + 1 = 1 THEN t[k + 1] ELSE g[(k + 1) - 1] \o t[k + 1]
    BY <2>2 DEF Flattens
  <2>4. (k + 1) - 1 = k /\ s[k + 1] = t[k + 1] /\ (k + 1 # 1 => f[k] = g[k])
    BY <1>2
  <2> QED
    BY <2>1, <2>3, <2>4
<1>3. Nat \subseteq S
  <2> HIDE DEF S
  <2> QED BY <1>1, <1>2, Induction
<1> QED
  BY <1>3

\* The definition of FlattenSeq.
LEMMA FlattenDef ==
  ASSUME NEW T, NEW s \in Seq(Seq(T)), s # <<>>
  PROVE  \E f \in [1 .. Len(s) -> Seq(T)] : Flattens(f, s, Len(s)) /\ FlattenSeq(s) = f[Len(s)]
<1> DEFINE c == CHOOSE f : Flattens(f, s, Len(s))
<1>1. FlattenSeq(s) = c[Len(s)]
  BY DEF FlattenSeq, Flattens
<1>2. PICK f \in [1 .. Len(s) -> Seq(T)] : Flattens(f, s, Len(s))
  <2>1. Len(s) \in 0 .. Len(s)
    BY LenProperties
  <2> QED
    BY <2>1, FlattenExists
<1>3. Flattens(c, s, Len(s))
  BY <1>2
<1>4. \A i \in 1 .. Len(s) : c[i] = f[i]
  <2> HIDE DEF c
  <2> QED BY <1>2, <1>3, FlattenUnique, LenProperties
<1> QED
  BY <1>1, <1>2, <1>4, LenProperties, EmptySeq

\* so that FlattenSeq gives what it should, of none,
LEMMA FlattenEmpty == FlattenSeq(<<>>) = <<>>
BY DEF FlattenSeq

\* of any,
LEMMA FlattenType ==
  ASSUME NEW T, NEW s \in Seq(Seq(T))
  PROVE  FlattenSeq(s) \in Seq(T)
<1>1. CASE s = <<>>
  <2>1. <<>> \in Seq(T)
    BY EmptySeq
  <2> QED
    BY <1>1, <2>1, FlattenEmpty
<1>2. CASE s # <<>>
  <2>1. Len(s) \in 1 .. Len(s)
    BY <1>2, LenProperties, EmptySeq
  <2>2. PICK f \in [1 .. Len(s) -> Seq(T)] : FlattenSeq(s) = f[Len(s)]
    BY <1>2, FlattenDef
  <2> QED
    BY <2>1, <2>2
<1> QED
  BY <1>1, <1>2

\* and of one more.
LEMMA FlattenAppend ==
  ASSUME NEW T, NEW s \in Seq(Seq(T)), NEW x \in Seq(T)
  PROVE  FlattenSeq(Append(s, x)) = FlattenSeq(s) \o x
<1>0. PICK t : t = Append(s, x)
  OBVIOUS
<1>1. /\ t \in Seq(Seq(T)) /\ Len(t) = Len(s) + 1 /\ t # <<>> /\ Len(s) \in Nat
      /\ t[Len(s) + 1] = x /\ \A i \in 1 .. Len(s) : t[i] = s[i]
  BY <1>0, AppendProperties, LenProperties, EmptySeq
<1>2. PICK g \in [1 .. Len(t) -> Seq(T)] : Flattens(g, t, Len(t)) /\ FlattenSeq(t) = g[Len(t)]
  BY <1>1, FlattenDef
<1>3. g[Len(t)] = IF Len(t) = 1 THEN t[Len(t)] ELSE g[Len(t) - 1] \o t[Len(t)]
  <2>1. Len(t) \in 1 .. Len(t)
    BY <1>1
  <2> QED
    BY <2>1, <1>2 DEF Flattens
<1>4. CASE s = <<>>
  <2>1. FlattenSeq(t) = x
    BY <1>1, <1>2, <1>3, <1>4
  <2> QED
    BY <1>0, <2>1, <1>4, FlattenEmpty, ConcatEmptySeq
<1>5. CASE s # <<>>
  <2>1. PICK f \in [1 .. Len(s) -> Seq(T)] : Flattens(f, s, Len(s)) /\ FlattenSeq(s) = f[Len(s)]
    BY <1>5, FlattenDef
  <2>2. Len(s) \in 1 .. Len(s) /\ Len(t) \in Nat /\ Len(s) <= Len(t)
    BY <1>1, <1>5, EmptySeq, LenProperties
  <2>3. \A i \in 1 .. Len(s) : f[i] = g[i]
    <3>1. PICK n \in Nat, m \in Nat : n = Len(s) /\ m = Len(t)
      BY <2>2
    <3>2. n <= m /\ (\A i \in 1 .. n : s[i] = t[i]) /\ Flattens(f, s, n) /\ Flattens(g, t, m)
      BY <1>1, <1>2, <2>1, <2>2, <3>1
    <3>3. PICK h, k : h = f /\ k = g
      OBVIOUS
    <3>4. \A i \in 1 .. n : h[i] = k[i]
      <4>1. n <= m /\ (\A i \in 1 .. n : s[i] = t[i]) /\ Flattens(h, s, n) /\ Flattens(k, t, m)
        BY <3>2, <3>3
      <4> QED
        BY <4>1, FlattenUnique, SMTT(60)
    <3> QED
      BY <3>1, <3>3, <3>4
  <2>4. f[Len(s)] = g[Len(s)] /\ Len(t) # 1 /\ Len(t) - 1 = Len(s) /\ t[Len(t)] = x
    BY <1>1, <2>2, <2>3
  <2> QED
    BY <1>0, <1>2, <1>3, <2>1, <2>4
<1> QED
  BY <1>4, <1>5

-----------------------------------------------------------------------------
(* The lines of a mail.                                                    *)

\* What a server over SMTP makes of a line.
Unstuffed(line) == IF line # <<>> /\ line[1] = "." THEN Tail(line) ELSE line

\* No line that is written is a dot by itself, and the server undoes the stuffing.
LEMMA OneLine ==
  ASSUME NEW l \in MailLines
  PROVE  /\ Body(l) \in Seq(Char) /\ Body(l) \in Seq(Symbol)
         /\ Len(Body(l)) = Len(l) - 1 /\ Len(l) \in Nat /\ Len(l) > 0
         /\ Stuffed(l) \in Seq(Symbol) /\ Stuffed(l) # Dot /\ Unstuffed(Stuffed(l)) = Body(l)
<1>1. l \in Seq(Char) /\ Len(l) \in Nat /\ Len(l) > 0
  BY EmptySeq, LenProperties DEF MailLines
<1>2. PICK b : b = Body(l)
  OBVIOUS
<1>3. /\ b \in Seq(Char) /\ Len(b) = Len(l) - 1
      /\ Len(l) > 1 => b[1] = l[1] /\ b # <<>>
      /\ ~(Len(l) > 1) => b = <<>>
  <2>1. CASE Len(l) > 1
    <3>1. b = SubSeq(l, 1, Len(l) - 1)
      BY <1>2, <2>1 DEF Body
    <3>2. 1 \in 1 .. Len(l) + 1 /\ Len(l) - 1 \in 0 .. Len(l)
      BY <1>1, <2>1
    <3>3. b \in Seq(Char) /\ Len(b) = Len(l) - 1 /\ b[1] = l[1]
      BY <1>1, <2>1, <3>1, <3>2, SubSeqProperties
    <3> QED
      BY <1>1, <2>1, <3>3
  <2>2. CASE ~(Len(l) > 1)
    BY <1>1, <1>2, <2>2 DEF Body
  <2> QED
    BY <2>1, <2>2
<1>4. b \in Seq(Symbol)
  BY <1>3, SeqMonotonic DEF Symbol
<1>5. Dot \in Seq(Symbol) /\ Len(Dot) = 1 /\ Dot[1] = "."
  BY DEF Dot, Symbol
<1>6. CASE Len(l) > 1 /\ l[1] = "."
  <2>1. Stuffed(l) = Dot \o b
    BY <1>2, <1>6 DEF Stuffed, Dot
  <2>2. PICK s : s = Stuffed(l)
    OBVIOUS
  <2>5. s = Dot \o b
    BY <2>1, <2>2
  <2>6. /\ s \in Seq(Symbol) /\ Len(s) = Len(Dot) + Len(b) /\ Len(b) \in Nat
        /\ \A i \in 1 .. Len(Dot) : s[i] = Dot[i]
        /\ Len(Dot) = 1 => \A i \in 1 .. Len(b) : s[i + 1] = b[i]
    BY <1>4, <1>5, <2>5, Joined
  <2>7. 1 \in 1 .. Len(Dot) /\ Len(b) > 0
    BY <1>1, <1>3, <1>5, <1>6
  <2>3. s \in Seq(Symbol) /\ Len(s) = 1 + Len(b) /\ s[1] = "." /\ s # <<>> /\ s # Dot
    <3>1. PICK n : n = Len(b)
      OBVIOUS
    <3>2. Len(s) = 1 + n /\ n \in Nat /\ n > 0
      BY <1>5, <2>6, <2>7, <3>1
    <3>3. s[1] = "."
      BY <1>5, <2>6, <2>7
    <3>4. Len(s) # 1 /\ Len(s) # 0
      BY <3>2
    <3>5. s # Dot /\ s # <<>>
      BY <1>5, <3>4, EmptySeq
    <3> QED
      BY <2>6, <3>1, <3>2, <3>3, <3>5
  <2>4. Tail(s) = b
    <3>1. Tail(s) \in Seq(Symbol) /\ Len(Tail(s)) = Len(b)
      BY <2>3, <2>6, HeadTailProperties, LenProperties
    <3>2. ASSUME NEW i \in 1 .. Len(b) PROVE Tail(s)[i] = b[i]
      <4>1. Tail(s)[i] = s[i + 1]
        BY <2>3, <2>6, <3>1, HeadTailProperties
      <4> QED
        BY <1>5, <2>6, <4>1
    <3> QED
      BY <1>4, <3>1, <3>2, SeqEqual
  <2> QED
    BY <1>1, <1>2, <1>3, <1>4, <1>5, <2>2, <2>3, <2>4 DEF Unstuffed
<1>7. CASE ~(Len(l) > 1 /\ l[1] = ".")
  <2>1. Stuffed(l) = b
    BY <1>2, <1>7 DEF Stuffed
  <2>2. b # <<>> => b[1] # "."
    BY <1>3, <1>7
  <2>3. b # Dot
    BY <1>5, <2>2
  <2> QED
    BY <1>1, <1>2, <1>3, <1>4, <2>1, <2>2, <2>3 DEF Unstuffed
<1> QED
  BY <1>6, <1>7

\* A mail of a setup is lines, at least one, and has a size.
LEMMA MailType ==
  ASSUME setup \in Setups
  PROVE  /\ mail \in Seq(MailLines) /\ mail \in Seq(Seq(Char)) /\ Len(mail) \in Nat /\ Len(mail) > 0
         /\ \A i \in 1 .. Len(mail) : mail[i] \in MailLines
         /\ MailLen \in Nat /\ setup.kind \in {"smtp", "imap"}
<1>1. /\ mail \in Seq(MailLines) /\ mail # <<>> /\ setup.kind \in {"smtp", "imap"}
  BY Setup DEF SetupType, mail
<1>2. mail \in Seq(Seq(Char))
  BY <1>1, SeqMonotonic DEF MailLines
<1>3. FlattenSeq(mail) \in Seq(Char)
  BY <1>2, FlattenType
<1>4. Len(mail) \in Nat /\ Len(mail) > 0 /\ Len(FlattenSeq(mail)) \in Nat
  BY <1>1, <1>3, EmptySeq, LenProperties
<1>5. MailLen \in Nat
  BY <1>4 DEF MailLen
<1> QED
  BY <1>1, <1>2, <1>4, <1>5, ElementOfSeq

-----------------------------------------------------------------------------
(* What is written.                                                        *)

\* Everything that is written is of the type of what is written.
LEMMA Writes ==
  /\ \A c \in Commands, n \in Nat : Command(c, n) \in WrittenType
  /\ \A t \in Seq(Symbol) : TextLine(t) \in WrittenType
  /\ Quit \in WrittenType /\ <<CR, LF>> \in Seq(Symbol) /\ Dot \in Seq(Symbol)
<1>1. \A c \in Commands, n \in Nat : Command(c, n) \in WrittenType
  <2> SUFFICES ASSUME NEW c \in Commands, NEW n \in Nat PROVE Command(c, n) \in WrittenType
    OBVIOUS
  <2>1. <<c>> \in Seq(Symbol)
    <3>1. c \in Symbol
      BY DEF Symbol
    <3> QED
      BY <3>1, Words
  <2> QED
    BY <2>1 DEF Command, WrittenType
<1>2. \A t \in Seq(Symbol) : TextLine(t) \in WrittenType
  BY DEF TextLine, WrittenType
<1>3. Quit \in WrittenType
  <2>1. "QUIT" \in Commands /\ 0 \in Nat
    BY DEF Commands
  <2> QED
    BY <1>1, <2>1 DEF Quit
<1>4. <<CR, LF>> \in Seq(Symbol) /\ Dot \in Seq(Symbol)
  <2>1. CR \in Symbol /\ LF \in Symbol /\ "." \in Symbol
    BY DEF Symbol
  <2> QED
    BY <2>1, Words DEF Dot
<1> QED
  BY <1>1, <1>2, <1>3, <1>4

\* Writing appends to what the server has not read, reading takes the first.
LEMMA Written ==
  ASSUME out \in Seq(WrittenType)
  PROVE  /\ Len(out) \in Nat /\ \A i \in 1 .. Len(out) : out[i] \in WrittenType
         /\ \A w \in WrittenType :
              /\ Append(out, w) \in Seq(WrittenType) /\ Len(Append(out, w)) = Len(out) + 1
              /\ \A i \in 1 .. Len(out) : Append(out, w)[i] = out[i]
              /\ Append(out, w)[Len(out) + 1] = w
         /\ out # <<>> =>
              /\ Len(out) > 0 /\ Tail(out) \in Seq(WrittenType) /\ Len(Tail(out)) = Len(out) - 1
              /\ \A i \in 1 .. Len(out) - 1 : Tail(out)[i] = out[i + 1]
         /\ out = <<>> <=> Len(out) = 0
<1>1. Len(out) \in Nat /\ (out = <<>> <=> Len(out) = 0) /\ \A i \in 1 .. Len(out) : out[i] \in WrittenType
  BY LenProperties, EmptySeq, ElementOfSeq
<1>2. ASSUME NEW w \in WrittenType
      PROVE  /\ Append(out, w) \in Seq(WrittenType) /\ Len(Append(out, w)) = Len(out) + 1
             /\ \A i \in 1 .. Len(out) : Append(out, w)[i] = out[i]
             /\ Append(out, w)[Len(out) + 1] = w
  BY AppendProperties
<1>3. ASSUME out # <<>>
      PROVE  /\ Tail(out) \in Seq(WrittenType) /\ Len(Tail(out)) = Len(out) - 1
             /\ \A i \in 1 .. Len(out) - 1 : Tail(out)[i] = out[i + 1]
  BY <1>3, HeadTailProperties
<1> QED
  BY <1>1, <1>2, <1>3

\* An error writes a QUIT after what it was about to write.
LEMMA Aborted ==
  ASSUME out \in Seq(WrittenType), NEW w, w = <<>> \/ \E x \in WrittenType : w = <<x>>, AbortAfter(w)
  PROVE  /\ st' = "end" /\ result' = "failure" /\ out' \in Seq(WrittenType)
         /\ \E o \in Seq(WrittenType) :
              /\ o = out \/ \E x \in WrittenType : w = <<x>> /\ o = Append(out, x)
              /\ out' = Append(o, Quit)
<1>1. st' = "end" /\ result' = "failure" /\ out' = out \o w \o <<Quit>>
  BY DEF AbortAfter, Ends
<1>2. PICK o \in Seq(WrittenType) :
        o = out \o w /\ (o = out \/ \E x \in WrittenType : w = <<x>> /\ o = Append(out, x))
  <2>1. CASE w = <<>>
    BY <2>1, ConcatEmptySeq
  <2>2. CASE \E x \in WrittenType : w = <<x>>
    <3>1. PICK x \in WrittenType : w = <<x>>
      BY <2>2
    <3>2. Append(out, x) = out \o w /\ Append(out, x) \in Seq(WrittenType)
      BY <3>1, AppendIsConcat, AppendProperties
    <3> QED
      BY <3>1, <3>2
  <2> QED
    BY <2>1, <2>2
<1>3. out' = Append(o, Quit) /\ out' \in Seq(WrittenType)
  BY <1>1, <1>2, Writes, AppendIsConcat, AppendProperties
<1> QED
  BY <1>1, <1>2, <1>3

-----------------------------------------------------------------------------
(* The steps, as the proofs take them.                                     *)

\* Of the server's: with what it reads, and whether it answers.
ServerStep ==
  /\ out # <<>> /\ out' = Tail(out) /\ setup' = setup
  /\ UNCHANGED <<conn, untried, asked, tunnel, inp, clientVars>>

\* A server that reads a command and answers it, and does no more.
LEMMA Answering ==
  ASSUME BuffersOK, setup.kind \in {"smtp", "imap"}, NEW is, NEW V \in SUBSET Word,
         ServerReads(is), AnyOf(V)
  PROVE  ServerStep /\ out[1].is \in is /\ BuffersOK' /\ \E v \in V : Heard(v)
BY Heeded DEF ServerReads, ServerStep, clientVars

NetIndex == NetTypeOK /\ BuffersOK /\ InStep /\ Before

States == {"connect", "lines", "end", "connecting", "helo", "from", "to", "data", "done", "quit",
           "append", "folder", "appended", "login", "create", "created", "logout"}

\* The states by their names.
LEMMA StateNames ==
  /\ {"connect", "lines", "end"} \cup DOMAIN Expected \cup WaitsAppend \cup WaitsLn = States
  /\ DOMAIN Expected = {"connecting", "helo", "from", "to", "data", "done", "quit"}
  /\ DOMAIN NextCommand = {"connecting", "helo", "from", "to", "done"}
BY DEF Expected, NextCommand, WaitsAppend, WaitsLn, States

\* A setup is for one of the two kinds.
LEMMA KindOf == NetTypeOK => setup \in Setups /\ setup.kind \in {"smtp", "imap"}
BY MailType DEF NetTypeOK

-----------------------------------------------------------------------------
(* Types, and where the connection is.                                     *)

\* Opening the connection keeps types and steps,
LEMMA OpeningStep == NetIndex /\ Opening => NetIndex'
<1> SUFFICES ASSUME NetIndex, Opening PROVE NetIndex'
  OBVIOUS
<1>1. InStep' /\ BuffersOK'
  BY OpeningInStep DEF NetIndex, NetTypeOK
<1>2. /\ conn' \in {"start", "trying", "http", "header", "method", "auth", "request",
                    "tls", "up", "failed", "fatal"}
      /\ untried' \in Nat /\ tunnel' \in BOOLEAN
      /\ asked' \in {"none", "http", "method", "auth", "request"}
      /\ conn' \in {"start", "trying"} => untried' # 0
  <2>1. setup.proxy \in {"none", "http", "https", "socks5"}
    BY Setup DEF SetupType, ConnectType, NetIndex, NetTypeOK
  <2>2. AfterTcp \in {"tls", "up", "http", "failed", "method", "fatal"} /\ AfterProxy \in {"tls", "up"}
    BY <2>1, AfterConnecting
  <2>3. CASE Lookup \/ MakeTls \/ HttpLine \/ SocksMethod \/ SocksAuth \/ SocksReply \/ Poll \/ GiveUp
    <3>1. UNCHANGED untried /\ tunnel' = tunnel
      BY <2>3 DEF Lookup, MakeTls, HttpLine, SocksMethod, SocksAuth, SocksReply, Poll, GiveUp
    <3>2. asked' \in {"none", "http", "method", "auth", "request"}
      BY <2>3 DEF Lookup, MakeTls, HttpLine, SocksMethod, SocksAuth, SocksReply, Poll, GiveUp,
         NetIndex, NetTypeOK
    <3>3. conn' = conn \/ conn' \in {"failed", "up", "tls", "header", "auth", "request"}
          \/ (Lookup /\ conn' = "trying")
      BY <2>2, <2>3 DEF Lookup, MakeTls, HttpLine, SocksMethod, SocksAuth, SocksReply, Poll, GiveUp, Fails
    <3> QED
      BY <3>1, <3>2, <3>3 DEF NetIndex, NetTypeOK, Before, Lookup
  <2>4. CASE TryAddress
    <3>1. untried \in Nat /\ untried # 0 /\ tunnel \in BOOLEAN /\ conn = "trying"
          /\ asked \in {"none", "http", "method", "auth", "request"}
      BY <2>4 DEF TryAddress, NetIndex, NetTypeOK, Before
    <3>2. CASE /\ conn' = AfterTcp /\ UNCHANGED untried /\ tunnel' = (setup.proxy = "none")
               /\ asked' = IF AfterTcp \in {"http", "method"} THEN AfterTcp ELSE "none"
      BY <2>2, <3>1, <3>2
    <3>3. CASE /\ untried' = untried - 1 /\ conn' = (IF untried = 1 THEN "failed" ELSE "trying")
               /\ UNCHANGED <<asked, tunnel>>
      BY <3>1, <3>3
    <3> QED
      BY <2>4, <3>2, <3>3 DEF TryAddress
  <2> QED
    BY <2>3, <2>4 DEF Opening, Connecting
<1>3. NetTypeOK'
  BY <1>2 DEF Opening, NetIndex, NetTypeOK, clientVars, serverVars, mail
<1>4. Before'
  BY <1>2 DEF Opening, NetIndex, Before, clientVars, serverVars
<1> QED
  BY <1>1, <1>3, <1>4 DEF NetIndex

\* as do the proxy's answers,
LEMMA ThroughStep == NetIndex /\ Through => NetIndex'
<1> SUFFICES ASSUME NetIndex, Through PROVE NetIndex'
  OBVIOUS
<1>1. InStep' /\ BuffersOK'
  BY ProxyInStep DEF NetIndex, NetTypeOK
<1>2. tunnel' \in BOOLEAN /\ asked' = "none" /\ UNCHANGED <<conn, untried>>
  BY DEF Through, Proxy, ProxyHttp, ProxyMethod, ProxyAuth, ProxyReply, ProxySays
<1>3. NetTypeOK' /\ Before'
  BY <1>2 DEF Through, NetIndex, NetTypeOK, Before, clientVars, serverVars, mail
<1> QED
  BY <1>1, <1>3 DEF NetIndex

\* A client step that leaves the connection as it is or reads or polls a line.
LEMMA ClientConn ==
  ASSUME NetIndex, conn = "up",
         \/ HaveLine /\ ReadLine
         \/ inp' = inp \o wire /\ wire' = <<>> /\ UNCHANGED <<setup, conn, untried, asked, tunnel>>
         \/ UNCHANGED <<setup, connVars>>
  PROVE  BuffersOK' /\ InStep' /\ UNCHANGED <<setup, conn, untried, asked, tunnel>>
<1>1. CASE HaveLine /\ ReadLine
  BY <1>1, ReadInStep DEF NetIndex, ReadLine
<1>2. CASE inp' = inp \o wire /\ wire' = <<>> /\ UNCHANGED <<setup, conn, untried, asked, tunnel>>
  BY <1>2, ComingPoll, SameInStep DEF NetIndex
<1>3. CASE UNCHANGED <<setup, connVars>>
  BY <1>3, SameComing, SameInStep DEF NetIndex, connVars
<1> QED
  BY <1>1, <1>2, <1>3

\* What the client may write, and to which state it then goes.
LEMMA ClientType ==
  ASSUME NetIndex, st' \in States, sent' \in 0 .. Len(mail), polled' \in BOOLEAN,
         result' \in {"none", "success", "failure", "crash"}, result' = "none" <=> st' # "end",
         out' \in Seq(WrittenType), UNCHANGED <<setup, conn, untried, asked, tunnel, serverVars>>
  PROVE  NetTypeOK'
BY StateNames DEF NetIndex, NetTypeOK, serverVars, mail, WaitsAppend, WaitsLn, Expected

\* the end of connectproxy,
LEMMA ConnectedStep == NetIndex /\ Connected => NetIndex'
<1> SUFFICES ASSUME NetIndex, Connected PROVE NetIndex'
  OBVIOUS
<1>1. BuffersOK' /\ InStep'
  BY SameComing, SameInStep DEF Connected, connVars, NetIndex
<1>2. out \in Seq(WrittenType) /\ Append(out, Quit) \in Seq(WrittenType) /\ result = "none"
  BY Written, Writes DEF NetIndex, NetTypeOK, Connected
<1>3. /\ out' \in Seq(WrittenType)
      /\ \/ st' = "end" /\ result' \in {"failure", "crash"} /\ conn \in {"up", "failed", "fatal"}
         \/ st' \in {"connecting", "login"} /\ result' = result /\ conn = "up"
  BY <1>2 DEF Connected, Ends, OneOf
<1>4. NetTypeOK'
  <2>1. sent' = sent /\ polled' = polled /\ UNCHANGED <<setup, connVars, serverVars>>
    BY DEF Connected
  <2> QED
    BY <1>2, <1>3, <2>1, ClientType DEF States, NetIndex, NetTypeOK, connVars
<1>5. Before'
  BY <1>3 DEF Before, Connected, connVars
<1> QED
  BY <1>1, <1>4, <1>5 DEF NetIndex

\* the client over SMTP,
LEMMA SmtpStep == NetIndex /\ (SmtpReply \/ SmtpPoll) => NetIndex'
<1> SUFFICES ASSUME NetIndex, SmtpReply \/ SmtpPoll PROVE NetIndex'
  OBVIOUS
<1>1. st \in {"connecting", "helo", "from", "to", "data", "done", "quit"} /\ conn = "up"
  BY StateNames DEF SmtpReply, SmtpPoll, NetIndex, Before
<1>2. BuffersOK' /\ InStep' /\ UNCHANGED <<setup, conn, untried, asked, tunnel>>
  BY <1>1, ClientConn DEF SmtpReply, SmtpPoll
<1>3. out \in Seq(WrittenType) /\ result = "none"
  BY <1>1 DEF NetIndex, NetTypeOK
<1>4. /\ out' \in Seq(WrittenType) /\ st' \in States \ {"connect"}
      /\ result' \in {"none", "success", "failure"} /\ (result' = "none" <=> st' # "end")
  <2>1. CASE Abort
    BY <1>3, <2>1, Aborted DEF Abort, States
  <2>2. CASE UNCHANGED <<st, result, out>>
    BY <1>1, <1>3, <2>2 DEF States
  <2>3. CASE Ends("success") /\ UNCHANGED out
    BY <1>3, <2>3 DEF Ends, States
  <2>4. CASE /\ st # "quit" /\ st' = Follows[st] /\ result' = result
             /\ out' = IF st \in DOMAIN NextCommand THEN Append(out, Command(NextCommand[st], 0)) ELSE out
    <3>1. st' \in {"helo", "from", "to", "data", "lines", "quit"}
      BY <1>1, <2>4 DEF Follows
    <3>2. st \in DOMAIN NextCommand => NextCommand[st] \in Commands
      BY <1>1 DEF NextCommand, Commands
    <3>3. out' \in Seq(WrittenType)
      BY <1>3, <2>4, <3>2, Writes, Written
    <3> QED
      BY <1>3, <2>4, <3>1, <3>3 DEF States
  <2> QED
    BY <2>1, <2>2, <2>3, <2>4 DEF SmtpReply, SmtpPoll
<1>5. NetTypeOK'
  <2>1. sent' = sent /\ polled' = polled /\ UNCHANGED serverVars
    BY DEF SmtpReply, SmtpPoll
  <2> QED
    BY <1>2, <1>4, <2>1, ClientType DEF NetIndex, NetTypeOK
<1>6. Before'
  BY <1>1, <1>2, <1>4 DEF Before, NetIndex
<1> QED
  BY <1>2, <1>5, <1>6 DEF NetIndex

\* the client over IMAP,
LEMMA ImapStep == NetIndex /\ (ImapPoll \/ Untagged \/ ImapReply) => NetIndex'
<1> SUFFICES ASSUME NetIndex, ImapPoll \/ Untagged \/ ImapReply PROVE NetIndex'
  OBVIOUS
<1>1. st \in {"append", "folder", "appended", "login", "create", "created", "logout"} /\ conn = "up"
  BY DEF ImapPoll, Untagged, ImapReply, NetIndex, Before, WaitsAppend, WaitsLn
<1>2. BuffersOK' /\ InStep' /\ UNCHANGED <<setup, conn, untried, asked, tunnel>>
  BY <1>1, ClientConn DEF ImapPoll, Untagged, ImapReply
<1>3. /\ out \in Seq(WrittenType) /\ result = "none" /\ polled \in BOOLEAN /\ sent \in 0 .. Len(mail)
      /\ Append(out, Quit) \in Seq(WrittenType) /\ Len(mail) \in Nat /\ MailLen \in Nat
  BY <1>1, Written, Writes, MailType DEF NetIndex, NetTypeOK
<1>4. \A c \in Commands, n \in Nat : Append(out, Command(c, n)) \in Seq(WrittenType)
  BY <1>3, Written, Writes
<1>5. /\ out' \in Seq(WrittenType) /\ st' \in States \ {"connect"} /\ sent' \in 0 .. Len(mail)
      /\ polled' \in BOOLEAN
      /\ result' \in {"none", "success", "failure", "crash"} /\ (result' = "none" <=> st' # "end")
  <2>1. CASE ImapPoll
    BY <1>1, <1>3, <2>1 DEF ImapPoll, OneOf, Ends, States
  <2>2. CASE Untagged
    BY <1>1, <1>3, <2>2 DEF Untagged, States
  <2>3. CASE ImapReply
    <3>1. polled' = FALSE /\ sent' \in 0 .. Len(mail)
      BY <1>3, <2>3 DEF ImapReply
    <3>2. CASE Abort
      BY <1>3, <3>1, <3>2, Aborted DEF Abort, States
    <3>3. CASE \E how \in {"failure", "crash"} : Ends(how) /\ out' = Append(out, Quit)
      BY <1>3, <3>1, <3>3 DEF Ends, States
    <3>4. CASE Ends("success") /\ UNCHANGED out
      BY <1>3, <3>1, <3>4 DEF Ends, States
    <3>5. CASE st' = "lines" /\ UNCHANGED <<result, out>>
      BY <1>3, <3>1, <3>5 DEF States
    <3>6. CASE \E c \in Commands, n \in Nat : /\ out' = Append(out, Command(c, n)) /\ result' = result
                 /\ st' \in {"append", "folder", "create", "created", "logout"}
      BY <1>3, <1>4, <3>1, <3>6 DEF States
    <3>7. \/ Abort \/ (OneOf({"failure", "crash"}) /\ out' = Append(out, Quit))
          \/ (Ends("success") /\ UNCHANGED out) \/ (st' = "lines" /\ UNCHANGED <<result, out>>)
          \/ SendAppend \/ TryCreate \/ Put("folder", "FOLDER", MailLen)
          \/ Put("logout", "LOGOUT", 0) \/ Put("created", "NAME", 0)
      BY <2>3 DEF ImapReply
    <3> QED
      BY <1>3, <3>2, <3>3, <3>4, <3>5, <3>6, <3>7 DEF OneOf, SendAppend, TryCreate, Put, Commands
  <2> QED
    BY <2>1, <2>2, <2>3
<1>6. NetTypeOK'
  <2>1. UNCHANGED serverVars
    BY DEF ImapPoll, Untagged, ImapReply
  <2> QED
    BY <1>2, <1>5, <2>1, ClientType
<1>7. Before'
  BY <1>1, <1>2, <1>5 DEF Before, NetIndex
<1> QED
  BY <1>2, <1>6, <1>7 DEF NetIndex

\* the lines of the mail,
LEMMA LinesStep == NetIndex /\ (SendLine \/ SendEnd) => NetIndex'
<1> SUFFICES ASSUME NetIndex, SendLine \/ SendEnd PROVE NetIndex'
  OBVIOUS
<1>1. st = "lines" /\ conn = "up" /\ UNCHANGED <<setup, connVars>> /\ UNCHANGED <<polled, serverVars>>
  BY DEF SendLine, SendEnd, NetIndex, Before
<1>2. BuffersOK' /\ InStep' /\ UNCHANGED <<setup, conn, untried, asked, tunnel>>
  BY <1>1, ClientConn
<1>3. out \in Seq(WrittenType) /\ result = "none" /\ sent \in 0 .. Len(mail) /\ Len(mail) \in Nat
  BY <1>1, MailType DEF NetIndex, NetTypeOK
<1>4. SendLine => WrittenLine \in WrittenType
  <2> SUFFICES ASSUME SendLine PROVE WrittenLine \in WrittenType
    OBVIOUS
  <2>1. mail[sent + 1] \in MailLines
    <3>1. sent + 1 \in 1 .. Len(mail)
      BY <1>3 DEF SendLine
    <3> QED
      BY <3>1, MailType DEF NetIndex, NetTypeOK
  <2> QED
    BY <2>1, OneLine, Writes DEF WrittenLine
<1>5. /\ out' \in Seq(WrittenType) /\ st' \in States \ {"connect"} /\ sent' \in 0 .. Len(mail)
      /\ result' \in {"none", "failure"} /\ (result' = "none" <=> st' # "end")
  <2>1. CASE SendEnd
    <3>1. TextLine(<<".">>) \in WrittenType
      BY Writes DEF Dot
    <3> QED
      BY <1>3, <2>1, <3>1, Written DEF SendEnd, States
  <2>2. CASE SendLine
    <3>1. sent' \in 0 .. Len(mail)
      BY <1>3, <2>2 DEF SendLine
    <3>2. CASE AbortAfter(<<WrittenLine>>)
      BY <1>3, <1>4, <2>2, <3>1, <3>2, Aborted DEF States
    <3>3. CASE out' = Append(out, WrittenLine) /\ UNCHANGED <<st, result>>
      BY <1>1, <1>3, <1>4, <2>2, <3>1, <3>3, Written DEF States
    <3> QED
      BY <2>2, <3>2, <3>3 DEF SendLine
  <2> QED
    BY <2>1, <2>2
<1>6. NetTypeOK'
  <2>1. polled' \in BOOLEAN
    BY <1>1 DEF NetIndex, NetTypeOK
  <2> QED
    BY <1>1, <1>2, <1>5, <2>1, ClientType
<1>7. Before'
  BY <1>1, <1>2, <1>5 DEF Before, NetIndex
<1> QED
  BY <1>2, <1>6, <1>7 DEF NetIndex

Modes == {"greet", "command", "data", "name", "create", "literal"}
Texts == Seq(IF setup.kind = "smtp" THEN Seq(Symbol) ELSE Symbol)

\* and any step of a server that reads what was written and answers.
LEMMA ServerIndex ==
  ASSUME NetIndex, ServerStep, BuffersOK', (\E v : Heard(v)) \/ wire' = wire,
         mode' \in Modes, need' \in Nat, exists' \in BOOLEAN, text' \in Texts
  PROVE  NetIndex'
<1>1. st # "connect" /\ conn \in {"up", "failed", "fatal"}
  <2>1. st # "connect"
    BY DEF ServerStep, NetIndex, Before
  <2> QED
    BY <2>1 DEF NetIndex, Before
<1>2. InStep'
  <2>1. UNCHANGED <<setup, conn, asked, tunnel>> /\ BuffersOK /\ InStep /\ inp' = inp
    BY DEF ServerStep, NetIndex
  <2>2. CASE \E v : Heard(v)
    BY <1>1, <2>1, <2>2, HeardInStep
  <2>3. CASE wire' = wire
    BY <2>1, <2>3, SameComing, SameInStep
  <2> QED
    BY <2>2, <2>3
<1>3. out' \in Seq(WrittenType)
  BY Written DEF ServerStep, NetIndex, NetTypeOK
<1>4. NetTypeOK'
  BY <1>3 DEF ServerStep, NetIndex, NetTypeOK, clientVars, mail, Modes, Texts
<1>5. Before'
  BY <1>1 DEF ServerStep, NetIndex, Before, clientVars
<1> QED
  BY <1>2, <1>4, <1>5 DEF NetIndex

\* The server's words.
LEMMA ServerWords ==
  /\ {"250", "550"} \subseteq Word /\ {"221", "500"} \subseteq Word /\ {"500"} \subseteq Word
  /\ {"503"} \subseteq Word /\ {"354"} \subseteq Word /\ {"250"} \subseteq Word /\ {"554"} \subseteq Word
  /\ {"220", "554"} \subseteq Word /\ {"OK", "NO"} \subseteq Word /\ {"+"} \subseteq Word
  /\ {"NO"} \subseteq Word /\ {"OK"} \subseteq Word /\ {"BAD"} \subseteq Word
  /\ NoFolder \subseteq Word /\ NoFolder \subseteq {"NO", "TRYCREATE"}
BY DEF Word, NoFolder

\* What a server over SMTP does, and what it says to it.
SmtpReads ==
  \/ /\ mode = "command" /\ UNCHANGED serverVars
     /\ \/ out[1].is \in {"HELO", "MAIL", "RCPT"} /\ \E v \in {"250", "550"} : Heard(v)
        \/ out[1].is = "QUIT" /\ \E v \in {"221", "500"} : Heard(v)
        \/ out[1].is = "text" /\ Heard("500")
        \/ out[1].is = "DATA" /\ Heard("503")
  \/ /\ mode = "command" /\ out[1].is = "DATA" /\ Heard("354")
     /\ mode' = "data" /\ text' = <<>> /\ UNCHANGED <<need, exists, taken>>
  \/ /\ mode = "data" /\ out[1].text # Dot /\ wire' = wire
     /\ text' = Append(text, Unstuffed(out[1].text)) /\ UNCHANGED <<mode, need, exists, taken>>
  \/ /\ mode = "data" /\ out[1].text = Dot /\ mode' = "command" /\ UNCHANGED <<need, text, exists>>
     /\ \/ Heard("250") /\ taken' = Append(taken, text)
        \/ Heard("554") /\ UNCHANGED taken

\* The steps of the server over SMTP are such, and read as SmtpReads says.
LEMMA SmtpServes ==
  ASSUME NetIndex, SmtpServer
  PROVE  ServerStep /\ BuffersOK' /\ SmtpReads
<1>0. setup.kind \in {"smtp", "imap"} /\ BuffersOK
  BY KindOf DEF NetIndex
<1>1. CASE SmtpCommand
  <2>1. \A is, V : Replies(is, V) => ServerReads(is) /\ AnyOf(V) /\ UNCHANGED serverVars
    BY DEF Replies, Stays, serverVars
  <2>2. CASE Replies({"HELO", "MAIL", "RCPT"}, {"250", "550"})
    <3>1. ServerReads({"HELO", "MAIL", "RCPT"}) /\ AnyOf({"250", "550"}) /\ UNCHANGED serverVars
      BY <2>1, <2>2
    <3>2. ServerStep /\ out[1].is \in {"HELO", "MAIL", "RCPT"} /\ BuffersOK' /\ \E v \in {"250", "550"} : Heard(v)
      BY <1>0, <3>1, ServerWords, Answering
    <3> QED
      BY <1>1, <3>1, <3>2 DEF SmtpReads, SmtpCommand
  <2>3. CASE Replies({"QUIT"}, {"221", "500"})
    <3>1. ServerReads({"QUIT"}) /\ AnyOf({"221", "500"}) /\ UNCHANGED serverVars
      BY <2>1, <2>3
    <3>2. ServerStep /\ out[1].is \in {"QUIT"} /\ BuffersOK' /\ \E v \in {"221", "500"} : Heard(v)
      BY <1>0, <3>1, ServerWords, Answering
    <3> QED
      BY <1>1, <3>1, <3>2 DEF SmtpReads, SmtpCommand
  <2>4. CASE Replies({"text"}, {"500"})
    <3>1. ServerReads({"text"}) /\ AnyOf({"500"}) /\ UNCHANGED serverVars
      BY <2>1, <2>4
    <3>2. ServerStep /\ out[1].is \in {"text"} /\ BuffersOK' /\ \E v \in {"500"} : Heard(v)
      BY <1>0, <3>1, ServerWords, Answering
    <3> QED
      BY <1>1, <3>1, <3>2 DEF SmtpReads, SmtpCommand
  <2>5. CASE Replies({"DATA"}, {"503"})
    <3>1. ServerReads({"DATA"}) /\ AnyOf({"503"}) /\ UNCHANGED serverVars
      BY <2>1, <2>5
    <3>2. ServerStep /\ out[1].is \in {"DATA"} /\ BuffersOK' /\ \E v \in {"503"} : Heard(v)
      BY <1>0, <3>1, ServerWords, Answering
    <3> QED
      BY <1>1, <3>1, <3>2 DEF SmtpReads, SmtpCommand
  <2> QED
    BY <1>1, <2>2, <2>3, <2>4, <2>5 DEF SmtpCommand
<1>2. CASE SmtpData
  <2>1. ServerReads({"DATA"}) /\ AnyOf({"354"})
    BY <1>2 DEF SmtpData
  <2>2. ServerStep /\ out[1].is \in {"DATA"} /\ BuffersOK' /\ \E v \in {"354"} : Heard(v)
    BY <1>0, <2>1, ServerWords, Answering
  <2> QED
    BY <1>2, <2>2 DEF SmtpReads, SmtpData
<1>3. CASE SmtpLine
  <2>1. ServerStep /\ BuffersOK' /\ wire' = wire
    BY <1>0, <1>3 DEF SmtpLine, ServerStep, connVars, BuffersOK
  <2> QED
    BY <1>3, <2>1 DEF SmtpReads, SmtpLine, Unstuffed, Dot
<1>4. CASE SmtpDot
  <2>1. CASE AnyOf({"250"}) /\ taken' = Append(taken, text)
    <3>1. BuffersOK' /\ (\E v \in {"250"} : Heard(v))
          /\ UNCHANGED <<setup, conn, untried, asked, tunnel, inp, st, sent, polled, result>>
      BY <1>0, <2>1, ServerWords, Heeded
    <3> QED
      BY <1>4, <2>1, <3>1 DEF SmtpDot, SmtpReads, ServerStep, Dot, clientVars
  <2>2. CASE AnyOf({"554"}) /\ UNCHANGED taken
    <3>1. BuffersOK' /\ (\E v \in {"554"} : Heard(v))
          /\ UNCHANGED <<setup, conn, untried, asked, tunnel, inp, st, sent, polled, result>>
      BY <1>0, <2>2, ServerWords, Heeded
    <3> QED
      BY <1>4, <2>2, <3>1 DEF SmtpDot, SmtpReads, ServerStep, Dot, clientVars
  <2> QED
    BY <1>4, <2>1, <2>2 DEF SmtpDot
<1> QED
  BY <1>1, <1>2, <1>3, <1>4 DEF SmtpServer

\* What the server reads was written by the client.
LEMMA FirstWritten == NetIndex /\ ServerStep => out[1] \in WrittenType
<1> SUFFICES ASSUME NetIndex, ServerStep PROVE out[1] \in WrittenType
  OBVIOUS
<1>1. out \in Seq(WrittenType) /\ out # <<>>
  BY DEF NetIndex, NetTypeOK, ServerStep
<1>2. Len(out) \in Nat /\ Len(out) > 0
  BY <1>1, Written
<1>3. 1 \in 1 .. Len(out)
  BY <1>2
<1> QED
  BY <1>1, <1>3, Written

\* So the server over SMTP keeps them too.
LEMMA SmtpServerStep == NetIndex /\ SmtpServer => NetIndex'
<1> SUFFICES ASSUME NetIndex, SmtpServer PROVE NetIndex'
  OBVIOUS
<1>1. ServerStep /\ BuffersOK' /\ SmtpReads /\ setup.kind = "smtp"
  BY SmtpServes DEF SmtpServer
<1>2. /\ mode \in Modes /\ need \in Nat /\ exists \in BOOLEAN /\ text \in Seq(Seq(Symbol))
      /\ out[1].text \in Seq(Symbol) /\ Texts = Seq(Seq(Symbol))
  <2>1. out[1] \in WrittenType
    BY <1>1, FirstWritten
  <2> QED
    BY <1>1, <2>1 DEF NetIndex, NetTypeOK, Modes, WrittenType, Texts
<1>3. Unstuffed(out[1].text) \in Seq(Symbol)
  BY <1>2, HeadTailProperties DEF Unstuffed
<1>4. text' \in Seq(Seq(Symbol))
  <2>1. Append(text, Unstuffed(out[1].text)) \in Seq(Seq(Symbol))
    BY <1>2, <1>3, AppendProperties
  <2>2. <<>> \in Seq(Seq(Symbol))
    BY EmptySeq
  <2> QED
    BY <1>1, <1>2, <2>1, <2>2 DEF SmtpReads, serverVars
<1>5. mode' \in Modes /\ need' \in Nat /\ exists' \in BOOLEAN /\ ((\E v : Heard(v)) \/ wire' = wire)
  BY <1>1, <1>2 DEF SmtpReads, serverVars, Modes
<1> QED
  BY <1>1, <1>2, <1>4, <1>5, ServerIndex

-----------------------------------------------------------------------------
\* A server that greets does so once.
LEMMA Greeting ==
  ASSUME NetIndex, Greet
  PROVE  /\ NetIndex' /\ mode = "greet" /\ mode' = "command"
         /\ UNCHANGED <<setup, st, sent, result, out, text, taken>>
         /\ \E v \in IF setup.kind = "smtp" THEN {"220", "554"} ELSE {"OK", "NO"} : Heard(v)
<1>0. setup.kind \in {"smtp", "imap"} /\ BuffersOK
  BY KindOf DEF NetIndex
<1>1. PICK V \in SUBSET Word : V = IF setup.kind = "smtp" THEN {"220", "554"} ELSE {"OK", "NO"}
  BY ServerWords
<1>5. /\ AnyOf(V) /\ tunnel /\ mode = "greet" /\ mode' = "command"
      /\ UNCHANGED <<out, need, text, exists, taken>>
  BY <1>1 DEF Greet
<1>2. /\ BuffersOK' /\ UNCHANGED <<setup, conn, untried, asked, tunnel, inp, st, sent, polled, result>>
      /\ \E v \in V : Heard(v)
  BY <1>0, <1>5, Heeded
<1>3. InStep'
  BY <1>2, <1>5, HeardInStep DEF NetIndex
<1>4. NetTypeOK' /\ Before'
  BY <1>2, <1>5 DEF NetIndex, NetTypeOK, Before, mail
<1> QED
  BY <1>1, <1>2, <1>3, <1>4, <1>5 DEF NetIndex

-----------------------------------------------------------------------------
\* The same of a server over IMAP.
Refusing == {"NO", "TRYCREATE"}
ImapReads ==
  \/ /\ mode = "command" /\ UNCHANGED serverVars
     /\ \/ out[1].is \in {"APPEND", "CREATE"} /\ Heard("NO")
        \/ out[1].is = "LOGOUT" /\ Heard("OK")
        \/ out[1].is \in {"QUIT", "text"} /\ Heard("BAD")
  \/ /\ mode = "command" /\ Heard("+") /\ UNCHANGED <<need, text, exists, taken>>
     /\ \/ out[1].is = "APPEND" /\ mode' = "name"
        \/ out[1].is = "CREATE" /\ mode' = "create"
  \/ /\ mode = "create" /\ out[1].is = "NAME" /\ Heard("OK")
     /\ mode' = "command" /\ exists' = TRUE /\ UNCHANGED <<need, text, taken>>
  \/ /\ mode = "name" /\ out[1].is = "FOLDER" /\ Heard("+")
     /\ mode' = "literal" /\ need' = out[1].n /\ text' = <<>> /\ UNCHANGED <<exists, taken>>
  \/ /\ mode' = "command" /\ UNCHANGED <<need, text, exists, taken>>
     /\ \/ mode = "create" /\ out[1].is \in {"NAME", "QUIT"} /\ Heard("NO")
        \/ mode = "name" /\ out[1].is \in {"FOLDER", "QUIT"} /\ \E v \in Refusing : Heard(v)
  \/ /\ mode = "literal" /\ text' = text \o out[1].text \o <<CR, LF>> /\ UNCHANGED <<need, exists>>
     /\ \/ Len(text') < need /\ wire' = wire /\ UNCHANGED <<mode, taken>>
        \/ /\ ~(Len(text') < need) /\ mode' = "command"
           /\ \/ Heard("OK") /\ taken' = Append(taken, SubSeq(text', 1, need))
              \/ (\E v \in Refusing : Heard(v)) /\ UNCHANGED taken

\* The steps of the server over IMAP read as ImapReads says,
LEMMA ImapServes ==
  ASSUME NetIndex, ImapServer
  PROVE  ServerStep /\ BuffersOK' /\ ImapReads
<1>0. setup.kind \in {"smtp", "imap"} /\ BuffersOK
  BY KindOf DEF NetIndex
<1>9. \A is, V : Replies(is, V) => ServerReads(is) /\ AnyOf(V) /\ UNCHANGED serverVars
  BY DEF Replies, Stays, serverVars
<1>1. CASE ImapCommand
  <2>1. CASE ServerReads({"APPEND"}) /\ AnyOf({"+"}) /\ Goes("name")
    <3>1. ServerStep /\ out[1].is \in {"APPEND"} /\ BuffersOK' /\ \E v \in {"+"} : Heard(v)
      BY <1>0, <2>1, ServerWords, Answering
    <3> QED
      BY <1>1, <2>1, <3>1 DEF ImapReads, ImapCommand, Goes
  <2>2. CASE ServerReads({"CREATE"}) /\ AnyOf({"+"}) /\ Goes("create")
    <3>1. ServerStep /\ out[1].is \in {"CREATE"} /\ BuffersOK' /\ \E v \in {"+"} : Heard(v)
      BY <1>0, <2>2, ServerWords, Answering
    <3> QED
      BY <1>1, <2>2, <3>1 DEF ImapReads, ImapCommand, Goes
  <2>3. CASE Replies({"APPEND", "CREATE"}, {"NO"})
    <3>1. ServerReads({"APPEND", "CREATE"}) /\ AnyOf({"NO"}) /\ UNCHANGED serverVars
      BY <1>9, <2>3
    <3>2. ServerStep /\ out[1].is \in {"APPEND", "CREATE"} /\ BuffersOK' /\ \E v \in {"NO"} : Heard(v)
      BY <1>0, <3>1, ServerWords, Answering
    <3> QED
      BY <1>1, <3>1, <3>2 DEF ImapReads, ImapCommand
  <2>4. CASE Replies({"LOGOUT"}, {"OK"})
    <3>1. ServerReads({"LOGOUT"}) /\ AnyOf({"OK"}) /\ UNCHANGED serverVars
      BY <1>9, <2>4
    <3>2. ServerStep /\ out[1].is \in {"LOGOUT"} /\ BuffersOK' /\ \E v \in {"OK"} : Heard(v)
      BY <1>0, <3>1, ServerWords, Answering
    <3> QED
      BY <1>1, <3>1, <3>2 DEF ImapReads, ImapCommand
  <2>5. CASE Replies({"QUIT", "text"}, {"BAD"})
    <3>1. ServerReads({"QUIT", "text"}) /\ AnyOf({"BAD"}) /\ UNCHANGED serverVars
      BY <1>9, <2>5
    <3>2. ServerStep /\ out[1].is \in {"QUIT", "text"} /\ BuffersOK' /\ \E v \in {"BAD"} : Heard(v)
      BY <1>0, <3>1, ServerWords, Answering
    <3> QED
      BY <1>1, <3>1, <3>2 DEF ImapReads, ImapCommand
  <2> QED
    BY <1>1, <2>1, <2>2, <2>3, <2>4, <2>5 DEF ImapCommand
<1>2. CASE ImapCreates
  <2>1. ServerReads({"NAME"}) /\ AnyOf({"OK"})
    BY <1>2 DEF ImapCreates
  <2>2. ServerStep /\ out[1].is \in {"NAME"} /\ BuffersOK' /\ \E v \in {"OK"} : Heard(v)
    BY <1>0, <2>1, ServerWords, Answering
  <2> QED
    BY <1>2, <2>2 DEF ImapReads, ImapCreates
<1>3. CASE ImapFolder
  <2>1. ServerReads({"FOLDER"}) /\ AnyOf({"+"})
    BY <1>3 DEF ImapFolder
  <2>2. ServerStep /\ out[1].is \in {"FOLDER"} /\ BuffersOK' /\ \E v \in {"+"} : Heard(v)
    BY <1>0, <2>1, ServerWords, Answering
  <2> QED
    BY <1>3, <2>2 DEF ImapReads, ImapFolder
<1>4. CASE ImapRefuses
  <2>1. CASE mode = "create" /\ ServerReads({"NAME", "QUIT"}) /\ AnyOf({"NO"})
    <3>1. ServerStep /\ out[1].is \in {"NAME", "QUIT"} /\ BuffersOK' /\ \E v \in {"NO"} : Heard(v)
      BY <1>0, <2>1, ServerWords, Answering
    <3> QED
      BY <1>4, <2>1, <3>1 DEF ImapReads, ImapRefuses, Goes
  <2>2. CASE mode = "name" /\ ServerReads({"FOLDER", "QUIT"}) /\ AnyOf(NoFolder)
    <3>1. ServerStep /\ out[1].is \in {"FOLDER", "QUIT"} /\ BuffersOK' /\ \E v \in NoFolder : Heard(v)
      BY <1>0, <2>2, ServerWords, Answering
    <3>2. \E v \in Refusing : Heard(v)
      BY <3>1, ServerWords DEF Refusing
    <3> QED
      BY <1>4, <2>2, <3>1, <3>2 DEF ImapReads, ImapRefuses, Goes
  <2> QED
    BY <1>4, <2>1, <2>2 DEF ImapRefuses
<1>5. CASE ImapLiteral
  <2>1. mode = "literal" /\ out # <<>> /\ out' = Tail(out) /\ UNCHANGED <<need, exists>>
        /\ text' = text \o out[1].text \o <<CR, LF>>
    BY <1>5 DEF ImapLiteral
  <2>2. CASE Len(text') < need
    <3>1. UNCHANGED <<setup, connVars, clientVars, mode, taken>>
      BY <1>5, <2>2 DEF ImapLiteral
    <3>2. ServerStep /\ BuffersOK' /\ wire' = wire
      BY <1>0, <2>1, <3>1 DEF ServerStep, connVars, BuffersOK
    <3> QED
      BY <2>1, <2>2, <3>1, <3>2 DEF ImapReads
  <2>3. CASE ~(Len(text') < need) /\ mode' = "command"
             /\ exists /\ AnyOf({"OK"}) /\ taken' = Append(taken, SubSeq(text', 1, need))
    <3>1. BuffersOK' /\ (\E v \in {"OK"} : Heard(v))
          /\ UNCHANGED <<setup, conn, untried, asked, tunnel, inp, st, sent, polled, result>>
      BY <1>0, <2>3, ServerWords, Heeded
    <3> QED
      BY <2>1, <2>3, <3>1 DEF ImapReads, ServerStep, clientVars
  <2>4. CASE ~(Len(text') < need) /\ mode' = "command" /\ AnyOf(NoFolder) /\ UNCHANGED taken
    <3>1. BuffersOK' /\ (\E v \in NoFolder : Heard(v))
          /\ UNCHANGED <<setup, conn, untried, asked, tunnel, inp, st, sent, polled, result>>
      BY <1>0, <2>4, ServerWords, Heeded
    <3>2. \E v \in Refusing : Heard(v)
      BY <3>1, ServerWords DEF Refusing
    <3> QED
      BY <2>1, <2>4, <3>1, <3>2 DEF ImapReads, ServerStep, clientVars
  <2> QED
    BY <1>5, <2>2, <2>3, <2>4 DEF ImapLiteral
<1> QED
  BY <1>1, <1>2, <1>3, <1>4, <1>5 DEF ImapServer

\* so that it keeps types and steps as well,
LEMMA ImapServerStep == NetIndex /\ ImapServer => NetIndex'
<1> SUFFICES ASSUME NetIndex, ImapServer PROVE NetIndex'
  OBVIOUS
<1>1. ServerStep /\ BuffersOK' /\ ImapReads /\ setup.kind = "imap"
  BY ImapServes DEF ImapServer
<1>2. /\ mode \in Modes /\ need \in Nat /\ exists \in BOOLEAN /\ text \in Seq(Symbol)
      /\ out[1].text \in Seq(Symbol) /\ out[1].n \in Nat /\ Texts = Seq(Symbol)
  BY <1>1, FirstWritten DEF NetIndex, NetTypeOK, Modes, WrittenType, Texts
<1>3. text' \in Seq(Symbol)
  <2>1. text \o out[1].text \in Seq(Symbol) /\ <<CR, LF>> \in Seq(Symbol)
    BY <1>2, ConcatProperties, Writes
  <2>2. text \o out[1].text \o <<CR, LF>> \in Seq(Symbol)
    BY <2>1, ConcatProperties
  <2>3. <<>> \in Seq(Symbol)
    BY EmptySeq
  <2> QED
    BY <1>1, <1>2, <2>2, <2>3 DEF ImapReads, serverVars
<1>5. mode' \in Modes /\ need' \in Nat /\ exists' \in BOOLEAN /\ ((\E v : Heard(v)) \/ wire' = wire)
  BY <1>1, <1>2 DEF ImapReads, serverVars, Modes
<1> QED
  BY <1>1, <1>2, <1>3, <1>5, ServerIndex

-----------------------------------------------------------------------------
\* and a stutter does.
LEMMA SameIndex == NetIndex /\ UNCHANGED netVars => NetIndex'
<1> SUFFICES ASSUME NetIndex, UNCHANGED netVars PROVE NetIndex'
  OBVIOUS
<1>1. UNCHANGED <<setup, conn, untried, asked, tunnel, wire, inp>> /\ UNCHANGED <<st, sent, polled, result>>
      /\ UNCHANGED <<out, mode, need, text, exists, taken>>
  BY DEF netVars, connVars, clientVars, serverVars
<1>2. BuffersOK' /\ InStep'
  BY <1>1, SameComing, SameInStep DEF NetIndex
<1>3. NetTypeOK'
  BY <1>1 DEF NetIndex, NetTypeOK, mail
<1>4. Before'
  BY <1>1 DEF NetIndex, Before
<1> QED
  BY <1>2, <1>3, <1>4 DEF NetIndex

\* All steps do,
LEMMA IndexStep == NetIndex /\ [NetNext]_netVars => NetIndex'
BY OpeningStep, ConnectedStep, SmtpStep, ImapStep, LinesStep, ThroughStep, Greeting,
   SmtpServerStep, ImapServerStep, SameIndex DEF NetNext, Client, NetEnded

\* and they hold at the start.
LEMMA IndexInit == NetInit => NetIndex
<1> SUFFICES ASSUME NetInit PROVE NetIndex
  OBVIOUS
<1>1. SetupType(setup) /\ ConnectType(setup) /\ setup \in Setups
  BY Setup DEF NetInit, SetupType
<1>2. untried \in Nat /\ untried # 0
  BY <1>1 DEF NetInit, ConnectInit, ConnectType
<1>3. BuffersOK /\ Coming = <<>>
  <2>1. <<>> \in Seq(UnitType)
    BY EmptySeq
  <2> QED
    BY <2>1, ConcatEmptySeq DEF NetInit, ConnectInit, BuffersOK, Coming
<1>4. InStep
  BY <1>3 DEF NetInit, ConnectInit, InStep
<1>5. NetTypeOK
  <2>1. <<>> \in Seq(WrittenType) /\ <<>> \in Seq(Seq(Symbol)) /\ <<>> \in Seq(Symbol)
    BY EmptySeq
  <2>2. 0 \in 0 .. Len(mail) /\ setup.exists \in BOOLEAN
    BY <1>1, MailType DEF SetupType
  <2> QED
    BY <1>1, <1>2, <2>1, <2>2 DEF NetInit, ConnectInit, NetTypeOK
<1>6. Before
  BY <1>2 DEF NetInit, ConnectInit, Before
<1> QED
  BY <1>3, <1>4, <1>5, <1>6 DEF NetIndex

\* Every variable of a delivery keeps its type: what is written is the commands
\* and the lines of the mail, and no more lines than it has (deliver-smtp.c:161,
\* deliver-imap.c:260).
THEOREM NetTypeCorrect == NetSpec => []NetTypeOK
<1>1. NetIndex => NetTypeOK
  BY DEF NetIndex
<1> QED
  BY <1>1, IndexInit, IndexStep, PTL DEF NetSpec

\* When the connection is up all that the proxy has said has been taken off, with
\* whatever the server has said behind it in the same read, if the proxy's reply
\* has an IPv4 address (connect.c:503).
THEOREM ProxyIsDrained == NetSpec => []NothingOfProxyLeft
<1>1. NetIndex => NothingOfProxyLeft
  <2> SUFFICES ASSUME NetIndex, conn = "up", setup.atyp = 1 PROVE FromProxy = {}
    BY DEF NothingOfProxyLeft
  <2>1. BuffersOK /\ Leads(Coming, 0) /\ Len(Coming) \in Nat
    BY ComingType DEF NetIndex, InStep
  <2>2. \A i \in 1 .. Len(Coming) : Coming[i].by = "server"
    BY <2>1 DEF Leads
  <2> QED
    BY <2>1, <2>2, NoProxy
<1> QED
  BY <1>1, IndexInit, IndexStep, PTL DEF NetSpec

-----------------------------------------------------------------------------
(* What is still to be read gets less, but for what is said.               *)

\* What is to come gets no more when nothing happens to it,
LEMMA SameThins == BuffersOK /\ Coming' = Coming => Thinned(0)
<1> SUFFICES ASSUME BuffersOK, Coming' = Coming PROVE Thinned(0)
  OBVIOUS
<1>1. Len(Coming) \in Nat
  BY ComingType
<1> QED
  BY <1>1 DEF Thinned

\* when units are lost,
LEMMA LostThins == \A n : Lost(n) => Thinned(n)
BY DEF Lost, Thinned

\* and in any step that opens the connection.
LEMMA OpeningThins ==
  ASSUME NetIndex, Opening
  PROVE  \E p \in Nat : Thinned(p)
<1>0. BuffersOK /\ InStep
  BY DEF NetIndex
<1>1. CASE Lookup \/ TryAddress \/ MakeTls \/ GiveUp
  <2>1. Coming' = Coming
    BY <1>1, SameComing DEF Lookup, TryAddress, MakeTls, GiveUp
  <2> QED
    BY <1>0, <2>1, SameThins
<1>2. CASE Poll
  <2>1. Coming' = Coming
    BY <1>0, <1>2, ComingPoll DEF Poll
  <2> QED
    BY <1>0, <2>1, SameThins
<1>3. CASE HttpLine
  <2>1. inp # <<>> /\ Skip(1) /\ wire' = wire
    BY <1>3 DEF HttpLine
  <2>2. 1 \in 0 .. Len(inp)
    BY <1>0, <2>1, EmptySeq, LenProperties DEF BuffersOK
  <2>3. Lost(1)
    BY <1>0, <2>1, <2>2, ComingSkip
  <2> QED
    BY <2>3, LostThins
<1>4. CASE SocksMethod \/ SocksAuth
  <2>1. Len(inp) >= 2 /\ Skip(2) /\ wire' = wire
    BY <1>4 DEF SocksMethod, SocksAuth
  <2>2. 2 \in 0 .. Len(inp)
    BY <1>0, <2>1, ComingType
  <2>3. Lost(2)
    BY <1>0, <2>1, <2>2, ComingSkip
  <2> QED
    BY <2>3, LostThins
<1>5. CASE SocksReply
  <2>1. conn = "request" /\ Len(inp) >= 5 /\ wire' = wire
    BY <1>5 DEF SocksReply
  <2>2. /\ Len(Coming) \in Nat /\ Len(inp) \in Nat /\ Len(inp) <= Len(Coming)
        /\ \A i \in 1 .. Len(inp) : inp[i] = Coming[i]
    BY <1>0, ComingType
  <2>3. Answered
    BY <1>0, <2>1, <2>2, NobodyLeads DEF InStep
  <2>4. PICK p \in 5 .. Len(Coming) : Leads(Coming, p) /\ Coming[5].v \in Nat
    BY <2>1, <2>3 DEF Answered
  <2>5. p \in Nat
    BY <2>2, <2>4
  <2>6. PICK n \in Nat : Enough(n) /\ Take(n)
    <3>1. CASE ~Granting(Values(5))
      <4>1. Take(5)
        BY <1>5, <3>1 DEF SocksReply
      <4>2. Enough(5)
        <5>1. PICK q \in Nat : q = Min2(p, Len(inp)) /\ Cardinality(FromProxy) = q
          BY <1>0, <2>2, <2>4, <2>5, ProxyFirst DEF Min2
        <5>2. q >= 5
          BY <2>1, <2>2, <2>4, <5>1 DEF Min2
        <5> QED
          BY <5>1, <5>2 DEF Enough
      <4> QED
        BY <4>1, <4>2
    <3>2. CASE Granting(Values(5))
      <4>1. \A i \in 1 .. 5 : Values(5)[i] = Coming[i].v
        BY <2>1, <2>2 DEF Values
      <4>2. Values(5)[4] \in {1, 3, 4} /\ Values(5)[5] \in Nat
        BY <2>4, <3>2, <4>1 DEF Granting
      <4>3. PICK n \in Nat : n = 5 + RestLen(Values(5))
        BY <4>2 DEF RestLen
      <4>4. Enough(n) /\ Take(n)
        BY <1>5, <3>2, <4>3 DEF SocksReply
      <4> QED
        BY <4>4
    <3> QED
      BY <3>1, <3>2
  <2>7. (n <= p /\ Lost(n)) \/ Thinned(p)
    BY <1>0, <2>1, <2>4, <2>5, <2>6, TakeThins
  <2> QED
    BY <2>5, <2>7, LostThins
<1> QED
  BY <1>1, <1>2, <1>3, <1>4, <1>5 DEF Opening, Connecting

\* Then no answer is there that was not, but for the junk that Take leaves;
LEMMA NothingNew ==
  ASSUME BuffersOK, BuffersOK', NEW p \in Nat, Thinned(p), NEW v \in Word \ {"junk"}
  PROVE  /\ Came(v)' => Came(v)
         /\ GoesOn => GoesOn'
<1>1. /\ Len(Coming) \in Nat /\ Len(Coming') \in Nat /\ Len(Coming') = Len(Coming) - p
      /\ \A i \in 1 .. Len(Coming') :
           \/ Coming'[i] = Coming[i + p]
           \/ i = 1 /\ Coming'[i] = Unit("server", "junk") /\ Coming[i + p].by = "server"
  BY ComingType DEF Thinned, BuffersOK, Coming
<1>2. \A i \in 1 .. Len(Coming') : i + p \in 1 .. Len(Coming)
  BY <1>1
<1>3. Unit("server", "junk").v = "junk"
  BY DEF Unit
<1>4. Came(v)' => Came(v)
  BY <1>1, <1>2, <1>3 DEF Came
<1>5. ASSUME GoesOn, NEW i \in 1 .. Len(Coming'), Coming'[i].by = "server", Coming'[i].v = "354",
             NEW j \in i .. Len(Coming')
      PROVE  Coming'[j].v = "354"
  <2>1. Coming'[i] = Coming[i + p]
    BY <1>1, <1>3, <1>5
  <2>2. j \in 1 .. Len(Coming') /\ j + p \in (i + p) .. Len(Coming)
    BY <1>1
  <2>3. Coming[j + p].v = "354"
    BY <1>2, <1>5, <2>1, <2>2 DEF GoesOn
  <2>4. CASE j = i
    BY <1>5, <2>4
  <2>5. CASE j # i
    <3>1. Coming'[j] = Coming[j + p]
      BY <1>1, <2>2, <2>5
    <3> QED
      BY <2>3, <3>1
  <2> QED
    BY <2>4, <2>5
<1> QED
  BY <1>4, <1>5 DEF GoesOn

\* nor when the proxy speaks.
LEMMA RelayedCame ==
  ASSUME BuffersOK, Relayed, NEW v, Came(v)'
  PROVE  Came(v)
<1>1. Len(Coming) \in Nat
  BY ComingType
<1>2. PICK i \in 1 .. Len(Coming') : Coming'[i].by = "server" /\ Coming'[i].v = v
  BY DEF Came
<1>3. i \in 1 .. Len(Coming)
  BY <1>1, <1>2 DEF Relayed
<1> QED
  BY <1>2, <1>3 DEF Relayed, Came

\* When the server does, there is only what it says.
LEMMA HeardCame ==
  ASSUME BuffersOK, setup.kind = "smtp", NEW w, Heard(w)
  PROVE  /\ \A v : Came(v)' => Came(v) \/ v = w
         /\ w = "354" /\ ~Came("354") => GoesOn'
<1>1. Len(Coming) \in Nat
  BY ComingType
<1>2. ASSUME NEW v, Came(v)', v # w PROVE Came(v)
  <2>1. PICK i \in 1 .. Len(Coming') : Coming'[i].by = "server" /\ Coming'[i].v = v
    BY <1>2 DEF Came
  <2>2. i \in 1 .. Len(Coming)
    BY <1>1, <1>2, <2>1 DEF Heard
  <2> QED
    BY <2>1, <2>2 DEF Heard, Came
<1>3. ASSUME w = "354", ~Came("354"), NEW i \in 1 .. Len(Coming'), Coming'[i].by = "server",
             Coming'[i].v = "354", NEW j \in i .. Len(Coming')
      PROVE  Coming'[j].v = "354"
  <2>1. i \notin 1 .. Len(Coming)
    BY <1>3 DEF Heard, Came
  <2>2. j \in Len(Coming) + 1 .. Len(Coming')
    BY <1>1, <2>1
  <2> QED
    BY <1>3, <2>2 DEF Heard
<1> QED
  BY <1>2, <1>3 DEF GoesOn

-----------------------------------------------------------------------------
(* SMTP: the mail on its way.                                              *)

\* The mail stays as it is.
LEMMA SameMail == setup' = setup => mail' = mail /\ WholeMail' = WholeMail
BY DEF mail, WholeMail

\* Steps that only touch what is to come, and bring no answer.
LEMMA SmtpKept ==
  ASSUME SmtpInv, UNCHANGED <<setup, st, result, sent, out, mode, text, taken>>,
         \A v \in {"250", "354"} : Came(v)' => Came(v), st = "data" /\ GoesOn => GoesOn'
  PROVE  SmtpInv'
<1>1. NoDot' = NoDot /\ WholeMail' = WholeMail
  BY SameMail DEF NoDot
<1>2. \A n : OnTheWay(n)' = OnTheWay(n) /\ Ending(n)' = Ending(n)
  BY SameMail DEF OnTheWay, Ending
<1>3. (st = "lines" => OnTheWay(Len(out)))' = (st = "lines" => OnTheWay(Len(out)))
  BY SameMail DEF OnTheWay
<1> QED
  BY <1>1, <1>2, <1>3, Zenon DEF SmtpInv

\* A QUIT is written after all that there was to write, to end it.
LEMMA SmtpAborts ==
  ASSUME SmtpInv, NetIndex, st # "lines", out' = Append(out, Quit), st' = "end",
         result' = "failure", UNCHANGED <<setup, sent, mode, text, taken>>
  PROVE  SmtpInv'
<1>1. /\ Len(out) \in Nat /\ Len(out') = Len(out) + 1 /\ out'[Len(out) + 1] = Quit
      /\ \A i \in 1 .. Len(out) : out'[i] = out[i]
  BY Written, Writes DEF NetIndex, NetTypeOK
<1>2. Quit.text # Dot
  BY DEF Quit, Command, Dot
<1>3. NoDot => NoDot'
  BY <1>1, <1>2 DEF NoDot
<1>4. ASSUME NEW n \in Nat, Ending(n) PROVE Ending(n)'
  BY <1>1, <1>2, <1>4, SameMail DEF Ending, OnTheWay
<1>5. out = <<>> => NoDot'
  BY <1>1, <1>2, EmptySeq, LenProperties DEF NoDot
<1>6. NoDot' \/ \E n \in Nat : Ending(n)'
  <2>1. NoDot \/ out = <<>> \/ \E n \in Nat : Ending(n)
    BY DEF SmtpInv
  <2> QED
    BY <1>3, <1>4, <1>5, <2>1
<1>7. taken' \in {<<>>, <<WholeMail'>>}
  BY SameMail DEF SmtpInv
<1> QED
  BY <1>6, <1>7 DEF SmtpInv, Early

\* The connection is there, or the delivery over.
LEMMA SmtpConnects ==
  ASSUME SmtpInv, NetIndex, setup.kind = "smtp", Connected
  PROVE  SmtpInv'
<1>1. /\ st = "connect" /\ out = <<>> /\ mode \in {"greet", "command"} /\ taken = <<>> /\ sent = 0
      /\ UNCHANGED <<setup, sent, mode, text, taken>> /\ UNCHANGED <<inp, wire>> /\ ~Came("354")
  BY DEF SmtpInv, NetIndex, Before, Connected, connVars, serverVars, Early
<1>2. Coming' = Coming
  BY <1>1, SameComing
<1>3. CASE st' = "connecting" /\ out' = out
  <2>1. Len(out') = 0
    BY <1>1, <1>3
  <2> QED
    BY <1>1, <1>2, <1>3, <2>1 DEF SmtpInv, Early, NoDot, Came
<1>4. CASE st' = "end" /\ result' = "failure" /\ out' = Append(out, Quit)
  BY <1>1, <1>4, SmtpAborts
<1>5. CASE st' = "end" /\ result' \in {"failure", "crash"} /\ out' = out
  <2>1. NoDot'
    BY <1>1, <1>5 DEF NoDot
  <2> QED
    BY <1>1, <1>5, <2>1 DEF SmtpInv, Early
<1>6. \/ st' = "connecting" /\ out' = out
      \/ st' = "end" /\ result' = "failure" /\ out' = Append(out, Quit)
      \/ st' = "end" /\ result' \in {"failure", "crash"} /\ out' = out
  <2>1. conn \in {"up", "failed", "fatal"}
    BY DEF Connected
  <2>2. CASE conn = "up" /\ setup.empty
    BY <2>2 DEF Connected, OneOf, Ends
  <2>3. CASE conn = "up" /\ ~setup.empty
    BY <2>3 DEF Connected
  <2>4. CASE conn \in {"failed", "fatal"}
    BY <2>4 DEF Connected, Ends
  <2> QED
    BY <2>1, <2>2, <2>3, <2>4
<1> QED
  BY <1>3, <1>4, <1>5, <1>6

\* The client reads an answer, and writes a command or ends.
LEMMA SmtpGoesOn ==
  ASSUME SmtpInv, NetIndex, setup.kind = "smtp", SmtpReply
  PROVE  SmtpInv'
<1>1. /\ st \in {"connecting", "helo", "from", "to", "data", "done", "quit"} /\ conn = "up"
      /\ UNCHANGED <<setup, sent, mode, text, taken>> /\ HaveLine /\ ReadLine
  BY StateNames DEF SmtpReply, NetIndex, Before, serverVars, ReadLine
<1>2. BuffersOK /\ BuffersOK' /\ Len(Coming) \in Nat
      /\ \/ Line = "junk"
         \/ 1 <= Len(Coming) /\ Coming[1].by = "server" /\ Line = Coming[1].v /\ Lost(1)
  BY <1>1, ReadInStep, ComingType DEF NetIndex
<1>3. CASE Line \notin Expected[st]
  <2>1. Abort
    BY <1>3 DEF SmtpReply
  <2>2. out' = Append(out, Quit) /\ st' = "end" /\ result' = "failure"
    <3>1. out' = out \o <<>> \o <<Quit>> /\ st' = "end" /\ result' = "failure"
      BY <2>1 DEF Abort, AbortAfter, Ends
    <3>2. out \in Seq(WrittenType)
      BY DEF NetIndex, NetTypeOK
    <3> QED
      BY <3>1, <3>2, ConcatEmptySeq, AppendIsConcat, Writes
  <2> QED
    BY <1>1, <2>2, SmtpAborts
<1>4. CASE Line \in Expected[st]
  <2>1. /\ 1 \in 1 .. Len(Coming) /\ Coming[1].by = "server" /\ Line = Coming[1].v /\ Lost(1)
        /\ Came(Line)
    <3>1. Line # "junk"
      BY <1>1, <1>4 DEF Expected
    <3> QED
      BY <1>2, <3>1 DEF Came
  <2>2. Thinned(1)
    BY <2>1, LostThins
  <2>3. \A v \in Word \ {"junk"} : Came(v)' => Came(v)
    BY <1>2, <2>2, NothingNew
  <2>4. CASE st \in {"connecting", "helo", "from", "to"}
    <3>1. /\ st' = Follows[st] /\ out' = Append(out, Command(NextCommand[st], 0)) /\ result' = result
          /\ Follows[st] \in {"helo", "from", "to", "data"}
          /\ NextCommand[st] \in {"HELO", "MAIL", "RCPT", "DATA"}
          /\ st = "to" <=> NextCommand[st] = "DATA"
          /\ st = "to" <=> Follows[st] = "data"
      BY <1>4, <2>4 DEF SmtpReply, Follows, NextCommand
    <3>2. PICK c \in {"HELO", "MAIL", "RCPT", "DATA"} : c = NextCommand[st]
      BY <3>1
    <3>3. Command(c, 0) \in WrittenType /\ Command(c, 0).is = c /\ Command(c, 0).text # Dot
      <4>1. c \in Commands
        BY DEF Commands
      <4> QED
        BY <4>1, Writes DEF Command, Dot
    <3>4. /\ Len(out) \in Nat /\ Len(out') = Len(out) + 1 /\ out'[Len(out) + 1] = Command(c, 0)
          /\ \A i \in 1 .. Len(out) : out'[i] = out[i]
      BY <3>1, <3>2, <3>3, Written DEF NetIndex, NetTypeOK
    <3>5. /\ mode \in {"greet", "command"} /\ ~Came("354") /\ NoDot /\ taken = <<>> /\ sent = 0
          /\ \A i \in 1 .. Len(out) : out[i].is # "DATA"
      BY <2>4 DEF SmtpInv, Early
    <3>6. NoDot' /\ ~Came("354")'
      <4>1. ~Came("354")'
        BY <2>3, <3>5 DEF Word
      <4> QED
        BY <3>3, <3>4, <3>5, <4>1 DEF NoDot
    <3>7. CASE st = "to"
      <4>1. st' = "data" /\ \A i \in 1 .. Len(out') - 1 : out'[i].is # "DATA"
        BY <3>1, <3>4, <3>5, <3>7
      <4> QED
        BY <1>1, <3>5, <3>6, <4>1 DEF SmtpInv, Early
    <3>8. CASE st # "to"
      <4>1. st' \in {"helo", "from", "to"} /\ \A i \in 1 .. Len(out') : out'[i].is # "DATA"
        BY <3>1, <3>2, <3>3, <3>4, <3>5, <3>8
      <4> QED
        BY <1>1, <3>5, <3>6, <4>1 DEF SmtpInv, Early
    <3> QED
      BY <3>7, <3>8
  <2>5. CASE st = "data"
    <3>1. Line = "354" /\ st' = "lines" /\ out' = out
      BY <1>4, <2>5 DEF SmtpReply, Follows, NextCommand, Expected
    <3>2. mode = "data" /\ out = <<>> /\ text = <<>> /\ GoesOn /\ taken = <<>> /\ sent = 0
      BY <2>1, <2>5, <3>1 DEF SmtpInv
    <3>3. ~Came("250")'
      <4>1. \A j \in 1 .. Len(Coming) : Coming[j].v = "354"
        BY <2>1, <3>1, <3>2 DEF GoesOn
      <4>2. \A i \in 1 .. Len(Coming') : Coming'[i] = Coming[i + 1] /\ i + 1 \in 1 .. Len(Coming)
        BY <1>2, <2>1 DEF Lost
      <4> QED
        BY <4>1, <4>2 DEF Came
    <3>4. OnTheWay(Len(out))'
      <4>1. Len(out') = 0 /\ Len(text') = 0 /\ mode' = "data" /\ taken' = <<>> /\ sent' = 0
        BY <1>1, <3>1, <3>2
      <4> QED
        BY <4>1 DEF OnTheWay
    <3> QED
      BY <1>1, <3>1, <3>2, <3>3, <3>4 DEF SmtpInv, Early
  <2>6. CASE st = "done"
    <3>1. Line = "250" /\ st' = "quit" /\ out' = Append(out, Command("QUIT", 0))
      BY <1>4, <2>6 DEF SmtpReply, Follows, NextCommand, Expected
    <3>2. out = <<>> /\ taken = <<WholeMail>>
      BY <2>1, <2>6, <3>1 DEF SmtpInv
    <3>3. NoDot'
      <4>1. Quit.text # Dot /\ Quit \in WrittenType /\ out' = Append(out, Quit)
        BY <3>1, Writes DEF Quit, Command, Dot
      <4>2. Len(out) = 0 /\ Len(out') = Len(out) + 1 /\ out'[Len(out) + 1] = Quit
        BY <3>2, <4>1, Written DEF NetIndex, NetTypeOK
      <4> QED
        BY <4>1, <4>2 DEF NoDot
    <3> QED
      BY <1>1, <3>1, <3>2, <3>3, SameMail DEF SmtpInv, Early
  <2>7. CASE st = "quit"
    <3>1. st' = "end" /\ result' = "success" /\ out' = out
      BY <1>4, <2>7 DEF SmtpReply, Ends
    <3>2. NoDot' /\ taken' = <<WholeMail'>>
      BY <1>1, <2>7, <3>1, SameMail DEF SmtpInv, NoDot
    <3> QED
      BY <3>1, <3>2 DEF SmtpInv, Early
  <2> QED
    BY <1>1, <2>4, <2>5, <2>6, <2>7
<1> QED
  BY <1>3, <1>4

\* A poll, or the end of it.
LEMMA SmtpPolls ==
  ASSUME SmtpInv, NetIndex, setup.kind = "smtp", SmtpPoll
  PROVE  SmtpInv'
<1>1. st # "lines" /\ UNCHANGED <<setup, sent, mode, text, taken>> /\ BuffersOK
  BY StateNames DEF SmtpPoll, serverVars, NetIndex
<1>2. CASE wire = <<>>
  <2>1. out' = out \o <<>> \o <<Quit>> /\ st' = "end" /\ result' = "failure"
    BY <1>2 DEF SmtpPoll, Abort, AbortAfter, Ends
  <2>2. out' = Append(out, Quit)
    <3>1. out \in Seq(WrittenType)
      BY DEF NetIndex, NetTypeOK
    <3> QED
      BY <2>1, <3>1, ConcatEmptySeq, AppendIsConcat, Writes
  <2> QED
    BY <1>1, <2>1, <2>2, SmtpAborts
<1>3. CASE wire # <<>>
  <2>1. Coming' = Coming /\ UNCHANGED <<st, result, out>>
    BY <1>1, <1>3, ComingPoll DEF SmtpPoll
  <2>2. \A v : Came(v)' = Came(v)
    BY <2>1 DEF Came
  <2>3. GoesOn' = GoesOn
    BY <2>1 DEF GoesOn
  <2> QED
    BY <1>1, <2>1, <2>2, <2>3, SmtpKept
<1> QED
  BY <1>2, <1>3

\* A line of the mail as it is on its way.
LEMMA StuffedLine ==
  ASSUME NetIndex, NEW i \in 1 .. Len(mail)
  PROVE  Stuffed(mail[i]) # Dot /\ Unstuffed(Stuffed(mail[i])) = Body(mail[i])
BY MailType, OneLine DEF NetIndex, NetTypeOK

\* A line goes on its way behind the others, and the end behind all of them.
LEMMA SmtpWritesLines ==
  ASSUME SmtpInv, NetIndex, setup.kind = "smtp", SendLine \/ SendEnd
  PROVE  SmtpInv'
<1>1. /\ st = "lines" /\ UNCHANGED <<setup, mode, text, taken>> /\ UNCHANGED <<inp, wire>>
      /\ OnTheWay(Len(out)) /\ ~Came("250") /\ Len(mail) \in Nat
  BY MailType DEF SendLine, SendEnd, connVars, serverVars, SmtpInv, NetIndex, NetTypeOK
<1>2. Coming' = Coming /\ ~Came("250")' /\ mail' = mail
  <2>1. Coming' = Coming
    BY <1>1, SameComing
  <2> QED
    BY <1>1, <2>1, SameMail DEF Came
<1>3. /\ mode = "data" /\ taken = <<>> /\ Len(out) \in Nat /\ sent = Len(text) + Len(out)
      /\ Len(text) \in Nat
      /\ \A i \in 1 .. Len(text) : text[i] = Body(mail[i])
      /\ \A i \in 1 .. Len(out) : out[i].text = Stuffed(mail[Len(text) + i])
  <2>1. text \in Seq(Seq(Symbol))
    BY <1>1 DEF NetIndex, NetTypeOK, OnTheWay
  <2> QED
    BY <1>1, <2>1, LenProperties DEF OnTheWay
<1>4. CASE SendEnd
  <2>1. sent = Len(mail) /\ sent' = sent /\ st' = "done" /\ out' = Append(out, TextLine(Dot)) /\ result' = result
    BY <1>4 DEF SendEnd, Dot
  <2>2. /\ Len(out') = Len(out) + 1 /\ out'[Len(out) + 1].text = Dot
        /\ \A i \in 1 .. Len(out) : out'[i] = out[i]
    BY <2>1, Written, Writes DEF NetIndex, NetTypeOK, TextLine
  <2>3. PICK n \in Nat : n = Len(out)
    BY <1>3
  <2>4. Ending(n)' /\ Len(out') = n + 1
    BY <1>1, <1>2, <1>3, <2>1, <2>2, <2>3 DEF Ending, OnTheWay
  <2> QED
    BY <1>1, <1>2, <1>3, <2>1, <2>4 DEF SmtpInv, Early
<1>5. CASE SendLine
  <2>1. sent < Len(mail) /\ sent' = sent + 1 /\ sent + 1 \in 1 .. Len(mail)
    BY <1>1, <1>3, <1>5 DEF SendLine
  <2>2. PICK w \in WrittenType : w = WrittenLine /\ w.text = Stuffed(mail[sent + 1]) /\ w.text # Dot
    <3>1. mail[sent + 1] \in MailLines
      BY <2>1, MailType DEF NetIndex, NetTypeOK
    <3>2. Stuffed(mail[sent + 1]) \in Seq(Symbol) /\ Stuffed(mail[sent + 1]) # Dot
      BY <3>1, OneLine
    <3>3. TextLine(Stuffed(mail[sent + 1])) \in WrittenType
      BY <3>2, Writes
    <3> QED
      BY <3>2, <3>3 DEF WrittenLine, TextLine
  <2>3. PICK o \in Seq(WrittenType) : o = Append(out, w)
    BY <2>2, Written DEF NetIndex, NetTypeOK
  <2>4. /\ Len(o) = Len(out) + 1 /\ o[Len(out) + 1] = w
        /\ \A i \in 1 .. Len(out) : o[i] = out[i]
    BY <2>2, <2>3, Written DEF NetIndex, NetTypeOK
  <2>5. CASE out' = o /\ UNCHANGED <<st, result>>
    <3>1. OnTheWay(Len(out))'
      <4>1. ASSUME NEW i \in 1 .. Len(o) PROVE o[i].text = Stuffed(mail[Len(text) + i])
        <5>1. CASE i \in 1 .. Len(out)
          BY <1>3, <2>4, <5>1
        <5>2. CASE i = Len(out) + 1
          <6>1. Len(text) + i = sent + 1
            BY <1>3, <5>2
          <6> QED
            BY <2>2, <2>4, <5>2, <6>1
        <5> QED
          BY <1>3, <2>4, <5>1, <5>2
      <4> QED
        BY <1>1, <1>2, <1>3, <2>1, <2>4, <2>5, <4>1 DEF OnTheWay
    <3> QED
      BY <1>1, <1>2, <1>3, <2>5, <3>1 DEF SmtpInv, Early
  <2>6. CASE AbortAfter(<<w>>)
    <3>1. st' = "end" /\ result' = "failure" /\ out' = Append(o, Quit)
      <4>1. out' = out \o <<w>> \o <<Quit>> /\ st' = "end" /\ result' = "failure"
        BY <2>6 DEF AbortAfter, Ends
      <4>2. out \o <<w>> = o
        BY <2>2, <2>3, AppendIsConcat DEF NetIndex, NetTypeOK
      <4>3. o \o <<Quit>> = Append(o, Quit)
        BY Writes, AppendIsConcat
      <4> QED
        BY <4>1, <4>2, <4>3
    <3>2. /\ Len(out') = Len(o) + 1 /\ out'[Len(o) + 1] = Quit
          /\ \A i \in 1 .. Len(o) : out'[i] = o[i]
      BY <3>1, Writes, AppendProperties
    <3>3. Quit.text # Dot
      BY DEF Quit, Command, Dot
    <3>4. ASSUME NEW i \in 1 .. Len(out) PROVE out[i].text # Dot
      <4>1. Len(text) + i \in 1 .. Len(mail)
        BY <1>3, <2>1
      <4> QED
        BY <1>3, <4>1, StuffedLine
    <3>5. NoDot'
      <4>1. \A i \in 1 .. Len(o) : o[i].text # Dot
        BY <1>3, <2>2, <2>4, <3>4
      <4>2. ASSUME NEW i \in 1 .. Len(out') PROVE out'[i].text # Dot
        <5>1. i \in 1 .. Len(o) \/ i = Len(o) + 1
          BY <1>3, <2>4, <3>2
        <5>2. CASE i \in 1 .. Len(o)
          BY <3>2, <4>1, <5>2
        <5>3. CASE i = Len(o) + 1
          BY <3>2, <3>3, <5>3
        <5> QED
          BY <5>1, <5>2, <5>3
      <4> QED
        BY <4>2 DEF NoDot
    <3> QED
      BY <1>1, <1>3, <3>1, <3>5 DEF SmtpInv, Early
  <2> QED
    BY <1>5, <2>2, <2>3, <2>5, <2>6 DEF SendLine
<1> QED
  BY <1>4, <1>5

-----------------------------------------------------------------------------
(* The server.                                                             *)

\* A greeting is no answer that matters.
LEMMA SmtpGreets ==
  ASSUME SmtpInv, NetIndex, setup.kind = "smtp", Greet
  PROVE  SmtpInv'
<1>1. PICK v \in {"220", "554"} :
        Heard(v) /\ mode = "greet" /\ mode' = "command" /\ UNCHANGED <<setup, st, sent, result, out, text, taken>>
  BY Greeting
<1>2. BuffersOK /\ ~Came("354") => ~Came("354")'
  BY <1>1, HeardCame
<1>3. BuffersOK /\ NoDot' = NoDot /\ WholeMail' = WholeMail /\ \A n : ~OnTheWay(n) /\ ~Ending(n)
  BY <1>1, SameMail DEF NoDot, OnTheWay, Ending, NetIndex
<1>4. st \notin {"lines", "done"} /\ (st = "end" => NoDot)
      /\ (st \in Early \cup {"data"} => ~Came("354"))
  BY <1>1, <1>3, EmptySeq, LenProperties DEF SmtpInv
<1> QED
  BY <1>1, <1>2, <1>3, <1>4 DEF SmtpInv, Early

\* The server reads a command, a line, or the end, and takes the whole mail or nothing.
LEMMA SmtpServerInv ==
  ASSUME SmtpInv, NetIndex, SmtpServer
  PROVE  SmtpInv'
<1>1. ServerStep /\ BuffersOK' /\ SmtpReads /\ setup.kind = "smtp" /\ BuffersOK
  BY SmtpServes DEF SmtpServer, NetIndex
<1>2. /\ Len(out) \in Nat /\ Len(out) > 0 /\ Len(out') = Len(out) - 1
      /\ \A i \in 1 .. Len(out') : out'[i] = out[i + 1] /\ i + 1 \in 1 .. Len(out)
      /\ 1 \in 1 .. Len(out) /\ out # <<>>
      /\ UNCHANGED <<setup, inp, st, sent, result>> /\ mail' = mail /\ WholeMail' = WholeMail
  <2>1. /\ Len(out) \in Nat /\ Len(out) > 0 /\ Len(out') = Len(out) - 1
        /\ \A i \in 1 .. Len(out) - 1 : out'[i] = out[i + 1]
        /\ UNCHANGED <<setup, inp, st, sent, result>>
    BY <1>1, Written DEF NetIndex, NetTypeOK, ServerStep, clientVars
  <2> QED
    BY <1>1, <2>1, SameMail DEF ServerStep
<1>3. NoDot => NoDot'
  BY <1>2 DEF NoDot
<1>4. CASE /\ mode = "command" /\ UNCHANGED serverVars
           /\ \E v \in {"250", "550", "221", "500", "503"} : Heard(v)
  <2>1. ~Came("354") => ~Came("354")'
    BY <1>1, <1>4, HeardCame
  <2>2. UNCHANGED <<mode, text, taken>>
    BY <1>4 DEF serverVars
  <2>3. \A n : ~OnTheWay(n) /\ ~Ending(n)
    BY <1>4 DEF OnTheWay, Ending
  <2>4. st \notin {"lines", "done"} /\ (st = "end" => NoDot)
        /\ (st \in Early \cup {"data"} => ~Came("354"))
    BY <1>2, <1>4, <2>3 DEF SmtpInv
  <2>5. st \in Early => \A i \in 1 .. Len(out') : out'[i].is # "DATA"
    BY <1>2 DEF SmtpInv
  <2>6. st = "data" => \A i \in 1 .. Len(out') - 1 : out'[i].is # "DATA"
    <3> SUFFICES ASSUME st = "data", NEW i \in 1 .. Len(out') - 1 PROVE out'[i].is # "DATA"
      OBVIOUS
    <3>1. i \in 1 .. Len(out') /\ i + 1 \in 1 .. Len(out) - 1
      BY <1>2
    <3>2. \A j \in 1 .. Len(out) - 1 : out[j].is # "DATA"
      BY <1>4 DEF SmtpInv
    <3> QED
      BY <1>2, <3>1, <3>2
  <2> QED
    BY <1>2, <1>3, <1>4, <2>1, <2>2, <2>4, <2>5, <2>6 DEF SmtpInv, Early
<1>5. CASE /\ mode = "command" /\ out[1].is = "DATA" /\ Heard("354")
           /\ mode' = "data" /\ text' = <<>> /\ UNCHANGED <<need, exists, taken>>
  <2>1. \A n : ~OnTheWay(n) /\ ~Ending(n)
    BY <1>5 DEF OnTheWay, Ending
  <2>2. st \in {"data", "quit", "end"} /\ (st = "end" => NoDot)
    BY <1>2, <1>5, <2>1 DEF SmtpInv
  <2>3. CASE st = "data"
    <3>1. ~Came("354") /\ \A i \in 1 .. Len(out) - 1 : out[i].is # "DATA"
      BY <1>5, <2>3 DEF SmtpInv
    <3>2. Len(out') = 0
      <4>1. ~(1 \in 1 .. Len(out) - 1)
        BY <1>5, <3>1
      <4> QED
        BY <1>2, <4>1
    <3>3. out' = <<>>
      BY <1>1, <3>2, Written, EmptySeq DEF NetIndex, NetTypeOK, ServerStep
    <3>4. GoesOn'
      BY <1>1, <1>5, <3>1, HeardCame
    <3> QED
      BY <1>2, <1>3, <1>5, <2>3, <3>3, <3>4 DEF SmtpInv, Early
  <2>4. CASE st \in {"quit", "end"}
    BY <1>2, <1>3, <1>5, <2>2, <2>4 DEF SmtpInv, Early
  <2> QED
    BY <2>2, <2>3, <2>4
<1>6. CASE /\ mode = "data" /\ out[1].text # Dot /\ wire' = wire
           /\ text' = Append(text, Unstuffed(out[1].text)) /\ UNCHANGED <<mode, need, exists, taken>>
  <2>1. Coming' = Coming /\ \A v : Came(v)' = Came(v)
    <3>1. Coming' = Coming
      BY <1>2, <1>6, SameComing
    <3> QED
      BY <3>1 DEF Came
  <2>2. ASSUME NEW n \in Nat, OnTheWay(n), n > 0 PROVE OnTheWay(n - 1)'
    <3>1. text \in Seq(Seq(Symbol)) /\ out[1].text \in Seq(Symbol)
      BY <1>1, FirstWritten DEF NetIndex, NetTypeOK, WrittenType
    <3>2. PICK u \in Seq(Symbol) : u = Unstuffed(out[1].text)
      BY <3>1, HeadTailProperties DEF Unstuffed
    <3>3. /\ Len(text) \in Nat /\ Len(text') = Len(text) + 1 /\ text'[Len(text) + 1] = u
          /\ \A i \in 1 .. Len(text) : text'[i] = text[i]
      BY <1>6, <3>1, <3>2, AppendProperties, LenProperties
    <3>4. Len(text) + 1 \in 1 .. Len(mail) /\ out[1].text = Stuffed(mail[Len(text) + 1])
      <4>1. sent \in 0 .. Len(mail) /\ Len(mail) \in Nat
        BY MailType DEF NetIndex, NetTypeOK
      <4>2. sent = Len(text) + n /\ 1 \in 1 .. n /\ Len(text) + 1 \in 1 .. Len(mail)
        BY <2>2, <3>3, <4>1 DEF OnTheWay
      <4> QED
        BY <2>2, <4>2 DEF OnTheWay
    <3>5. u = Body(mail[Len(text) + 1])
      BY <3>2, <3>4, StuffedLine
    <3>6. ASSUME NEW i \in 1 .. Len(text') PROVE text'[i] = Body(mail[i])
      <4>1. CASE i \in 1 .. Len(text)
        BY <2>2, <3>3, <4>1 DEF OnTheWay
      <4>2. CASE i = Len(text) + 1
        BY <3>3, <3>5, <4>2
      <4> QED
        BY <3>3, <4>1, <4>2
    <3>7. ASSUME NEW i \in 1 .. n - 1 PROVE out'[i].text = Stuffed(mail[Len(text') + i])
      <4>1. i \in 1 .. Len(out') /\ i + 1 \in 1 .. n /\ Len(text) + (i + 1) = Len(text') + i
        BY <1>2, <2>2, <3>3 DEF OnTheWay
      <4>2. out[i + 1].text = Stuffed(mail[Len(text) + (i + 1)])
        BY <2>2, <4>1 DEF OnTheWay
      <4> QED
        BY <1>2, <4>1, <4>2
    <3>8. n - 1 \in Nat /\ n - 1 <= Len(out') /\ sent' = Len(text') + (n - 1)
      <4>1. PICK m \in Nat : m = Len(text)
        BY <3>3
      <4>2. sent' = m + n /\ Len(text') = m + 1 /\ n <= Len(out)
        BY <1>2, <2>2, <3>3, <4>1 DEF OnTheWay
      <4> QED
        BY <1>2, <2>2, <4>2
    <3>9. mode' = "data" /\ taken' = <<>>
      BY <1>6, <2>2 DEF OnTheWay
    <3> QED
      BY <1>2, <3>6, <3>7, <3>8, <3>9 DEF OnTheWay
  <2>3. ASSUME NEW n \in Nat, Ending(n) PROVE n > 0 /\ Ending(n - 1)'
    <3>1. n # 0
      BY <1>6, <2>3 DEF Ending
    <3>2. n > 0 /\ OnTheWay(n - 1)'
      BY <2>2, <2>3, <3>1 DEF Ending
    <3>3. n + 1 \in 1 .. Len(out) /\ n \in 1 .. Len(out') /\ out'[n] = out[n + 1]
      BY <1>2, <2>3, <3>2 DEF Ending
    <3>4. ASSUME NEW i \in n + 1 .. Len(out') PROVE out'[i].text # Dot
      <4>1. i \in 1 .. Len(out') /\ i + 1 \in n + 2 .. Len(out)
        BY <1>2
      <4> QED
        BY <1>2, <2>3, <4>1 DEF Ending
    <3>5. (n - 1) + 1 = n /\ (n - 1) + 2 = n + 1 /\ n - 1 < Len(out')
      BY <1>2, <3>3
    <3> QED
      BY <1>2, <2>3, <3>2, <3>3, <3>4, <3>5 DEF Ending
  <2>4. st \in {"lines", "done", "quit", "end"}
    BY <1>2, <1>6 DEF SmtpInv
  <2>5. CASE st = "lines"
    <3>1. PICK n \in Nat : n = Len(out)
      BY <1>2
    <3>2. OnTheWay(n) /\ n > 0 /\ ~Came("250") /\ taken = <<>>
      BY <1>2, <2>5, <3>1 DEF SmtpInv, OnTheWay
    <3>3. OnTheWay(n - 1)' /\ n - 1 = Len(out')
      BY <1>2, <2>2, <3>1, <3>2
    <3>4. OnTheWay(Len(out))'
      BY <3>3 DEF OnTheWay
    <3> QED
      BY <1>2, <1>6, <2>1, <2>5, <3>2, <3>4 DEF SmtpInv, Early
  <2>6. CASE st = "done"
    <3>1. PICK n \in Nat : Ending(n) /\ Len(out) = n + 1 /\ ~Came("250")
      BY <1>2, <2>6 DEF SmtpInv
    <3>2. PICK m \in Nat : m = n - 1 /\ Ending(m)'
      BY <2>3, <3>1
    <3>3. Len(out') = m + 1
      BY <1>2, <3>1, <3>2
    <3>4. taken' \in {<<>>, <<WholeMail'>>}
      BY <1>2, <1>6 DEF SmtpInv
    <3> QED
      BY <1>2, <2>1, <2>6, <3>1, <3>2, <3>3, <3>4 DEF SmtpInv, Early
  <2>7. CASE st \in {"quit", "end"}
    <3>1. st = "end" => NoDot' \/ \E n \in Nat : Ending(n)'
      <4>1. ASSUME NEW n \in Nat, Ending(n) PROVE \E m \in Nat : Ending(m)'
        <5>1. PICK m \in Nat : m = n - 1 /\ Ending(m)'
          BY <2>3, <4>1
        <5> QED
          BY <5>1
      <4> QED
        BY <1>3, <4>1 DEF SmtpInv
    <3> QED
      BY <1>2, <1>3, <1>6, <2>7, <3>1 DEF SmtpInv, Early
  <2> QED
    BY <2>4, <2>5, <2>6, <2>7
<1>7. CASE /\ mode = "data" /\ out[1].text = Dot /\ mode' = "command" /\ UNCHANGED <<need, text, exists>>
           /\ \/ Heard("250") /\ taken' = Append(taken, text)
              \/ Heard("554") /\ UNCHANGED taken
  <2>1. ~NoDot
    BY <1>2, <1>7 DEF NoDot
  <2>2. ASSUME NEW n \in Nat, OnTheWay(n) PROVE n = 0
    <3> SUFFICES ASSUME n # 0 PROVE FALSE
      OBVIOUS
    <3>1. text \in Seq(Seq(Symbol)) /\ sent \in 0 .. Len(mail) /\ Len(mail) \in Nat
      BY <1>1, MailType DEF NetIndex, NetTypeOK
    <3>2. Len(text) \in Nat /\ 1 \in 1 .. n /\ Len(text) + 1 \in 1 .. Len(mail)
      BY <2>2, <3>1, LenProperties DEF OnTheWay
    <3>3. out[1].text = Stuffed(mail[Len(text) + 1])
      BY <2>2, <3>2 DEF OnTheWay
    <3> QED
      BY <1>7, <3>2, <3>3, StuffedLine
  <2>3. ASSUME NEW n \in Nat, Ending(n)
        PROVE  n = 0 /\ taken = <<>> /\ NoDot' /\ text = WholeMail
    <3>1. n = 0
      BY <2>2, <2>3 DEF Ending
    <3>2. /\ Len(text) = Len(mail) /\ taken = <<>> /\ \A i \in 1 .. Len(text) : text[i] = Body(mail[i])
          /\ \A i \in 2 .. Len(out) : out[i].text # Dot
      <4>1. text \in Seq(Seq(Symbol)) /\ Len(mail) \in Nat
        BY <1>1, MailType DEF NetIndex, NetTypeOK
      <4>2. Len(text) \in Nat
        BY <4>1, LenProperties
      <4> QED
        BY <2>3, <3>1, <4>1, <4>2 DEF Ending, OnTheWay
    <3>3. NoDot'
      <4>1. \A i \in 1 .. Len(out') : i + 1 \in 2 .. Len(out)
        BY <1>2
      <4> QED
        BY <1>2, <3>2, <4>1 DEF NoDot
    <3>4. text = WholeMail
      <4>1. text \in Seq(Seq(Symbol)) /\ Len(mail) \in Nat
        BY <1>1, MailType DEF NetIndex, NetTypeOK
      <4>2. text = [i \in 1 .. Len(text) |-> text[i]]
        BY <4>1
      <4> QED
        BY <3>2, <4>2 DEF WholeMail
    <3> QED
      BY <3>1, <3>2, <3>3, <3>4
  <2>4. ASSUME taken = <<>>, text = WholeMail
        PROVE  \/ Heard("250") /\ taken' = <<WholeMail>>
               \/ Heard("554") /\ taken' = <<>>
    BY <1>7, <2>4
  <2>5. st \in {"done", "end"} /\ result # "success" /\ \E n \in Nat : Ending(n)
    <3>1. st \in {"lines", "done", "end"}
      BY <1>2, <1>7, <2>1 DEF SmtpInv
    <3>2. st # "lines"
      <4> SUFFICES ASSUME st = "lines" PROVE FALSE
        OBVIOUS
      <4>1. PICK n \in Nat : n = Len(out)
        BY <1>2
      <4>2. OnTheWay(n) /\ n # 0
        BY <1>2, <4>1 DEF SmtpInv
      <4> QED
        BY <2>2, <4>2
    <3>3. \E n \in Nat : Ending(n)
      BY <1>2, <2>1, <3>1, <3>2 DEF SmtpInv
    <3>4. taken = <<>>
      BY <3>3, <2>3
    <3>5. result # "success"
      <4>1. CASE st = "end"
        BY <3>4, <4>1 DEF SmtpInv
      <4>2. CASE st # "end"
        BY <4>2 DEF NetIndex, NetTypeOK
      <4> QED
        BY <4>1, <4>2
    <3> QED
      BY <3>1, <3>2, <3>3, <3>5
  <2>6. CASE st = "done"
    <3>1. PICK n \in Nat : Ending(n) /\ Len(out) = n + 1 /\ ~Came("250")
      BY <1>2, <2>6 DEF SmtpInv
    <3>2. n = 0 /\ taken = <<>> /\ text = WholeMail
      BY <2>3, <3>1
    <3>3. out' = <<>>
      <4>1. Len(out') = 0
        BY <1>2, <3>1, <3>2
      <4> QED
        BY <1>1, <4>1, Written, EmptySeq DEF NetIndex, NetTypeOK, ServerStep
    <3>4. Came("250")' => taken' = <<WholeMail>>
      BY <1>1, <2>4, <3>1, <3>2, HeardCame
    <3> QED
      BY <1>2, <1>7, <2>4, <2>6, <3>2, <3>3, <3>4 DEF SmtpInv, Early
  <2>7. CASE st = "end"
    <3>1. NoDot' /\ taken = <<>> /\ text = WholeMail
      BY <2>3, <2>5
    <3> QED
      BY <1>2, <2>4, <2>5, <2>7, <3>1 DEF SmtpInv, Early
  <2> QED
    BY <2>5, <2>6, <2>7
<1> QED
  BY <1>1, <1>4, <1>5, <1>6, <1>7 DEF SmtpReads

-----------------------------------------------------------------------------
(* All of the steps together.                                              *)

\* While the connection is opened no answer is made up,
LEMMA SmtpOpens ==
  ASSUME SmtpInv, NetIndex, NetIndex', setup.kind = "smtp", Opening
  PROVE  SmtpInv'
<1>1. PICK p \in Nat : Thinned(p)
  BY OpeningThins
<1>2. \A v \in {"250", "354"} : Came(v)' => Came(v)
  BY <1>1, NothingNew DEF NetIndex, Word
<1>3. UNCHANGED <<setup, st, result, sent, out, mode, text, taken>> /\ st # "data"
  BY DEF Opening, clientVars, serverVars
<1> QED
  BY <1>2, <1>3, SmtpKept

\* The proxy only speaks while the connection is being opened, or when it failed.
LEMMA ProxySpeaks ==
  ASSUME NetIndex, Through
  PROVE  /\ st \in {"connect", "end"} /\ Relayed
         /\ conn \in {"failed", "fatal"} \/ Coming = <<>>
         /\ UNCHANGED <<setup, st, sent, polled, result, conn, out, mode, need, text, exists, taken>>
<1>1. /\ InStep /\ Relayed /\ asked # "none"
      /\ conn \in {"http", "method", "auth", "request"} => Coming = <<>>
  BY ProxyInStep DEF NetIndex, NetTypeOK
<1>2. conn \in {"http", "method", "auth", "request", "failed", "fatal"}
  BY <1>1 DEF InStep, NetIndex, NetTypeOK
<1>3. st \in {"connect", "end"}
  BY <1>2 DEF NetIndex, Before
<1>4. UNCHANGED conn
  BY DEF Through, Proxy, ProxyHttp, ProxyMethod, ProxyAuth, ProxyReply, ProxySays
<1> QED
  BY <1>1, <1>2, <1>3, <1>4 DEF Through, clientVars, serverVars

\* nor by the proxy,
LEMMA SmtpThrough ==
  ASSUME SmtpInv, NetIndex, setup.kind = "smtp", Through
  PROVE  SmtpInv'
<1>1. \A v : Came(v)' => Came(v)
  BY ProxySpeaks, RelayedCame DEF NetIndex
<1> QED
  BY <1>1, ProxySpeaks, SmtpKept

\* nor by a stutter.
LEMMA SmtpSame == SmtpInv /\ UNCHANGED netVars => SmtpInv'
<1> SUFFICES ASSUME SmtpInv, UNCHANGED netVars PROVE SmtpInv'
  OBVIOUS
<1>1. UNCHANGED <<setup, st, result, sent, out, mode, text, taken>> /\ UNCHANGED <<inp, wire>>
  BY DEF netVars, connVars, clientVars, serverVars
<1>2. Coming' = Coming
  BY <1>1, SameComing
<1>3. (\A v : Came(v)' = Came(v)) /\ GoesOn' = GoesOn
  BY <1>2 DEF Came, GoesOn
<1> QED
  BY <1>1, <1>3, SmtpKept

SmtpIndex == NetIndex /\ (setup.kind = "smtp" => SmtpInv)

\* The setup is one for all of the delivery.
LEMMA SetupStays == [NetNext]_netVars => setup' = setup
BY DEF NetNext, Client, Opening, Connected, SmtpReply, SmtpPoll, ImapPoll, Untagged, ImapReply,
   ReadLine, SendLine, SendEnd, Through, NetEnded, netVars, Greet, AnyOf, Answers, SmtpServer,
   SmtpCommand, SmtpData, SmtpLine, SmtpDot, ImapServer, ImapCommand, ImapCreates, ImapFolder,
   ImapRefuses, ImapLiteral, Replies

\* Every step keeps the invariant of a delivery over SMTP,
LEMMA SmtpIndexStep == SmtpIndex /\ [NetNext]_netVars => SmtpIndex'
<1> SUFFICES ASSUME SmtpIndex, [NetNext]_netVars PROVE SmtpIndex'
  OBVIOUS
<1>1. NetIndex /\ NetIndex'
  BY IndexStep DEF SmtpIndex
<1>2. setup' = setup
  BY SetupStays
<1>3. ASSUME setup.kind = "smtp" PROVE SmtpInv'
  <2>0. SmtpInv /\ NetIndex /\ NetIndex' /\ setup.kind = "smtp"
    BY <1>1, <1>3 DEF SmtpIndex
  <2>1. ~ImapPoll /\ ~Untagged /\ ~ImapReply
    BY <2>0 DEF SmtpInv, Early, ImapPoll, Untagged, ImapReply, WaitsAppend, WaitsLn
  <2>2. ~ImapServer
    BY <2>0 DEF ImapServer
  <2>3. CASE Opening
    BY <2>0, <2>3, SmtpOpens
  <2>4. CASE Connected
    BY <2>0, <2>4, SmtpConnects
  <2>5. CASE SmtpReply
    BY <2>0, <2>5, SmtpGoesOn
  <2>6. CASE SmtpPoll
    BY <2>0, <2>6, SmtpPolls
  <2>7. CASE SendLine \/ SendEnd
    BY <2>0, <2>7, SmtpWritesLines
  <2>8. CASE Through
    BY <2>0, <2>8, SmtpThrough
  <2>9. CASE Greet
    BY <2>0, <2>9, SmtpGreets
  <2>10. CASE SmtpServer
    BY <2>0, <2>10, SmtpServerInv
  <2>11. CASE UNCHANGED netVars
    BY <2>0, <2>11, SmtpSame
  <2> QED
    BY <2>1, <2>2, <2>3, <2>4, <2>5, <2>6, <2>7, <2>8, <2>9, <2>10, <2>11 DEF NetNext, Client, NetEnded
<1> QED
  BY <1>1, <1>2, <1>3 DEF SmtpIndex

\* which holds at the start.
LEMMA SmtpIndexInit == NetInit => SmtpIndex
<1> SUFFICES ASSUME NetInit PROVE SmtpIndex
  OBVIOUS
<1>1. Len(Coming) = 0 /\ Len(out) = 0
  BY ConcatEmptySeq DEF NetInit, ConnectInit, Coming
<1>2. NoDot /\ ~Came("354") /\ \A i \in 1 .. Len(out) : out[i].is # "DATA"
  BY <1>1 DEF NoDot, Came
<1> QED
  BY <1>2, IndexInit DEF SmtpIndex, SmtpInv, NetInit, Early

-----------------------------------------------------------------------------
(* The text of a mail over IMAP.                                           *)

\* One more line of a prefix of the lines.
LEMMA PrefixFlattens ==
  ASSUME NEW T, NEW s \in Seq(Seq(T)), NEW k \in Nat, k + 1 <= Len(s)
  PROVE  /\ FlattenSeq([i \in 1 .. k |-> s[i]]) \in Seq(T) /\ s[k + 1] \in Seq(T)
         /\ FlattenSeq([i \in 1 .. k + 1 |-> s[i]]) = FlattenSeq([i \in 1 .. k |-> s[i]]) \o s[k + 1]
<1>1. Len(s) \in Nat /\ \A i \in 1 .. Len(s) : s[i] \in Seq(T)
  BY LenProperties, ElementOfSeq
<1>2. PICK p : p = [i \in 1 .. k |-> s[i]]
  OBVIOUS
<1>3. PICK q : q = [i \in 1 .. k + 1 |-> s[i]]
  OBVIOUS
<1>4. PICK x \in Seq(T) : x = s[k + 1]
  BY <1>1
<1>5. p \in Seq(Seq(T)) /\ q \in Seq(Seq(T)) /\ Len(p) = k /\ Len(q) = k + 1
  <2>1. p \in [1 .. k -> Seq(T)] /\ q \in [1 .. k + 1 -> Seq(T)]
    BY <1>1, <1>2, <1>3
  <2>2. p \in Seq(Seq(T)) /\ q \in Seq(Seq(T))
    BY <2>1, IsASeq
  <2> QED
    BY <2>1, <2>2, LenProperties
<1>6. q = Append(p, x)
  <2>1. PICK r \in Seq(Seq(T)) : r = Append(p, x)
    BY <1>5, AppendProperties
  <2>2. Len(r) = k + 1 /\ r[k + 1] = x /\ \A i \in 1 .. k : r[i] = p[i]
    BY <1>5, <2>1, AppendProperties
  <2>3. ASSUME NEW i \in 1 .. k + 1 PROVE q[i] = r[i]
    <3>1. CASE i \in 1 .. k
      BY <1>2, <1>3, <2>2, <3>1
    <3>2. CASE i = k + 1
      BY <1>3, <1>4, <2>2, <3>2
    <3>3. i \in 1 .. k \/ i = k + 1
      OBVIOUS
    <3> QED
      BY <3>1, <3>2, <3>3
  <2>4. q = r
    BY <1>5, <2>2, <2>3, SeqEqual
  <2> QED
    BY <2>1, <2>4
<1>7. FlattenSeq(Append(p, x)) = FlattenSeq(p) \o x
  BY <1>5, FlattenAppend
<1>8. FlattenSeq(p) \in Seq(T)
  BY <1>5, FlattenType
<1> QED
  BY <1>1, <1>2, <1>3, <1>4, <1>6, <1>7, <1>8

\* Of no line the server has nothing,
LEMMA WiredNone == Wired(0) = <<>>
<1>1. [i \in 1 .. 0 |-> Body(mail[i]) \o <<CR, LF>>] = <<>>
  OBVIOUS
<1> QED
  BY <1>1, FlattenEmpty DEF Wired

\* each line is one byte longer than in the mail, for its CR,
LEMMA WiredLine ==
  ASSUME setup \in Setups, NEW i \in 1 .. Len(mail)
  PROVE  /\ Body(mail[i]) \o <<CR, LF>> \in Seq(Symbol)
         /\ Len(Body(mail[i]) \o <<CR, LF>>) = Len(mail[i]) + 1
         /\ Len(mail[i]) \in Nat /\ Len(mail[i]) > 0
<1>1. PICK l \in MailLines : l = mail[i]
  BY MailType
<1>2. PICK b \in Seq(Symbol) : b = Body(l) /\ Len(b) = Len(l) - 1 /\ Len(l) \in Nat /\ Len(l) > 0
  BY OneLine
<1>3. PICK e \in Seq(Symbol) : e = <<CR, LF>> /\ Len(e) = 2
  BY Writes
<1>4. PICK c : c = b \o e
  OBVIOUS
<1>5. c \in Seq(Symbol) /\ Len(c) = Len(b) + Len(e)
  BY <1>4, Joined
<1>6. Len(c) = Len(l) + 1
  BY <1>2, <1>3, <1>5
<1> QED
  BY <1>1, <1>2, <1>3, <1>4, <1>5, <1>6

\* and comes behind those before it.
LEMMA WiredNext ==
  ASSUME setup \in Setups, NEW k \in Nat, k + 1 <= Len(mail)
  PROVE  /\ Wired(k) \in Seq(Symbol)
         /\ Wired(k + 1) = Wired(k) \o (Body(mail[k + 1]) \o <<CR, LF>>)
         /\ Wired(k + 1) \in Seq(Symbol)
         /\ Len(Wired(k + 1)) = Len(Wired(k)) + Len(mail[k + 1]) + 1
         /\ Len(Wired(k)) \in Nat /\ Len(mail[k + 1]) \in Nat /\ Len(mail[k + 1]) > 0
<1>1. PICK n \in Nat : n = Len(mail)
  BY MailType
<1>2. PICK s : s = [i \in 1 .. n |-> Body(mail[i]) \o <<CR, LF>>]
  OBVIOUS
<1>3. s \in Seq(Seq(Symbol)) /\ Len(s) = n
  <2>1. s \in [1 .. n -> Seq(Symbol)]
    BY <1>1, <1>2, WiredLine
  <2>2. s \in Seq(Seq(Symbol))
    BY <2>1, IsASeq
  <2> QED
    BY <2>1, <2>2, LenProperties
<1>4. k + 1 \in 1 .. n /\ k <= n /\ \A i \in 1 .. k + 1 : i \in 1 .. n
  BY <1>1
<1>12. \A i \in 1 .. n : s[i] = Body(mail[i]) \o <<CR, LF>>
  BY <1>2
<1>5. [i \in 1 .. k |-> s[i]] = [i \in 1 .. k |-> Body(mail[i]) \o <<CR, LF>>]
  <2>1. \A i \in 1 .. k : i \in 1 .. n
    BY <1>4
  <2> QED
    BY <1>12, <2>1
<1>6. [i \in 1 .. k + 1 |-> s[i]] = [i \in 1 .. k + 1 |-> Body(mail[i]) \o <<CR, LF>>]
  BY <1>4, <1>12
<1>7. /\ FlattenSeq([i \in 1 .. k |-> s[i]]) \in Seq(Symbol)
      /\ FlattenSeq([i \in 1 .. k + 1 |-> s[i]]) = FlattenSeq([i \in 1 .. k |-> s[i]]) \o s[k + 1]
  <2>1. k + 1 <= Len(s)
    BY <1>3, <1>4
  <2> QED
    BY <1>3, <2>1, PrefixFlattens
<1>8. PICK v, w, x : v \in Seq(Symbol) /\ x \in Seq(Symbol)
        /\ v = Wired(k) /\ w = Wired(k + 1) /\ x = s[k + 1] /\ w = v \o x
  <2>1. s[k + 1] \in Seq(Symbol)
    BY <1>3, <1>4, ElementOfSeq
  <2> QED
    BY <1>5, <1>6, <1>7, <2>1 DEF Wired
<1>9. w \in Seq(Symbol) /\ Len(w) = Len(v) + Len(x)
  <2>1. v \in Seq(Symbol) /\ x \in Seq(Symbol) /\ w = v \o x
    BY <1>8
  <2> QED
    BY <2>1, Joined
<1>10. x = Body(mail[k + 1]) \o <<CR, LF>> /\ Len(x) = Len(mail[k + 1]) + 1
       /\ Len(mail[k + 1]) \in Nat /\ Len(mail[k + 1]) > 0
  <2>1. x = Body(mail[k + 1]) \o <<CR, LF>> /\ k + 1 \in 1 .. Len(mail)
    BY <1>1, <1>2, <1>4, <1>8
  <2> QED
    BY <2>1, WiredLine
<1>11. Len(v) \in Nat
  BY LenProperties
<1>13. Len(w) = Len(v) + Len(mail[k + 1]) + 1
  <2>1. PICK b \in Nat : b = Len(mail[k + 1]) /\ Len(x) = b + 1
    BY <1>10
  <2>2. Len(w) = Len(v) + b + 1
    BY <1>9, <1>11, <2>1
  <2> QED
    BY <2>1, <2>2
<1> QED
  BY <1>8, <1>9, <1>10, <1>11, <1>13

\* It is as long as the lines, each with one character more.
LEMMA WiredLen ==
  ASSUME setup \in Setups
  PROVE  Wired(Len(mail)) \in Seq(Symbol) /\ Len(Wired(Len(mail))) = MailLen + 1
<1>1. PICK n \in Nat : n = Len(mail) /\ n > 0
  BY MailType
<1>2. PICK m \in Seq(Seq(Char)) : m = mail /\ Len(m) = n
  BY <1>1, MailType
<1> DEFINE F(k) == FlattenSeq([i \in 1 .. k |-> m[i]])
<1> DEFINE S == {k \in Nat : k <= n => Len(Wired(k)) = Len(F(k)) + k}
<1>3. 0 \in S
  <2>1. [i \in 1 .. 0 |-> m[i]] = <<>>
    OBVIOUS
  <2>2. F(0) = <<>>
    BY <2>1, FlattenEmpty
  <2>3. Len(Wired(0)) = 0 /\ Len(F(0)) = 0
    BY <2>2, WiredNone
  <2> QED
    BY <2>3
<1>4. ASSUME NEW k \in Nat, k \in S PROVE k + 1 \in S
  <2> SUFFICES ASSUME k + 1 <= n PROVE Len(Wired(k + 1)) = Len(F(k + 1)) + (k + 1)
    OBVIOUS
  <2>1. k + 1 <= Len(mail)
    BY <1>1
  <2>2. /\ Len(Wired(k + 1)) = Len(Wired(k)) + Len(mail[k + 1]) + 1
        /\ Len(Wired(k)) \in Nat /\ Len(mail[k + 1]) \in Nat
    BY <2>1, WiredNext
  <2>3. F(k) \in Seq(Char) /\ m[k + 1] \in Seq(Char) /\ F(k + 1) = F(k) \o m[k + 1]
    BY <1>2, PrefixFlattens
  <2>4. PICK a, b, c : a = F(k) /\ b = m[k + 1] /\ c = F(k + 1)
    OBVIOUS
  <2>5. a \in Seq(Char) /\ b \in Seq(Char) /\ c = a \o b
    BY <2>3, <2>4
  <2>6. Len(c) = Len(a) + Len(b) /\ Len(a) \in Nat /\ Len(b) \in Nat
    BY <2>5, ConcatProperties, LenProperties
  <2>7. Len(Wired(k)) = Len(a) + k
    <3>1. k <= n
      BY <1>1
    <3> QED
      BY <1>4, <2>4, <3>1
  <2>8. b = mail[k + 1]
    BY <1>2, <2>4
  <2>9. PICK p, q, r : /\ p = Len(Wired(k + 1)) /\ q = Len(a) /\ r = Len(b) /\ p = (q + k) + r + 1
                       /\ q \in Nat /\ r \in Nat
    <3>1. Len(Wired(k + 1)) = (Len(a) + k) + Len(b) + 1
      BY <2>2, <2>7, <2>8
    <3> QED
      BY <2>6, <3>1
  <2>10. Len(c) = q + r
    BY <2>6, <2>9
  <2>11. p = Len(c) + (k + 1)
    BY <2>9, <2>10
  <2> QED
    BY <2>4, <2>9, <2>11
<1>5. n \in S
  <2> HIDE DEF S
  <2>1. Nat \subseteq S
    BY <1>3, <1>4, Induction
  <2> QED
    BY <2>1
<1>6. Len(Wired(n)) = Len(F(n)) + n
  BY <1>5
<1>7. F(n) = FlattenSeq(mail)
  <2>1. [i \in 1 .. n |-> m[i]] = m
    BY <1>2
  <2> QED
    BY <1>2, <2>1
<1>8. FlattenSeq(m) \in Seq(Char)
  BY FlattenType
<1>9. Len(FlattenSeq(mail)) \in Nat
  BY <1>2, <1>8, LenProperties
<1>10. PICK k \in Nat : k + 1 = n
  <2>1. n - 1 \in Nat /\ (n - 1) + 1 = n
    BY <1>1
  <2> QED
    BY <2>1
<1>11. Wired(n) \in Seq(Symbol)
  <2>1. k + 1 <= Len(mail)
    BY <1>1, <1>10
  <2>2. Wired(k + 1) \in Seq(Symbol)
    BY <2>1, WiredNext
  <2> QED
    BY <1>10, <2>2
<1>12. MailLen + 1 = Len(FlattenSeq(mail)) + n
  BY <1>1, <1>9 DEF MailLen
<1> QED
  BY <1>1, <1>6, <1>7, <1>11, <1>12

\* Before its last line there is less of it than a server waits for.
LEMMA WiredLess ==
  ASSUME setup \in Setups, NEW k \in Nat, k < Len(mail)
  PROVE  Len(Wired(k)) < MailLen /\ Len(Wired(k)) \in Nat
<1>1. PICK n \in Nat : n = Len(mail) /\ n > 0
  BY MailType
<1>2. PICK z \in Nat : z = MailLen /\ Len(Wired(n)) = z + 1
  BY <1>1, WiredLen, MailType
<1> DEFINE S == {j \in Nat : \A i \in Nat : i + j = n => Len(Wired(i)) + j + j <= z + 1}
<1>3. 0 \in S
  BY <1>2
<1>4. ASSUME NEW j \in Nat, j \in S PROVE j + 1 \in S
  <2> SUFFICES ASSUME NEW i \in Nat, i + (j + 1) = n PROVE Len(Wired(i)) + (j + 1) + (j + 1) <= z + 1
    OBVIOUS
  <2>1. i + 1 <= Len(mail) /\ (i + 1) + j = n
    BY <1>1
  <2>2. /\ Len(Wired(i + 1)) = Len(Wired(i)) + Len(mail[i + 1]) + 1
        /\ Len(Wired(i)) \in Nat /\ Len(mail[i + 1]) \in Nat /\ Len(mail[i + 1]) > 0
    BY <2>1, WiredNext
  <2>3. PICK a, b, c : /\ a = Len(Wired(i)) /\ b = Len(mail[i + 1]) /\ c = Len(Wired(i + 1))
                       /\ a \in Nat /\ b \in Nat /\ c = a + b + 1 /\ b > 0
    BY <2>2
  <2>4. c + j + j <= z + 1
    BY <1>4, <2>1, <2>3
  <2>5. a + (j + 1) + (j + 1) <= z + 1
    BY <2>3, <2>4
  <2> QED
    BY <2>3, <2>5
<1>5. n - k \in S /\ n - k \in Nat /\ n - k >= 1 /\ k + (n - k) = n
  <2> HIDE DEF S
  <2>1. Nat \subseteq S
    BY <1>3, <1>4, Induction
  <2> QED
    BY <1>1, <2>1
<1>6. PICK j \in S : j = n - k
  BY <1>5
<1>7. Len(Wired(k)) + j + j <= z + 1
  BY <1>5, <1>6
<1>8. Len(Wired(k)) \in Nat
  <2>1. k + 1 <= Len(mail)
    BY <1>1
  <2> QED
    BY <2>1, WiredNext
<1>9. PICK a \in Nat : a = Len(Wired(k))
  BY <1>8
<1>10. a < z
  BY <1>5, <1>6, <1>7, <1>9
<1> QED
  BY <1>2, <1>9, <1>10

-----------------------------------------------------------------------------
(* IMAP: client and server take turns.                                     *)

\* The text stays as it is.
LEMMA SameText ==
  setup' = setup => mail' = mail /\ MailLen' = MailLen /\ WholeText' = WholeText /\ \A k : Wired(k)' = Wired(k)
BY DEF mail, MailLen, WholeText, Wired

\* When the client has asked there is one command to read, and no answer.
LEMMA AskedOf ==
  ASSUME NEW c, NEW n, NEW m, Asks(c, n, m)
  PROVE  /\ out # <<>> /\ out[1].is = c /\ out[1].n = n /\ Tail(out) = <<>>
         /\ Coming = <<>> /\ Len(Coming) = 0 /\ mode = m
BY DEF Asks, Command

\* When it reads an answer there is none left, but behind an untagged line.
LEMMA HasRead ==
  ASSUME BuffersOK', NEW V, NEW m, Has(V, m), "*" \notin V, Lost(1)
  PROVE  /\ out = <<>> /\ mode = m
         /\ Coming[1].v = "*" => \E v \in V : Coming' = <<Server(v)>>
         /\ Coming[1].v # "*" => Coming[1].v \in V /\ Coming' = <<>>
<1>1. Coming' \in Seq(UnitType)
  BY ConcatProperties DEF BuffersOK, Coming
<1>2. PICK v \in V : Coming = <<Server(v)>> \/ Coming = <<Server("*"), Server(v)>>
  BY DEF Has
<1>3. Server("*").v = "*" /\ Server(v).v = v
  BY DEF Server, Unit
<1>4. CASE Coming = <<Server(v)>>
  <2>1. Len(Coming) = 1 /\ Coming[1] = Server(v)
    BY <1>4
  <2>2. Len(Coming') = 0
    BY <2>1 DEF Lost
  <2>3. Coming' = <<>>
    BY <1>1, <2>2, EmptySeq
  <2> QED
    BY <1>3, <2>1, <2>3 DEF Has
<1>5. CASE Coming = <<Server("*"), Server(v)>>
  <2>1. Len(Coming) = 2 /\ Coming[1] = Server("*") /\ Coming[2] = Server(v)
    BY <1>5
  <2>2. Len(Coming') = 1 /\ Coming'[1] = Server(v)
    BY <2>1 DEF Lost
  <2>3. Coming' = <<Server(v)>>
    BY <1>1, <2>2
  <2> QED
    BY <1>3, <2>1, <2>3 DEF Has
<1> QED
  BY <1>2, <1>4, <1>5

\* Steps that touch nothing of it.
LEMMA ImapKept ==
  ASSUME ImapInv, Coming' = Coming, UNCHANGED conn,
         UNCHANGED <<setup, st, sent, result, out, mode, need, text, taken>>
  PROVE  ImapInv'
<1>1. (\A c, n, m : Asks(c, n, m)' = Asks(c, n, m)) /\ \A V, m : Has(V, m)' = Has(V, m)
  BY DEF Asks, Has
<1>2. Filling' = Filling /\ Filled' = Filled
  BY <1>1, SameText DEF Filling, Filled
<1>3. MailLen' = MailLen /\ WholeText' = WholeText /\ mail' = mail
  BY SameText
<1> QED
  BY <1>1, <1>2, <1>3 DEF ImapInv

\* The same for what is taken once.
LEMMA OnceKept ==
  ASSUME Once, UNCHANGED <<out, mode, taken>>
  PROVE  Once'
BY DEF Once

\* What is written in the end, or any command but the folder's name.
LEMMA OnceWritten ==
  ASSUME NetIndex, Once, NEW w \in WrittenType, w.is # "FOLDER", out' = Append(out, w),
         UNCHANGED <<mode, taken>>
  PROVE  Once'
<1>1. /\ Len(out) \in Nat /\ Len(out') = Len(out) + 1 /\ out'[Len(out) + 1] = w
      /\ \A i \in 1 .. Len(out) : out'[i] = out[i]
  BY Written DEF NetIndex, NetTypeOK
<1>2. \A i \in 1 .. Len(out') : out'[i].is = "FOLDER" => i \in 1 .. Len(out) /\ out[i].is = "FOLDER"
  BY <1>1
<1>3. \A i \in 2 .. Len(out') : i \in 1 .. Len(out) => i \in 2 .. Len(out)
  BY <1>1
<1>4. \A i \in 2 .. Len(out') : i \in 1 .. Len(out')
  BY <1>1
<1> QED
  BY <1>2, <1>3, <1>4 DEF Once

\* While the connection is opened no OK is made up,
LEMMA ImapOpens ==
  ASSUME ImapInv, NetIndex, NetIndex', setup.kind = "imap", Opening
  PROVE  ImapInv'
<1>1. /\ st = "connect" /\ UNCHANGED <<setup, st, sent, result, out, mode, taken>>
      /\ conn \notin {"failed", "fatal"}
  BY DEF Opening, clientVars, serverVars, Connecting, Lookup, TryAddress, MakeTls, HttpLine,
     SocksMethod, SocksAuth, SocksReply, Poll, GiveUp, Short
<1>2. PICK p \in Nat : Thinned(p)
  BY OpeningThins
<1>3. /\ Len(Coming) \in Nat /\ Len(Coming') \in Nat /\ Len(Coming') = Len(Coming) - p
      /\ \A i \in 1 .. Len(Coming') :
           /\ i + p \in 1 .. Len(Coming)
           /\ \/ Coming'[i] = Coming[i + p]
              \/ i = 1 /\ Coming'[i] = Unit("server", "junk") /\ Coming[i + p].by = "server"
  BY <1>2, ComingType DEF Thinned, NetIndex, BuffersOK, Coming
<1>4. (\A i \in 1 .. Len(Coming) : Coming[i].by = "proxy") => \A i \in 1 .. Len(Coming') : Coming'[i].by = "proxy"
  BY <1>3
<1>5. ASSUME NEW i \in 1 .. Len(Coming') - 1 PROVE ~(Coming'[i].by = "server" /\ Coming'[i].v = "OK")
  <2>1. i \in 1 .. Len(Coming') /\ i + p \in 1 .. Len(Coming) - 1
    BY <1>3
  <2>2. ~(Coming[i + p].by = "server" /\ Coming[i + p].v = "OK")
    BY <1>1, <2>1 DEF ImapInv
  <2> QED
    BY <1>3, <2>1, <2>2 DEF Unit
<1> QED
  BY <1>1, <1>4, <1>5 DEF ImapInv

\* nor by the proxy,
LEMMA ImapThrough ==
  ASSUME ImapInv, NetIndex, setup.kind = "imap", Through
  PROVE  ImapInv'
<1>1. /\ st \in {"connect", "end"} /\ Relayed /\ (conn \in {"failed", "fatal"} \/ Coming = <<>>)
      /\ UNCHANGED <<setup, st, sent, result, conn, out, mode, need, text, taken>>
  BY ProxySpeaks
<1>2. CASE st = "end"
  BY <1>1, <1>2, SameText DEF ImapInv
<1>3. CASE st = "connect"
  <2>1. Len(Coming) \in Nat
    BY ComingType DEF NetIndex
  <2>2. (\A i \in 1 .. Len(Coming) : Coming[i].by = "proxy") => \A i \in 1 .. Len(Coming') : Coming'[i].by = "proxy"
    <3> SUFFICES ASSUME \A i \in 1 .. Len(Coming) : Coming[i].by = "proxy", NEW i \in 1 .. Len(Coming')
                 PROVE  Coming'[i].by = "proxy"
      OBVIOUS
    <3>1. i \in 1 .. Len(Coming) \/ i \in Len(Coming) + 1 .. Len(Coming')
      BY <2>1
    <3> QED
      BY <1>1, <3>1 DEF Relayed
  <2>3. Coming = <<>> => \A i \in 1 .. Len(Coming') : Coming'[i].by = "proxy"
    <3>1. Coming = <<>> => Len(Coming) = 0
      OBVIOUS
    <3> QED
      BY <2>2, <3>1
  <2>4. conn' \notin {"failed", "fatal"} =>
          \A i \in 1 .. Len(Coming') - 1 : ~(Coming'[i].by = "server" /\ Coming'[i].v = "OK")
    <3> SUFFICES ASSUME conn' \notin {"failed", "fatal"}, NEW i \in 1 .. Len(Coming') - 1
                 PROVE  Coming'[i].by = "proxy"
      OBVIOUS
    <3>1. Len(Coming') \in Nat
      <4>1. BuffersOK'
        BY ProxyInStep DEF NetIndex, NetTypeOK
      <4> QED
        BY <4>1, ConcatProperties, LenProperties DEF BuffersOK, Coming
    <3>2. i \in 1 .. Len(Coming')
      BY <3>1
    <3> QED
      BY <1>1, <2>3, <3>2
  <2> QED
    BY <1>1, <1>3, <2>2, <2>4 DEF ImapInv
<1> QED
  BY <1>1, <1>2, <1>3

\* and the greeting brings at most one.
LEMMA ImapGreets ==
  ASSUME ImapInv, NetIndex, NetIndex', setup.kind = "imap", Greet
  PROVE  ImapInv'
<1>1. PICK v : /\ Heard(v) /\ mode = "greet" /\ mode' = "command"
               /\ UNCHANGED <<setup, st, sent, result, out, text, taken>>
  BY Greeting
<1>2. st \in {"connect", "login", "logout", "end"}
  BY <1>1 DEF ImapInv, Asks, Has, Filling, Filled
<1>3. CASE st \in {"logout", "end"}
  BY <1>1, <1>3, SameText DEF ImapInv
<1>4. CASE st \in {"connect", "login"}
  <2>1. Len(Coming) \in Nat /\ Len(Coming') \in Nat
    BY ComingType DEF NetIndex, BuffersOK, Coming
  <2>2. \A i \in 1 .. Len(Coming) : Coming[i].by = "proxy"
    BY <1>1, <1>4 DEF ImapInv
  <2>3. ASSUME NEW i \in 1 .. Len(Coming') - 1 PROVE ~(Coming'[i].by = "server" /\ Coming'[i].v = "OK")
    <3>1. CASE i \in 1 .. Len(Coming)
      BY <1>1, <2>2, <3>1 DEF Heard
    <3>2. CASE i \in Len(Coming) + 1 .. Len(Coming')
      <4>1. i < Len(Coming')
        BY <2>1
      <4>2. Coming'[i].v = "*"
        BY <1>1, <3>2, <4>1 DEF Heard
      <4> QED
        BY <4>2
    <3> QED
      BY <2>1, <3>1, <3>2
  <2> QED
    BY <1>1, <1>4, <2>3 DEF ImapInv
<1> QED
  BY <1>2, <1>3, <1>4

\* The connection is there, or the delivery over.
LEMMA ImapConnects ==
  ASSUME ImapInv, NetIndex, setup.kind = "imap", Connected
  PROVE  ImapInv'
<1>1. /\ st = "connect" /\ out = <<>> /\ taken = <<>>
      /\ UNCHANGED <<setup, conn, inp, wire, mode, text, taken>>
  BY DEF ImapInv, Connected, connVars, serverVars
<1>2. Coming' = Coming
  BY <1>1, SameComing
<1>3. (st' = "login" /\ out' = out) \/ (st' = "end" /\ result' # "success")
  <2>1. conn \in {"up", "failed", "fatal"}
    BY DEF Connected
  <2>2. CASE conn = "up" /\ setup.empty
    BY <2>2 DEF Connected, OneOf, Ends
  <2>3. CASE conn = "up" /\ ~setup.empty
    BY <2>3 DEF Connected
  <2>4. CASE conn \in {"failed", "fatal"}
    BY <2>4 DEF Connected, Ends
  <2> QED
    BY <2>1, <2>2, <2>3, <2>4
<1>4. taken' = <<>> /\ (\/ mode' = "greet" /\ \A i \in 1 .. Len(Coming') : Coming'[i].by = "proxy"
                        \/ mode' = "command")
      /\ (conn' \notin {"failed", "fatal"} =>
            \A i \in 1 .. Len(Coming') - 1 : ~(Coming'[i].by = "server" /\ Coming'[i].v = "OK"))
  BY <1>1, <1>2 DEF ImapInv
<1> QED
  BY <1>1, <1>3, <1>4 DEF ImapInv

\* A poll, or the end of it.
LEMMA ImapPolls ==
  ASSUME ImapInv, NetIndex, setup.kind = "imap", ImapPoll
  PROVE  ImapInv'
<1>1. CASE inp' = inp \o wire /\ wire' = <<>> /\ UNCHANGED <<conn, untried, asked, tunnel, st, result, out>>
  <2>1. Coming' = Coming
    BY <1>1, ComingPoll DEF NetIndex
  <2> QED
    BY <1>1, <2>1, ImapKept DEF ImapPoll, serverVars
<1>2. CASE OneOf(IF st \in {"append", "logout"} THEN {"failure", "crash"} ELSE {"failure"})
  <2>1. st' = "end" /\ result' # "success"
    BY <1>2 DEF OneOf, Ends
  <2> QED
    BY <2>1 DEF ImapInv
<1> QED
  BY <1>1, <1>2 DEF ImapPoll

\* An untagged line is passed over, and the answer is behind it.
LEMMA ImapPasses ==
  ASSUME ImapInv, NetIndex, setup.kind = "imap", Untagged
  PROVE  ImapInv'
<1>1. /\ st \in WaitsAppend \cup WaitsLn /\ HaveLine /\ ReadLine /\ Line = "*"
      /\ UNCHANGED <<st, sent, result, out, mode, need, text, taken>> /\ UNCHANGED <<setup, conn>>
  BY DEF Untagged, serverVars, ReadLine
<1>2. /\ BuffersOK' /\ Len(Coming) \in Nat /\ 1 <= Len(Coming) /\ Coming[1].by = "server"
      /\ Coming[1].v = "*" /\ Lost(1)
  <2>1. conn = "up" /\ BuffersOK /\ InStep
    BY <1>1 DEF NetIndex, Before, WaitsAppend, WaitsLn
  <2> QED
    BY <1>1, <2>1, ReadInStep, ComingType
<1>3. ASSUME NEW V, NEW m, "*" \notin V, Has(V, m) PROVE Has(V, m)'
  BY <1>1, <1>2, <1>3, HasRead DEF Has
<1>4. \A c, n, m : ~Asks(c, n, m)
  BY <1>2, AskedOf
<1>5. ~Filling
  BY <1>2 DEF Filling
<1>6. Filled => Filled'
  BY <1>1, <1>3, SameText DEF Filled
<1>7. CASE st = "login"
  <2>1. mode = "command" /\ taken = <<>> /\ out = <<>>
    BY <1>2, <1>7 DEF ImapInv
  <2>2. ASSUME NEW i \in 1 .. Len(Coming') - 1, conn' \notin {"failed", "fatal"}
        PROVE ~(Coming'[i].by = "server" /\ Coming'[i].v = "OK")
    <3>1. i \in 1 .. Len(Coming') /\ i + 1 \in 1 .. Len(Coming) - 1
      BY <1>2 DEF Lost
    <3>2. ~(Coming[i + 1].by = "server" /\ Coming[i + 1].v = "OK")
      BY <1>1, <1>7, <2>2, <3>1 DEF ImapInv
    <3> QED
      BY <1>2, <3>1, <3>2 DEF Lost
  <2> QED
    BY <1>1, <1>7, <2>1, <2>2 DEF ImapInv
<1>8. CASE st = "append"
  BY <1>1, <1>3, <1>4, <1>8 DEF ImapInv
<1>9. CASE st = "folder"
  BY <1>1, <1>3, <1>4, <1>9, SameText DEF ImapInv
<1>10. CASE st = "appended"
  BY <1>1, <1>5, <1>6, <1>10, SameText DEF ImapInv
<1>11. CASE st \in {"create", "created"}
  BY <1>1, <1>3, <1>4, <1>11 DEF ImapInv
<1>12. CASE st = "logout"
  BY <1>1, <1>12, SameText DEF ImapInv
<1> QED
  BY <1>1, <1>7, <1>8, <1>9, <1>10, <1>11, <1>12 DEF WaitsAppend, WaitsLn

\* An answer moves the client on, or ends the delivery.
LEMMA ImapGoesOn ==
  ASSUME ImapInv, NetIndex, setup.kind = "imap", ImapReply
  PROVE  ImapInv'
<1>1. /\ st \in WaitsAppend \cup WaitsLn /\ HaveLine /\ ReadLine /\ Line # "*"
      /\ UNCHANGED <<mode, need, text, taken>> /\ UNCHANGED <<setup, conn>>
  BY DEF ImapReply, serverVars, ReadLine
<1>2. CASE st' = "end" /\ result' # "success"
  BY <1>2 DEF ImapInv
<1>3. CASE Line = "junk"
  <2>1. Abort \/ OneOf({"failure", "crash"})
    BY <1>3 DEF ImapReply
  <2> QED
    BY <1>2, <2>1 DEF Abort, AbortAfter, OneOf, Ends
<1>4. CASE Line # "junk"
  <2>1. /\ BuffersOK' /\ Len(Coming) \in Nat /\ 1 <= Len(Coming) /\ Coming[1].by = "server"
        /\ Line = Coming[1].v /\ Coming[1].v # "*" /\ Lost(1)
    <3>1. conn = "up" /\ BuffersOK /\ InStep
      BY <1>1 DEF NetIndex, Before, WaitsAppend, WaitsLn
    <3> QED
      BY <1>1, <1>4, <3>1, ReadInStep, ComingType
  <2>2. ASSUME NEW V, NEW m, "*" \notin V, Has(V, m)
        PROVE  out = <<>> /\ mode = m /\ Line \in V /\ Coming' = <<>>
    BY <2>1, <2>2, HasRead
  <2>3. \A c, n, m : ~Asks(c, n, m)
    BY <2>1, AskedOf
  <2>4. ~Filling
    BY <2>1 DEF Filling
  <2>5. ASSUME NEW c, NEW n, NEW m, out = <<>>, Coming' = <<>>, mode = m, out' = Append(out, Command(c, n))
        PROVE  Asks(c, n, m)'
    <3>1. out' = <<Command(c, n)>>
      BY <2>5
    <3> QED
      BY <1>1, <2>5, <3>1 DEF Asks
  <2>6. CASE st = "login" /\ Line = "OK" /\ SendAppend
    <3>1. mode = "command" /\ taken = <<>> /\ out = <<>>
      BY <2>1, <2>6 DEF ImapInv
    <3>2. Coming' = <<>>
      <4>1. conn \notin {"failed", "fatal"}
        BY <2>6 DEF NetIndex, Before
      <4>2. Len(Coming) = 1
        <5>1. ~(1 \in 1 .. Len(Coming) - 1)
          BY <2>1, <2>6, <4>1 DEF ImapInv
        <5>2. PICK n \in Nat : n = Len(Coming)
          BY <2>1
        <5>3. n >= 1 /\ ~(1 <= n - 1)
          BY <2>1, <5>1, <5>2
        <5> QED
          BY <5>2, <5>3
      <4>3. Len(Coming') = 0 /\ Coming' \in Seq(UnitType)
        BY <2>1, <4>2, ConcatProperties DEF Lost, BuffersOK, Coming
      <4> QED
        BY <4>3, EmptySeq
    <3>3. Asks("APPEND", 0, "command")'
      BY <2>5, <2>6, <3>1, <3>2 DEF SendAppend, Put
    <3> QED
      BY <1>1, <2>6, <3>1, <3>3 DEF ImapInv, SendAppend, Put
  <2>7. CASE st = "append" /\ Line = "+" /\ Put("folder", "FOLDER", MailLen)
    <3>1. taken = <<>> /\ Has({"+"}, "name")
      BY <2>2, <2>3, <2>7 DEF ImapInv
    <3>2. out = <<>> /\ mode = "name" /\ Coming' = <<>>
      BY <2>2, <3>1
    <3>3. Asks("FOLDER", MailLen, "name")'
      <4>1. PICK n : n = MailLen
        OBVIOUS
      <4>2. Asks("FOLDER", n, "name")'
        BY <2>5, <2>7, <3>2, <4>1 DEF Put
      <4>3. MailLen' = n
        BY <1>1, <4>1, SameText
      <4> QED
        BY <4>2, <4>3 DEF Asks
    <3> QED
      BY <1>1, <2>7, <3>1, <3>3 DEF ImapInv, Put
  <2>8. CASE st = "folder" /\ Line = "+" /\ st' = "lines" /\ sent' = 0 /\ UNCHANGED <<result, out>>
    <3>1. taken = <<>> /\ Has({"+"}, "literal") /\ need = MailLen /\ text = <<>>
      BY <2>2, <2>3, <2>8 DEF ImapInv
    <3>2. out = <<>> /\ mode = "literal" /\ Coming' = <<>>
      BY <2>2, <3>1
    <3>3. Filling'
      <4>1. MailLen' = MailLen /\ mail' = mail /\ Wired(0)' = <<>> /\ Len(mail) > 0
        BY <1>1, SameText, WiredNone, MailType DEF NetIndex, NetTypeOK
      <4>2. Len(out') = 0 /\ 0 \in 0 .. sent'
        BY <2>8, <3>2
      <4>3. 0 < Len(mail') /\ text' = Wired(0)' /\ Len(out') = sent' - 0
            /\ \A i \in 1 .. Len(out') : out'[i].text = Body(mail'[0 + i])
        BY <1>1, <2>8, <3>1, <4>1, <4>2
      <4>4. mode' = "literal" /\ need' = MailLen' /\ taken' = <<>> /\ Coming' = <<>>
        BY <1>1, <3>1, <3>2, <4>1
      <4> QED
        BY <4>2, <4>3, <4>4 DEF Filling
    <3> QED
      BY <2>8, <3>3 DEF ImapInv
  <2>9. CASE st = "appended" /\ Line = "OK" /\ Put("logout", "LOGOUT", 0)
    <3>1. Filled
      BY <2>4, <2>9 DEF ImapInv
    <3>2. taken = <<WholeText>>
      BY <2>2, <2>9, <3>1 DEF Filled
    <3> QED
      BY <1>1, <2>9, <3>2, SameText DEF ImapInv, Put
  <2>10. CASE st \in WaitsAppend /\ Line = "TRYCREATE" /\ TryCreate
    <3>1. taken = <<>> /\ Has({"NO", "TRYCREATE"}, "command")
      <4>1. CASE st = "append"
        BY <2>2, <2>3, <2>10, <4>1 DEF ImapInv
      <4>2. CASE st = "folder"
        BY <2>2, <2>3, <2>10, <4>2 DEF ImapInv
      <4>3. CASE st = "appended"
        <5>1. Filled
          BY <2>4, <4>3 DEF ImapInv
        <5> QED
          BY <2>2, <2>10, <5>1 DEF Filled
      <4> QED
        BY <2>10, <4>1, <4>2, <4>3 DEF WaitsAppend
    <3>2. out = <<>> /\ mode = "command" /\ Coming' = <<>>
      BY <2>2, <3>1
    <3>3. Asks("CREATE", 0, "command")'
      BY <2>5, <2>10, <3>2 DEF TryCreate, Put
    <3> QED
      BY <1>1, <2>10, <3>1, <3>3 DEF ImapInv, TryCreate, Put
  <2>11. CASE st = "create" /\ Line = "+" /\ Put("created", "NAME", 0)
    <3>1. taken = <<>> /\ Has({"+"}, "create")
      BY <2>2, <2>3, <2>11 DEF ImapInv
    <3>2. out = <<>> /\ mode = "create" /\ Coming' = <<>>
      BY <2>2, <3>1
    <3>3. Asks("NAME", 0, "create")'
      BY <2>5, <2>11, <3>2 DEF Put
    <3> QED
      BY <1>1, <2>11, <3>1, <3>3 DEF ImapInv, Put
  <2>12. CASE st = "created" /\ Line = "OK" /\ SendAppend
    <3>1. taken = <<>> /\ Has({"OK", "NO"}, "command")
      BY <2>2, <2>3, <2>12 DEF ImapInv
    <3>2. out = <<>> /\ mode = "command" /\ Coming' = <<>>
      BY <2>2, <3>1
    <3>3. Asks("APPEND", 0, "command")'
      BY <2>5, <2>12, <3>2 DEF SendAppend, Put
    <3> QED
      BY <1>1, <2>12, <3>1, <3>3 DEF ImapInv, SendAppend, Put
  <2>13. CASE st = "logout" /\ Line = "OK" /\ Ends("success")
    <3>1. taken = <<WholeText>>
      BY <2>13 DEF ImapInv
    <3> QED
      BY <1>1, <2>13, <3>1, SameText DEF ImapInv, Ends
  <2>14. CASE Abort \/ OneOf({"failure", "crash"})
    BY <1>2, <2>14 DEF Abort, AbortAfter, OneOf, Ends
  <2> QED
    BY <2>6, <2>7, <2>8, <2>9, <2>10, <2>11, <2>12, <2>13, <2>14 DEF ImapReply
<1> QED
  BY <1>3, <1>4

\* The lines of the mail, which the server reads as they come, or has already.
LEMMA ImapWritesLines ==
  ASSUME ImapInv, NetIndex, setup.kind = "imap", SendLine \/ SendEnd
  PROVE  ImapInv'
<1>1. /\ st = "lines" /\ UNCHANGED <<setup, inp, wire, mode, need, text, taken>>
      /\ (Filling \/ Filled) /\ mail' = mail /\ MailLen' = MailLen /\ WholeText' = WholeText
  BY SameText DEF SendLine, SendEnd, connVars, serverVars, ImapInv
<1>2. Coming' = Coming
  BY <1>1, SameComing
<1>3. CASE SendEnd
  <2>1. st' = "appended" /\ sent = Len(mail) /\ UNCHANGED <<sent, result, out>>
    BY <1>3 DEF SendEnd
  <2>2. (\A V, m : Has(V, m)' = Has(V, m)) /\ \A k : Wired(k)' = Wired(k)
    BY <1>1, <1>2, <2>1, SameText DEF Has
  <2>3. Filling' \/ Filled'
    BY <1>1, <1>2, <2>1, <2>2 DEF Filling, Filled
  <2> QED
    BY <1>1, <2>1, <2>3 DEF ImapInv
<1>4. CASE SendLine
  <2>1. sent < Len(mail) /\ sent' = sent + 1 /\ sent \in Nat /\ Len(mail) \in Nat
    BY <1>4, MailType DEF SendLine, NetIndex, NetTypeOK
  <2>2. CASE AbortAfter(<<WrittenLine>>)
    BY <2>2 DEF AbortAfter, Ends, ImapInv
  <2>3. CASE out' = Append(out, WrittenLine) /\ UNCHANGED <<st, result>>
    <3>1. Filling
      BY <1>1, <2>1 DEF Filled
    <3>2. PICK k \in 0 .. sent : /\ k < Len(mail) /\ text = Wired(k) /\ Len(out) = sent - k
                                 /\ \A i \in 1 .. Len(out) : out[i].text = Body(mail[k + i])
      BY <3>1 DEF Filling
    <3>3. PICK w \in WrittenType : w = WrittenLine /\ w.text = Body(mail[sent + 1])
      <4>1. sent + 1 \in 1 .. Len(mail)
        BY <2>1
      <4>2. mail[sent + 1] \in MailLines
        BY <4>1, MailType DEF NetIndex, NetTypeOK
      <4>3. Body(mail[sent + 1]) \in Seq(Symbol)
        BY <4>2, OneLine
      <4>4. TextLine(Body(mail[sent + 1])) \in WrittenType
        BY <4>3, Writes
      <4> QED
        BY <4>4 DEF WrittenLine, TextLine
    <3>4. /\ Len(out') = Len(out) + 1 /\ out'[Len(out) + 1] = w
          /\ \A i \in 1 .. Len(out) : out'[i] = out[i]
      BY <2>3, <3>3, Written DEF NetIndex, NetTypeOK
    <3>5. ASSUME NEW i \in 1 .. Len(out') PROVE out'[i].text = Body(mail[k + i])
      <4>1. CASE i \in 1 .. Len(out)
        BY <3>2, <3>4, <4>1
      <4>2. CASE i = Len(out) + 1
        <5>1. k + i = sent + 1
          BY <2>1, <3>2, <4>2
        <5> QED
          BY <3>3, <3>4, <4>2, <5>1
      <4>3. i \in 1 .. Len(out) \/ i = Len(out) + 1
        BY <2>1, <3>2, <3>4
      <4> QED
        BY <4>1, <4>2, <4>3
    <3>6. k \in 0 .. sent' /\ Len(out') = sent' - k
      BY <2>1, <3>2, <3>4
    <3>7. Wired(k)' = Wired(k)
      BY <1>1, SameText
    <3>8. mode' = "literal" /\ need' = MailLen' /\ taken' = <<>> /\ Coming' = <<>>
      BY <1>1, <1>2, <3>1 DEF Filling
    <3>9. Filling'
      BY <1>1, <3>2, <3>5, <3>6, <3>7, <3>8 DEF Filling
    <3> QED
      BY <1>1, <2>3, <3>9 DEF ImapInv
  <2> QED
    BY <1>4, <2>2, <2>3 DEF SendLine
<1> QED
  BY <1>3, <1>4

\* What the server has read of the mail, and the rest of what it waits for.
LEMMA LiteralGrows ==
  ASSUME NetIndex, Filling, ServerStep, text' = text \o out[1].text \o <<CR, LF>>
  PROVE  \E k \in 1 .. sent :
           /\ k <= Len(mail) /\ text' = Wired(k) /\ Len(out') = sent - k
           /\ \A i \in 1 .. Len(out') : out'[i].text = Body(mail[k + i])
<1>1. PICK k \in 0 .. sent :
        /\ k < Len(mail) /\ text = Wired(k) /\ Len(out) = sent - k
        /\ \A i \in 1 .. Len(out) : out[i].text = Body(mail[k + i])
  BY DEF Filling
<1>2. /\ Len(out) \in Nat /\ Len(out) > 0 /\ Len(out') = Len(out) - 1
      /\ \A i \in 1 .. Len(out) - 1 : out'[i] = out[i + 1]
  BY Written DEF NetIndex, NetTypeOK, ServerStep
<1>3. sent \in 0 .. Len(mail) /\ Len(mail) \in Nat /\ setup \in Setups
  BY MailType DEF NetIndex, NetTypeOK
<1>4. k \in Nat /\ k + 1 <= Len(mail) /\ 1 \in 1 .. Len(out) /\ k + 1 \in 1 .. sent /\ k + 1 \in 1 .. Len(mail)
  BY <1>1, <1>2, <1>3
<1>5. out[1].text = Body(mail[k + 1])
  BY <1>1, <1>4
<1>6. text' = Wired(k + 1)
  <2>1. PICK a, b, c : a = text /\ b = out[1].text /\ c = <<CR, LF>>
    OBVIOUS
  <2>2. a \in Seq(Symbol) /\ b \in Seq(Symbol) /\ c \in Seq(Symbol)
    <3>1. Wired(k) \in Seq(Symbol)
      BY <1>3, <1>4, WiredNext
    <3> QED
      BY <1>1, <2>1, <3>1, Writes, FirstWritten DEF WrittenType
  <2>3. (a \o b) \o c = a \o (b \o c)
    BY <2>2, ConcatAssociative
  <2>4. Wired(k + 1) = Wired(k) \o (Body(mail[k + 1]) \o <<CR, LF>>)
    BY <1>3, <1>4, WiredNext
  <2> QED
    BY <1>1, <1>5, <2>1, <2>3, <2>4
<1>7. ASSUME NEW i \in 1 .. Len(out') PROVE out'[i].text = Body(mail[(k + 1) + i])
  <2>1. i \in 1 .. Len(out) - 1 /\ i + 1 \in 1 .. Len(out) /\ k + (i + 1) = (k + 1) + i
    BY <1>2, <1>4
  <2>2. out[i + 1].text = Body(mail[k + (i + 1)])
    BY <1>1, <2>1
  <2> QED
    BY <1>2, <2>1, <2>2
<1>8. Len(out') = sent - (k + 1)
  BY <1>1, <1>2, <1>3, <1>4
<1>9. PICK j \in 1 .. sent : j = k + 1
  BY <1>4
<1> QED
  BY <1>4, <1>6, <1>7, <1>8, <1>9

\* The server reads what was asked and answers it, or a line of the literal.
LEMMA ImapServerInv ==
  ASSUME ImapInv, Once, NetIndex, NetIndex', ImapServer
  PROVE  ImapInv'
<1>1. ServerStep /\ ImapReads /\ setup.kind = "imap" /\ BuffersOK /\ out # <<>> /\ out' = Tail(out)
  BY ImapServes DEF ImapServer, NetIndex, ServerStep
<1>2. /\ UNCHANGED <<setup, st, sent, result, conn>> /\ mail' = mail /\ MailLen' = MailLen /\ WholeText' = WholeText
      /\ \A k : Wired(k)' = Wired(k)
  BY <1>1, SameText DEF ServerStep, clientVars
<1>3. \A V, m : ~Has(V, m)
  BY <1>1 DEF Has
<1>4. ~Filled
  BY <1>3 DEF Filled
<1>5. ASSUME NEW V, NEW m, NEW v \in V, Coming = <<>>, Heard(v), out' = <<>>, mode' = m PROVE Has(V, m)'
  <2>1. Coming' = <<Server(v)>> \/ Coming' = <<Server("*"), Server(v)>>
    BY <1>1, <1>5 DEF Heard
  <2> QED
    BY <1>5, <2>1 DEF Has
<1>6. ASSUME taken' = taken, st \in {"logout", "end"} PROVE ImapInv'
  BY <1>2, <1>6 DEF ImapInv
<1>7. st \in {"append", "folder", "lines", "appended", "create", "created", "logout", "end"}
  BY <1>1 DEF ImapInv
<1>8. CASE st = "append" /\ mode # "literal"
  <2>1. Asks("APPEND", 0, "command") /\ taken = <<>>
    BY <1>3, <1>8 DEF ImapInv
  <2>2. out[1].is = "APPEND" /\ Coming = <<>> /\ out' = <<>> /\ mode = "command"
    BY <1>1, <2>1, AskedOf
  <2>3. taken' = <<>> /\ (Has({"+"}, "name")' \/ Has({"NO"}, "command")')
    <3>1. CASE Heard("NO") /\ mode' = "command" /\ taken' = taken
      BY <1>5, <2>1, <2>2, <3>1
    <3>2. CASE Heard("+") /\ mode' = "name" /\ taken' = taken
      BY <1>5, <2>1, <2>2, <3>2
    <3> QED
      BY <1>1, <2>2, <3>1, <3>2 DEF ImapReads, serverVars
  <2> QED
    BY <1>2, <1>8, <2>3 DEF ImapInv
<1>9. CASE st = "create" /\ mode # "literal"
  <2>1. Asks("CREATE", 0, "command") /\ taken = <<>>
    BY <1>3, <1>9 DEF ImapInv
  <2>2. out[1].is = "CREATE" /\ Coming = <<>> /\ out' = <<>> /\ mode = "command"
    BY <1>1, <2>1, AskedOf
  <2>3. taken' = <<>> /\ (Has({"+"}, "create")' \/ Has({"NO"}, "command")')
    <3>1. CASE Heard("NO") /\ mode' = "command" /\ taken' = taken
      BY <1>5, <2>1, <2>2, <3>1
    <3>2. CASE Heard("+") /\ mode' = "create" /\ taken' = taken
      BY <1>5, <2>1, <2>2, <3>2
    <3> QED
      BY <1>1, <2>2, <3>1, <3>2 DEF ImapReads, serverVars
  <2> QED
    BY <1>2, <1>9, <2>3 DEF ImapInv
<1>10. CASE st = "created" /\ mode # "literal"
  <2>1. Asks("NAME", 0, "create") /\ taken = <<>>
    BY <1>3, <1>10 DEF ImapInv
  <2>2. out[1].is = "NAME" /\ Coming = <<>> /\ out' = <<>> /\ mode = "create"
    BY <1>1, <2>1, AskedOf
  <2>3. taken' = <<>> /\ Has({"OK", "NO"}, "command")'
    <3>1. (Heard("OK") \/ Heard("NO")) /\ mode' = "command" /\ taken' = taken
      BY <1>1, <2>2 DEF ImapReads
    <3> QED
      BY <1>5, <2>1, <2>2, <3>1
  <2> QED
    BY <1>2, <1>10, <2>3 DEF ImapInv
<1>11. CASE st = "folder" /\ mode # "literal"
  <2>1. Asks("FOLDER", MailLen, "name") /\ taken = <<>>
    BY <1>3, <1>11 DEF ImapInv
  <2>2. out[1].is = "FOLDER" /\ out[1].n = MailLen /\ Coming = <<>> /\ out' = <<>> /\ mode = "name"
    BY <1>1, <2>1, AskedOf
  <2>3. taken' = <<>> /\ (\/ Has({"NO", "TRYCREATE"}, "command")'
                          \/ Has({"+"}, "literal")' /\ need' = MailLen' /\ text' = <<>>)
    <3>1. CASE Heard("+") /\ mode' = "literal" /\ need' = out[1].n /\ text' = <<>> /\ taken' = taken
      BY <1>2, <1>5, <2>1, <2>2, <3>1
    <3>2. CASE (\E v \in Refusing : Heard(v)) /\ mode' = "command" /\ taken' = taken
      BY <1>5, <2>1, <2>2, <3>2 DEF Refusing
    <3> QED
      BY <1>1, <2>2, <3>1, <3>2 DEF ImapReads
  <2> QED
    BY <1>2, <1>11, <2>3 DEF ImapInv
<1>12. CASE st \in {"lines", "appended"}
  <2>1. Filling
    BY <1>4, <1>12 DEF ImapInv
  <2>2. /\ mode = "literal" /\ need = MailLen /\ taken = <<>> /\ Coming = <<>>
        /\ text' = text \o out[1].text \o <<CR, LF>> /\ need' = need
        /\ \/ Len(text') < need /\ wire' = wire /\ UNCHANGED <<mode, taken>>
           \/ /\ ~(Len(text') < need) /\ mode' = "command"
              /\ \/ Heard("OK") /\ taken' = Append(taken, SubSeq(text', 1, need))
                 \/ (\E v \in Refusing : Heard(v)) /\ UNCHANGED taken
    BY <1>1, <2>1 DEF Filling, ImapReads
  <2>3. PICK k \in 1 .. sent :
          /\ k <= Len(mail) /\ text' = Wired(k) /\ Len(out') = sent - k
          /\ \A i \in 1 .. Len(out') : out'[i].text = Body(mail[k + i])
    BY <1>1, <2>1, <2>2, LiteralGrows
  <2>4. /\ sent \in 0 .. Len(mail) /\ Len(mail) \in Nat /\ setup \in Setups /\ MailLen \in Nat
        /\ k \in Nat /\ k \in 0 .. sent
    BY MailType DEF NetIndex, NetTypeOK
  <2>5. Filling' \/ Filled'
    <3>1. CASE k < Len(mail)
      <4>1. Len(text') < need
        BY <2>2, <2>3, <2>4, <3>1, WiredLess
      <4>2. wire' = wire /\ UNCHANGED <<mode, taken>>
        BY <2>2, <4>1
      <4>3. Coming' = <<>>
        BY <1>1, <2>2, <4>2, SameComing DEF ServerStep
      <4>4. text' = Wired(k)' /\ Len(out') = sent' - k /\ k \in 0 .. sent' /\ k < Len(mail')
            /\ \A i \in 1 .. Len(out') : out'[i].text = Body(mail'[k + i])
        BY <1>2, <2>3, <2>4, <3>1
      <4>5. mode' = "literal" /\ need' = MailLen' /\ taken' = <<>>
        BY <1>2, <2>2, <4>2
      <4> QED
        BY <4>3, <4>4, <4>5 DEF Filling
    <3>2. CASE ~(k < Len(mail))
      <4>1. k = Len(mail) /\ sent = Len(mail) /\ Len(out') = 0
        BY <2>3, <2>4, <3>2
      <4>2. out' = <<>>
        <5>1. out' \in Seq(WrittenType)
          BY DEF NetIndex, NetTypeOK
        <5> QED
          BY <4>1, <5>1, EmptySeq
      <4>3. text' = Wired(Len(mail)) /\ Len(text') = MailLen + 1
        BY <2>3, <2>4, <4>1, WiredLen
      <4>4. ~(Len(text') < need)
        BY <2>2, <2>4, <4>3
      <4>5. SubSeq(text', 1, need) = WholeText
        BY <2>2, <4>3 DEF WholeText
      <4>6. mode' = "command" /\ (\/ Heard("OK") /\ taken' = <<WholeText>>
                                  \/ (\E v \in Refusing : Heard(v)) /\ taken' = <<>>)
        <5>1. mode' = "command"
          BY <2>2, <4>4
        <5>2. CASE Heard("OK") /\ taken' = Append(taken, SubSeq(text', 1, need))
          <6>1. PICK x : x = SubSeq(text', 1, need)
            OBVIOUS
          <6>2. Append(<<>>, x) = <<x>>
            OBVIOUS
          <6>3. taken' = <<x>>
            BY <2>2, <5>2, <6>1, <6>2
          <6> QED
            BY <4>5, <5>1, <5>2, <6>1, <6>3
        <5>3. CASE (\E v \in Refusing : Heard(v)) /\ UNCHANGED taken
          BY <2>2, <5>1, <5>3
        <5> QED
          BY <2>2, <4>4, <5>2, <5>3
      <4>7. \/ taken' = <<WholeText'>> /\ Has({"OK"}, "command")'
            \/ taken' = <<>> /\ Has({"NO", "TRYCREATE"}, "command")'
        BY <1>2, <1>5, <2>2, <4>2, <4>6 DEF Refusing
      <4>8. sent' = Len(mail')
        BY <1>2, <4>1
      <4> QED
        BY <4>7, <4>8 DEF Filled
    <3> QED
      BY <3>1, <3>2
  <2> QED
    <3>1. st' = "appended" => sent' = Len(mail')
      BY <1>2 DEF ImapInv
    <3> QED
      BY <1>2, <1>12, <2>5, <3>1 DEF ImapInv
<1>13. CASE st \in {"logout", "end"}
  <2>1. CASE taken' = taken
    BY <1>6, <1>13, <2>1
  <2>2. CASE mode = "literal" /\ taken' = Append(taken, SubSeq(text', 1, need))
    <3>1. taken = <<>>
      BY <2>2 DEF Once
    <3>2. st = "end" /\ result # "success"
      BY <1>13, <3>1 DEF ImapInv
    <3> QED
      BY <1>2, <3>2 DEF ImapInv
  <2> QED
    BY <1>1, <2>1, <2>2 DEF ImapReads, serverVars
<1>14. CASE st \in {"append", "create", "created", "folder"} /\ mode = "literal"
  BY <1>3, <1>14 DEF ImapInv, Asks
<1> QED
  BY <1>7, <1>8, <1>9, <1>10, <1>11, <1>12, <1>13, <1>14

-----------------------------------------------------------------------------
(* Nothing is taken twice.                                                 *)

\* The server takes a literal only if it has taken none.
LEMMA OnceServed ==
  ASSUME Once, NetIndex, ImapServer
  PROVE  Once'
<1>1. ServerStep /\ ImapReads
  BY ImapServes
<1>2. /\ Len(out) \in Nat /\ Len(out) > 0 /\ Len(out') = Len(out) - 1
      /\ \A i \in 1 .. Len(out) - 1 : out'[i] = out[i + 1]
  BY <1>1, Written DEF NetIndex, NetTypeOK, ServerStep
<1>3. \A i \in 1 .. Len(out') : out'[i] = out[i + 1] /\ i + 1 \in 2 .. Len(out)
  BY <1>2
<1>4. \A i \in 1 .. Len(out') : out'[i].is # "FOLDER"
  BY <1>3 DEF Once
<1>5. \A i \in 2 .. Len(out') : out'[i].is # "FOLDER"
  <2>1. \A i \in 2 .. Len(out') : i \in 1 .. Len(out')
    BY <1>2
  <2> QED
    BY <1>4, <2>1
<1>6. 1 \in 1 .. Len(out)
  BY <1>2
<1>7. taken' # <<>> => mode' # "literal"
  <2>1. CASE mode = "literal"
    <3>1. taken = <<>>
      BY <2>1 DEF Once
    <3> QED
      BY <1>1, <2>1, <3>1 DEF ImapReads, serverVars
  <2>2. CASE mode = "name" /\ out[1].is = "FOLDER"
    <3>1. taken = <<>>
      BY <1>6, <2>2 DEF Once
    <3> QED
      BY <1>1, <2>2, <3>1 DEF ImapReads, serverVars
  <2>3. CASE mode # "literal" /\ ~(mode = "name" /\ out[1].is = "FOLDER")
    BY <1>1, <2>3 DEF ImapReads, serverVars
  <2> QED
    BY <2>1, <2>2, <2>3
<1>8. Len(taken') <= 1
  <2>1. CASE taken' = taken
    BY <2>1 DEF Once
  <2>2. CASE mode = "literal" /\ taken' = Append(taken, SubSeq(text', 1, need))
    <3>1. taken = <<>>
      BY <2>2 DEF Once
    <3>2. taken' = <<SubSeq(text', 1, need)>>
      BY <2>2, <3>1
    <3>3. PICK x : x = SubSeq(text', 1, need)
      OBVIOUS
    <3>4. Len(<<x>>) = 1
      OBVIOUS
    <3> QED
      BY <3>2, <3>3, <3>4
  <2> QED
    BY <1>1, <2>1, <2>2 DEF ImapReads, serverVars
<1> QED
  BY <1>4, <1>5, <1>7, <1>8 DEF Once

\* The client announces a literal only if the server waits for its folder.
LEMMA OnceSteps ==
  ASSUME ImapInv, Once, NetIndex, setup.kind = "imap", [NetNext]_netVars
  PROVE  Once'
<1>1. CASE Opening \/ Through \/ NetEnded \/ UNCHANGED netVars
  <2>1. UNCHANGED <<out, mode, taken>>
    BY <1>1 DEF Opening, Through, NetEnded, netVars, serverVars
  <2> QED
    BY <2>1, OnceKept
<1>2. CASE Greet
  <2>1. UNCHANGED <<out, taken>> /\ mode' = "command"
    BY <1>2 DEF Greet
  <2> QED
    BY <2>1 DEF Once
<1>3. Quit \in WrittenType /\ Quit.is # "FOLDER"
  BY Writes DEF Quit, Command
<1>4. CASE Connected \/ ImapPoll \/ Untagged
  <2>1. UNCHANGED <<mode, taken>> /\ (out' = out \/ out' = Append(out, Quit))
    <3>1. CASE Connected
      <4>1. conn \in {"up", "failed", "fatal"}
        BY <3>1 DEF Connected
      <4>2. CASE conn = "up" /\ setup.empty
        BY <3>1, <4>2 DEF Connected, serverVars
      <4>3. CASE conn = "up" /\ ~setup.empty
        BY <3>1, <4>3 DEF Connected, serverVars
      <4>4. CASE conn \in {"failed", "fatal"}
        BY <3>1, <4>4 DEF Connected, serverVars
      <4> QED
        BY <4>1, <4>2, <4>3, <4>4
    <3>2. CASE ImapPoll
      BY <3>2 DEF ImapPoll, serverVars
    <3>3. CASE Untagged
      BY <3>3 DEF Untagged, serverVars
    <3> QED
      BY <1>4, <3>1, <3>2, <3>3
  <2> QED
    BY <1>3, <2>1, OnceKept, OnceWritten
<1>5. CASE ImapReply
  <2>1. UNCHANGED <<mode, taken>>
    BY <1>5 DEF ImapReply, serverVars
  <2>2. CASE Abort \/ out' = Append(out, Quit)
    <3>1. out' = Append(out, Quit)
      <4>1. CASE Abort
        <5>1. out' = out \o <<>> \o <<Quit>>
          BY <4>1 DEF Abort, AbortAfter
        <5>2. out \in Seq(WrittenType)
          BY DEF NetIndex, NetTypeOK
        <5> QED
          BY <5>1, <5>2, <1>3, ConcatEmptySeq, AppendIsConcat
      <4> QED
        BY <2>2, <4>1
    <3> QED
      BY <1>3, <2>1, <3>1, OnceWritten
  <2>3. CASE out' = out
    BY <2>1, <2>3, OnceKept
  <2>4. CASE \E c \in {"APPEND", "CREATE", "NAME", "LOGOUT"} : out' = Append(out, Command(c, 0))
    <3>1. PICK c \in {"APPEND", "CREATE", "NAME", "LOGOUT"} : out' = Append(out, Command(c, 0))
      BY <2>4
    <3>2. c \in Commands /\ c # "FOLDER"
      BY DEF Commands
    <3>3. Command(c, 0) \in WrittenType /\ Command(c, 0).is # "FOLDER"
      BY <3>2, Writes DEF Command
    <3> QED
      BY <2>1, <3>1, <3>3, OnceWritten
  <2>5. CASE st = "append" /\ Line = "+" /\ out' = Append(out, Command("FOLDER", MailLen))
    <3>1. conn = "up" /\ HaveLine /\ ReadLine /\ Line # "*" /\ BuffersOK /\ InStep
      BY <1>5, <2>5 DEF ImapReply, NetIndex, Before
    <3>2. /\ BuffersOK' /\ Len(Coming) \in Nat /\ 1 <= Len(Coming) /\ Line = Coming[1].v /\ Lost(1)
      BY <2>5, <3>1, ReadInStep, ComingType
    <3>3. taken = <<>> /\ out = <<>> /\ mode = "name"
      <4>1. ~Asks("APPEND", 0, "command")
        BY <3>2, AskedOf
      <4>2. ~Has({"NO"}, "command")
        BY <2>5, <3>1, <3>2, HasRead
      <4> QED
        BY <2>5, <4>1, <4>2 DEF ImapInv, Has
    <3>4. Len(out') = 1
      BY <2>5, <3>3
    <3> QED
      BY <2>1, <3>3, <3>4 DEF Once
  <2> QED
    BY <1>5, <2>2, <2>3, <2>4, <2>5 DEF ImapReply, SendAppend, TryCreate, Put
<1>6. CASE SendEnd
  <2>1. UNCHANGED <<out, mode, taken>>
    BY <1>6 DEF SendEnd, serverVars
  <2> QED
    BY <2>1, OnceKept
<1>7. CASE SendLine
  <2>1. st = "lines" /\ UNCHANGED <<mode, taken>> /\ sent < Len(mail) /\ UNCHANGED setup
    BY <1>7 DEF SendLine, serverVars
  <2>2. PICK w \in WrittenType : w = WrittenLine /\ w.is = "text"
    <3>1. sent + 1 \in 1 .. Len(mail)
      BY <2>1, MailType DEF NetIndex, NetTypeOK
    <3>2. mail[sent + 1] \in MailLines
      BY <3>1, MailType DEF NetIndex, NetTypeOK
    <3>3. WrittenLine \in WrittenType
      BY <3>2, OneLine, Writes DEF WrittenLine
    <3> QED
      BY <3>3 DEF WrittenLine, TextLine
  <2>3. CASE out' = Append(out, w)
    BY <2>1, <2>2, <2>3, OnceWritten
  <2>4. CASE AbortAfter(<<w>>)
    <3>1. PICK o \in Seq(WrittenType) : o = Append(out, w) /\ out' = Append(o, Quit)
      <4>1. out' = out \o <<w>> \o <<Quit>>
        BY <2>4 DEF AbortAfter
      <4>2. out \o <<w>> = Append(out, w) /\ Append(out, w) \in Seq(WrittenType)
        BY AppendIsConcat, AppendProperties DEF NetIndex, NetTypeOK
      <4>3. PICK o \in Seq(WrittenType) : o = Append(out, w)
        BY <4>2
      <4>4. o \o <<Quit>> = Append(o, Quit)
        BY <1>3, AppendIsConcat
      <4> QED
        BY <4>1, <4>2, <4>3, <4>4
    <3>2. /\ Len(out) \in Nat /\ Len(o) = Len(out) + 1 /\ o[Len(out) + 1] = w
          /\ \A i \in 1 .. Len(out) : o[i] = out[i]
      BY <3>1, Written DEF NetIndex, NetTypeOK
    <3>3. /\ Len(out') = Len(o) + 1 /\ out'[Len(o) + 1] = Quit
          /\ \A i \in 1 .. Len(o) : out'[i] = o[i]
      BY <1>3, <3>1, AppendProperties
    <3>4. \A i \in 1 .. Len(out') : out'[i].is = "FOLDER" => i \in 1 .. Len(out) /\ out[i].is = "FOLDER"
      BY <1>3, <2>2, <3>2, <3>3
    <3>5. \A i \in 2 .. Len(out') : i \in 1 .. Len(out') /\ (i \in 1 .. Len(out) => i \in 2 .. Len(out))
      BY <3>2, <3>3
    <3> QED
      BY <2>1, <3>4, <3>5 DEF Once
  <2> QED
    BY <1>7, <2>2, <2>3, <2>4 DEF SendLine
<1>8. ~SmtpReply /\ ~SmtpPoll /\ ~SmtpServer
  BY StateNames DEF ImapInv, SmtpReply, SmtpPoll, SmtpServer
<1>9. CASE ImapServer
  BY <1>9, OnceServed
<1> QED
  BY <1>1, <1>2, <1>4, <1>5, <1>6, <1>7, <1>8, <1>9 DEF NetNext, Client

-----------------------------------------------------------------------------
(* And all of the steps together.                                          *)

\* A stutter.
LEMMA ImapSame == ImapInv /\ UNCHANGED netVars => ImapInv'
<1> SUFFICES ASSUME ImapInv, UNCHANGED netVars PROVE ImapInv'
  OBVIOUS
<1>1. UNCHANGED <<inp, wire>> /\ UNCHANGED conn
      /\ UNCHANGED <<setup, st, sent, result, out, mode, need, text, taken>>
  BY DEF netVars, connVars, clientVars, serverVars
<1>2. Coming' = Coming
  BY <1>1, SameComing
<1> QED
  BY <1>1, <1>2, ImapKept

\* Every step keeps the invariant of a delivery over IMAP, with Once,
LEMMA ImapSteps ==
  ASSUME ImapInv, Once, NetIndex, NetIndex', setup.kind = "imap", [NetNext]_netVars
  PROVE  ImapInv'
<1>1. ~SmtpReply /\ ~SmtpPoll /\ ~SmtpServer
  BY StateNames DEF ImapInv, SmtpReply, SmtpPoll, SmtpServer
<1>2. CASE Opening
  BY <1>2, ImapOpens
<1>3. CASE Connected
  BY <1>3, ImapConnects
<1>4. CASE ImapPoll
  BY <1>4, ImapPolls
<1>5. CASE Untagged
  BY <1>5, ImapPasses
<1>6. CASE ImapReply
  BY <1>6, ImapGoesOn
<1>7. CASE SendLine \/ SendEnd
  BY <1>7, ImapWritesLines
<1>8. CASE Through
  BY <1>8, ImapThrough
<1>9. CASE Greet
  BY <1>9, ImapGreets
<1>10. CASE ImapServer
  BY <1>10, ImapServerInv
<1>11. CASE UNCHANGED netVars
  BY <1>11, ImapSame
<1> QED
  BY <1>1, <1>2, <1>3, <1>4, <1>5, <1>6, <1>7, <1>8, <1>9, <1>10, <1>11 DEF NetNext, Client, NetEnded

ImapIndex == NetIndex /\ (setup.kind = "imap" => ImapInv /\ Once)

\* and all of the index,
LEMMA ImapIndexStep == ImapIndex /\ [NetNext]_netVars => ImapIndex'
<1> SUFFICES ASSUME ImapIndex, [NetNext]_netVars PROVE ImapIndex'
  OBVIOUS
<1>1. NetIndex /\ NetIndex'
  BY IndexStep DEF ImapIndex
<1>2. setup' = setup
  BY SetupStays
<1>3. ASSUME setup.kind = "imap" PROVE ImapInv' /\ Once'
  BY <1>1, <1>3, ImapSteps, OnceSteps DEF ImapIndex
<1> QED
  BY <1>1, <1>2, <1>3 DEF ImapIndex

\* which holds at the start.
LEMMA ImapIndexInit == NetInit => ImapIndex
<1> SUFFICES ASSUME NetInit PROVE ImapIndex
  OBVIOUS
<1>1. Len(Coming) = 0 /\ Len(out) = 0 /\ Len(taken) = 0
  BY ConcatEmptySeq DEF NetInit, ConnectInit, Coming
<1>2. Once
  BY <1>1 DEF Once, NetInit
<1>3. ImapInv
  BY <1>1 DEF ImapInv, NetInit
<1> QED
  BY <1>2, <1>3, IndexInit DEF ImapIndex

\* What is wanted of a mail that ends in LF is what the invariants say is taken.
LEMMA WantedIs ==
  ASSUME NetTypeOK
  PROVE  /\ setup.kind = "smtp" => Wanted = WholeMail
         /\ setup.kind = "imap" => Wanted = WholeText
<1>1. Len(mail) \in Nat /\ DOMAIN mail = 1 .. Len(mail) /\ setup \in Setups
  BY MailType DEF NetTypeOK
<1>2. setup.kind = "smtp" => Wanted = WholeMail
  BY <1>1 DEF Wanted, WholeMail
<1>3. setup.kind = "imap" => Wanted = WholeText
  <2> SUFFICES ASSUME setup.kind = "imap" PROVE Wanted = WholeText
    OBVIOUS
  <2>1. Wanted = Front(Wired(Len(mail)))
    BY <1>1 DEF Wanted, Wired
  <2>2. PICK w : w = Wired(Len(mail))
    OBVIOUS
  <2>3. Len(w) = MailLen + 1 /\ MailLen \in Nat
    <3>1. Wired(Len(mail)) \in Seq(Symbol) /\ Len(Wired(Len(mail))) = MailLen + 1
      BY <1>1, WiredLen
    <3>2. MailLen \in Nat
      BY <1>1, MailType
    <3> QED
      BY <2>2, <3>1, <3>2
  <2>4. Len(w) - 1 = MailLen
    BY <2>3
  <2>5. Front(w) = SubSeq(w, 1, MailLen)
    BY <2>4 DEF Front
  <2> QED
    BY <2>1, <2>2, <2>5 DEF WholeText
<1> QED
  BY <1>2, <1>3

\* The invariants say what is taken when a success is reported,
LEMMA AcceptedThen == SmtpIndex /\ ImapIndex => ReportedWasAccepted
<1> SUFFICES ASSUME SmtpIndex, ImapIndex, result = "success" PROVE taken = <<Wanted>>
  BY DEF ReportedWasAccepted
<1>1. NetTypeOK /\ st = "end"
  BY DEF SmtpIndex, NetIndex, NetTypeOK
<1>2. CASE setup.kind = "smtp"
  BY <1>1, <1>2, WantedIs DEF SmtpIndex, SmtpInv
<1>3. CASE setup.kind = "imap"
  BY <1>1, <1>3, WantedIs DEF ImapIndex, ImapInv
<1> QED
  BY <1>1, <1>2, <1>3, KindOf

\* and at any other time.
LEMMA OnlyTheMailThen == SmtpIndex /\ ImapIndex => OnlyTheMailIsTaken
<1> SUFFICES ASSUME SmtpIndex, ImapIndex PROVE OnlyTheMailIsTaken
  OBVIOUS
<1>1. NetTypeOK
  BY DEF SmtpIndex, NetIndex
<1>2. CASE setup.kind = "smtp"
  <2>1. taken = <<>> \/ taken = <<Wanted>>
    BY <1>1, <1>2, WantedIs DEF SmtpIndex, SmtpInv
  <2>2. CASE taken = <<>>
    <3>1. Len(taken) = 0 /\ DOMAIN taken = {}
      BY <2>2
    <3> QED
      BY <3>1 DEF OnlyTheMailIsTaken
  <2>3. CASE taken = <<Wanted>>
    <3>1. PICK w : w = Wanted
      OBVIOUS
    <3>2. taken = <<w>>
      BY <2>3, <3>1
    <3>3. Len(taken) = 1 /\ DOMAIN taken = {1} /\ taken[1] = w
      BY <3>2
    <3>4. Len(taken) <= 1
      BY <3>3
    <3> QED
      BY <3>1, <3>3, <3>4 DEF OnlyTheMailIsTaken
  <2> QED
    BY <2>1, <2>2, <2>3
<1>3. CASE setup.kind = "imap"
  BY <1>3 DEF ImapIndex, Once, OnlyTheMailIsTaken
<1> QED
  BY <1>1, <1>2, <1>3, KindOf

\* They always hold.
LEMMA BothAlways == NetSpec => [](SmtpIndex /\ ImapIndex)
<1>1. NetInit => SmtpIndex /\ ImapIndex
  BY SmtpIndexInit, ImapIndexInit
<1>2. SmtpIndex /\ ImapIndex /\ [NetNext]_netVars => SmtpIndex' /\ ImapIndex'
  BY SmtpIndexStep, ImapIndexStep
<1> QED
  BY <1>1, <1>2, PTL DEF NetSpec

\* A success is only reported of a mail that the server has accepted, whole and
\* once: SMTP's 250 is only read after the end was written and taken, and IMAP's
\* OK only comes of a literal that was filled (deliver-smtp.c:180,
\* deliver-imap.c:275).
THEOREM ReportedIsAccepted == NetSpec => []ReportedWasAccepted
BY BothAlways, AcceptedThen, PTL

\* Whenever a delivery is given up, the server has taken nothing or the whole
\* mail over SMTP, and over either nothing twice (deliver-smtp.c:208).
THEOREM NothingElseIsTaken == NetSpec => []OnlyTheMailIsTaken
BY BothAlways, OnlyTheMailThen, PTL
=============================================================================

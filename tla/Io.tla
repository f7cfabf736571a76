--------------------------------- MODULE Io ---------------------------------
(***************************************************************************)
(* Buffered input and output (io.c, buffer.c) as cmd_poll uses it: a pipe  *)
(* that is written and two that are read line by line, polled together.    *)
(*                                                                         *)
(* What travels is pieces: "text" that is no end of line, and "eol".  The  *)
(* buffers grow as they must (buffer_ensure), so that they are sequences   *)
(* without a limit; a pipe has one.  TLS and duplication are left out.     *)
(***************************************************************************)
EXTENDS Naturals, Sequences

CONSTANTS
  PipeSize,     \* pieces a pipe holds
  MaxLine       \* IO_MAXLINELEN, in pieces

ASSUME IoAssumption == {PipeSize, MaxLine} \subseteq Nat \ {0}

VARIABLES
  io,       \* of each io: NULL, or its flags
  pipe,     \* what is in the pipe
  rd        \* io->rd

ioVars == <<io, pipe, rd>>

Stream == <<"in", "out", "err">>     \* in the order io_polln looks at them
Reader == {"out", "err"}
Flags  == {"null", "open", "closed", "error"}
Piece  == {"text", "eol"}

Least(a, b) == IF a < b THEN a ELSE b

-----------------------------------------------------------------------------
(* io_polln, for the ends of the pipes that are still held by the child.   *)

\* The first io that io_before_poll finds closed or in error.
Bad(s) == io[s] \in {"closed", "error"}
FirstBad(s) == \E i \in DOMAIN Stream :
  /\ Stream[i] = s /\ Bad(s)
  /\ \A j \in 1 .. (i - 1) : ~Bad(Stream[j])
AnyBad == \E i \in DOMAIN Stream : Bad(Stream[i])

\* POLLIN or POLLHUP; POLLERR, or POLLOUT if there must be a write (IOF_MUSTWR).
Readable(s, held) == io[s] = "open" /\ (pipe[s] # <<>> \/ s \notin held)
Writable(held, must) ==
  io["in"] = "open" /\ ("in" \notin held \/ (must /\ Len(pipe["in"]) < PipeSize))
Ready(held, must) == Writable(held, must) \/ \E s \in Reader : Readable(s, held)

\* io_after_poll: io_fill reads until there is no more, or the end is seen.
AfterPoll(held) ==
  /\ rd' = [s \in Reader |-> IF Readable(s, held) THEN rd[s] \o pipe[s] ELSE rd[s]]
  /\ pipe' = [s \in DOMAIN pipe |->
                IF s \in Reader /\ Readable(s, held) THEN <<>> ELSE pipe[s]]
  /\ io' = [s \in DOMAIN io |->
              IF io[s] = "open" /\ s \notin held THEN "closed" ELSE io[s]]

-----------------------------------------------------------------------------
(* io_readline2.                                                           *)

\* Where the first line ends, as far as it is searched.
Eols(s) == {i \in 1 .. Least(Len(rd[s]), MaxLine) : rd[s][i] = "eol"}

\* The maximum line length is exceeded: an error.
TooLong(s) ==
  io[s] \in {"open", "closed"} /\ Eols(s) = {} /\ Len(rd[s]) >= MaxLine

\* A line, or when the pipe has closed the rest.
GivesLine(s) ==
  /\ io[s] \in {"open", "closed"}
  /\ Eols(s) # {} \/ (io[s] = "closed" /\ rd[s] # <<>> /\ ~TooLong(s))

LineEnd(s) == IF Eols(s) = {} THEN Len(rd[s]) + 1
              ELSE CHOOSE i \in Eols(s) : \A j \in Eols(s) : i <= j

\* The line is taken out of the buffer with its end, if it has one.
LineOf(s) == SubSeq(rd[s], 1, LineEnd(s) - 1)
RestOf(s) == SubSeq(rd[s], LineEnd(s) + 1, Len(rd[s]))
=============================================================================

-------------------------------- MODULE Mbox --------------------------------
(***************************************************************************)
(* The mbox handler of a fetch child (fetch-mbox.c) with the mbox files it *)
(* reads and rewrites.                                                     *)
(*                                                                         *)
(* A file is a sequence of pieces, each of which begins with a "From "     *)
(* line or has lost it; a mail is a piece and those after it that have no  *)
(* line of their own.  A reference count tells for each mbox how many of   *)
(* its mails are still in memory, in the fetch loop or on the list of kept *)
(* mails; from it fetch_mbox_save decides what to do with the file.        *)
(*                                                                         *)
(* The locks are in DeliverMbox: here nobody else writes.  The fetch loop  *)
(* is reduced to the mails it holds.                                       *)
(***************************************************************************)
EXTENDS Naturals, Sequences, FiniteSets, Functions

CONSTANTS
  Boxes,        \* the account's mboxes are 1 .. Boxes
  MaxMails,     \* bound: mails of an mbox at the start
  MaxRuns,      \* bound: how often fdm is run
  QueueHigh     \* conf.queue_high

ASSUME MboxAssumption ==
  /\ Boxes \in Nat \ {0} /\ {MaxMails, MaxRuns} \subseteq Nat
  /\ QueueHigh \in Nat \ {0}

Box == 1 .. Boxes

Id == Box \X (1 .. MaxMails)
Piece == [id : Id, from : BOOLEAN]

\* struct fetch_mbox_mail
BoxMails == [box : Box, off : Nat \ {0}, text : Seq(Piece)]

\* A file, and one that is not there.
File(text) == [there |-> TRUE, text |-> text]
Missing    == [there |-> FALSE, text |-> <<>>]

VARIABLES
  st,           \* fctx->state, and "save" inside fetch_mbox_state_exit
  index,        \* data->index, from 1, and the mbox being saved
  off,          \* data->off
  ref, total,   \* fmbox->reference and fmbox->total
  flight,       \* the mails in the fetch loop: struct fetch_mbox_mail
  kept,         \* data->kept, by mbox
  freed,        \* the entries of data->kept that have been freed
  dance,        \* the place in the replacement of a file
  file, tmp, saved,   \* the mbox, its temporary and its backup
  runs,
  discarded     \* the pieces last dropped

memVars  == <<index, off, ref, total, flight, kept, freed, dance>>
diskVars == <<file, tmp, saved>>
mboxVars == <<st, memVars, diskVars, runs, discarded>>

MboxOver == {"done", "aborted"}

Ids(text) == {text[k].id : k \in DOMAIN text}

NoneKept == [b \in Box |-> <<>>]

MboxInit ==
  /\ st = "open" /\ index = 1 /\ off = 1
  /\ ref = [b \in Box |-> 0] /\ total = [b \in Box |-> 0]
  /\ flight = {} /\ kept = NoneKept /\ freed = {} /\ dance = 0
  /\ \E n \in [Box -> 0 .. MaxMails] :
       file = [b \in Box |-> File([k \in 1 .. n[b] |-> [id |-> <<b, k>>, from |-> TRUE]])]
  /\ tmp = [b \in Box |-> Missing] /\ saved = [b \in Box |-> Missing]
  /\ runs = 1 /\ discarded = {}

Handler(s) ==
  /\ st = s
  /\ Cardinality(flight) < QueueHigh
  /\ UNCHANGED runs

\* fetch_mbox_abort, at the end or after an error.
Freed ==
  /\ ref' = [b \in Box |-> 0] /\ total' = [b \in Box |-> 0]
  /\ flight' = {} /\ kept' = NoneKept /\ freed' = {} /\ dance' = 0
  /\ index' = 1 /\ off' = 1

-----------------------------------------------------------------------------
(* Reading.                                                                *)

\* A file that is missing or does not begin with a "From " line is an error, an
\* empty one is passed over.
OpenBox ==
  /\ Handler("open")
  /\ IF file[index] = File(<<>>)
     THEN st' = "next" /\ UNCHANGED memVars
     ELSE IF file[index].there /\ Head(file[index].text).from
          THEN st' = "mail" /\ off' = 1
               /\ UNCHANGED <<index, ref, total, flight, kept, freed, dance>>
          ELSE st' = "aborted" /\ Freed
  /\ UNCHANGED <<diskVars, discarded>>

\* The next mbox, or the end when all mails have been dealt with.
NextBox ==
  /\ Handler("next")
  /\ IF index < Boxes
     THEN st' = "open" /\ index' = index + 1
     ELSE flight = {} /\ st' = "exit" /\ UNCHANGED index
  /\ UNCHANGED <<off, ref, total, flight, kept, freed, dance, diskVars, discarded>>

\* The mail that is read from a place ends before the next "From " line.  That
\* line is passed over in looking for it: it is the first line of no mail.
TextEnd(f, i) ==
  CHOOSE j \in i .. Len(f) :
    /\ \A k \in (i + 1) .. j : ~f[k].from
    /\ j = Len(f) \/ f[j + 1].from

Text(f, i) ==
  [k \in 1 .. (TextEnd(f, i) - i + 1) |->
     [id |-> f[i + k - 1].id, from |-> i = 1 /\ k = 1]]

\* The next mail of the mbox, or its end.
ReadMail ==
  /\ Handler("mail")
  /\ LET f == file[index].text IN
       IF off > Len(f)
       THEN st' = "next" /\ UNCHANGED <<off, ref, total, flight>>
       ELSE /\ flight' = flight \cup {[box |-> index, off |-> off, text |-> Text(f, off)]}
            /\ ref' = [ref EXCEPT ![index] = @ + 1]
            /\ total' = [total EXCEPT ![index] = @ + 1]
            /\ off' = TextEnd(f, off) + 1
            /\ UNCHANGED st
  /\ UNCHANGED <<index, kept, freed, dance, diskVars, discarded>>

\* The fetch loop commits a mail: it is freed when it is dropped.
Commit(m) ==
  /\ st \notin MboxOver /\ m \in flight
  /\ flight' = flight \ {m}
  /\ \/ /\ discarded' = discarded \cup Ids(m.text)
        /\ ref' = [ref EXCEPT ![m.box] = @ - 1]
        /\ UNCHANGED kept
     \/ /\ kept' = [kept EXCEPT ![m.box] = Append(@, m)]
        /\ discarded' = discarded \ Ids(m.text)
        /\ UNCHANGED ref
  /\ UNCHANGED <<st, index, off, total, freed, dance, diskVars, runs>>

-----------------------------------------------------------------------------
(* Saving.                                                                 *)

Exit ==
  /\ Handler("exit")
  /\ st' = "save" /\ index' = 1
  /\ UNCHANGED <<off, ref, total, flight, kept, freed, dance, diskVars, discarded>>

\* fetch_mbox_save goes on with the next mbox, and after the last one the run
\* is over.
SavedBox ==
  IF index < Boxes
  THEN /\ index' = index + 1 /\ dance' = 0
       /\ UNCHANGED <<st, off, total, flight>>
  ELSE /\ st' = "done" /\ index' = 1 /\ off' = 1 /\ dance' = 0
       /\ total' = [b \in Box |-> 0] /\ UNCHANGED flight

\* A slip: one kept mail counts for none.
SaveNone ==
  /\ st = "save" /\ dance = 0
  /\ ref[index] \in {0, 1, total[index]}
  /\ file' = IF ref[index] <= 1 /\ total[index] # 0
             THEN [file EXCEPT ![index] = File(<<>>)] ELSE file
  /\ ref' = [ref EXCEPT ![index] = @ - Len(kept[index])]
  /\ freed' = freed \cup Range(kept[index])
  /\ SavedBox
  /\ UNCHANGED <<kept, tmp, saved, runs, discarded>>

\* No mail is kept, or all are: the file is truncated or left alone, and what is
\* kept is freed, but it stays on the list.
SaveWhole ==
  /\ st = "save" /\ dance = 0
  /\ ref[index] \in {0, total[index]}
  /\ file' = IF ref[index] = 0 /\ total[index] # 0
             THEN [file EXCEPT ![index] = File(<<>>)] ELSE file
  /\ ref' = [ref EXCEPT ![index] = @ - Len(kept[index])]
  /\ freed' = freed \cup Range(kept[index])
  /\ SavedBox
  /\ UNCHANGED <<kept, tmp, saved, runs, discarded>>

\* Some are kept: a temporary file is made,
SavePart ==
  /\ st = "save" /\ dance = 0
  /\ ref[index] \notin {0, total[index]}
  /\ tmp' = [tmp EXCEPT ![index] = File(<<>>)]
  /\ dance' = 1
  /\ UNCHANGED <<st, index, off, ref, total, flight, kept, freed, file, saved, runs, discarded>>

Dances(n) == st = "save" /\ dance = n /\ UNCHANGED <<runs, discarded>>

\* and each of them written to it, freed and removed from the list.
WriteKept ==
  /\ Dances(1) /\ kept[index] # <<>>
  /\ tmp' = [tmp EXCEPT ![index] = File(@.text \o Head(kept[index]).text)]
  /\ kept' = [kept EXCEPT ![index] = Tail(@)]
  /\ ref' = [ref EXCEPT ![index] = @ - 1]
  /\ UNCHANGED <<st, index, off, total, flight, freed, dance, file, saved>>

\* link(fmbox->path, saved), if no backup is in the way
LinkSaved ==
  /\ Dances(1) /\ kept[index] = <<>> /\ ~saved[index].there
  /\ saved' = [saved EXCEPT ![index] = file[index]] /\ dance' = 2
  /\ UNCHANGED <<st, index, off, ref, total, flight, kept, freed, file, tmp>>

\* unlink(fmbox->path), link(path, fmbox->path), unlink(path)
UnlinkMbox ==
  /\ Dances(2)
  /\ file' = [file EXCEPT ![index] = Missing] /\ dance' = 3
  /\ UNCHANGED <<st, index, off, ref, total, flight, kept, freed, tmp, saved>>

LinkMbox ==
  /\ Dances(3)
  /\ file' = [file EXCEPT ![index] = tmp[index]] /\ dance' = 4
  /\ UNCHANGED <<st, index, off, ref, total, flight, kept, freed, tmp, saved>>

UnlinkTmp ==
  /\ Dances(4)
  /\ tmp' = [tmp EXCEPT ![index] = Missing] /\ dance' = 5
  /\ UNCHANGED <<st, index, off, ref, total, flight, kept, freed, file, saved>>

\* unlink(saved)
UnlinkSaved ==
  /\ Dances(5)
  /\ saved' = [saved EXCEPT ![index] = Missing]
  /\ SavedBox
  /\ UNCHANGED <<ref, kept, freed, file, tmp>>

\* A call of these fails: the temporary file is removed, the rest left as it is.
SaveFails ==
  /\ st = "save" /\ dance > 0
  /\ tmp' = [tmp EXCEPT ![index] = Missing]
  /\ st' = "aborted" /\ Freed
  /\ UNCHANGED <<file, saved, runs, discarded>>

-----------------------------------------------------------------------------
\* An error, or the child killed, at any point.
Stops ==
  /\ st \notin MboxOver
  /\ st' = "aborted" /\ Freed
  /\ UNCHANGED <<diskVars, runs, discarded>>

Restart ==
  /\ st \in MboxOver /\ runs < MaxRuns
  /\ runs' = runs + 1
  /\ st' = "open" /\ Freed
  /\ UNCHANGED <<diskVars, discarded>>

MboxRest == st \in MboxOver /\ runs = MaxRuns /\ UNCHANGED mboxVars

Reading == OpenBox \/ NextBox \/ ReadMail \/ Exit
Saving  == SaveWhole \/ SavePart \/ WriteKept \/ LinkSaved \/ UnlinkMbox \/ LinkMbox
           \/ UnlinkTmp \/ UnlinkSaved \/ SaveFails
Commits == \E m \in flight : Commit(m)

MboxNext == Reading \/ Saving \/ Commits \/ Stops \/ Restart \/ MboxRest

MboxSpec == MboxInit /\ [][MboxNext]_mboxVars

-----------------------------------------------------------------------------
(* Properties.                                                             *)

\* Every variable keeps its type.
MboxTypeOK ==
  /\ st \in {"open", "mail", "next", "exit", "save"} \cup MboxOver
  /\ index \in Box /\ off \in Nat \ {0} /\ dance \in 0 .. 5
  /\ ref \in [Box -> Nat] /\ total \in [Box -> Nat]
  /\ flight \subseteq BoxMails /\ kept \in [Box -> Seq(BoxMails)]
  /\ freed \subseteq BoxMails
  /\ {file, tmp, saved} \subseteq [Box -> [there : BOOLEAN, text : Seq(Piece)]]
  /\ runs \in Nat /\ discarded \subseteq Id

\* The reference count of an mbox is the number of its mails in memory, in the
\* fetch loop or on the list of kept mails, so that fetch_mbox_save never takes some
\* for all or for none; and it is zero when an mbox has been saved (fetch-mbox.c:221,
\* "dangling reference", is fatal).
ReferencesCounted ==
  st \notin MboxOver => \A b \in Box :
    IF st = "save" /\ b < index
    THEN ref[b] = 0
    ELSE /\ ref[b] = Cardinality({m \in flight : m.box = b}) + Len(kept[b])
         /\ ref[b] <= total[b]

InFiles == UNION {Ids(file[b].text \o tmp[b].text \o saved[b].text) : b \in Box}

\* Whatever the step at which a run is cut short, a mail that has not been
\* dropped stays in the mbox or in one of the files of its replacement.
NothingLost == [][InFiles \ InFiles' \subseteq discarded]_mboxVars

\* Every mail in an mbox begins with its "From " line, also after it has been
\* rewritten.  fetch-mbox.c:442 says "We start at a "From " line and include it
\* in the mail".
WellFormed ==
  \A b \in Box : \A k \in DOMAIN file[b].text : file[b].text[k].from

\* What fetch_mbox_save walks through is there.  fetch-mbox.c:150 says
\* "data->kept is a list of all the mails (struct fetch_mbox_mail) which were
\* kept for ALL mailboxes."
KeptIsAlive == st = "save" /\ dance = 0 => freed = {}
=============================================================================

------------------------------- MODULE MCImap -------------------------------
(* Instances of Imap for TLC.                                              *)
EXTENDS Imap

MCUid == 1 .. 3

\* Only the second of three folders has mail.
OneFull == <<{}, {1, 2, 3}, {}>>

\* One mail in each, all with the same uid.
OneOfEach == <<{1}, {1}, {1}>>

\* More in the first folder, or in the second.
MoreFirst == <<{1, 2}, {1}, {1}>>
MoreSecond == <<{1}, {1, 2}, {}>>

NoneLarge == {}

MCAccounts ==
  [only : {"all"}, poll : {FALSE},
   mailbox : {OneFull, OneOfEach, MoreFirst, MoreSecond}]
    \cup [only : {"new"}, poll : {FALSE}, mailbox : {OneFull}]
    \cup [only : {"old", "all"}, poll : {TRUE}, mailbox : {OneFull, OneOfEach}]
=============================================================================

----------------------------- MODULE ImapProofs -----------------------------
(***************************************************************************)
(* Proofs about the IMAP handler, for any number of folders, mails and     *)
(* runs, with mail in any of the folders, uids that coincide between them, *)
(* other clients at work and runs cut short anywhere.                      *)
(*                                                                         *)
(* The handler counts right up to the first folder with mail (Single).     *)
(* What is proved says so, and what is left of it in the folders after.    *)
(***************************************************************************)
EXTENDS Imap, FiniteSetTheorems, TLAPS

-----------------------------------------------------------------------------
(* The invariants.                                                         *)

\* The states in which a folder is selected.
Inside == {"search", "next", "body", "flush", "commit", "expunge", "close"}

\* The folder gone to and the folder selected are folders of the account.
FolderInv ==
  /\ st \notin {"quit"} \cup Over => folder \in Folder
  /\ st \in Inside => sel \in Folder

Held == flight \cup droppedq \cup keptq

\* What fdm has of a mail is true of it, and there is only what was there.
KnownInv ==
  /\ st = "commit" => storing \in {"Deleted", "Seen"}
  /\ \A f \in Folder : mail[f] \subseteq Mailbox[f]
  /\ \A x \in wanted \cup Held : x.uid \in Mailbox[x.from]

\* A mail is in one place of four.
Disjoint ==
  /\ wanted \cap Held = {}
  /\ flight \cap (droppedq \cup keptq) = {} /\ droppedq \cap keptq = {}

\* The states in which mails are fetched from the folder and committed.
Working == {"next", "body", "flush", "commit", "expunge"}

\* Only in a folder with mail does the handler get to work.
Busy == st \in {"search"} \cup Working => sel = folder /\ Mailbox[folder] # {}

\* What is wanted is of the folder, but for a poll, which fetches nothing.
WantedInv ==
  /\ st \in Working => ~Polling /\ \A x \in wanted : x.from = folder
  /\ Polling => Held = {}
  /\ ~Polling /\ st \notin Working => wanted = {}

\* The mail that is read is a wanted one of the folder.
Reading == st = "body" => [uid |-> cur, from |-> sel] \in wanted

\* A folder that has been left, or is being closed.
Left(f) == f < folder \/ (st = "close" /\ f = folder)

\* A mail the fetch loop has, or that waits for its STORE, is of the folder at
\* work, or of one left before that was not the first with mail.
OriginInv ==
  \A x \in Held :
    \/ st \in Working /\ x.from = folder
    \/ Left(x.from) /\ ~Single(x.from)

\* Something is committed when there was a folder with mail.
CommittedInv ==
  st \notin Over /\ committed # 0 =>
    \/ st \in Working
    \/ \E f \in Folder : Left(f) /\ Mailbox[f] # {}

\* The mails of the folder, from the search on.
Count == committed + Cardinality(wanted) + Cardinality(flight)
         + Cardinality(droppedq) + Cardinality(keptq)

Counted ==
  /\ st \in {"next", "body", "expunge"} => total = Count
  /\ st = "commit" => total = Count + 1

CountInv == Single(folder) => Counted

PlaceInv ==
  Disjoint /\ Busy /\ WantedInv /\ Reading /\ OriginInv /\ CommittedInv /\ CountInv

\* A uid that is used in folder f was dropped there, or in a folder before that
\* was not the first with mail.
WasDropped(f, u) ==
  \/ "drop" \in decided[<<f, u>>]
  \/ \E g \in Folder : g < f /\ ~Single(g) /\ "drop" \in decided[<<g, u>>]

\* A mail that is to be deleted has been decided to be dropped.
DropInv ==
  /\ \A x \in droppedq : "drop" \in decided[<<x.from, x.uid>>]
  /\ st = "commit" /\ storing = "Deleted" => cur \in Uid /\ WasDropped(folder, cur)
  /\ \A x \in erased : WasDropped(x[1], x[2])

-----------------------------------------------------------------------------
(* Types.                                                                  *)

LEMMA MailsAreFinite ==
  /\ IsFiniteSet(MailType)
  /\ \A S \in SUBSET MailType : IsFiniteSet(S) /\ Cardinality(S) \in Nat
  /\ \A S \in SUBSET Uid : IsFiniteSet(S) /\ Cardinality(S) \in Nat
<1>1. IsFiniteSet(Folder) /\ IsFiniteSet(Uid)
  BY FS_Interval, ImapAssumption DEF Folder
<1>2. IsFiniteSet(Uid \X Folder)
  BY <1>1, FS_Product
<1> DEFINE made == [p \in Uid \X Folder |-> [uid |-> p[1], from |-> p[2]]]
<1>3. made \in Surjection(Uid \X Folder, MailType)
  <2>1. \A p \in Uid \X Folder : made[p] \in MailType
    BY DEF MailType
  <2>2. ASSUME NEW x \in MailType PROVE \E p \in Uid \X Folder : made[p] = x
    <3>1. <<x.uid, x.from>> \in Uid \X Folder /\ made[<<x.uid, x.from>>] = x
      BY DEF MailType
    <3> QED
      BY <3>1
  <2> QED
    BY <2>1, <2>2 DEF Surjection
<1>4. IsFiniteSet(MailType)
  BY <1>2, <1>3, FS_Surjection
<1> QED
  BY <1>1, <1>4, FS_Subset, FS_CardinalityType

\* The parts of the type invariant.
TypeControl ==
  /\ st \in {"connect", "select", "search", "next", "body", "flush", "commit",
             "expunge", "close", "quit"} \cup Over
  /\ folder \in 1 .. (Last + 1)
  /\ cur \in Uid \cup {0} /\ storing \in {"none", "Deleted", "Seen"}

TypeLists ==
  /\ wanted \in SUBSET MailType /\ flight \in SUBSET MailType
  /\ droppedq \in SUBSET MailType /\ keptq \in SUBSET MailType

TypeCounts == total \in Nat /\ committed \in Nat /\ foldersTotal \in Nat

TypeTurn ==
  /\ dropped \in Nat /\ kept \in Nat /\ lastTotal \in Nat /\ lastDropped \in Nat
  /\ purge \in BOOLEAN

TypeServer ==
  /\ sel \in Folder \cup {0}
  /\ mail \in [Folder -> SUBSET Uid] /\ seen \in [Folder -> SUBSET Uid]
  /\ deleted \in [Folder -> SUBSET Uid]
  /\ erased \in SUBSET (Folder \X Uid)

TypeRuns ==
  /\ account \in Accounts /\ runs \in Nat
  /\ decided \in [Folder \X Uid -> SUBSET {"drop", "keep"}]

LEMMA TypeParts ==
  TypeOK <=> /\ TypeControl /\ TypeLists /\ TypeCounts /\ TypeTurn
             /\ TypeServer /\ TypeRuns
BY DEF TypeOK, TypeControl, TypeLists, TypeCounts, TypeTurn, TypeServer, TypeRuns

LEMMA TypeInit == Init => TypeOK
<1> SUFFICES ASSUME Init PROVE TypeOK
  OBVIOUS
<1>1. TypeControl
  BY ImapAssumption DEF Init, TypeControl
<1>2. TypeLists /\ TypeCounts /\ TypeTurn
  BY DEF Init, TypeLists, TypeCounts, TypeTurn
<1>3. None \in [Folder -> SUBSET Uid]
  BY DEF None
<1>4. mail \in [Folder -> SUBSET Uid]
  BY ImapAssumption DEF Init, Folder, Mailbox
<1>5. TypeServer
  BY <1>3, <1>4 DEF Init, TypeServer
<1>6. decided \in [Folder \X Uid -> SUBSET {"drop", "keep"}]
  BY DEF Init
<1>7. TypeRuns
  BY <1>6, ImapAssumption DEF Init, TypeRuns
<1> QED
  BY <1>1, <1>2, <1>5, <1>7, TypeParts

\* The purge and the tally, in a turn of the handler.
LEMMA TurnTypes ==
  ASSUME TypeTurn
  PROVE  /\ Purging \in BOOLEAN
         /\ PurgeCheck /\ (purge' = Purging \/ purge' = FALSE) /\ UNCHANGED tallyVars => TypeTurn'
<1>1. Purging \in BOOLEAN
  BY DEF TypeTurn, Purging, PurgeDue
<1>2. dropped + kept \in Nat
  BY DEF TypeTurn
<1> QED
  BY <1>1, <1>2 DEF TypeTurn, PurgeCheck, tallyVars

LEMMA ControlStep ==
  ASSUME TypeControl, TypeLists, FolderInv, sel \in Folder \cup {0}, [Next]_vars
  PROVE  TypeControl' /\ FolderInv'
<1> USE DEF TypeControl, FolderInv, Inside, Folder,
            queueVars, countVars, serverVars, purgeVars, tallyVars, Over, Handler
<1>0. \A x \in MailType : x.uid \in Uid
  BY DEF MailType
<1>1. CASE Login \/ Search
  BY <1>1 DEF Login, Search
<1>2. CASE Select
  BY <1>2 DEF Select
<1>3. CASE NextStore
  BY <1>3, <1>0 DEF NextStore, TypeLists
<1>4. CASE NextPurge \/ NextClose
  BY <1>4 DEF NextPurge, NextClose
<1>5. CASE NextFetch
  BY <1>5, <1>0 DEF NextFetch, TypeLists
<1>6. CASE Body
  BY <1>6 DEF Body
<1>7. CASE Commit \/ Expunge
  BY <1>7 DEF Commit, Expunge, Expunged
<1>8. CASE Close
  <2>1. folder \in 1 .. Last /\ folder' = folder + 1
    BY <1>8 DEF Close
  <2>2. st' = IF folder' <= Last THEN "select" ELSE "quit"
    BY <1>8 DEF Close
  <2>3. sel' = 0 /\ UNCHANGED <<cur, storing>>
    BY <1>8 DEF Close
  <2> QED
    BY <2>1, <2>2, <2>3, ImapAssumption
<1>9. CASE Quit \/ Missing \/ Stops
  BY <1>9 DEF Quit, Missing, Stops, Freed
<1>10. CASE Restart
  BY <1>10, ImapAssumption DEF Restart, Fresh
<1>11. CASE IdleTurn \/ Vanishes
  BY <1>11 DEF IdleTurn, Vanishes
<1>12. CASE CommitStep
  BY <1>12 DEF CommitStep, CommitMail
<1>13. CASE UNCHANGED vars
  BY <1>13 DEF vars
<1> QED
  BY <1>1, <1>2, <1>3, <1>4, <1>5, <1>6, <1>7, <1>8, <1>9, <1>10, <1>11, <1>12, <1>13
     DEF Next, HandlerStep, Rest

LEMMA ListsStep ==
  ASSUME TypeLists, TypeServer, FolderInv, TypeControl, TypeRuns, [Next]_vars
  PROVE  TypeLists'
<1> USE DEF TypeLists, queueVars, countVars, serverVars, Handler
<1>1. CASE Search
  <2>1. sel \in Folder
    BY <1>1 DEF Search, FolderInv, Inside
  <2>2. Found \in SUBSET Uid
    <3>1. mail[sel] \in SUBSET Uid
      BY <2>1 DEF TypeServer
    <3>2. Found = mail[sel] \/ Found = mail[sel] \ seen[sel] \/ Found = mail[sel] \cap seen[sel]
      BY <1>1, ImapAssumption DEF Found, Only, TypeRuns
    <3> QED
      BY <3>1, <3>2
  <2>3. [uid : Found, from : {sel}] \in SUBSET MailType
    BY <2>1, <2>2 DEF MailType
  <2> QED
    BY <1>1, <2>3 DEF Search
<1>2. CASE Body
  <2>1. sel \in Folder /\ mail[sel] \in SUBSET Uid
    BY <1>2 DEF Body, FolderInv, Inside, TypeServer
  <2>2. [uid |-> cur, from |-> sel] \in MailType
    BY <1>2, <2>1 DEF Body, MailType
  <2> QED
    BY <1>2, <2>2 DEF Body
<1>3. CASE Login \/ Select \/ NextPurge \/ NextClose \/ NextFetch
  BY <1>3 DEF Login, Select, NextPurge, NextClose, NextFetch
<1>4. CASE NextStore
  BY <1>4 DEF NextStore
<1>5. CASE Commit \/ Expunge \/ Close
  BY <1>5 DEF Commit, Expunge, Close
<1>6. CASE Quit \/ Missing \/ Stops
  BY <1>6 DEF Quit, Missing, Stops, Freed
<1>7. CASE Restart
  BY <1>7 DEF Restart, Fresh
<1>8. CASE IdleTurn \/ Vanishes \/ UNCHANGED vars
  BY <1>8 DEF IdleTurn, Vanishes, vars
<1>9. CASE CommitStep
  BY <1>9 DEF CommitStep, CommitMail
<1> QED
  BY <1>1, <1>2, <1>3, <1>4, <1>5, <1>6, <1>7, <1>8, <1>9 DEF Next, HandlerStep, Rest

LEMMA CountsStep ==
  ASSUME TypeCounts, TypeLists', TypeServer, FolderInv, TypeControl, [Next]_vars
  PROVE  TypeCounts'
<1> USE DEF TypeCounts, queueVars, countVars, Handler
<1>1. CASE Select
  <2>1. folder \in Folder /\ mail[folder] \in SUBSET Uid
    BY <1>1 DEF Select, FolderInv, TypeServer, Over
  <2>2. Cardinality(mail[folder]) \in Nat
    BY <2>1, MailsAreFinite
  <2> QED
    BY <1>1, <2>2 DEF Select
<1>2. CASE Search
  <2>1. Cardinality(wanted') \in Nat
    BY MailsAreFinite DEF TypeLists
  <2>2. total' \in Nat
    BY <1>2, <2>1 DEF Search
  <2> QED
    BY <1>2, <2>2 DEF Search
<1>3. CASE Commit
  BY <1>3 DEF Commit
<1>4. CASE Restart
  BY <1>4 DEF Restart, Fresh
<1>5. CASE Login \/ NextStore \/ NextPurge \/ NextClose \/ NextFetch
  BY <1>5 DEF Login, NextStore, NextPurge, NextClose, NextFetch
<1>6. CASE Body \/ Expunge \/ Close
  BY <1>6 DEF Body, Expunge, Close
<1>7. CASE Quit \/ Missing \/ Stops
  BY <1>7 DEF Quit, Missing, Stops
<1>8. CASE IdleTurn \/ Vanishes \/ UNCHANGED vars
  BY <1>8 DEF IdleTurn, Vanishes, vars
<1>9. CASE CommitStep
  BY <1>9 DEF CommitStep, CommitMail
<1> QED
  BY <1>1, <1>2, <1>3, <1>4, <1>5, <1>6, <1>7, <1>8, <1>9 DEF Next, HandlerStep, Rest

LEMMA TurnStep ==
  ASSUME TypeTurn, [Next]_vars
  PROVE  TypeTurn'
<1>1. ASSUME PurgeCheck, purge' = Purging \/ purge' = FALSE, UNCHANGED tallyVars
      PROVE  TypeTurn'
  BY <1>1, TurnTypes
<1>2. CASE Login \/ Select \/ Search \/ NextStore
  BY <1>1, <1>2 DEF Login, Select, Search, NextStore, Handler
<1>3. CASE NextPurge \/ NextClose \/ NextFetch
  BY <1>1, <1>3 DEF NextPurge, NextClose, NextFetch, Handler
<1>4. CASE Body \/ Commit \/ Expunge \/ Close
  BY <1>1, <1>4 DEF Body, Commit, Expunge, Close, Handler
<1>5. CASE Quit \/ Missing
  BY <1>1, <1>5 DEF Quit, Missing, Handler
<1>6. CASE IdleTurn
  BY <1>1, <1>6 DEF IdleTurn
<1>7. CASE Stops \/ Vanishes \/ UNCHANGED vars
  BY <1>7 DEF Stops, Vanishes, vars, purgeVars, tallyVars, TypeTurn
<1>8. CASE Restart
  BY <1>8 DEF Restart, Fresh, TypeTurn
<1>9. CASE CommitStep
  BY <1>9 DEF CommitStep, CommitMail, purgeVars, TypeTurn
<1> QED
  BY <1>2, <1>3, <1>4, <1>5, <1>6, <1>7, <1>8, <1>9 DEF Next, HandlerStep, Rest

LEMMA ServerStep ==
  ASSUME TypeServer, TypeControl, FolderInv, [Next]_vars
  PROVE  TypeServer'
<1> USE DEF TypeServer, serverVars, Handler
<1>1. CASE Select
  BY <1>1 DEF Select, FolderInv, Over
<1>2. CASE Body
  <2>1. sel \in Folder /\ {cur} \in SUBSET Uid
    BY <1>2 DEF Body, FolderInv, Inside
  <2> QED
    BY <1>2, <2>1 DEF Body
<1>3. CASE Commit
  <2>1. sel \in Folder /\ {cur} \cap mail[sel] \in SUBSET Uid
    BY <1>3 DEF Commit, FolderInv, Inside
  <2>2. UNCHANGED <<sel, mail>>
    BY <1>3 DEF Commit
  <2>3. deleted' \in [Folder -> SUBSET Uid] /\ seen' \in [Folder -> SUBSET Uid]
    BY <1>3, <2>1 DEF Commit
  <2>4. erased' \in SUBSET (Folder \X Uid)
    BY <1>3, <2>1 DEF Commit
  <2> QED
    BY <2>2, <2>3, <2>4
<1>4. CASE Expunge \/ Close
  <2>1. sel \in Folder
    BY <1>4 DEF Expunge, Close, FolderInv, Inside
  <2>2. mail' \in [Folder -> SUBSET Uid] /\ deleted' \in [Folder -> SUBSET Uid]
    BY <1>4, <2>1 DEF Expunge, Close, Expunged
  <2>3. UNCHANGED <<seen, erased>> /\ sel' \in Folder \cup {0}
    BY <1>4 DEF Expunge, Close
  <2> QED
    BY <2>2, <2>3
<1>5. CASE Vanishes
  BY <1>5 DEF Vanishes
<1>6. CASE Quit \/ Missing \/ Stops
  BY <1>6 DEF Quit, Missing, Stops, Freed
<1>7. CASE Login \/ Search \/ NextStore \/ NextPurge \/ NextClose \/ NextFetch
  BY <1>7 DEF Login, Search, NextStore, NextPurge, NextClose, NextFetch
<1>8. CASE IdleTurn \/ UNCHANGED vars \/ Restart
  BY <1>8 DEF IdleTurn, vars, Restart
<1>9. CASE CommitStep
  BY <1>9 DEF CommitStep, CommitMail
<1> QED
  BY <1>1, <1>2, <1>3, <1>4, <1>5, <1>6, <1>7, <1>8, <1>9 DEF Next, HandlerStep, Rest

LEMMA RunsStep ==
  ASSUME TypeRuns, [Next]_vars
  PROVE  TypeRuns'
<1> USE DEF TypeRuns
<1>1. CASE HandlerStep
  <2>1. runs' = runs /\ decided' = decided
    BY <1>1 DEF HandlerStep, Login, Select, Search, NextStore, NextPurge, NextClose,
                NextFetch, Body, Commit, Expunge, Close, Quit, Missing
  <2> QED
    BY <2>1 DEF Next, vars
<1>2. CASE CommitStep
  <2>1. PICK x \in flight, d \in {"drop", "keep"} : CommitMail(x, d)
    BY <1>2 DEF CommitStep
  <2>2. decided' = [decided EXCEPT ![<<x.from, x.uid>>] = @ \cup {d}]
    BY <2>1 DEF CommitMail
  <2>3. decided' \in [Folder \X Uid -> SUBSET {"drop", "keep"}]
    BY <2>2
  <2>4. runs' = runs /\ account' = account
    BY <2>1 DEF CommitMail, Next, vars
  <2> QED
    BY <2>3, <2>4
<1>3. CASE IdleTurn \/ Stops \/ Vanishes \/ Restart
  BY <1>3 DEF IdleTurn, Stops, Vanishes, Restart, Next, vars
<1>4. CASE UNCHANGED vars
  BY <1>4 DEF vars
<1> QED
  BY <1>1, <1>2, <1>3, <1>4 DEF Next, Rest

LEMMA TypeCorrectStep ==
  ASSUME TypeOK, FolderInv, [Next]_vars
  PROVE  TypeOK' /\ FolderInv'
<1>1. TypeControl /\ TypeLists /\ TypeCounts /\ TypeTurn /\ TypeServer /\ TypeRuns
  BY TypeParts
<1>2. TypeControl' /\ FolderInv'
  BY <1>1, ControlStep DEF TypeServer
<1>3. TypeLists' /\ TypeServer' /\ TypeTurn' /\ TypeRuns'
  BY <1>1, ListsStep, ServerStep, TurnStep, RunsStep
<1>4. TypeCounts'
  BY <1>1, <1>3, CountsStep
<1>5. TypeOK'
  BY <1>2, <1>3, <1>4 DEF TypeOK, TypeControl, TypeLists, TypeCounts, TypeTurn,
                          TypeServer, TypeRuns
<1> QED
  BY <1>2, <1>5

\* Every variable of the IMAP handler keeps its type (imap_state_init and the
\* states it goes through); and the folder it selects is one of the account.
THEOREM TypeCorrect == Spec => [](TypeOK /\ FolderInv)
<1>1. Init => TypeOK /\ FolderInv
  BY TypeInit, ImapAssumption DEF Init, FolderInv, Inside, Folder
<1>2. TypeOK /\ FolderInv /\ [Next]_vars => (TypeOK /\ FolderInv)'
  BY TypeCorrectStep
<1> QED
  BY <1>1, <1>2, PTL DEF Spec

-----------------------------------------------------------------------------
(* The mails the handler knows.                                            *)

\* The account is what it was.
LEMMA AccountKept ==
  ASSUME [Next]_vars
  PROVE  /\ Mailbox' = Mailbox /\ Polling' = Polling
         /\ \A f : Single(f)' <=> Single(f)
BY DEF Next, vars, Mailbox, Polling, Single

LEMMA KnownStep ==
  ASSUME TypeOK, FolderInv, KnownInv, [Next]_vars
  PROVE  KnownInv'
<1> USE DEF queueVars, countVars, serverVars, Handler
<1>1. st' = "commit" => storing' \in {"Deleted", "Seen"}
  <2>1. CASE NextStore
    BY <2>1 DEF NextStore
  <2>2. CASE Login \/ Select \/ Search \/ NextPurge \/ NextClose \/ NextFetch \/ Body
    BY <2>2 DEF Login, Select, Search, NextPurge, NextClose, NextFetch, Body
  <2>3. CASE Commit \/ Expunge \/ Close \/ Quit \/ Missing
    BY <2>3 DEF Commit, Expunge, Close, Quit, Missing
  <2>4. CASE IdleTurn \/ CommitStep \/ Vanishes \/ UNCHANGED vars
    BY <2>4 DEF IdleTurn, CommitStep, CommitMail, Vanishes, vars, KnownInv
  <2>5. CASE Stops \/ Restart
    BY <2>5 DEF Stops, Restart, Fresh
  <2> QED
    BY <2>1, <2>2, <2>3, <2>4, <2>5 DEF Next, HandlerStep, Rest
<1>2. \A f \in Folder : mail'[f] \subseteq mail[f]
  <2>0. mail \in [Folder -> SUBSET Uid]
    BY DEF TypeOK
  <2>1. CASE Expunge \/ Close
    <3>1. mail' = [mail EXCEPT ![sel] = @ \ deleted[sel]]
      BY <2>1 DEF Expunge, Close, Expunged
    <3> QED
      BY <2>0, <3>1
  <2>2. CASE Vanishes
    <3>1. PICK f \in Folder : \E u \in mail[f] : mail' = [mail EXCEPT ![f] = @ \ {u}]
      BY <2>2 DEF Vanishes
    <3> QED
      BY <2>0, <3>1
  <2>3. CASE UNCHANGED mail
    BY <2>3
  <2>4. CASE Login \/ Select \/ Search \/ NextStore \/ NextPurge \/ NextClose \/ NextFetch
    BY <2>3, <2>4 DEF Login, Select, Search, NextStore, NextPurge, NextClose, NextFetch
  <2>5. CASE Body \/ Commit \/ Quit \/ Missing \/ Stops
    BY <2>3, <2>5 DEF Body, Commit, Quit, Missing, Stops
  <2>6. CASE IdleTurn \/ CommitStep \/ Restart \/ UNCHANGED vars
    BY <2>3, <2>6 DEF IdleTurn, CommitStep, CommitMail, Restart, vars
  <2> QED
    BY <2>1, <2>2, <2>4, <2>5, <2>6 DEF Next, HandlerStep, Rest
<1>3. \A x \in (wanted \cup Held)' : x.uid \in Mailbox[x.from]
  <2>0. /\ \A f \in Folder : mail[f] \subseteq Mailbox[f]
        /\ \A x \in wanted \cup Held : x.uid \in Mailbox[x.from]
    BY DEF KnownInv
  <2>1. CASE Search
    <3>1. sel \in Folder
      BY <2>1 DEF Search, FolderInv, Inside
    <3>2. Found \subseteq mail[sel]
      BY ImapAssumption DEF TypeOK, Found, Only
    <3>3. (wanted \cup Held)' = wanted \cup Held \cup [uid : Found, from : {sel}]
      BY <2>1 DEF Search, Held
    <3> QED
      BY <2>0, <3>1, <3>2, <3>3
  <2>2. CASE Body
    <3>1. sel \in Folder /\ cur \in mail[sel]
      BY <2>2 DEF Body, FolderInv, Inside
    <3>2. (wanted \cup Held)' \subseteq wanted \cup Held \cup {[uid |-> cur, from |-> sel]}
      BY <2>2 DEF Body, Held
    <3> QED
      BY <2>0, <3>1, <3>2
  <2>3. CASE (wanted \cup Held)' \subseteq wanted \cup Held
    BY <2>0, <2>3
  <2>4. CASE Login \/ Select \/ NextStore \/ NextPurge \/ NextClose \/ NextFetch
    BY <2>3, <2>4 DEF Login, Select, NextStore, NextPurge, NextClose, NextFetch, Held
  <2>5. CASE Commit \/ Expunge \/ Close \/ IdleTurn
    BY <2>3, <2>5 DEF Commit, Expunge, Close, IdleTurn, Held
  <2>6. CASE Quit \/ Missing \/ Stops \/ Restart
    BY <2>6 DEF Quit, Missing, Stops, Restart, Fresh, Freed, Held
  <2>7. CASE CommitStep
    BY <2>3, <2>7 DEF CommitStep, CommitMail, Held
  <2>8. CASE Vanishes \/ UNCHANGED vars
    BY <2>3, <2>8 DEF Vanishes, vars, Held
  <2> QED
    BY <2>1, <2>2, <2>4, <2>5, <2>6, <2>7, <2>8 DEF Next, HandlerStep, Rest
<1> QED
  BY <1>1, <1>2, <1>3, AccountKept DEF KnownInv

LEMMA KnownInit == Init => KnownInv
BY DEF Init, KnownInv, Held

\* The lists of the handler hold mails the server had in the folder they are said
\* to come from (imap_state_search1, imap-common.c:671).
THEOREM MailsAreKnown == Spec => []KnownInv
<1>1. TypeOK /\ FolderInv /\ KnownInv /\ [Next]_vars => KnownInv'
  BY KnownStep
<1> QED
  BY KnownInit, <1>1, TypeCorrect, PTL DEF Spec

-----------------------------------------------------------------------------
(* Where the mails are, and that the handler counts them right up to the   *)
(* first folder with mail.                                                 *)

\* The first folder with mail is the first one of the folders before it too.
LEMMA SingleBefore ==
  ASSUME NEW f \in Int, NEW g \in Int, g <= f, Single(f)
  PROVE  Single(g)
BY DEF Single, Folder

LEMMA DisjointStep ==
  ASSUME TypeOK, PlaceInv, [Next]_vars
  PROVE  Disjoint'
<1> USE DEF queueVars, countVars, serverVars, Handler, Held
<1>0. Disjoint
  BY DEF PlaceInv
<1> USE DEF Disjoint
<1>1. CASE Search
  <2>1. st = "search" /\ sel = folder /\ folder \in Nat
    BY <1>1 DEF Search, PlaceInv, Busy, TypeOK
  <2>2. \A x \in Held : x.from # folder
    BY <2>1 DEF PlaceInv, OriginInv, Working, Left
  <2>3. CASE Polling
    BY <1>1, <2>3 DEF Search, PlaceInv, WantedInv
  <2>4. CASE ~Polling
    <3>1. wanted = {}
      BY <2>1, <2>4 DEF PlaceInv, WantedInv, Working
    <3>2. \A x \in wanted' : x.from = folder
      BY <1>1, <2>1, <3>1 DEF Search
    <3> QED
      BY <1>0, <1>1, <2>2, <3>2 DEF Search
  <2> QED
    BY <2>3, <2>4
<1>2. CASE Body
  <2>1. [uid |-> cur, from |-> sel] \in wanted
    BY <1>2 DEF Body, PlaceInv, Reading
  <2>2. wanted' = {x \in wanted : x.uid # cur} /\ UNCHANGED <<droppedq, keptq>>
    BY <1>2 DEF Body
  <2>3. flight' = flight \/ flight' = flight \cup {[uid |-> cur, from |-> sel]}
    BY <1>2 DEF Body
  <2> QED
    BY <1>0, <2>1, <2>2, <2>3
<1>3. CASE NextStore
  BY <1>0, <1>3 DEF NextStore
<1>4. CASE CommitStep
  BY <1>0, <1>4 DEF CommitStep, CommitMail
<1>5. CASE Quit \/ Missing \/ Stops \/ Restart
  BY <1>5 DEF Quit, Missing, Stops, Restart, Fresh, Freed
<1>6. CASE Login \/ Select \/ NextPurge \/ NextClose \/ NextFetch
  BY <1>0, <1>6 DEF Login, Select, NextPurge, NextClose, NextFetch
<1>7. CASE Commit \/ Expunge \/ Close
  BY <1>0, <1>7 DEF Commit, Expunge, Close
<1>8. CASE IdleTurn \/ Vanishes \/ UNCHANGED vars
  BY <1>0, <1>8 DEF IdleTurn, Vanishes, vars
<1> QED
  BY <1>1, <1>2, <1>3, <1>4, <1>5, <1>6, <1>7, <1>8 DEF Next, HandlerStep, Rest

LEMMA BusyStep ==
  ASSUME TypeOK, FolderInv, KnownInv, PlaceInv, [Next]_vars
  PROVE  Busy'
<1> USE DEF queueVars, countVars, serverVars, Handler, Over, Working
<1>0. Busy /\ Mailbox' = Mailbox
  BY AccountKept DEF PlaceInv
<1> USE DEF Busy
<1>1. CASE Select
  <2>1. CASE mail[folder] = {}
    BY <1>1, <2>1, FS_EmptySet DEF Select
  <2>2. CASE mail[folder] # {}
    <3>1. folder \in Folder
      BY <1>1 DEF Select, FolderInv
    <3>2. Mailbox[folder] # {}
      BY <2>2, <3>1 DEF KnownInv
    <3> QED
      BY <1>0, <1>1, <3>2 DEF Select
  <2> QED
    BY <2>1, <2>2
<1>2. CASE Login \/ Search \/ NextStore \/ NextPurge \/ NextClose \/ NextFetch
  BY <1>0, <1>2 DEF Login, Search, NextStore, NextPurge, NextClose, NextFetch
<1>3. CASE Body \/ Commit \/ Expunge
  BY <1>0, <1>3 DEF Body, Commit, Expunge
<1>4. CASE Close \/ Quit \/ Missing \/ Stops \/ Restart
  BY <1>4 DEF Close, Quit, Missing, Stops, Restart, Fresh
<1>5. CASE CommitStep \/ IdleTurn \/ Vanishes \/ UNCHANGED vars
  BY <1>0, <1>5 DEF CommitStep, CommitMail, IdleTurn, Vanishes, vars
<1> QED
  BY <1>1, <1>2, <1>3, <1>4, <1>5 DEF Next, HandlerStep, Rest

LEMMA WantedStep ==
  ASSUME TypeOK, TypeOK', PlaceInv, [Next]_vars
  PROVE  WantedInv'
<1> USE DEF queueVars, countVars, serverVars, Handler, Over, Working, Held
<1>0. WantedInv /\ Polling' = Polling
  BY AccountKept DEF PlaceInv
<1> USE DEF WantedInv
<1>1. CASE Search
  <2>1. sel = folder /\ UNCHANGED <<folder, flight, droppedq, keptq>>
    BY <1>1 DEF Search, PlaceInv, Busy
  <2>2. CASE Polling
    BY <1>0, <1>1, <2>1, <2>2 DEF Search
  <2>3. CASE ~Polling
    <3>1. wanted = {}
      BY <1>0, <1>1, <2>3 DEF Search
    <3>2. \A x \in wanted' : x.from = folder
      BY <1>1, <2>1, <3>1 DEF Search
    <3>3. IsFiniteSet(wanted')
      BY MailsAreFinite DEF TypeOK
    <3>4. Cardinality(wanted') = 0 => wanted' = {}
      BY <3>3, FS_EmptySet
    <3>5. st' = "next" \/ (st' = "close" /\ Cardinality(wanted') = 0)
      BY <1>1, <2>3 DEF Search
    <3> QED
      BY <1>0, <2>1, <2>3, <3>2, <3>4, <3>5
  <2> QED
    BY <2>2, <2>3
<1>2. CASE Login \/ Select
  BY <1>0, <1>2 DEF Login, Select
<1>3. CASE NextStore \/ NextPurge \/ NextClose \/ NextFetch
  BY <1>0, <1>3 DEF NextStore, NextPurge, NextClose, NextFetch
<1>4. CASE Body \/ Commit \/ Expunge
  BY <1>0, <1>4 DEF Body, Commit, Expunge
<1>5. CASE Close
  BY <1>0, <1>5 DEF Close
<1>6. CASE Quit \/ Missing \/ Stops \/ Restart
  BY <1>6 DEF Quit, Missing, Stops, Restart, Fresh, Freed
<1>7. CASE CommitStep
  BY <1>0, <1>7 DEF CommitStep, CommitMail
<1>8. CASE IdleTurn \/ Vanishes \/ UNCHANGED vars
  BY <1>0, <1>8 DEF IdleTurn, Vanishes, vars
<1> QED
  BY <1>1, <1>2, <1>3, <1>4, <1>5, <1>6, <1>7, <1>8 DEF Next, HandlerStep, Rest

\* All wanted mails are of the folder that is selected.
LEMMA WantedHere ==
  ASSUME TypeOK, PlaceInv, st \in Working
  PROVE  \A x \in wanted : x = [uid |-> x.uid, from |-> sel]
<1>1. sel = folder /\ \A x \in wanted : x.from = folder /\ x \in MailType
  BY DEF PlaceInv, Busy, WantedInv, TypeOK
<1> QED
  BY <1>1 DEF MailType

LEMMA ReadingStep ==
  ASSUME TypeOK, PlaceInv, [Next]_vars
  PROVE  Reading'
<1> USE DEF queueVars, countVars, serverVars, Handler, Over
<1>0. Reading
  BY DEF PlaceInv
<1> USE DEF Reading
<1>1. CASE NextFetch
  <2>1. PICK x \in wanted : cur' = x.uid
    BY <1>1 DEF NextFetch
  <2>2. x = [uid |-> x.uid, from |-> sel]
    BY <1>1, <2>1, WantedHere DEF NextFetch, Working
  <2> QED
    BY <1>1, <2>1, <2>2 DEF NextFetch
<1>2. CASE Login \/ Select \/ Search \/ NextStore \/ NextPurge \/ NextClose
  BY <1>2 DEF Login, Select, Search, NextStore, NextPurge, NextClose
<1>3. CASE Body \/ Commit \/ Expunge \/ Close \/ Quit \/ Missing
  BY <1>3 DEF Body, Commit, Expunge, Close, Quit, Missing
<1>4. CASE Stops \/ Restart
  BY <1>4 DEF Stops, Restart, Fresh
<1>5. CASE CommitStep \/ IdleTurn \/ Vanishes \/ UNCHANGED vars
  BY <1>0, <1>5 DEF CommitStep, CommitMail, IdleTurn, Vanishes, vars
<1> QED
  BY <1>1, <1>2, <1>3, <1>4, <1>5 DEF Next, HandlerStep, Rest

\* When the count is right and committed has reached it, nothing is under way.
LEMMA CountedOut ==
  ASSUME TypeOK, NothingToStore, wanted = {}, total = Count, committed = total
  PROVE  Held = {}
<1>1. Cardinality(wanted) = 0 /\ Cardinality(droppedq) = 0 /\ Cardinality(keptq) = 0
  BY FS_EmptySet DEF NothingToStore
<1>2. IsFiniteSet(flight) /\ Cardinality(flight) \in Nat /\ committed \in Nat
  BY MailsAreFinite DEF TypeOK
<1>3. Cardinality(flight) = 0
  BY <1>1, <1>2 DEF Count
<1>4. flight = {}
  BY <1>2, <1>3, FS_EmptySet
<1> QED
  BY <1>4 DEF Held, NothingToStore

\* The handler leaves the first folder with mail when all its mails are counted
\* as committed; mails under way are left behind in the later ones only.
LEMMA OriginStep ==
  ASSUME TypeOK, FolderInv, PlaceInv, [Next]_vars
  PROVE  OriginInv'
<1> USE DEF queueVars, countVars, serverVars, Handler, Over, Working, Left
<1>0. /\ OriginInv /\ folder \in Nat
      /\ \A f : Single(f)' <=> Single(f)
  BY AccountKept DEF PlaceInv, TypeOK
<1>a. \A x \in Held : x.from \in Nat
  BY DEF Held, TypeOK, MailType, Folder
<1> USE DEF OriginInv
<1>1. CASE NextClose
  <2>1. st = "next" /\ st' = "close" /\ UNCHANGED <<folder, flight, droppedq, keptq>>
    BY <1>1 DEF NextClose
  <2>2. CASE Single(folder)
    <3>1. total = Count
      BY <2>1, <2>2 DEF PlaceInv, CountInv, Counted
    <3>2. Held = {}
      BY <1>1, <3>1, CountedOut DEF NextClose
    <3> QED
      BY <2>1, <3>2 DEF Held
  <2>3. CASE ~Single(folder)
    <3>1. ASSUME NEW x \in Held PROVE Left(x.from)' /\ ~Single(x.from)
      BY <1>0, <2>1, <2>3, <3>1
    <3>2. Held' = Held
      BY <2>1 DEF Held
    <3> QED
      BY <1>0, <3>1, <3>2
  <2> QED
    BY <2>2, <2>3
<1>2. CASE Login \/ Select \/ Search
  <2>1. /\ UNCHANGED <<folder, flight, droppedq, keptq>>
        /\ st \in {"connect", "select", "search"}
        /\ st' \in {"select", "search", "close", "next"}
    BY <1>2 DEF Login, Select, Search
  <2>2. Held' = Held
    BY <2>1 DEF Held
  <2> QED
    BY <1>0, <2>1, <2>2
<1>3. CASE NextStore \/ NextPurge \/ NextFetch \/ Commit \/ Expunge
  <2>1. st \in Working /\ st' \in Working /\ UNCHANGED <<folder, flight>>
    BY <1>3 DEF NextStore, NextPurge, NextFetch, Commit, Expunge
  <2>2. droppedq' \subseteq droppedq /\ keptq' \subseteq keptq
    BY <1>3 DEF NextStore, NextPurge, NextFetch, Commit, Expunge
  <2>3. Held' \subseteq Held
    BY <2>1, <2>2 DEF Held
  <2> QED
    BY <1>0, <2>1, <2>3
<1>4. CASE Body
  <2>1. st \in Working /\ st' \in Working /\ UNCHANGED <<folder, droppedq, keptq>>
    BY <1>4 DEF Body
  <2>2. sel = folder
    BY <2>1 DEF PlaceInv, Busy
  <2>3. Held' \subseteq Held \cup {[uid |-> cur, from |-> folder]}
    BY <1>4, <2>1, <2>2 DEF Body, Held
  <2> QED
    BY <1>0, <2>1, <2>3
<1>5. CASE Close
  <2>1. /\ st = "close" /\ folder' = folder + 1 /\ st' \in {"select", "quit"}
        /\ UNCHANGED <<flight, droppedq, keptq>>
    BY <1>5 DEF Close
  <2>2. Held' = Held
    BY <2>1 DEF Held
  <2>3. ASSUME NEW x \in Held PROVE x.from < folder + 1 /\ ~Single(x.from)
    BY <1>0, <1>a, <2>1, <2>3
  <2> QED
    BY <1>0, <2>1, <2>2, <2>3
<1>6. CASE Quit \/ Missing \/ Stops \/ Restart
  BY <1>6 DEF Quit, Missing, Stops, Restart, Fresh, Freed, Held
<1>7. CASE CommitStep
  <2>1. Held' \subseteq Held /\ UNCHANGED <<st, folder>>
    BY <1>7 DEF CommitStep, CommitMail, Held
  <2> QED
    BY <1>0, <2>1
<1>8. CASE IdleTurn \/ Vanishes \/ UNCHANGED vars
  <2>1. Held' = Held /\ UNCHANGED <<st, folder>>
    BY <1>8 DEF IdleTurn, Vanishes, vars, Held
  <2> QED
    BY <1>0, <2>1
<1> QED
  BY <1>1, <1>2, <1>3, <1>4, <1>5, <1>6, <1>7, <1>8 DEF Next, HandlerStep, Rest

LEMMA CommittedStep ==
  ASSUME TypeOK, FolderInv, PlaceInv, [Next]_vars
  PROVE  CommittedInv'
<1> USE DEF queueVars, countVars, serverVars, Handler, Over, Working, Left
<1>0. CommittedInv /\ folder \in Nat /\ Mailbox' = Mailbox /\ Folder \subseteq Nat
  BY AccountKept DEF PlaceInv, TypeOK, Folder
<1> USE DEF CommittedInv
<1>1. CASE NextClose
  <2>1. st = "next" /\ st' = "close" /\ folder' = folder
    BY <1>1 DEF NextClose
  <2>2. folder \in Folder /\ Mailbox[folder] # {}
    BY <2>1 DEF PlaceInv, Busy, FolderInv
  <2> QED
    BY <1>0, <2>1, <2>2
<1>2. CASE Login \/ Select \/ Search
  <2>1. UNCHANGED <<folder, committed>> /\ st \in {"connect", "select", "search"}
    BY <1>2 DEF Login, Select, Search
  <2> QED
    BY <1>0, <2>1
<1>3. CASE NextStore \/ NextPurge \/ NextFetch \/ Body \/ Commit \/ Expunge
  BY <1>3 DEF NextStore, NextPurge, NextFetch, Body, Commit, Expunge
<1>4. CASE Close
  <2>1. st = "close" /\ folder' = folder + 1 /\ UNCHANGED committed
    BY <1>4 DEF Close
  <2> QED
    BY <1>0, <2>1
<1>5. CASE Quit \/ Missing \/ Stops \/ Restart
  BY <1>5 DEF Quit, Missing, Stops, Restart, Fresh
<1>6. CASE CommitStep \/ IdleTurn \/ Vanishes \/ UNCHANGED vars
  <2>1. UNCHANGED <<st, folder, committed>>
    BY <1>6 DEF CommitStep, CommitMail, IdleTurn, Vanishes, vars
  <2> QED
    BY <1>0, <2>1
<1> QED
  BY <1>1, <1>2, <1>3, <1>4, <1>5, <1>6 DEF Next, HandlerStep, Rest

\* One mail more, one mail less.
LEMMA OneMore ==
  ASSUME NEW S \in SUBSET MailType, NEW x \in MailType
  PROVE  /\ x \notin S => Cardinality(S \cup {x}) = Cardinality(S) + 1
         /\ x \in S => Cardinality(S \ {x}) = Cardinality(S) - 1
<1>1. IsFiniteSet(S)
  BY MailsAreFinite
<1> QED
  BY <1>1, FS_AddElement, FS_RemoveElement

\* The sums are of numbers.
LEMMA CountTypes ==
  ASSUME TypeOK
  PROVE  /\ Cardinality(wanted) \in Nat /\ Cardinality(flight) \in Nat
         /\ Cardinality(droppedq) \in Nat /\ Cardinality(keptq) \in Nat
         /\ committed \in Nat /\ total \in Nat
BY MailsAreFinite DEF TypeOK

\* Up to the first folder with mail nothing is under way between the folders.
LEMMA NothingBehind ==
  ASSUME TypeOK, PlaceInv, Single(folder), st \notin Working
  PROVE  Held = {}
<1>1. SUFFICES ASSUME NEW x \in Held PROVE FALSE
  OBVIOUS
<1>2. Left(x.from) /\ ~Single(x.from)
  BY DEF PlaceInv, OriginInv
<1>3. x.from \in Int /\ folder \in Int
  BY DEF Held, TypeOK, MailType, Folder
<1>4. x.from <= folder
  BY <1>2, <1>3 DEF Left
<1> QED
  BY <1>2, <1>3, <1>4, SingleBefore

LEMMA CountedStep ==
  ASSUME TypeOK, TypeOK', FolderInv, PlaceInv, Single(folder), Counted, [Next]_vars
  PROVE  Counted'
<1> USE DEF queueVars, countVars, serverVars, Handler, Over, Count
<1>0. /\ wanted \in SUBSET MailType /\ flight \in SUBSET MailType
      /\ droppedq \in SUBSET MailType /\ keptq \in SUBSET MailType
  BY DEF TypeOK
<1>c. /\ Cardinality(wanted) \in Nat /\ Cardinality(flight) \in Nat
      /\ Cardinality(droppedq) \in Nat /\ Cardinality(keptq) \in Nat
      /\ committed \in Nat /\ total \in Nat
  BY CountTypes
<1>1. CASE Search
  <2>1. CASE st' = "close"
    BY <2>1 DEF Counted
  <2>2. CASE st' = "next"
    <3>1. folder \in Folder /\ Mailbox[folder] # {} /\ Held = {}
      BY <1>1, NothingBehind DEF Search, PlaceInv, Busy, FolderInv, Working
    <3>2. committed = 0
      BY <1>1, <3>1 DEF Search, PlaceInv, CommittedInv, Left, Working, Single, Folder
    <3>3. /\ total' = Cardinality(wanted') /\ committed' = 0
          /\ flight' = {} /\ droppedq' = {} /\ keptq' = {}
      BY <1>1, <3>1, <3>2 DEF Search, Held
    <3>4. Cardinality({}) = 0
      BY FS_EmptySet
    <3>5. Cardinality(wanted') \in Nat
      BY MailsAreFinite DEF TypeOK
    <3> QED
      BY <2>2, <3>3, <3>4, <3>5 DEF Counted
  <2> QED
    BY <1>1, <2>1, <2>2 DEF Search
<1>2. CASE NextStore
  <2>0. /\ st = "next" /\ st' = "commit" /\ total = Count
        /\ UNCHANGED <<wanted, flight, committed, total>>
    BY <1>2 DEF NextStore, Counted
  <2>1. CASE \E x \in droppedq : droppedq' = droppedq \ {x} /\ UNCHANGED keptq
    <3>1. Cardinality(droppedq') = Cardinality(droppedq) - 1 /\ UNCHANGED keptq
      BY <1>0, <2>1, OneMore
    <3> QED
      BY <1>c, <2>0, <3>1 DEF Counted
  <2>2. CASE \E x \in keptq : keptq' = keptq \ {x} /\ UNCHANGED droppedq
    <3>1. Cardinality(keptq') = Cardinality(keptq) - 1 /\ UNCHANGED droppedq
      BY <1>0, <2>2, OneMore
    <3> QED
      BY <1>c, <2>0, <3>1 DEF Counted
  <2> QED
    BY <1>2, <2>1, <2>2 DEF NextStore
<1>3. CASE Body
  <2>1. CASE st' = "flush"
    BY <2>1 DEF Counted
  <2>2. CASE st' = "next"
    <3> DEFINE x == [uid |-> cur, from |-> sel]
    <3>1. x \in wanted /\ x \in MailType /\ x \notin flight
      BY <1>0, <1>3 DEF Body, PlaceInv, Reading, Disjoint, Held
    <3>2. \A y \in wanted : y.uid = cur <=> y = x
      BY <1>3, <3>1, WantedHere DEF Body, Working
    <3>3. wanted' = wanted \ {x}
      BY <1>3, <3>2 DEF Body
    <3>4. flight' = flight \cup {x}
      BY <1>3, <2>2 DEF Body
    <3>5. /\ Cardinality(wanted') = Cardinality(wanted) - 1
          /\ Cardinality(flight') = Cardinality(flight) + 1
      BY <1>0, <3>1, <3>3, <3>4, OneMore
    <3>6. total = Count /\ UNCHANGED <<droppedq, keptq, committed, total>>
      BY <1>3 DEF Body, Counted
    <3> QED
      BY <1>c, <2>2, <3>5, <3>6 DEF Counted
  <2> QED
    BY <1>3, <2>1, <2>2 DEF Body
<1>4. CASE Commit
  <2>1. /\ total = Count + 1 /\ committed' = committed + 1 /\ st' = "next"
        /\ UNCHANGED <<wanted, flight, droppedq, keptq, total>>
    BY <1>4 DEF Commit, Counted
  <2> QED
    BY <1>c, <2>1 DEF Counted
<1>5. CASE CommitStep
  <2>1. PICK x \in flight, d \in {"drop", "keep"} : CommitMail(x, d)
    BY <1>5 DEF CommitStep
  <2>2. x \in MailType /\ x \notin droppedq /\ x \notin keptq
    BY <1>0, <2>1 DEF PlaceInv, Disjoint
  <2>3. flight' = flight \ {x} /\ UNCHANGED <<st, wanted, committed, total>>
    BY <2>1 DEF CommitMail
  <2>4. Cardinality(flight') = Cardinality(flight) - 1
    BY <1>0, <2>1, <2>2, <2>3, OneMore
  <2>5. \/ droppedq' = droppedq \cup {x} /\ UNCHANGED keptq
        \/ keptq' = keptq \cup {x} /\ UNCHANGED droppedq
    BY <2>1 DEF CommitMail
  <2>6. \/ Cardinality(droppedq') = Cardinality(droppedq) + 1 /\ UNCHANGED keptq
        \/ Cardinality(keptq') = Cardinality(keptq) + 1 /\ UNCHANGED droppedq
    BY <1>0, <2>2, <2>5, OneMore
  <2>7. Count' = Count
    BY <1>c, <2>3, <2>4, <2>6
  <2> QED
    BY <2>3, <2>7 DEF Counted
<1>6. CASE NextPurge \/ NextFetch \/ Expunge
  <2>1. /\ st \in {"next", "expunge"} /\ st' \in {"expunge", "body", "next"}
        /\ UNCHANGED <<wanted, flight, droppedq, keptq, committed, total>>
    BY <1>6 DEF NextPurge, NextFetch, Expunge
  <2> QED
    BY <2>1 DEF Counted
<1>7. CASE Login \/ Select \/ NextClose \/ Close \/ Quit \/ Missing
  <2>1. st' \notin {"next", "body", "expunge", "commit"}
    BY <1>7 DEF Login, Select, NextClose, Close, Quit, Missing
  <2> QED
    BY <2>1 DEF Counted
<1>8. CASE Stops \/ Restart
  <2>1. st' \notin {"next", "body", "expunge", "commit"}
    BY <1>8 DEF Stops, Restart, Fresh
  <2> QED
    BY <2>1 DEF Counted
<1>9. CASE IdleTurn \/ Vanishes \/ UNCHANGED vars
  <2>1. UNCHANGED <<st, wanted, flight, droppedq, keptq, committed, total>>
    BY <1>9 DEF IdleTurn, Vanishes, vars
  <2> QED
    BY <2>1 DEF Counted
<1> QED
  BY <1>1, <1>2, <1>3, <1>4, <1>5, <1>6, <1>7, <1>8, <1>9 DEF Next, HandlerStep, Rest

\* Of the steps only Close and Restart change the folder.
LEMMA FolderStays ==
  ASSUME [Next]_vars, ~(Close \/ Restart)
  PROVE  folder' = folder
<1>1. CASE Login \/ Select \/ Search \/ NextStore \/ NextPurge \/ NextClose
  BY <1>1 DEF Login, Select, Search, NextStore, NextPurge, NextClose
<1>2. CASE NextFetch \/ Body \/ Commit \/ Expunge \/ Quit \/ Missing
  BY <1>2 DEF NextFetch, Body, Commit, Expunge, Quit, Missing
<1>3. CASE IdleTurn \/ CommitStep \/ Stops \/ Vanishes \/ UNCHANGED vars
  BY <1>3 DEF IdleTurn, CommitStep, CommitMail, Stops, Vanishes, vars
<1> QED
  BY <1>1, <1>2, <1>3 DEF Next, HandlerStep, Rest

LEMMA CountStep ==
  ASSUME TypeOK, TypeOK', FolderInv, PlaceInv, [Next]_vars
  PROVE  CountInv'
<1>1. CASE Close \/ Restart
  <2>1. st' \notin {"next", "body", "expunge", "commit"}
    BY <1>1 DEF Close, Restart, Fresh
  <2> QED
    BY <2>1 DEF CountInv, Counted
<1>2. CASE ~(Close \/ Restart)
  <2>1. folder' = folder
    BY <1>2, FolderStays
  <2>2. Single(folder)' <=> Single(folder)
    BY <2>1 DEF Next, vars, Mailbox, Single
  <2>3. Single(folder) => Counted'
    BY CountedStep DEF PlaceInv, CountInv
  <2> QED
    BY <2>2, <2>3 DEF CountInv
<1> QED
  BY <1>1, <1>2

LEMMA PlaceStep ==
  ASSUME TypeOK, TypeOK', FolderInv, KnownInv, PlaceInv, [Next]_vars
  PROVE  PlaceInv'
<1>1. Disjoint' /\ Busy' /\ WantedInv' /\ Reading'
  BY DisjointStep, BusyStep, WantedStep, ReadingStep
<1>2. OriginInv' /\ CommittedInv' /\ CountInv'
  BY OriginStep, CommittedStep, CountStep
<1> QED
  BY <1>1, <1>2 DEF PlaceInv

\* Where the mails are, for the theorems.
LEMMA PlaceAlways == Spec => []PlaceInv
<1>1. Init => PlaceInv
  <2> SUFFICES ASSUME Init PROVE PlaceInv
    OBVIOUS
  <2>1. Disjoint /\ Busy /\ WantedInv /\ Reading
    BY DEF Init, Held, Disjoint, Busy, WantedInv, Reading, Working
  <2>2. OriginInv /\ CommittedInv /\ CountInv
    BY DEF Init, Held, OriginInv, CommittedInv, CountInv, Counted
  <2> QED
    BY <2>1, <2>2 DEF PlaceInv
<1>2. TypeOK /\ TypeOK' /\ FolderInv /\ KnownInv /\ PlaceInv /\ [Next]_vars => PlaceInv'
  BY PlaceStep
<1> QED
  BY <1>1, <1>2, TypeCorrect, MailsAreKnown, PTL DEF Spec

\* Up to the first folder with mail, no mail is in the fetch loop or waits for
\* its STORE when a folder is closed, and while the folder is open committed counts
\* what is neither wanted nor under way (imap-common.c:741).
THEOREM CommittedBeforeClosed == Spec => [](Single(folder) => ClosedWhenCommitted)
<1>1. TypeOK /\ PlaceInv => (Single(folder) => ClosedWhenCommitted)
  <2> SUFFICES ASSUME TypeOK, PlaceInv, Single(folder) PROVE ClosedWhenCommitted
    OBVIOUS
  <2>1. ASSUME st \in {"close", "quit"} PROVE Held = {}
    BY <2>1, NothingBehind DEF Working
  <2>2. st \in {"next", "body", "expunge"} => total = Count
    BY DEF PlaceInv, CountInv, Counted
  <2> QED
    BY <2>1, <2>2 DEF ClosedWhenCommitted, Held, Count
<1> QED
  BY <1>1, PlaceAlways, TypeCorrect, PTL

-----------------------------------------------------------------------------
(* Only dropped mails are deleted.                                         *)

\* A decision is not taken back.
LEMMA DecidedGrows ==
  ASSUME TypeOK, [Next]_vars
  PROVE  \A x \in Folder \X Uid : decided[x] \subseteq decided'[x]
<1>1. CASE CommitStep
  <2>1. PICK x \in flight, d \in {"drop", "keep"} : CommitMail(x, d)
    BY <1>1 DEF CommitStep
  <2>2. decided' = [decided EXCEPT ![<<x.from, x.uid>>] = @ \cup {d}]
    BY <2>1 DEF CommitMail
  <2> QED
    BY <2>2 DEF TypeOK
<1>2. CASE HandlerStep
  BY <1>2 DEF HandlerStep, Login, Select, Search, NextStore, NextPurge, NextClose,
              NextFetch, Body, Commit, Expunge, Close, Quit, Missing
<1>3. CASE IdleTurn \/ Stops \/ Vanishes \/ Restart \/ UNCHANGED vars
  BY <1>3 DEF IdleTurn, Stops, Vanishes, Restart, vars
<1> QED
  BY <1>1, <1>2, <1>3 DEF Next, Rest

LEMMA DropStep ==
  ASSUME TypeOK, FolderInv, PlaceInv, DropInv, [Next]_vars
  PROVE  DropInv'
<1> USE DEF queueVars, countVars, serverVars, Handler
<1>0. /\ \A x \in Folder \X Uid : decided[x] \subseteq decided'[x]
      /\ \A x \in MailType : <<x.from, x.uid>> \in Folder \X Uid
  BY DecidedGrows DEF MailType
<1>a. \A f \in Folder, u \in Uid : WasDropped(f, u) => WasDropped(f, u)'
  <2>1. \A f : Single(f)' <=> Single(f)
    BY AccountKept
  <2> QED
    BY <1>0, <2>1 DEF WasDropped
<1>1. \A x \in droppedq' : "drop" \in decided'[<<x.from, x.uid>>]
  <2>0. droppedq \in SUBSET MailType /\ flight \in SUBSET MailType
    BY DEF TypeOK
  <2>1. CASE droppedq' \subseteq droppedq
    BY <1>0, <2>0, <2>1 DEF DropInv
  <2>2. CASE CommitStep
    <3>1. PICK x \in flight, d \in {"drop", "keep"} : CommitMail(x, d)
      BY <2>2 DEF CommitStep
    <3>2. decided' = [decided EXCEPT ![<<x.from, x.uid>>] = @ \cup {d}]
      BY <3>1 DEF CommitMail
    <3>3. d \in decided'[<<x.from, x.uid>>]
      BY <1>0, <2>0, <3>2 DEF TypeOK
    <3>4. \/ droppedq' = droppedq
          \/ d = "drop" /\ droppedq' = droppedq \cup {x}
      BY <3>1 DEF CommitMail
    <3> QED
      BY <1>0, <2>0, <2>1, <3>3, <3>4 DEF DropInv
  <2>3. CASE Login \/ Select \/ Search \/ NextStore \/ NextPurge \/ NextClose \/ NextFetch
    BY <2>1, <2>3 DEF Login, Select, Search, NextStore, NextPurge, NextClose, NextFetch
  <2>4. CASE Body \/ Commit \/ Expunge \/ Close
    BY <2>1, <2>4 DEF Body, Commit, Expunge, Close
  <2>5. CASE Quit \/ Missing \/ Stops \/ Restart
    BY <2>5 DEF Quit, Missing, Stops, Restart, Fresh, Freed
  <2>6. CASE IdleTurn \/ Vanishes \/ UNCHANGED vars
    BY <2>1, <2>6 DEF IdleTurn, Vanishes, vars
  <2> QED
    BY <2>2, <2>3, <2>4, <2>5, <2>6 DEF Next, HandlerStep, Rest
<1>2. ASSUME st' = "commit", storing' = "Deleted"
      PROVE  cur' \in Uid /\ WasDropped(folder, cur)'
  <2>0. folder' = folder /\ Folder \subseteq Nat /\ folder \in Nat
    <3>1. CASE Close \/ Restart
      BY <1>2, <3>1 DEF Close, Restart, Fresh
    <3>2. CASE ~(Close \/ Restart)
      BY <3>2, FolderStays DEF TypeOK, Folder
    <3> QED
      BY <3>1, <3>2
  <2>1. CASE NextStore
    <3>1. st = "next" /\ UNCHANGED decided
      BY <2>1 DEF NextStore
    <3>2. PICK x \in droppedq : cur' = x.uid
      BY <1>2, <2>1 DEF NextStore
    <3>3. x \in MailType /\ x \in Held
      BY <3>2 DEF TypeOK, Held
    <3>4. x.from \in Folder /\ "drop" \in decided[<<x.from, x.uid>>]
      BY <3>2, <3>3 DEF DropInv, MailType
    <3>5. x.from = folder \/ (x.from < folder /\ ~Single(x.from))
      BY <3>1, <3>3 DEF PlaceInv, OriginInv, Left
    <3>6. WasDropped(folder, x.uid)
      BY <3>4, <3>5 DEF WasDropped
    <3>7. folder \in Folder /\ x.uid \in Uid
      BY <3>1, <3>3 DEF FolderInv, MailType, Over
    <3> QED
      BY <1>a, <2>0, <3>2, <3>6, <3>7 DEF WasDropped
  <2>2. CASE st = "commit" /\ UNCHANGED <<cur, storing>>
    <3>1. cur \in Uid /\ WasDropped(folder, cur) /\ folder \in Folder
      BY <1>2, <2>2 DEF DropInv, FolderInv, Over
    <3>2. WasDropped(folder, cur)'
      BY <1>a, <2>0, <2>2, <3>1 DEF WasDropped
    <3> QED
      BY <2>2, <3>1, <3>2
  <2>3. CASE Login \/ Select \/ Search \/ NextPurge \/ NextClose \/ NextFetch \/ Body
    BY <1>2, <2>3 DEF Login, Select, Search, NextPurge, NextClose, NextFetch, Body
  <2>4. CASE Commit \/ Expunge \/ Close \/ Quit \/ Missing
    BY <1>2, <2>4 DEF Commit, Expunge, Close, Quit, Missing
  <2>5. CASE IdleTurn \/ CommitStep \/ Vanishes \/ UNCHANGED vars
    BY <1>2, <2>2, <2>5 DEF IdleTurn, CommitStep, CommitMail, Vanishes, vars
  <2>6. CASE Stops \/ Restart
    BY <1>2, <2>6 DEF Stops, Restart, Fresh
  <2> QED
    BY <2>1, <2>3, <2>4, <2>5, <2>6 DEF Next, HandlerStep, Rest
<1>3. \A x \in erased' : WasDropped(x[1], x[2])'
  <2>0. /\ erased \in SUBSET (Folder \X Uid)
        /\ \A x \in erased : WasDropped(x[1], x[2])
    BY DEF TypeOK, DropInv
  <2>1. CASE erased' = erased
    BY <1>a, <2>0, <2>1
  <2>2. CASE Commit /\ storing = "Deleted"
    <3>1. /\ erased' = erased \cup ({sel} \X ({cur} \cap mail[sel]))
          /\ st = "commit" /\ sel = folder /\ sel \in Folder
      BY <2>2 DEF Commit, FolderInv, Inside, PlaceInv, Busy, Working
    <3>2. WasDropped(sel, cur)
      BY <2>2, <3>1 DEF DropInv
    <3>3. mail[sel] \in SUBSET Uid
      BY <3>1 DEF TypeOK
    <3>4. ASSUME NEW x \in erased' PROVE WasDropped(x[1], x[2])'
      <4>1. x \in erased \/ (x[1] = sel /\ x[2] = cur /\ cur \in Uid)
        BY <3>1, <3>3
      <4> QED
        BY <1>a, <2>0, <3>1, <3>2, <4>1
    <3> QED
      BY <3>4
  <2>3. CASE Commit /\ storing # "Deleted"
    BY <2>1, <2>3 DEF Commit
  <2>4. CASE Login \/ Select \/ Search \/ NextStore \/ NextPurge \/ NextClose \/ NextFetch
    BY <2>1, <2>4 DEF Login, Select, Search, NextStore, NextPurge, NextClose, NextFetch
  <2>5. CASE Body \/ Expunge \/ Close \/ Quit \/ Missing \/ Stops
    BY <2>1, <2>5 DEF Body, Expunge, Close, Quit, Missing, Stops
  <2>6. CASE IdleTurn \/ CommitStep \/ Restart \/ Vanishes \/ UNCHANGED vars
    BY <2>1, <2>6 DEF IdleTurn, CommitStep, CommitMail, Restart, Vanishes, vars
  <2> QED
    BY <2>2, <2>3, <2>4, <2>5, <2>6 DEF Next, HandlerStep, Rest
<1> QED
  BY <1>1, <1>2, <1>3 DEF DropInv

\* The STORE that flags a mail as deleted names a mail that fdm has decided to
\* drop: one of the folder it is used in, or, where the first folder with mail has
\* been left, one with its uid from a folder after that one (imap-common.c:714,
\* 741).  The mails of the first folder with mail are deleted in it and nowhere
\* else, whatever uids the others have.
THEOREM DroppedDeleted == Spec => []DeletesOnlyDropped
<1>1. Init => DropInv
  BY DEF Init, DropInv
<1>2. TypeOK /\ FolderInv /\ PlaceInv /\ DropInv /\ [Next]_vars => DropInv'
  BY DropStep
<1>3. TypeOK /\ DropInv => DeletesOnlyDropped
  <2> SUFFICES ASSUME TypeOK, DropInv, NEW x \in erased PROVE x = <<x[1], x[2]>>
    BY DEF DropInv, DeletesOnlyDropped, WasDropped
  <2> QED
    BY DEF TypeOK
<1> QED
  BY <1>1, <1>2, <1>3, TypeCorrect, PlaceAlways, PTL DEF Spec
=============================================================================

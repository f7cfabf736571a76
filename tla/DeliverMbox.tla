---------------------------- MODULE DeliverMbox ----------------------------
(***************************************************************************)
(* Deliveries to one mbox (deliver-mbox.c) under the locks of file.c, with *)
(* the signal handler that removes the lock files of a killed child        *)
(* (cleanup.c, child.c), and the mbox handler of a fetch child that reads  *)
(* and rewrites the same file (fetch-mbox.c, in full in Mbox).             *)
(*                                                                         *)
(* Every deliver child is a process of its own; its steps are the system   *)
(* calls at which another may come in between.  An mbox is a set of mails, *)
(* each written in whole or in part; a size is what was in the file when   *)
(* it was taken, which may end inside a mail that is being written.  flock *)
(* and fcntl locks are held on the file that was opened, which need not be *)
(* the one that has the path now; they are one lock here, "flock".  Tags,  *)
(* modes, owners, the quoting of From lines, where a line of a mail ends   *)
(* and compression are left out, and so is the death of the fetch child,   *)
(* which is in Mbox.                                                       *)
(***************************************************************************)
EXTENDS Naturals, FiniteSets

CONSTANTS
  Deliverers,   \* deliver children, each with one mail
  Fetcher,      \* the fetch child that rewrites the mbox
  None,
  MaxTries,     \* LOCKTOTALTIME, counted in attempts
  Setups        \* what the instances differ in, see SetupType

SetupType == [locks  : SUBSET {"flock", "dotlock"},   \* conf.lock_types
              create : BOOLEAN,                       \* ~conf.no_create
              exists : BOOLEAN,    \* is the mbox there at the start?
              term   : BOOLEAN,    \* may the parent kill deliver children?
              fetch  : BOOLEAN]    \* is the mbox fetched from as well?

ASSUME DeliverMboxAssumption ==
  /\ Fetcher \notin Deliverers /\ None \notin Deliverers \cup {Fetcher}
  /\ MaxTries \in Nat \ {0}
  /\ Setups \subseteq SetupType

Proc == Deliverers \cup {Fetcher}
Old  == Fetcher                  \* the mail that is there at the start
Mail == Deliverers \cup {Old}
Ino  == 1 .. 3                   \* bound: the file, its replacement, a new one

VARIABLES
  setup,
  pc, how, err, tries, fd,    \* of each process
  registered,                 \* those with the lock file on their cleanlist
  pending,                    \* those with a SIGTERM they have blocked
  path,                       \* the file that has the path, 0 for none
  text,                       \* the mails of each file
  flocked,                    \* who holds the lock on each file
  dotlock,                    \* who has made the lock file that is there
  backup,                     \* the file that is left as a backup, 0 for none
  seen,                       \* what is within the size the fetcher knows
  dropped,                    \* the mails it has removed on purpose
  late,                       \* those written in whole behind that size
  astray                      \* deliverers that have locked a file without the path

fileVars  == <<path, text, backup>>
lockVars  == <<flocked, dotlock, registered>>
killVars  == <<pending>>
fetchVars == <<seen, dropped, late, astray>>
vars == <<setup, pc, how, err, tries, fd, fileVars, lockVars, killVars, fetchVars>>

Over    == {"ok", "failed", "killed", "fatal"}
Whole   == "whole"
Portion == Mail \X {"part", Whole}
Wholes(pieces) == {m \in Mail : <<m, Whole>> \in pieces}
Known   == {x[1] : x \in seen}     \* what the fetcher takes for a mail

Uses(kind) == kind \in setup.locks

Init ==
  /\ setup \in Setups
  /\ pc = [p \in Proc |-> IF p # Fetcher \/ setup.fetch THEN "stat" ELSE "ok"]
  /\ how = [p \in Proc |-> "open"]
  /\ err = [p \in Proc |-> "none"]
  /\ tries = [p \in Proc |-> 0]
  /\ fd = [p \in Proc |-> 0]
  /\ registered = {} /\ pending = {}
  /\ path = IF setup.exists THEN 1 ELSE 0
  /\ text = [i \in Ino |-> IF i = 1 /\ setup.exists THEN {<<Old, Whole>>} ELSE {}]
  /\ flocked = [i \in Ino |-> None] /\ dotlock = None
  /\ backup = 0
  /\ seen = {} /\ dropped = {} /\ late = {} /\ astray = {}

Goto(p, s) == pc' = [pc EXCEPT ![p] = s]
Fail(p, e) == err' = [err EXCEPT ![p] = e]

\* The first attempt creates the file, unless that is not allowed.
FirstHow(p) == IF setup.create /\ p # Fetcher THEN "create" ELSE "open"

-----------------------------------------------------------------------------
(* openlock and createlock.                                                *)

\* Without a file to deliver to, no_create fails.
Stat(p) ==
  /\ pc[p] = "stat" /\ p # Fetcher
  /\ IF path = 0 /\ FirstHow(p) = "open"
     THEN Goto(p, "failed") /\ UNCHANGED how
     ELSE Goto(p, "dot") /\ how' = [how EXCEPT ![p] = FirstHow(p)]
  /\ UNCHANGED <<err, tries, fd, fileVars, lockVars, killVars, fetchVars>>

\* The fetcher takes the size of the file, before it has the lock.  It is done
\* with an empty file and refuses one that is too short for a From line.
StatSize ==
  /\ pc[Fetcher] = "stat"
  /\ \/ path = 0 /\ Goto(Fetcher, "failed") /\ UNCHANGED seen
     \/ path # 0 /\ text[path] = {} /\ Goto(Fetcher, "ok") /\ UNCHANGED seen
     \/ /\ path # 0 /\ text[path] # {} /\ Wholes(text[path]) = {}
        /\ Goto(Fetcher, "failed") /\ UNCHANGED seen
     \/ /\ path # 0 /\ text[path] # {}
        /\ seen' = text[path]
        /\ Goto(Fetcher, "dot")
  /\ UNCHANGED <<how, err, tries, fd, fileVars, lockVars, killVars,
                 dropped, late, astray>>

\* A slip: the time slept is not added up.
SleepForEver(p) ==
  /\ Goto(p, "dot")
  /\ how' = [how EXCEPT ![p] = FirstHow(p)]
  /\ UNCHANGED tries

\* locksleep: try again, for so long.
Sleep(p) ==
  IF tries[p] + 1 < MaxTries
  THEN /\ Goto(p, "dot")
       /\ how' = [how EXCEPT ![p] = FirstHow(p)]
       /\ tries' = [tries EXCEPT ![p] = @ + 1]
  ELSE Goto(p, "failed") /\ UNCHANGED <<how, tries>>

\* mklock: O_EXCL tells whether somebody else has the lock.
MakeDotlock(p) ==
  /\ pc[p] = "dot"
  /\ \/ ~Uses("dotlock") /\ Goto(p, "open") /\ UNCHANGED <<dotlock, how, tries>>
     \/ /\ Uses("dotlock") /\ dotlock = None
        /\ dotlock' = p /\ Goto(p, "note") /\ UNCHANGED <<how, tries>>
     \/ Uses("dotlock") /\ dotlock # None /\ Sleep(p) /\ UNCHANGED dotlock
  /\ UNCHANGED <<err, fd, fileVars, flocked, registered, killVars, fetchVars>>

\* cleanup_register
Register(p) ==
  /\ pc[p] = "note"
  /\ registered' = registered \cup {p}
  /\ Goto(p, "open")
  /\ UNCHANGED <<how, err, tries, fd, fileVars, flocked, dotlock, killVars, fetchVars>>

\* An inode that is not in use yet.
FreshIno == CHOOSE i \in Ino : i # path /\ text[i] = {} /\ \A p \in Proc : fd[p] # i

\* open, with O_CREAT and O_EXCL or without.
Open(p) ==
  /\ pc[p] = "open"
  /\ \/ /\ how[p] = "create" /\ path = 0
        /\ path' = FreshIno
        /\ fd' = [fd EXCEPT ![p] = path'] /\ Goto(p, "lock") /\ UNCHANGED err
     \/ /\ how[p] = "open" /\ path # 0
        /\ fd' = [fd EXCEPT ![p] = path] /\ Goto(p, "lock") /\ UNCHANGED <<path, err>>
     \/ /\ how[p] = "create" /\ path # 0
        /\ Fail(p, "exists") /\ Goto(p, "undot") /\ UNCHANGED <<path, fd>>
     \/ /\ how[p] = "open" /\ path = 0
        /\ Fail(p, "missing") /\ Goto(p, "undot") /\ UNCHANGED <<path, fd>>
  /\ UNCHANGED <<how, tries, text, backup, lockVars, killVars, fetchVars>>

\* The files p closes, by close or by its death.
Unlocked(p) == flocked' = [i \in Ino |-> IF flocked[i] = p THEN None ELSE flocked[i]]

\* The file is p's now.  What it may turn out to be: one the fetcher knows only
\* in part, or one that has lost its path.
Got(p) ==
  /\ Goto(p, IF p = Fetcher THEN "save" ELSE "block")
  /\ late' = IF p = Fetcher THEN late \cup (Wholes(text[fd[p]]) \ Wholes(seen)) ELSE late
  /\ astray' = IF p # Fetcher /\ fd[p] # path THEN astray \cup {p} ELSE astray

\* A slip: a file that is locked by another is written all the same.
LockNoMatter(p) ==
  /\ pc[p] = "lock"
  /\ flocked' = [flocked EXCEPT ![fd[p]] = p]
  /\ Got(p)
  /\ UNCHANGED <<err, fd, how, tries, fileVars, dotlock, registered, killVars,
                 seen, dropped>>

\* lockfd, which does not wait.
Lock(p) ==
  /\ pc[p] = "lock"
  /\ IF Uses("flock") /\ flocked[fd[p]] # None
     THEN /\ Fail(p, "again") /\ Goto(p, "undot")
          /\ fd' = [fd EXCEPT ![p] = 0]
          /\ UNCHANGED <<flocked, late, astray>>
     ELSE /\ flocked' = IF Uses("flock") THEN [flocked EXCEPT ![fd[p]] = p] ELSE flocked
          /\ Got(p)
          /\ UNCHANGED <<err, fd>>
  /\ UNCHANGED <<how, tries, fileVars, dotlock, registered, killVars, seen, dropped>>

-----------------------------------------------------------------------------
(* deliver_mbox_deliver, with the file open and locked.                    *)

\* A slip: SIGTERM is blocked once the mail is written.
BlocksLate == {"unblock"}

\* SIGTERM is blocked from here to Unblock.
Blocks == {"write", "sync", "unblock"}

\* fdopen, which may fail for want of memory, and sigprocmask.
Block(p) ==
  /\ pc[p] = "block"
  /\ \/ Goto(p, "write") /\ UNCHANGED err
     \/ Fail(p, "io") /\ Goto(p, "close")
  /\ UNCHANGED <<how, tries, fd, fileVars, lockVars, killVars, fetchVars>>

\* The first part of the mail reaches the file, or nothing does.
Write(p) ==
  /\ pc[p] = "write"
  /\ \/ /\ text' = [text EXCEPT ![fd[p]] = @ \cup {<<p, "part">>}]
        /\ Goto(p, "sync") /\ UNCHANGED err
     \/ Fail(p, "io") /\ Goto(p, "unblock") /\ UNCHANGED text
  /\ UNCHANGED <<how, tries, fd, path, backup, lockVars, killVars, fetchVars>>

\* The rest, fflush and fsync.  What was written before an error stays.
Sync(p) ==
  /\ pc[p] = "sync"
  /\ LET whole == [text EXCEPT ![fd[p]] = (@ \ {<<p, "part">>}) \cup {<<p, Whole>>}]
     IN  \/ text' = whole /\ UNCHANGED err
         \/ text' \in {text, whole} /\ Fail(p, "io")
  /\ Goto(p, "unblock")
  /\ UNCHANGED <<how, tries, fd, path, backup, lockVars, killVars, fetchVars>>

\* A process ends without going on: its files are closed, and the handler has
\* unlinked the lock file if it is on the cleanlist, whoever has made it.
Dead(p, s) ==
  /\ Goto(p, s)
  /\ fd' = [fd EXCEPT ![p] = 0]
  /\ Unlocked(p)

Purge(p) ==
  /\ Dead(p, "killed")
  /\ dotlock' = IF p \in registered THEN None ELSE dotlock

\* sigprocmask: a SIGTERM that has come in the meantime is delivered now.
Unblock(p) ==
  /\ pc[p] = "unblock"
  /\ IF p \in pending
     THEN Purge(p)
     ELSE Goto(p, "close") /\ UNCHANGED <<fd, flocked, dotlock>>
  /\ UNCHANGED <<how, err, tries, fileVars, registered, pending, fetchVars>>

Close(p) ==
  /\ pc[p] = "close"
  /\ Dead(p, "undot")
  /\ UNCHANGED <<how, err, tries, fileVars, dotlock, registered, killVars, fetchVars>>

-----------------------------------------------------------------------------
(* closelock, and what an attempt that has failed leads to.                *)

Result(p) ==
  \/ err[p] = "none" /\ Goto(p, "ok") /\ UNCHANGED <<how, err, tries>>
  \/ err[p] \in {"io", "missing"} /\ Goto(p, "failed") /\ UNCHANGED <<how, err, tries>>
  \/ err[p] = "again" /\ Sleep(p) /\ Fail(p, "none")
  \/ /\ err[p] = "exists" /\ Goto(p, "dot") /\ Fail(p, "none")
     /\ how' = [how EXCEPT ![p] = "open"] /\ UNCHANGED tries

\* rmlock: it is fatal if the file is not there.
Remove(p) ==
  /\ pc[p] = "undot"
  /\ \/ ~Uses("dotlock") /\ Result(p) /\ UNCHANGED dotlock
     \/ /\ Uses("dotlock") /\ dotlock # None
        /\ dotlock' = None /\ Goto(p, "unnote") /\ UNCHANGED <<how, err, tries>>
     \/ /\ Uses("dotlock") /\ dotlock = None
        /\ Goto(p, "fatal") /\ UNCHANGED <<dotlock, how, err, tries>>
  /\ UNCHANGED <<fd, fileVars, flocked, registered, killVars, fetchVars>>

\* cleanup_deregister
Deregister(p) ==
  /\ pc[p] = "unnote"
  /\ registered' = registered \ {p}
  /\ Result(p)
  /\ UNCHANGED <<fd, fileVars, flocked, dotlock, killVars, fetchVars>>

-----------------------------------------------------------------------------
(* The fetcher: what it drops of the mails it knows.                       *)

\* A slip: the file is truncated if anything is dropped.
SaveTruncates ==
  /\ pc[Fetcher] = "save"
  /\ \E d \in SUBSET Known :
       /\ dropped' = d
       /\ text' = IF d = {} THEN text ELSE [text EXCEPT ![fd[Fetcher]] = {}]
       /\ Goto(Fetcher, "close") /\ UNCHANGED <<path, backup>>
  /\ UNCHANGED <<how, err, tries, fd, lockVars, killVars, seen, late, astray>>

\* Nothing dropped: the file stays.  All dropped: it is truncated, with what is
\* behind the size.  Else the kept mails are in a new file, and the old one is
\* unlinked, behind a backup.
Save ==
  /\ pc[Fetcher] = "save"
  /\ \E d \in SUBSET Known :
       /\ dropped' = d
       /\ \/ d = {} /\ Goto(Fetcher, "close") /\ UNCHANGED fileVars
          \/ /\ d # {} /\ d = Known
             /\ text' = [text EXCEPT ![fd[Fetcher]] = {}]
             /\ Goto(Fetcher, "close") /\ UNCHANGED <<path, backup>>
          \/ /\ d # {} /\ d # Known
             /\ backup' = path /\ path' = 0
             /\ Goto(Fetcher, "link") /\ UNCHANGED text
  /\ UNCHANGED <<how, err, tries, fd, lockVars, killVars, seen, late, astray>>

\* The new file takes the path, if nobody has created one there, and the backup
\* goes.  It holds the bytes up to the size: of a mail half seen, that half.
Link ==
  /\ pc[Fetcher] = "link"
  /\ IF path = 0
     THEN /\ path' = FreshIno
          /\ text' = [text EXCEPT ![path'] = {x \in seen : x[1] \notin dropped}]
          /\ backup' = 0
          /\ UNCHANGED err
     ELSE Fail(Fetcher, "io") /\ UNCHANGED fileVars
  /\ Goto(Fetcher, "close")
  /\ UNCHANGED <<how, tries, fd, lockVars, killVars, fetchVars>>

-----------------------------------------------------------------------------
\* The parent kills a deliver child (fdm.c:255, 872).
Term(p) ==
  /\ setup.term /\ p # Fetcher
  /\ pc[p] \notin Over /\ p \notin pending
  /\ IF pc[p] \in Blocks
     THEN pending' = pending \cup {p} /\ UNCHANGED <<pc, fd, flocked, dotlock>>
     ELSE Purge(p) /\ UNCHANGED pending
  /\ UNCHANGED <<how, err, tries, fileVars, registered, fetchVars>>

Step(p) ==
  \/ Stat(p) \/ MakeDotlock(p) \/ Register(p) \/ Open(p) \/ Lock(p)
  \/ Block(p) \/ Write(p) \/ Sync(p) \/ Unblock(p) \/ Close(p)
  \/ Remove(p) \/ Deregister(p)
  \/ p = Fetcher /\ (StatSize \/ Save \/ Link)

Rest == (\A p \in Proc : pc[p] \in Over) /\ UNCHANGED vars

Next ==
  /\ UNCHANGED setup
  /\ (\E p \in Proc : Step(p) \/ Term(p)) \/ Rest

Spec == Init /\ [][Next]_vars

\* Processes run.
FairSpec == Spec /\ \A p \in Proc : WF_vars(Step(p) /\ UNCHANGED setup)

-----------------------------------------------------------------------------
(* Properties.                                                             *)

\* Every variable keeps its type.
TypeOK ==
  /\ setup \in Setups
  /\ pc \in [Proc -> {"stat", "dot", "note", "open", "lock", "block", "write",
                      "sync", "unblock", "close", "undot", "unnote", "save",
                      "link"} \cup Over]
  /\ how \in [Proc -> {"create", "open"}]
  /\ err \in [Proc -> {"none", "exists", "missing", "again", "io"}]
  /\ tries \in [Proc -> 0 .. MaxTries - 1]
  /\ fd \in [Proc -> Ino \cup {0}] /\ path \in Ino \cup {0}
  /\ registered \subseteq Proc /\ pending \subseteq Proc
  /\ text \in [Ino -> SUBSET Portion] /\ backup \in Ino \cup {0}
  /\ flocked \in [Ino -> Proc \cup {None}] /\ dotlock \in Proc \cup {None}
  /\ seen \subseteq Portion /\ dropped \subseteq Mail
  /\ late \subseteq Mail /\ astray \subseteq Deliverers

Section == {"block", "write", "sync", "unblock", "close", "save", "link"}

\* With dotlock alone a lock excludes only while nobody is killed: the handler
\* of a child that has unlinked its lock file and not yet deregistered it
\* (file.c:96-99) unlinks the lock file of the next.
Excludes == Uses("flock") \/ (Uses("dotlock") /\ ~setup.term)

\* Two processes never read, write or replace the same file at a time, if the
\* locks exclude.
Exclusive ==
  Excludes =>
    \A p, q \in Proc : pc[p] \in Section /\ pc[q] \in Section /\ fd[p] = fd[q]
                        => p = q

\* A mail is in an mbox in part only while it is written and where writing it
\* has failed.  deliver-mbox.c:152 says of an interruption "we risk having
\* written a partial mail.  So, block SIGTERM until we're done."  Where the mbox
\* is fetched from the locks must exclude, or the fetcher copies half a mail; and
\* even so it does of a mail that was being written when it took the size.
WholeMails ==
  ~setup.fetch \/ Excludes =>
    \A m \in Deliverers : \A i \in Ino :
      <<m, "part">> \in text[i] => \/ pc[m] = "sync" \/ err[m] = "io"
                                  \/ m \in late

\* A mail that is in the mbox, or in the backup the fetcher makes of it.
Present(m) == \E i \in {path, backup} \ {0} : <<m, Whole>> \in text[i]

\* Nobody is where the fetcher has left, if the lock is on the path and holds.
Cut == late \cup (IF Uses("dotlock") /\ ~setup.term THEN {} ELSE astray)

\* A mail reported as delivered stays in the mbox, or in the backup of it, until
\* the fetcher drops it.  Where the fetcher has dropped another mail, and only
\* there, two kinds of mails go with that one: those that were not yet there in
\* whole when the fetcher took the size of the mbox, and, where flock alone must
\* do, those of deliveries that had opened the file it has replaced.  With a
\* fetch the locks must exclude.
DeliveredStays ==
  ~setup.fetch \/ Excludes =>
    \A m \in Deliverers : pc[m] = "ok" =>
      Present(m) \/ m \in dropped \/ (dropped # {} /\ m \in Cut)

\* Every delivery ends, one way or the other.
DeliveriesEnd == <>(\A p \in Proc : pc[p] \in Over)

-----------------------------------------------------------------------------
(* What the documentation says and the code does not do.                   *)

\* A mail reported as delivered stays in the mbox until it is dropped, if both
\* locks are used and nobody is killed.  fdm.conf.5:147 says of lock-types
\* "This specifies the locks to be used for mbox locking."  The size of the
\* mbox is taken before the lock is, and not again after waiting for it
\* (fetch-mbox.c:331): a mail delivered in between lies behind fmbox->size and is
\* cut off or not copied.
Delivered ==
  Uses("dotlock") /\ Uses("flock") /\ ~setup.term =>
    \A m \in Deliverers : pc[m] = "ok" => Present(m) \/ m \in dropped
=============================================================================

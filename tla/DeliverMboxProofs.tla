-------------------------- MODULE DeliverMboxProofs --------------------------
(***************************************************************************)
(* Proofs about an mbox, for any number of deliver children and all setups *)
(* of the locks: no two are in a file at a time, a mail is written whole,  *)
(* and what was reported as delivered stays.  Then about the mbox handler, *)
(* for any number of mboxes, mails and runs: the references are counted,   *)
(* and nothing is lost that was not dropped.                               *)
(***************************************************************************)
EXTENDS DeliverMbox, Mbox, SequenceTheorems, FiniteSetTheorems, WellFoundedInduction, TLAPS

-----------------------------------------------------------------------------
(* The invariant.                                                          *)

Early == {"stat", "dot", "note", "open", "lock", "block", "write", "sync",
          "save", "link"}
Holds == {"lock"} \cup Section

\* A process has a file in the section and nowhere else; an error comes late
\* and stays.
FlowInv ==
  /\ pc[Fetcher] \notin {"block", "write", "sync", "unblock"}
  /\ \A m \in Deliverers : pc[m] \notin {"save", "link"}
  /\ ~setup.fetch => pc[Fetcher] = "ok"
  /\ ~setup.term => pending = {}
  /\ \A p \in Proc :
       /\ pc[p] \in Early => err[p] = "none"
       /\ err[p] = "io" => pc[p] \in {"unblock", "close", "undot", "unnote"} \cup (Over \ {"ok"})
       /\ pc[p] \in {"unblock", "close"} => err[p] \in {"none", "io"}
       /\ pc[p] = "ok" => err[p] = "none"
       /\ fd[p] # 0 <=> pc[p] \in Holds
  /\ pc[Fetcher] \in {"lock", "save"} => path # 0

\* The fetcher has rewritten the mbox, or left it as it is.
Saved ==
  setup.fetch /\ \/ pc[Fetcher] = "link"
                 \/ /\ pc[Fetcher] \in {"close", "undot", "unnote", "ok", "fatal"}
                    /\ err[Fetcher] \in {"none", "io"}
                 \/ pc[Fetcher] = "failed" /\ err[Fetcher] = "io"

Used(i) == text[i] # {} \/ \E p \in Proc : fd[p] = i

\* The path is taken away from a file once, so that an inode is free for the
\* next; and only where the fetcher has dropped something.
FreshInv ==
  /\ ~Saved \/ dropped = {} => \A i \in Ino : Used(i) => i = path
  /\ pc[Fetcher] = "link" => /\ \A i \in Ino : Used(i) => i \in {path, fd[Fetcher]}
                             /\ dropped # {} /\ backup = fd[Fetcher]
  /\ Saved /\ pc[Fetcher] # "link" => path # 0
  /\ ~Saved => dropped = {} /\ backup = 0

\* With a lock file of its own.
Passed == {"note", "open", "undot"} \cup Holds

\* Who is in the section has the lock of its file; who has passed the lock
\* file has made it.
LockInv ==
  /\ Uses("flock") => \A p \in Proc : pc[p] \in Section => flocked[fd[p]] = p
  /\ Uses("dotlock") /\ ~setup.term =>
       \A p \in Proc : pc[p] \in Passed => dotlock = p

\* Nothing of a mail is anywhere before its child writes, and no file, and no
\* size, has the mail both in part and whole.
Unwritten(m) == \/ pc[m] \in Early \ {"sync"}
                \/ err[m] \in {"exists", "missing", "again"}

Found(x) == x \in seen \/ \E i \in Ino : x \in text[i]

Twice(m, pieces) == {<<m, "part">>, <<m, Whole>>} \subseteq pieces

OnceInv ==
  \A m \in Deliverers :
    /\ Unwritten(m) => ~Found(<<m, "part">>)
    /\ Unwritten(m) \/ pc[m] = "sync" => ~Found(<<m, Whole>>)
    /\ ~Twice(m, seen) /\ \A i \in Ino : ~Twice(m, text[i])

\* Nobody but the fetcher, and deliver children that write in turn, or all under
\* locks that exclude.
Guarded == ~setup.fetch \/ Excludes

\* A part of a mail is in the file that its child writes, or writing it failed,
\* or it is late.  What the fetcher knows in part is whole, or is late, by the
\* time it gets the lock.
Unfinished(m) == err[m] = "io" \/ m \in late

Growing(m) ==
  /\ pc[Fetcher] \notin {"save", "link"} /\ path # 0
  /\ (pc[m] = "sync" /\ fd[m] = path) \/ <<m, Whole>> \in text[path]

PartInv ==
  Guarded =>
    \A m \in Deliverers :
      /\ \A i \in Ino : <<m, "part">> \in text[i] =>
                          (pc[m] = "sync" /\ fd[m] = i) \/ Unfinished(m)
      /\ <<m, "part">> \in seen => Unfinished(m) \/ Growing(m)

\* A mail that is where it was delivered, or has gone with what was dropped.
Kept(m) == \/ Present(m)
           \/ m \in dropped
           \/ dropped # {} /\ m \in late \cup astray

\* Where a mail has been written, unless that has failed.
Behind == {"unblock", "close", "undot", "unnote", "ok"}

\* A mail that has been written is kept, and the fetcher tells those it knows
\* from those that have come late.
KeptInv ==
  /\ astray # {} => dropped # {}
  /\ Guarded =>
       /\ pc[Fetcher] \in {"save", "link"} =>
            Wholes(text[fd[Fetcher]]) \subseteq Wholes(seen) \cup late
       /\ \A m \in Deliverers : pc[m] \in Section => fd[m] = path \/ m \in astray
       /\ \A m \in Deliverers : pc[m] \in Behind /\ err[m] = "none" => Kept(m)

\* A lock file that holds keeps the path where it was.
Alone == Uses("dotlock") /\ ~setup.term

AloneInv ==
  Alone => /\ \A m \in Deliverers : pc[m] \in Holds => fd[m] = path
           /\ astray = {}

IInv == TypeOK /\ FlowInv /\ FreshInv /\ LockInv /\ OnceInv /\ PartInv /\ KeptInv /\ AloneInv

-----------------------------------------------------------------------------
(* Types.                                                                  *)

LEMMA Procs == /\ Deliverers \subseteq Proc /\ Fetcher \in Proc /\ Fetcher \notin Deliverers
               /\ \A p \in Proc : (p = Fetcher \/ p \in Deliverers) /\ p \in Mail /\ p # None
               /\ Proc = Mail
BY DeliverMboxAssumption DEF Proc, Mail, Old

\* An inode is free whenever one is needed.
LEMMA Fresh ==
  ASSUME FreshInv, FlowInv, TypeOK, path = 0
  PROVE  /\ FreshIno \in Ino /\ FreshIno # 0 /\ text[FreshIno] = {}
         /\ \A p \in Proc : fd[p] # FreshIno
<1>1. \E i \in Ino : ~Used(i)
  <2>1. CASE pc[Fetcher] = "link"
    <3>1. \A i \in Ino : Used(i) => i = fd[Fetcher]
      BY <2>1 DEF FreshInv, Ino
    <3>2. \E i \in Ino : i # fd[Fetcher]
      BY 1 \in Ino, 2 \in Ino DEF Ino
    <3> QED
      BY <3>1, <3>2
  <2>2. CASE pc[Fetcher] # "link"
    BY <2>2, 1 \in Ino DEF FreshInv, Ino
  <2> QED
    BY <2>1, <2>2
<1>2. \E i \in Ino : i # path /\ text[i] = {} /\ \A p \in Proc : fd[p] # i
  BY <1>1 DEF Used, Ino
<1> QED
  BY <1>2 DEF FreshIno, Ino

LEMMA TypeInit == Init => TypeOK
BY Procs, DeliverMboxAssumption DEF Init, TypeOK, Over, Ino, Mail, Whole, Old, Portion

\* What ends an attempt keeps the types.
LEMMA ResultType ==
  ASSUME TypeOK, NEW p \in Proc, Result(p)
  PROVE  /\ pc' \in [Proc -> {"stat", "dot", "note", "open", "lock", "block", "write",
                      "sync", "unblock", "close", "undot", "unnote", "save",
                      "link"} \cup Over]
         /\ how' \in [Proc -> {"create", "open"}]
         /\ err' \in [Proc -> {"none", "exists", "missing", "again", "io"}]
         /\ tries' \in [Proc -> 0 .. MaxTries - 1]
BY DeliverMboxAssumption DEF Result, Sleep, Goto, Fail, FirstHow, TypeOK, Over

LEMMA TypeStep == IInv /\ [Next]_vars => TypeOK'
<1> SUFFICES ASSUME IInv, [Next]_vars PROVE TypeOK'
  OBVIOUS
<1>t. TypeOK /\ FlowInv /\ FreshInv
  BY DEF IInv
<1>y. TypeOK
  BY <1>t
<1>0. CASE UNCHANGED vars
  BY <1>0, <1>y DEF TypeOK, vars, fileVars, lockVars, killVars, fetchVars
<1> USE <1>y DEF TypeOK, fileVars, lockVars, killVars, fetchVars, Goto, Fail
<1>s. setup' \in Setups
  BY DEF Next, vars
<1> USE <1>s
<1>x. ASSUME NEW p \in Proc, pc[p] \in Holds PROVE fd[p] \in Ino
  BY <1>t, <1>x DEF FlowInv
<1>1. ASSUME NEW p \in Proc, Stat(p) PROVE TypeOK'
  BY <1>1 DEF Stat, FirstHow, Over
<1>17. CASE StatSize
  <2>1. seen' \subseteq Portion
    BY <1>17 DEF StatSize
  <2>2. \E x \in {"failed", "ok", "dot"} : pc' = [pc EXCEPT ![Fetcher] = x]
    BY <1>17 DEF StatSize
  <2> QED
    BY <1>17, <2>1, <2>2, Procs DEF StatSize, Over
<1>2. ASSUME NEW p \in Proc, MakeDotlock(p) PROVE TypeOK'
  BY <1>2, DeliverMboxAssumption DEF MakeDotlock, Sleep, FirstHow, Over
<1>3. ASSUME NEW p \in Proc, Register(p) PROVE TypeOK'
  BY <1>3 DEF Register
<1>4. ASSUME NEW p \in Proc, Open(p) PROVE TypeOK'
  <2>1. path = 0 => FreshIno \in Ino
    BY <1>t, Fresh
  <2>2. path' \in Ino \cup {0} /\ fd' \in [Proc -> Ino \cup {0}]
    BY <1>4, <2>1 DEF Open
  <2> QED
    BY <1>4, <2>2 DEF Open
<1>5. ASSUME NEW p \in Proc, Lock(p) PROVE TypeOK'
  <2>1. fd[p] \in Ino
    BY <1>5, <1>x DEF Lock, Holds
  <2>2. late' \subseteq Mail /\ astray' \subseteq Deliverers
    <3>1. Wholes(text[fd[p]]) \subseteq Mail
      BY DEF Wholes
    <3>2. late' \in {late, late \cup (Wholes(text[fd[p]]) \ Wholes(seen))}
      BY <1>5 DEF Lock, Got
    <3>3. astray' = astray \/ (astray' = astray \cup {p} /\ p # Fetcher)
      BY <1>5 DEF Lock, Got
    <3> QED
      BY <3>1, <3>2, <3>3, Procs
  <2>3. flocked' \in [Ino -> Proc \cup {None}]
    BY <1>5, <2>1 DEF Lock
  <2>4. \E x \in {"save", "block", "undot"} : pc' = [pc EXCEPT ![p] = x]
    BY <1>5 DEF Lock, Got
  <2> QED
    BY <1>5, <2>2, <2>3, <2>4 DEF Lock
<1>6. ASSUME NEW p \in Proc, Block(p) PROVE TypeOK'
  BY <1>6 DEF Block
<1>7. ASSUME NEW p \in Proc, Write(p) PROVE TypeOK'
  <2>1. fd[p] \in Ino /\ p \in Mail
    BY <1>7, <1>x, Procs DEF Write, Holds, Section
  <2>2. text' \in [Ino -> SUBSET Portion]
    BY <1>7, <2>1 DEF Write, Portion
  <2> QED
    BY <1>7, <2>2 DEF Write
<1>8. ASSUME NEW p \in Proc, Sync(p) PROVE TypeOK'
  <2>1. fd[p] \in Ino /\ p \in Mail
    BY <1>8, <1>x, Procs DEF Sync, Holds, Section
  <2>2. [text EXCEPT ![fd[p]] = (@ \ {<<p, "part">>}) \cup {<<p, Whole>>}]
           \in [Ino -> SUBSET Portion]
    BY <2>1 DEF Portion
  <2>3. text' \in [Ino -> SUBSET Portion]
    BY <1>8, <2>2 DEF Sync
  <2> QED
    BY <1>8, <2>3 DEF Sync
<1>d. ASSUME NEW p \in Proc, NEW s \in {"undot", "killed"}, Dead(p, s)
      PROVE  /\ pc' = [pc EXCEPT ![p] = s] /\ fd' \in [Proc -> Ino \cup {0}]
             /\ flocked' \in [Ino -> Proc \cup {None}]
  BY <1>d DEF Dead, Unlocked
<1>9. ASSUME NEW p \in Proc, Unblock(p) PROVE TypeOK'
  <2>1. CASE p \in pending
    BY <1>9, <1>d, <2>1 DEF Unblock, Purge, Over
  <2>2. CASE p \notin pending
    BY <1>9, <2>2 DEF Unblock
  <2> QED
    BY <2>1, <2>2
<1>10. ASSUME NEW p \in Proc, Close(p) PROVE TypeOK'
  BY <1>10, <1>d DEF Close
<1>11. ASSUME NEW p \in Proc, Remove(p) PROVE TypeOK'
  <2>1. CASE Result(p)
    BY <1>11, <2>1, ResultType DEF Remove
  <2>2. CASE ~Result(p)
    BY <1>11, <2>2 DEF Remove, Over
  <2> QED
    BY <2>1, <2>2
<1>12. ASSUME NEW p \in Proc, Deregister(p) PROVE TypeOK'
  BY <1>12, ResultType DEF Deregister
<1>13. CASE Save
  <2>1. text' \in [Ino -> SUBSET Portion]
    BY <1>13 DEF Save
  <2>2. /\ dropped' \subseteq Mail /\ path' \in Ino \cup {0} /\ backup' \in Ino \cup {0}
        /\ \E s \in {"close", "link"} : pc' = [pc EXCEPT ![Fetcher] = s]
    <3>1. Known \subseteq Mail
      BY DEF Known, Portion
    <3> QED
      BY <1>13, <3>1 DEF Save
  <2> QED
    BY <1>13, <2>1, <2>2, Procs DEF Save
<1>14. CASE Link
  <2>1. path = 0 => FreshIno \in Ino
    BY <1>t, Fresh
  <2>2. fd[Fetcher] \in Ino
    BY <1>14, <1>x, Procs DEF Link, Holds, Section
  <2>3. /\ path' \in Ino \cup {0} /\ backup' \in Ino \cup {0} /\ text' \in [Ino -> SUBSET Portion]
        /\ err' \in [Proc -> {"none", "exists", "missing", "again", "io"}]
    BY <1>14, <2>1, <2>2, Procs DEF Link
  <2> QED
    BY <1>14, <2>3, Procs DEF Link
<1>15. ASSUME NEW p \in Proc, Term(p) PROVE TypeOK'
  <2>1. CASE pc[p] \in Blocks
    BY <1>15, <2>1 DEF Term
  <2>2. CASE pc[p] \notin Blocks
    BY <1>15, <1>d, <2>2 DEF Term, Purge, Over
  <2> QED
    BY <2>1, <2>2
<1>16. CASE Rest
  BY <1>16 DEF Rest, vars
<1> QED
  BY <1>0, <1>1, <1>2, <1>3, <1>4, <1>5, <1>6, <1>7, <1>8, <1>9, <1>10, <1>11, <1>12,
     <1>13, <1>14, <1>15, <1>16, <1>17 DEF Next, Step

-----------------------------------------------------------------------------
(* The flow of a process.                                                  *)

LEMMA FlowInit == Init => FlowInv
BY Procs DEF Init, FlowInv, Early, Holds, Section, Over

\* What one process does to itself.
Flows(p) ==
  /\ p = Fetcher => /\ pc'[p] \notin {"block", "write", "sync", "unblock"}
                    /\ pc'[p] \in {"lock", "save"} => path' # 0
                    /\ ~setup.fetch => pc'[p] = "ok"
  /\ p # Fetcher => pc'[p] \notin {"save", "link"}
  /\ pc'[p] \in Early => err'[p] = "none"
  /\ err'[p] = "io" => pc'[p] \in {"unblock", "close", "undot", "unnote"} \cup (Over \ {"ok"})
  /\ pc'[p] \in {"unblock", "close"} => err'[p] \in {"none", "io"}
  /\ pc'[p] = "ok" => err'[p] = "none"
  /\ fd'[p] # 0 <=> pc'[p] \in Holds

LEMMA FlowOne ==
  ASSUME TypeOK, FlowInv, NEW p \in Proc, Flows(p), setup' = setup,
         \A q \in Proc : q # p => pc'[q] = pc[q] /\ err'[q] = err[q] /\ fd'[q] = fd[q],
         p # Fetcher => path' = path \/ path' # 0,
         ~setup.term => pending' = {}
  PROVE  FlowInv'
BY Procs DEF FlowInv, Flows, Early, Holds, Section, Over

LEMMA ResultFlows ==
  ASSUME TypeOK, FlowInv, NEW p \in Proc, pc[p] \in {"undot", "unnote"}, Result(p),
         fd' = fd, path' = path
  PROVE  Flows(p)
BY Procs DEF Result, Sleep, Goto, Fail, TypeOK, FlowInv, Flows, Early, Holds, Section, Over

LEMMA FlowStep == IInv /\ [Next]_vars => FlowInv'
<1> SUFFICES ASSUME IInv, [Next]_vars PROVE FlowInv'
  OBVIOUS
<1>t. TypeOK /\ FlowInv /\ FreshInv
  BY DEF IInv
<1> USE <1>t, Procs
<1>s. setup' = setup
  BY DEF Next, vars
<1>0. CASE UNCHANGED vars
  BY <1>0 DEF FlowInv, vars, fileVars, lockVars, killVars, fetchVars
<1> USE DEF fileVars, lockVars, killVars, fetchVars, Goto, Fail
<1>p. /\ pc \in [Proc -> {"stat", "dot", "note", "open", "lock", "block", "write",
                          "sync", "unblock", "close", "undot", "unnote", "save",
                          "link"} \cup Over]
      /\ err \in [Proc -> {"none", "exists", "missing", "again", "io"}]
      /\ fd \in [Proc -> Ino \cup {0}] /\ path \in Ino \cup {0}
  BY DEF TypeOK
<1>k. ~setup.term => pending = {}
  BY DEF FlowInv
<1>1. ASSUME NEW p \in Proc, Stat(p) PROVE FlowInv'
  <2>1. Flows(p)
    BY <1>1, <1>p DEF Stat, FlowInv, Flows, Early, Holds, Section, Over
  <2> QED
    BY <1>1, <1>s, <1>k, <1>p, <2>1, FlowOne DEF Stat
<1>17. CASE StatSize
  <2>1. /\ pc[Fetcher] = "stat" /\ err' = err /\ fd' = fd /\ path' = path
        /\ \E x \in {"failed", "ok", "dot"} : pc' = [pc EXCEPT ![Fetcher] = x]
    BY <1>17 DEF StatSize
  <2>2. Flows(Fetcher)
    BY <1>p, <2>1 DEF FlowInv, Flows, Early, Holds, Section, Over
  <2> QED
    BY <1>17, <1>s, <1>k, <1>p, <2>1, <2>2, FlowOne DEF StatSize
<1>2. ASSUME NEW p \in Proc, MakeDotlock(p) PROVE FlowInv'
  <2>1. Flows(p)
    BY <1>2, <1>p DEF MakeDotlock, Sleep, FlowInv, Flows, Early, Holds, Section, Over
  <2> QED
    BY <1>2, <1>s, <1>k, <1>p, <2>1, FlowOne DEF MakeDotlock, Sleep
<1>3. ASSUME NEW p \in Proc, Register(p) PROVE FlowInv'
  <2>1. Flows(p)
    BY <1>3, <1>p DEF Register, FlowInv, Flows, Early, Holds, Section, Over
  <2> QED
    BY <1>3, <1>s, <1>k, <1>p, <2>1, FlowOne DEF Register
<1>4. ASSUME NEW p \in Proc, Open(p) PROVE FlowInv'
  <2>1. path = 0 => FreshIno \in Ino /\ FreshIno # 0
    BY Fresh
  <2>2. Flows(p)
    BY <1>4, <1>p, <2>1 DEF Open, FlowInv, Flows, Early, Holds, Section, Over
  <2> QED
    BY <1>4, <1>s, <1>k, <1>p, <2>1, <2>2, FlowOne DEF Open
<1>5. ASSUME NEW p \in Proc, Lock(p) PROVE FlowInv'
  <2>1. Flows(p)
    BY <1>5, <1>p DEF Lock, Got, FlowInv, Flows, Early, Holds, Section, Over
  <2> QED
    BY <1>5, <1>s, <1>k, <1>p, <2>1, FlowOne DEF Lock, Got
<1>6. ASSUME NEW p \in Proc, Block(p) PROVE FlowInv'
  <2>1. Flows(p)
    BY <1>6, <1>p DEF Block, FlowInv, Flows, Early, Holds, Section, Over
  <2> QED
    BY <1>6, <1>s, <1>k, <1>p, <2>1, FlowOne DEF Block
<1>7. ASSUME NEW p \in Proc, Write(p) PROVE FlowInv'
  <2>1. Flows(p)
    BY <1>7, <1>p DEF Write, FlowInv, Flows, Early, Holds, Section, Over
  <2> QED
    BY <1>7, <1>s, <1>k, <1>p, <2>1, FlowOne DEF Write
<1>8. ASSUME NEW p \in Proc, Sync(p) PROVE FlowInv'
  <2>0. err' \in {err, [err EXCEPT ![p] = "io"]}
    BY <1>8 DEF Sync
  <2>1. Flows(p)
    BY <1>8, <1>p, <2>0 DEF Sync, FlowInv, Flows, Early, Holds, Section, Over
  <2> QED
    BY <1>8, <1>s, <1>k, <1>p, <2>0, <2>1, FlowOne DEF Sync
<1>9. ASSUME NEW p \in Proc, Unblock(p) PROVE FlowInv'
  <2>1. Flows(p)
    BY <1>9, <1>p DEF Unblock, Purge, Dead, FlowInv, Flows, Early, Holds, Section, Over
  <2> QED
    BY <1>9, <1>s, <1>k, <1>p, <2>1, FlowOne DEF Unblock, Purge, Dead
<1>10. ASSUME NEW p \in Proc, Close(p) PROVE FlowInv'
  <2>1. Flows(p)
    BY <1>10, <1>p DEF Close, Dead, FlowInv, Flows, Early, Holds, Section, Over
  <2> QED
    BY <1>10, <1>s, <1>k, <1>p, <2>1, FlowOne DEF Close, Dead
<1>r. ASSUME NEW p \in Proc, Result(p)
      PROVE  \A q \in Proc : q # p => pc'[q] = pc[q] /\ err'[q] = err[q]
  BY <1>r, <1>p DEF Result, Sleep
<1>11. ASSUME NEW p \in Proc, Remove(p) PROVE FlowInv'
  <2>1. CASE Result(p)
    BY <1>11, <1>r, <1>s, <1>k, <2>1, ResultFlows, FlowOne DEF Remove
  <2>2. CASE ~Result(p)
    <3>1. Flows(p)
      BY <1>11, <1>p, <2>2 DEF Remove, FlowInv, Flows, Early, Holds, Section, Over
    <3> QED
      BY <1>11, <1>s, <1>k, <1>p, <2>2, <3>1, FlowOne DEF Remove
  <2> QED
    BY <2>1, <2>2
<1>12. ASSUME NEW p \in Proc, Deregister(p) PROVE FlowInv'
  BY <1>12, <1>r, <1>s, <1>k, ResultFlows, FlowOne DEF Deregister
<1>13. CASE Save
  <2>1. Flows(Fetcher)
    BY <1>13, <1>p DEF Save, FlowInv, Flows, Early, Holds, Section, Over
  <2> QED
    BY <1>13, <1>s, <1>k, <1>p, <2>1, FlowOne DEF Save
<1>14. CASE Link
  <2>1. Flows(Fetcher)
    BY <1>14, <1>p DEF Link, FlowInv, Flows, Early, Holds, Section, Over
  <2> QED
    BY <1>14, <1>s, <1>k, <1>p, <2>1, FlowOne DEF Link
<1>15. ASSUME NEW p \in Proc, Term(p) PROVE FlowInv'
  <2>1. CASE pc[p] \in Blocks
    BY <1>15, <1>s, <2>1 DEF Term, FlowInv
  <2>2. CASE pc[p] \notin Blocks
    <3>1. Flows(p)
      BY <1>15, <1>p, <2>2 DEF Term, Purge, Dead, FlowInv, Flows, Early, Holds, Section, Over
    <3> QED
      BY <1>15, <1>s, <1>k, <1>p, <2>2, <3>1, FlowOne DEF Term, Purge, Dead
  <2> QED
    BY <2>1, <2>2
<1>16. CASE Rest
  BY <1>0, <1>16 DEF Rest
<1> QED
  BY <1>0, <1>1, <1>2, <1>3, <1>4, <1>5, <1>6, <1>7, <1>8, <1>9, <1>10, <1>11, <1>12,
     <1>13, <1>14, <1>15, <1>16, <1>17 DEF Next, Step

-----------------------------------------------------------------------------
(* Free inodes.                                                            *)

\* What the end of an attempt does to a process.
LEMMA ResultIs ==
  ASSUME TypeOK, NEW p \in Proc, Result(p)
  PROVE  /\ \A q \in Proc : q # p => pc'[q] = pc[q] /\ err'[q] = err[q]
         /\ \/ err[p] = "none" /\ pc'[p] = "ok" /\ err'[p] = "none"
            \/ err[p] \in {"io", "missing"} /\ pc'[p] = "failed" /\ err'[p] = err[p]
            \/ err[p] = "again" /\ pc'[p] \in {"dot", "failed"} /\ err'[p] = "none"
            \/ err[p] = "exists" /\ pc'[p] = "dot" /\ err'[p] = "none"
BY DEF Result, Sleep, Goto, Fail, TypeOK

LEMMA FreshInit == Init => FreshInv
BY Procs DEF Init, FreshInv, Saved, Used, Ino

UsedThen(i) == text'[i] # {} \/ \E p \in Proc : fd'[p] = i

\* A step that gives no path and uses no other file.
LEMMA FreshKeep ==
  ASSUME FreshInv, path' = path, Saved' <=> Saved,
         pc'[Fetcher] = "link" <=> pc[Fetcher] = "link",
         pc[Fetcher] = "link" => fd'[Fetcher] = fd[Fetcher],
         dropped' = dropped, backup' = backup,
         \A i \in Ino : UsedThen(i) => Used(i) \/ i = path
  PROVE  FreshInv'
BY DEF FreshInv, Used, UsedThen

\* What a step of another process leaves of the fetcher.
LEMMA FreshOther ==
  ASSUME FreshInv, NEW p \in Deliverers, path' = path, setup' = setup,
         dropped' = dropped, backup' = backup,
         \A q \in Proc : q # p => pc'[q] = pc[q] /\ err'[q] = err[q] /\ fd'[q] = fd[q],
         \A i \in Ino : UsedThen(i) => Used(i) \/ i = path
  PROVE  FreshInv'
<1>1. Saved' <=> Saved
  BY Procs DEF Saved
<1> QED
  BY <1>1, FreshKeep, Procs

\* A step of a process that has no file after it, or the one it had.
LEMMA FreshSame ==
  ASSUME TypeOK, FreshInv, NEW p \in Proc, path' = path, setup' = setup, text' = text,
         dropped' = dropped, backup' = backup,
         \A q \in Proc : q # p => pc'[q] = pc[q] /\ err'[q] = err[q] /\ fd'[q] = fd[q],
         fd'[p] \in {0, fd[p]},
         p = Fetcher => /\ pc[p] # "link" /\ pc'[p] # "link"
                        /\ (Saved' <=> Saved)
  PROVE  FreshInv'
<1>1. \A i \in Ino : UsedThen(i) => Used(i)
  <2> SUFFICES ASSUME NEW i \in Ino, UsedThen(i) PROVE Used(i)
    OBVIOUS
  <2>1. i # 0
    BY DEF Ino
  <2> QED
    BY <2>1 DEF UsedThen, Used
<1>2. CASE p = Fetcher
  BY <1>1, <1>2, FreshKeep
<1>3. CASE p # Fetcher
  BY <1>1, <1>3, FreshOther, Procs
<1> QED
  BY <1>2, <1>3

LEMMA FreshStep == IInv /\ [Next]_vars => FreshInv'
<1> SUFFICES ASSUME IInv, [Next]_vars PROVE FreshInv'
  OBVIOUS
<1>t. TypeOK /\ FlowInv /\ FreshInv
  BY DEF IInv
<1> USE <1>t, Procs
<1>s. setup' = setup
  BY DEF Next, vars
<1>0. CASE UNCHANGED vars
  BY <1>0 DEF FreshInv, Saved, Used, vars, fileVars, lockVars, killVars, fetchVars
<1> USE DEF fileVars, lockVars, killVars, fetchVars, Goto, Fail
<1>p. /\ pc \in [Proc -> {"stat", "dot", "note", "open", "lock", "block", "write",
                          "sync", "unblock", "close", "undot", "unnote", "save",
                          "link"} \cup Over]
      /\ err \in [Proc -> {"none", "exists", "missing", "again", "io"}]
      /\ fd \in [Proc -> Ino \cup {0}] /\ path \in Ino \cup {0}
      /\ text \in [Ino -> SUBSET Portion]
  BY DEF TypeOK
<1>f. \A p \in Proc : /\ pc[p] \in Early => err[p] = "none"
                      /\ fd[p] # 0 <=> pc[p] \in Holds
  BY DEF FlowInv
<1>1. ASSUME NEW p \in Proc, Stat(p) PROVE FreshInv'
  BY <1>1, <1>s, <1>p, FreshSame DEF Stat
<1>17. CASE StatSize
  <2>1. /\ pc[Fetcher] = "stat" /\ err' = err /\ fd' = fd /\ path' = path /\ text' = text
        /\ dropped' = dropped /\ backup' = backup
        /\ \E x \in {"failed", "ok", "dot"} : pc' = [pc EXCEPT ![Fetcher] = x]
        /\ pc'[Fetcher] = "ok" => path # 0
    BY <1>17, <1>p DEF StatSize
  <2>2. ~Saved /\ err[Fetcher] = "none"
    BY <1>f, <2>1 DEF Saved, Early
  <2>3. \A i \in Ino : Used(i)' <=> Used(i)
    BY <2>1 DEF Used
  <2>4. pc'[Fetcher] \in {"failed", "ok", "dot"}
    BY <1>p, <2>1
  <2>5. Saved' => pc'[Fetcher] = "ok"
    BY <2>1, <2>2, <2>4 DEF Saved
  <2> QED
    BY <2>1, <2>2, <2>3, <2>4, <2>5 DEF FreshInv
<1>2. ASSUME NEW p \in Proc, MakeDotlock(p) PROVE FreshInv'
  <2>1. p = Fetcher => ~Saved /\ ~Saved'
    BY <1>2, <1>f, <1>p DEF MakeDotlock, Sleep, Saved, Early
  <2> QED
    BY <1>2, <1>s, <1>p, <2>1, FreshSame DEF MakeDotlock, Sleep
<1>3. ASSUME NEW p \in Proc, Register(p) PROVE FreshInv'
  <2>1. p = Fetcher => ~Saved /\ ~Saved'
    BY <1>3, <1>p DEF Register, Saved
  <2> QED
    BY <1>3, <1>s, <1>p, <2>1, FreshSame DEF Register
<1>4. ASSUME NEW p \in Proc, Open(p) PROVE FreshInv'
  <2>1. p = Fetcher => ~Saved /\ ~Saved'
    BY <1>4, <1>p DEF Open, Saved
  <2>2. /\ text' = text /\ dropped' = dropped /\ backup' = backup
        /\ \A q \in Proc : q # p => pc'[q] = pc[q] /\ err'[q] = err[q] /\ fd'[q] = fd[q]
        /\ pc[p] = "open" /\ pc'[p] \in {"lock", "undot"}
    BY <1>4, <1>p DEF Open
  <2>3. Saved' <=> Saved
    BY <1>s, <2>1, <2>2 DEF Saved
  <2>4. CASE path' # path
    <3>1. /\ path = 0 /\ path' = FreshIno /\ fd' = [fd EXCEPT ![p] = path']
      BY <1>4, <2>4 DEF Open
    <3>2. path' \in Ino /\ path' # 0
      BY <3>1, Fresh
    <3>3. \A i \in Ino : UsedThen(i) => Used(i) \/ i = path'
      BY <1>p, <2>2, <3>1 DEF UsedThen, Used
    <3>4. \A i \in Ino : Used(i)' <=> UsedThen(i)
      BY DEF Used, UsedThen
    <3>5. pc'[Fetcher] = "link" => pc[Fetcher] = "link" /\ fd'[Fetcher] = fd[Fetcher]
      BY <2>2
    <3>6. ~Saved \/ dropped = {} => \A i \in Ino : ~Used(i)
      BY <3>1 DEF FreshInv, Ino
    <3>7. pc[Fetcher] = "link" => \A i \in Ino : Used(i) => i = fd[Fetcher]
      BY <3>1 DEF FreshInv, Ino
    <3>8. ~Saved' \/ dropped' = {} => \A i \in Ino : Used(i)' => i = path'
      BY <2>2, <2>3, <3>3, <3>4, <3>6
    <3>9. pc'[Fetcher] = "link" => \A i \in Ino : Used(i)' => i \in {path', fd'[Fetcher]}
      BY <3>3, <3>4, <3>5, <3>7
    <3>10. /\ ~Saved' => dropped' = {} /\ backup' = 0
           /\ pc'[Fetcher] = "link" => dropped' # {} /\ backup' = fd'[Fetcher]
      BY <2>2, <2>3, <3>5 DEF FreshInv
    <3> QED
      BY <3>2, <3>8, <3>9, <3>10 DEF FreshInv
  <2>5. CASE path' = path
    <3>1. fd' \in {fd, [fd EXCEPT ![p] = path]}
      BY <1>4, <2>5 DEF Open
    <3>2. \A i \in Ino : UsedThen(i) => Used(i) \/ i = path
      BY <1>p, <2>2, <3>1 DEF UsedThen, Used
    <3> QED
      BY <2>2, <2>3, <2>5, <3>2, FreshKeep
  <2> QED
    BY <2>4, <2>5
<1>5. ASSUME NEW p \in Proc, Lock(p) PROVE FreshInv'
  <2>1. p = Fetcher => ~Saved /\ ~Saved'
    BY <1>5, <1>p DEF Lock, Got, Saved
  <2>2. /\ text' = text /\ path' = path /\ fd'[p] \in {0, fd[p]} /\ pc[p] = "lock"
        /\ \A q \in Proc : q # p => pc'[q] = pc[q] /\ err'[q] = err[q] /\ fd'[q] = fd[q]
        /\ dropped' = dropped /\ backup' = backup
        /\ pc'[p] \in {"save", "block", "undot"}
    BY <1>5, <1>p DEF Lock, Got
  <2>3. Saved' <=> Saved
    BY <1>s, <2>1, <2>2 DEF Saved
  <2>4. \A i \in Ino : UsedThen(i) => Used(i)
    BY <1>p, <2>2 DEF UsedThen, Used, Ino
  <2> QED
    BY <2>2, <2>3, <2>4, FreshKeep
<1>6. ASSUME NEW p \in Proc, Block(p) PROVE FreshInv'
  <2>1. p # Fetcher
    BY <1>6 DEF Block, FlowInv
  <2> QED
    BY <1>6, <1>s, <1>p, <2>1, FreshSame DEF Block
<1>w. ASSUME NEW p \in Proc, pc[p] \in {"write", "sync"}, path' = path, fd' = fd,
             dropped' = dropped, backup' = backup,
             \A q \in Proc : q # p => pc'[q] = pc[q] /\ err'[q] = err[q],
             \A i \in Ino : text'[i] = text[i] \/ i = fd[p]
      PROVE  FreshInv'
  <2>1. p \in Deliverers
    BY <1>w DEF FlowInv
  <2>2. \A i \in Ino : UsedThen(i) => Used(i)
    BY <1>w DEF UsedThen, Used
  <2> QED
    BY <1>w, <1>s, <2>1, <2>2, FreshOther
<1>7. ASSUME NEW p \in Proc, Write(p) PROVE FreshInv'
  <2>1. \A i \in Ino : text'[i] = text[i] \/ i = fd[p]
    BY <1>7, <1>p DEF Write
  <2> QED
    BY <1>7, <1>w, <1>p, <2>1 DEF Write
<1>8. ASSUME NEW p \in Proc, Sync(p) PROVE FreshInv'
  <2>1. text' \in {text, [text EXCEPT ![fd[p]] = (@ \ {<<p, "part">>}) \cup {<<p, Whole>>}]}
    BY <1>8 DEF Sync
  <2>2. \A i \in Ino : text'[i] = text[i] \/ i = fd[p]
    BY <1>p, <2>1
  <2>3. \A q \in Proc : q # p => pc'[q] = pc[q] /\ err'[q] = err[q]
    BY <1>8, <1>p DEF Sync
  <2> QED
    BY <1>8, <1>w, <2>2, <2>3 DEF Sync
<1>9. ASSUME NEW p \in Proc, Unblock(p) PROVE FreshInv'
  <2>1. p # Fetcher
    BY <1>9 DEF Unblock, FlowInv
  <2> QED
    BY <1>9, <1>s, <1>p, <2>1, FreshSame DEF Unblock, Purge, Dead
<1>10. ASSUME NEW p \in Proc, Close(p) PROVE FreshInv'
  <2>1. p = Fetcher => (Saved' <=> Saved)
    BY <1>10, <1>s, <1>p DEF Close, Dead, Saved
  <2> QED
    BY <1>10, <1>s, <1>p, <2>1, FreshSame DEF Close, Dead
<1>11. ASSUME NEW p \in Proc, Remove(p) PROVE FreshInv'
  <2>1. CASE Result(p)
    <3>1. p = Fetcher => (Saved' <=> Saved)
      BY <1>11, <1>s, <2>1, ResultIs DEF Remove, Saved
    <3>2. p = Fetcher => pc'[p] # "link"
      BY <2>1, ResultIs
    <3> QED
      BY <1>11, <1>s, <2>1, <3>1, <3>2, ResultIs, FreshSame DEF Remove
  <2>2. CASE ~Result(p)
    <3>1. p = Fetcher => (Saved' <=> Saved)
      BY <1>11, <1>s, <1>p, <2>2 DEF Remove, Saved
    <3> QED
      BY <1>11, <1>s, <1>p, <2>2, <3>1, FreshSame DEF Remove
  <2> QED
    BY <2>1, <2>2
<1>12. ASSUME NEW p \in Proc, Deregister(p) PROVE FreshInv'
  <2>1. p = Fetcher => (Saved' <=> Saved)
    BY <1>12, <1>s, ResultIs DEF Deregister, Saved
  <2>2. p = Fetcher => pc'[p] # "link"
    BY <1>12, ResultIs DEF Deregister
  <2> QED
    BY <1>12, <1>s, <2>1, <2>2, ResultIs, FreshSame DEF Deregister
<1>13. CASE Save
  <2>1. /\ pc[Fetcher] = "save" /\ fd[Fetcher] # 0 /\ fd[Fetcher] \in Ino
        /\ path # 0 /\ err[Fetcher] = "none" /\ setup.fetch
    BY <1>13, <1>f, <1>p DEF Save, Holds, Section, Early, FlowInv
  <2>2. ~Saved
    BY <2>1 DEF Saved
  <2>3. fd[Fetcher] = path /\ \A i \in Ino : Used(i) => i = path
    BY <2>1, <2>2 DEF FreshInv, Used
  <2>4. \A i \in Ino : Used(i)' => Used(i)
    <3>1. \A i \in Ino : text'[i] = text[i] \/ text'[i] = {}
      BY <1>13, <1>p DEF Save
    <3>2. fd' = fd
      BY <1>13 DEF Save
    <3> QED
      BY <3>1, <3>2 DEF Used
  <2>5. \/ /\ pc'[Fetcher] = "link" /\ fd'[Fetcher] = fd[Fetcher]
           /\ dropped' # {} /\ backup' = path
        \/ pc'[Fetcher] = "close" /\ path' = path
    BY <1>13, <1>p DEF Save
  <2>6. Saved'
    BY <1>13, <1>s, <2>1, <2>5 DEF Save, Saved
  <2> QED
    BY <2>1, <2>3, <2>4, <2>5, <2>6 DEF FreshInv
<1>14. CASE Link
  <2>1. pc'[Fetcher] = "close" /\ pc[Fetcher] = "link" /\ err[Fetcher] = "none" /\ setup.fetch
    BY <1>14, <1>f, <1>p DEF Link, Early, FlowInv
  <2>2. Saved'
    BY <1>14, <1>s, <1>p, <2>1 DEF Link, Saved
  <2>3. path' # 0 /\ dropped' # {}
    BY <1>14, <2>1, Fresh DEF Link, FreshInv
  <2> QED
    BY <2>1, <2>2, <2>3 DEF FreshInv
<1>15. ASSUME NEW p \in Proc, Term(p) PROVE FreshInv'
  <2>1. CASE pc[p] \in Blocks
    BY <1>15, <1>s, <2>1 DEF Term, FreshInv, Saved, Used
  <2>2. CASE pc[p] \notin Blocks
    BY <1>15, <1>s, <1>p, <2>2, FreshSame DEF Term, Purge, Dead
  <2> QED
    BY <2>1, <2>2
<1>16. CASE Rest
  BY <1>0, <1>16 DEF Rest
<1> QED
  BY <1>0, <1>1, <1>2, <1>3, <1>4, <1>5, <1>6, <1>7, <1>8, <1>9, <1>10, <1>11, <1>12,
     <1>13, <1>14, <1>15, <1>16, <1>17 DEF Next, Step

-----------------------------------------------------------------------------
(* Locks.                                                                  *)

LEMMA LockInit == Init => LockInv
BY Procs DEF Init, LockInv, Section, Passed, Holds

\* A step that takes no lock of another process.
LEMMA LockOne ==
  ASSUME LockInv, NEW p \in Proc, setup' = setup,
         \A q \in Proc : q # p => pc'[q] = pc[q] /\ fd'[q] = fd[q],
         Uses("flock") =>
           /\ pc'[p] \in Section => flocked'[fd'[p]] = p
           /\ \A q \in Proc : q # p /\ pc[q] \in Section => flocked'[fd[q]] = q,
         Uses("dotlock") /\ ~setup.term =>
           /\ pc'[p] \in Passed => dotlock' = p
           /\ \A q \in Proc : q # p /\ pc[q] \in Passed => dotlock' = q
  PROVE  LockInv'
<1>1. ASSUME Uses("flock")', NEW q \in Proc, pc'[q] \in Section
      PROVE  flocked'[fd'[q]] = q
  BY <1>1 DEF Uses
<1>2. ASSUME Uses("dotlock")', ~setup'.term, NEW q \in Proc, pc'[q] \in Passed
      PROVE  dotlock' = q
  BY <1>2 DEF Uses
<1> QED
  BY <1>1, <1>2 DEF LockInv

\* A step that leaves the locks.
LEMMA LockSame ==
  ASSUME LockInv, NEW p \in Proc, setup' = setup, flocked' = flocked, dotlock' = dotlock,
         \A q \in Proc : q # p => pc'[q] = pc[q] /\ fd'[q] = fd[q],
         pc'[p] \in Section => pc[p] \in Section /\ fd'[p] = fd[p],
         pc'[p] \in Passed => pc[p] \in Passed
  PROVE  LockInv'
BY LockOne DEF LockInv

\* A step that closes the files of a process.
LEMMA LockClosed ==
  ASSUME LockInv, TypeOK, FlowInv, NEW p \in Proc, NEW s \in {"undot", "killed"}, Dead(p, s),
         setup' = setup, s = "killed" => setup.term,
         s = "undot" => dotlock' = dotlock /\ pc[p] = "close"
  PROVE  LockInv'
<1>1. /\ \A q \in Proc : q # p => pc'[q] = pc[q] /\ fd'[q] = fd[q]
      /\ pc'[p] = s
  BY DEF Dead, Goto, TypeOK
<1>2. \A i \in Ino : \A q \in Proc : q # p /\ flocked[i] = q => flocked'[i] = q
  BY DEF Dead, Unlocked
<1>3. \A q \in Proc : pc[q] \in Section => fd[q] \in Ino
  BY DEF TypeOK, FlowInv, Holds
<1>4. Uses("flock") => \A q \in Proc : q # p /\ pc[q] \in Section => flocked'[fd[q]] = q
  BY <1>2, <1>3 DEF LockInv
<1>5. pc'[p] \notin Section
  BY <1>1 DEF Section
<1>6. Uses("dotlock") /\ ~setup.term =>
        /\ pc'[p] \in Passed => dotlock' = p
        /\ \A q \in Proc : q # p /\ pc[q] \in Passed => dotlock' = q
  BY <1>1 DEF LockInv, Passed, Holds, Section
<1> QED
  BY <1>1, <1>4, <1>5, <1>6, LockOne

LEMMA LockStep == IInv /\ [Next]_vars => LockInv'
<1> SUFFICES ASSUME IInv, [Next]_vars PROVE LockInv'
  OBVIOUS
<1>t. TypeOK /\ FlowInv /\ LockInv
  BY DEF IInv
<1> USE <1>t, Procs
<1>s. setup' = setup
  BY DEF Next, vars
<1>0. CASE UNCHANGED vars
  BY <1>0 DEF LockInv, Uses, vars, fileVars, lockVars, killVars, fetchVars
<1> USE DEF fileVars, lockVars, killVars, fetchVars, Goto, Fail
<1>p. /\ pc \in [Proc -> {"stat", "dot", "note", "open", "lock", "block", "write",
                          "sync", "unblock", "close", "undot", "unnote", "save",
                          "link"} \cup Over]
      /\ fd \in [Proc -> Ino \cup {0}]
      /\ flocked \in [Ino -> Proc \cup {None}]
  BY DEF TypeOK
<1>h. \A p \in Proc : pc[p] \in Holds => fd[p] \in Ino
  BY DEF FlowInv, TypeOK
<1>e. {"dot", "ok", "failed", "fatal", "unnote", "killed"} \cap (Section \cup Passed) = {}
  BY DEF Section, Passed, Holds
<1>1. ASSUME NEW p \in Proc, Stat(p) PROVE LockInv'
  BY <1>1, <1>s, <1>p, <1>e, LockSame DEF Stat
<1>17. CASE StatSize
  BY <1>17, <1>s, <1>p, <1>e, LockSame DEF StatSize
<1>2. ASSUME NEW p \in Proc, MakeDotlock(p) PROVE LockInv'
  <2>1. /\ flocked' = flocked /\ fd' = fd /\ pc'[p] \in {"open", "note", "dot", "failed"}
        /\ \A q \in Proc : q # p => pc'[q] = pc[q]
    BY <1>2, <1>p DEF MakeDotlock, Sleep
  <2>2. pc'[p] \notin Section
    BY <2>1 DEF Section
  <2>3. Uses("flock") => \A q \in Proc : q # p /\ pc[q] \in Section => flocked'[fd[q]] = q
    BY <2>1 DEF LockInv
  <2>4. Uses("dotlock") /\ ~setup.term =>
          /\ pc'[p] \in Passed => dotlock' = p
          /\ \A q \in Proc : q # p /\ pc[q] \in Passed => dotlock' = q
    <3> SUFFICES ASSUME Uses("dotlock"), ~setup.term
                 PROVE  /\ pc'[p] \in Passed => dotlock' = p
                        /\ \A q \in Proc : q # p /\ pc[q] \in Passed => dotlock' = q
      OBVIOUS
    <3>1. CASE dotlock = None
      <4>1. \A q \in Proc : pc[q] \notin Passed
        BY <3>1 DEF LockInv
      <4> QED
        BY <1>2, <3>1, <4>1 DEF MakeDotlock
    <3>2. CASE dotlock # None
      <4>1. dotlock' = dotlock /\ pc'[p] \in {"dot", "failed"}
        BY <1>2, <1>p, <3>2 DEF MakeDotlock, Sleep
      <4> QED
        BY <4>1, <1>e DEF LockInv
    <3> QED
      BY <3>1, <3>2
  <2> QED
    BY <1>s, <2>1, <2>2, <2>3, <2>4, LockOne
<1>3. ASSUME NEW p \in Proc, Register(p) PROVE LockInv'
  BY <1>3, <1>s, <1>p, LockSame DEF Register, Section, Passed, Holds
<1>4. ASSUME NEW p \in Proc, Open(p) PROVE LockInv'
  <2>1. /\ flocked' = flocked /\ dotlock' = dotlock /\ pc[p] = "open"
        /\ pc'[p] \in {"lock", "undot"}
        /\ \A q \in Proc : q # p => pc'[q] = pc[q] /\ fd'[q] = fd[q]
    BY <1>4, <1>p DEF Open
  <2> QED
    BY <1>s, <2>1, LockSame DEF Section, Passed, Holds
<1>5. ASSUME NEW p \in Proc, Lock(p) PROVE LockInv'
  <2>1. /\ dotlock' = dotlock /\ pc[p] = "lock" /\ fd[p] \in Ino
        /\ pc'[p] \in {"undot", "save", "block"}
        /\ \A q \in Proc : q # p => pc'[q] = pc[q] /\ fd'[q] = fd[q]
    BY <1>5, <1>p, <1>h DEF Lock, Got, Holds
  <2>2. Uses("dotlock") /\ ~setup.term =>
          /\ pc'[p] \in Passed => dotlock' = p
          /\ \A q \in Proc : q # p /\ pc[q] \in Passed => dotlock' = q
    BY <2>1 DEF LockInv, Passed, Holds
  <2>3. Uses("flock") =>
          /\ pc'[p] \in Section => flocked'[fd'[p]] = p
          /\ \A q \in Proc : q # p /\ pc[q] \in Section => flocked'[fd[q]] = q
    <3> SUFFICES ASSUME Uses("flock")
                 PROVE  /\ pc'[p] \in Section => flocked'[fd'[p]] = p
                        /\ \A q \in Proc : q # p /\ pc[q] \in Section => flocked'[fd[q]] = q
      OBVIOUS
    <3>1. CASE flocked[fd[p]] = None
      <4>1. flocked' = [flocked EXCEPT ![fd[p]] = p] /\ fd' = fd
        BY <1>5, <3>1 DEF Lock
      <4>2. \A q \in Proc : pc[q] \in Section => flocked[fd[q]] = q /\ fd[q] \in Ino
        BY <1>h DEF LockInv, Holds
      <4> QED
        BY <1>p, <2>1, <3>1, <4>1, <4>2
    <3>2. CASE flocked[fd[p]] # None
      <4>1. flocked' = flocked /\ pc'[p] = "undot"
        BY <1>5, <1>p, <3>2 DEF Lock
      <4> QED
        BY <4>1 DEF LockInv, Section
    <3> QED
      BY <3>1, <3>2
  <2> QED
    BY <1>s, <2>1, <2>2, <2>3, LockOne
<1>6. ASSUME NEW p \in Proc, Block(p) PROVE LockInv'
  BY <1>6, <1>s, <1>p, LockSame DEF Block, Section, Passed, Holds
<1>7. ASSUME NEW p \in Proc, Write(p) PROVE LockInv'
  BY <1>7, <1>s, <1>p, LockSame DEF Write, Section, Passed, Holds
<1>8. ASSUME NEW p \in Proc, Sync(p) PROVE LockInv'
  BY <1>8, <1>s, <1>p, LockSame DEF Sync, Section, Passed, Holds
<1>9. ASSUME NEW p \in Proc, Unblock(p) PROVE LockInv'
  <2>1. CASE p \in pending
    <3>1. setup.term
      BY <2>1 DEF FlowInv
    <3> QED
      BY <1>9, <1>s, <2>1, <3>1, LockClosed DEF Unblock, Purge
  <2>2. CASE p \notin pending
    BY <1>9, <1>s, <1>p, <2>2, LockSame DEF Unblock, Section, Passed, Holds
  <2> QED
    BY <2>1, <2>2
<1>10. ASSUME NEW p \in Proc, Close(p) PROVE LockInv'
  BY <1>10, <1>s, LockClosed DEF Close
<1>11. ASSUME NEW p \in Proc, Remove(p) PROVE LockInv'
  <2>1. /\ flocked' = flocked /\ fd' = fd /\ pc[p] = "undot"
        /\ \A q \in Proc : q # p => pc'[q] = pc[q]
    BY <1>11, <1>p, ResultIs DEF Remove
  <2>2. pc'[p] \in {"dot", "ok", "failed", "fatal", "unnote"}
    <3>1. CASE Result(p)
      BY <3>1, ResultIs
    <3>2. CASE ~Result(p)
      BY <1>11, <1>p, <3>2 DEF Remove
    <3> QED
      BY <3>1, <3>2
  <2>3. pc'[p] \notin Section /\ pc'[p] \notin Passed
    BY <2>2, <1>e
  <2>4. Uses("flock") => \A q \in Proc : q # p /\ pc[q] \in Section => flocked'[fd[q]] = q
    BY <2>1 DEF LockInv
  <2>5. Uses("dotlock") /\ ~setup.term => \A q \in Proc : q # p => pc[q] \notin Passed
    BY <2>1 DEF LockInv, Passed
  <2> QED
    BY <1>s, <2>1, <2>3, <2>4, <2>5, LockOne
<1>12. ASSUME NEW p \in Proc, Deregister(p) PROVE LockInv'
  <2>1. /\ flocked' = flocked /\ fd' = fd /\ dotlock' = dotlock
        /\ \A q \in Proc : q # p => pc'[q] = pc[q]
        /\ pc'[p] \in {"dot", "ok", "failed"}
    BY <1>12, ResultIs DEF Deregister
  <2> QED
    BY <1>s, <1>e, <2>1, LockSame
<1>13. CASE Save
  <2>1. /\ flocked' = flocked /\ fd' = fd /\ dotlock' = dotlock /\ pc[Fetcher] = "save"
        /\ \A q \in Proc : q # Fetcher => pc'[q] = pc[q]
    BY <1>13, <1>p DEF Save
  <2> QED
    BY <1>s, <2>1, LockSame DEF Section, Passed, Holds
<1>14. CASE Link
  BY <1>14, <1>s, <1>p, LockSame DEF Link, Section, Passed, Holds
<1>15. ASSUME NEW p \in Proc, Term(p) PROVE LockInv'
  <2>1. CASE pc[p] \in Blocks
    BY <1>15, <1>s, <2>1, LockSame DEF Term
  <2>2. CASE pc[p] \notin Blocks
    BY <1>15, <1>s, <2>2, LockClosed DEF Term, Purge
  <2> QED
    BY <2>1, <2>2
<1>16. CASE Rest
  BY <1>0, <1>16 DEF Rest
<1> QED
  BY <1>0, <1>1, <1>2, <1>3, <1>4, <1>5, <1>6, <1>7, <1>8, <1>9, <1>10, <1>11, <1>12,
     <1>13, <1>14, <1>15, <1>16, <1>17 DEF Next, Step

\* The locks exclude.
LEMMA Excluded ==
  ASSUME TypeOK, FlowInv, LockInv, Excludes,
         NEW p \in Proc, NEW q \in Proc, pc[p] \in Section, pc[q] \in Section, fd[p] = fd[q]
  PROVE  p = q
BY DEF Excludes, LockInv, Passed, Holds

-----------------------------------------------------------------------------
(* What a step does to the mails.                                          *)

Others(p)  == \A q \in Proc : q # p => pc'[q] = pc[q] /\ err'[q] = err[q] /\ fd'[q] = fd[q]
SameFiles  == text' = text /\ path' = path /\ backup' = backup
SameDrops  == dropped' = dropped /\ late' = late /\ astray' = astray

\* Most steps touch no mail.
Quiet(p) ==
  /\ Others(p) /\ SameFiles /\ SameDrops /\ seen' = seen
  /\ pc'[p] \in Section => pc[p] \in Section /\ fd'[p] = fd[p]
  /\ p = Fetcher => /\ pc'[p] \in {"save", "link"} => pc'[p] = pc[p]
                    /\ err[p] = "io" => err'[p] = "io"
  /\ p # Fetcher =>
       /\ Unwritten(p)' => Unwritten(p)
       /\ pc'[p] = "sync" => pc[p] = "sync"
       /\ pc[p] = "sync" => (pc'[p] = "sync" /\ fd'[p] = fd[p]) \/ err'[p] = "io"
       /\ err[p] = "io" => err'[p] = "io"
       /\ pc'[p] \in Holds => (pc[p] \in Holds /\ fd'[p] = fd[p]) \/ fd'[p] = path
       /\ pc'[p] \in Behind /\ err'[p] = "none" => pc[p] \in Behind /\ err[p] = "none"

\* The fetcher takes the size.
Sized ==
  /\ Others(Fetcher) /\ SameFiles /\ SameDrops
  /\ path # 0 /\ seen' = text[path]
  /\ pc'[Fetcher] = "dot"

\* A file is made at the path.
Created(p) ==
  /\ Others(p) /\ text' = text /\ backup' = backup /\ SameDrops /\ seen' = seen
  /\ path = 0 /\ path' \in Ino /\ path' # 0
  /\ pc[p] = "open" /\ pc'[p] = "lock" /\ err'[p] = err[p] /\ fd'[p] = path'

\* A file is locked.
Taken(p) ==
  /\ Others(p) /\ SameFiles /\ dropped' = dropped /\ seen' = seen
  /\ pc[p] = "lock" /\ err'[p] = err[p] /\ fd' = fd
  /\ Uses("flock") => flocked[fd[p]] = None
  /\ pc'[p] = IF p = Fetcher THEN "save" ELSE "block"
  /\ late' = IF p = Fetcher THEN late \cup (Wholes(text[fd[p]]) \ Wholes(seen)) ELSE late
  /\ astray' = IF p # Fetcher /\ fd[p] # path THEN astray \cup {p} ELSE astray

\* A mail is begun, and is finished.
Begun(p) ==
  /\ Others(p) /\ path' = path /\ backup' = backup /\ SameDrops /\ seen' = seen
  /\ pc[p] = "write" /\ pc'[p] = "sync" /\ err[p] = "none" /\ err'[p] = "none" /\ fd' = fd
  /\ fd[p] \in Ino
  /\ text' = [text EXCEPT ![fd[p]] = @ \cup {<<p, "part">>}]

Finished(p) ==
  /\ Others(p) /\ path' = path /\ backup' = backup /\ SameDrops /\ seen' = seen
  /\ pc[p] = "sync" /\ pc'[p] = "unblock" /\ err[p] = "none" /\ err'[p] \in {"none", "io"}
  /\ fd' = fd /\ fd[p] \in Ino
  /\ text' = [text EXCEPT ![fd[p]] = (@ \ {<<p, "part">>}) \cup {<<p, Whole>>}]

\* The three steps of fetch_mbox_save.
Cleared ==
  /\ Others(Fetcher) /\ path' = path /\ backup' = backup
  /\ seen' = seen /\ late' = late /\ astray' = astray
  /\ pc[Fetcher] = "save" /\ pc'[Fetcher] = "close" /\ fd[Fetcher] = path /\ path \in Ino
  /\ Known # {} /\ dropped' = Known
  /\ text' = [text EXCEPT ![path] = {}]

Parted ==
  /\ Others(Fetcher) /\ text' = text /\ seen' = seen /\ late' = late /\ astray' = astray
  /\ pc[Fetcher] = "save" /\ pc'[Fetcher] = "link" /\ fd' = fd
  /\ fd[Fetcher] = path /\ path \in Ino
  /\ dropped' # {} /\ backup' = path /\ path' = 0

Replaced ==
  /\ Others(Fetcher) /\ SameDrops /\ seen' = seen
  /\ pc[Fetcher] = "link" /\ pc'[Fetcher] = "close" /\ fd' = fd
  /\ path = 0 /\ path' \in Ino /\ path' # 0 /\ backup' = 0
  /\ text' = [text EXCEPT ![path'] = {x \in seen : x[1] \notin dropped}]

Effect ==
  /\ setup' = setup
  /\ \/ \E p \in Proc : Quiet(p) \/ Created(p) \/ Taken(p)
     \/ \E p \in Deliverers : Begun(p) \/ Finished(p)
     \/ Sized \/ Cleared \/ Parted \/ Replaced

LEMMA Effects ==
  ASSUME TypeOK, FlowInv, FreshInv, [Next]_vars
  PROVE  Effect
<1> USE Procs
<1>s. setup' = setup
  BY DEF Next, vars
<1>p. /\ pc \in [Proc -> {"stat", "dot", "note", "open", "lock", "block", "write",
                          "sync", "unblock", "close", "undot", "unnote", "save",
                          "link"} \cup Over]
      /\ err \in [Proc -> {"none", "exists", "missing", "again", "io"}]
      /\ fd \in [Proc -> Ino \cup {0}] /\ path \in Ino \cup {0}
      /\ text \in [Ino -> SUBSET Portion]
  BY DEF TypeOK
<1>e. \A p \in Proc : /\ pc[p] \in Early => err[p] = "none"
                      /\ pc[p] \in {"unblock", "close"} => err[p] \in {"none", "io"}
                      /\ pc[p] \in Holds => fd[p] \in Ino /\ fd[p] # 0
                      /\ pc[p] \in {"block", "write", "sync", "unblock"} => p \in Deliverers
  BY <1>p DEF FlowInv, Ino
<1>0. CASE UNCHANGED vars
  <2>1. Quiet(Fetcher)
    BY <1>0 DEF Quiet, Others, SameFiles, SameDrops, vars, fileVars, lockVars, killVars, fetchVars
  <2> QED
    BY <1>s, <2>1 DEF Effect
<1> USE DEF fileVars, lockVars, killVars, fetchVars, Goto, Fail
<1>q. ASSUME NEW p \in Proc, Quiet(p) PROVE Effect
  BY <1>s, <1>q DEF Effect
<1>1. ASSUME NEW p \in Proc, Stat(p) PROVE Effect
  <2>1. Quiet(p)
    BY <1>1, <1>p DEF Stat, Quiet, Others, SameFiles, SameDrops, Unwritten, Early, Section, Holds, Behind
  <2> QED
    BY <1>q, <2>1
<1>17. CASE StatSize
  <2>1. /\ Others(Fetcher) /\ SameFiles /\ SameDrops
        /\ pc[Fetcher] = "stat" /\ err' = err
        /\ \/ seen' = seen /\ pc'[Fetcher] \in {"failed", "ok"}
           \/ path # 0 /\ seen' = text[path] /\ pc'[Fetcher] = "dot"
    BY <1>17, <1>p DEF StatSize, Others, SameFiles, SameDrops
  <2>2. CASE seen' = seen /\ pc'[Fetcher] \in {"failed", "ok"}
    BY <1>q, <2>1, <2>2 DEF Quiet, Section
  <2>3. CASE path # 0 /\ seen' = text[path] /\ pc'[Fetcher] = "dot"
    BY <1>s, <2>1, <2>3 DEF Sized, Effect
  <2> QED
    BY <2>1, <2>2, <2>3
<1>2. ASSUME NEW p \in Proc, MakeDotlock(p) PROVE Effect
  <2>1. /\ Others(p) /\ SameFiles /\ SameDrops /\ seen' = seen /\ err' = err /\ fd' = fd
        /\ pc[p] = "dot" /\ pc'[p] \in {"open", "note", "dot", "failed"}
    BY <1>2, <1>p DEF MakeDotlock, Sleep, Others, SameFiles, SameDrops
  <2> QED
    BY <1>q, <2>1 DEF Quiet, Unwritten, Early, Section, Holds, Behind
<1>3. ASSUME NEW p \in Proc, Register(p) PROVE Effect
  <2>1. Quiet(p)
    BY <1>3, <1>p DEF Register, Quiet, Others, SameFiles, SameDrops, Unwritten, Early, Section, Holds, Behind
  <2> QED
    BY <1>q, <2>1
<1>4. ASSUME NEW p \in Proc, Open(p) PROVE Effect
  <2>1. /\ Others(p) /\ text' = text /\ backup' = backup /\ SameDrops /\ seen' = seen
        /\ pc[p] = "open" /\ pc'[p] \in {"lock", "undot"}
    BY <1>4, <1>p DEF Open, Others, SameDrops
  <2>2. CASE path' # path
    <3>1. /\ path = 0 /\ path' = FreshIno /\ fd' = [fd EXCEPT ![p] = path']
          /\ pc'[p] = "lock" /\ err' = err
      BY <1>4, <1>p, <2>2 DEF Open
    <3>2. path' \in Ino /\ path' # 0
      BY <3>1, Fresh
    <3>3. Created(p)
      BY <1>p, <2>1, <3>1, <3>2 DEF Created
    <3> QED
      BY <1>s, <3>3 DEF Effect
  <2>3. CASE path' = path
    <3>0. path = 0 => path # FreshIno
      BY Fresh
    <3>1. \/ pc'[p] = "lock" /\ fd'[p] = path /\ err' = err
          \/ pc'[p] = "undot" /\ err'[p] # "none"
      BY <1>4, <1>p, <2>3, <3>0 DEF Open
    <3>2. Quiet(p)
      BY <2>1, <2>3, <3>1 DEF Quiet, SameFiles, Unwritten, Early, Section, Holds, Behind, FlowInv
    <3> QED
      BY <1>q, <3>2
  <2> QED
    BY <2>2, <2>3
<1>5. ASSUME NEW p \in Proc, Lock(p) PROVE Effect
  <2>1. /\ Others(p) /\ SameFiles /\ dropped' = dropped /\ seen' = seen /\ pc[p] = "lock"
    BY <1>5, <1>p DEF Lock, Got, Others, SameFiles
  <2>2. CASE Uses("flock") /\ flocked[fd[p]] # None
    <3>1. SameDrops /\ pc'[p] = "undot" /\ err'[p] = "again"
      BY <1>5, <1>p, <2>1, <2>2 DEF Lock, SameDrops
    <3>2. err[p] = "none" /\ Unwritten(p)
      BY <1>e, <2>1 DEF Early, Unwritten
    <3>3. pc'[p] \notin Section \cup Holds /\ pc'[p] \notin {"save", "link", "sync"}
      BY <3>1 DEF Section, Holds
    <3> QED
      BY <1>q, <2>1, <3>1, <3>2, <3>3 DEF Quiet
  <2>3. CASE ~(Uses("flock") /\ flocked[fd[p]] # None)
    <3>1. Got(p) /\ err' = err /\ fd' = fd
      BY <1>5, <2>3 DEF Lock
    <3>2. Taken(p)
      BY <1>p, <2>1, <2>3, <3>1 DEF Got, Taken
    <3> QED
      BY <1>s, <3>2 DEF Effect
  <2> QED
    BY <2>2, <2>3
<1>6. ASSUME NEW p \in Proc, Block(p) PROVE Effect
  <2>1. Quiet(p)
    BY <1>6, <1>p, <1>e DEF Block, Quiet, Others, SameFiles, SameDrops, Unwritten, Early, Section, Holds, Behind
  <2> QED
    BY <1>q, <2>1
<1>7. ASSUME NEW p \in Proc, Write(p) PROVE Effect
  <2>1. /\ Others(p) /\ path' = path /\ backup' = backup /\ SameDrops /\ seen' = seen
        /\ pc[p] = "write" /\ p \in Deliverers /\ err[p] = "none" /\ fd' = fd /\ fd[p] \in Ino
    BY <1>7, <1>p, <1>e DEF Write, Others, SameDrops, Early, Holds, Section
  <2>2. \/ /\ text' = [text EXCEPT ![fd[p]] = @ \cup {<<p, "part">>}]
           /\ pc'[p] = "sync" /\ err' = err
        \/ text' = text /\ pc'[p] = "unblock" /\ err'[p] = "io"
    BY <1>7, <1>p DEF Write
  <2>3. CASE text' = text /\ pc'[p] = "unblock" /\ err'[p] = "io"
    BY <1>q, <2>1, <2>3 DEF Quiet, SameFiles, Unwritten, Early, Section, Holds, Behind
  <2>4. CASE /\ text' = [text EXCEPT ![fd[p]] = @ \cup {<<p, "part">>}]
             /\ pc'[p] = "sync" /\ err' = err
    BY <1>s, <2>1, <2>4 DEF Begun, Effect
  <2> QED
    BY <2>2, <2>3, <2>4
<1>8. ASSUME NEW p \in Proc, Sync(p) PROVE Effect
  <2> DEFINE whole == [text EXCEPT ![fd[p]] = (@ \ {<<p, "part">>}) \cup {<<p, Whole>>}]
  <2>1. /\ Others(p) /\ path' = path /\ backup' = backup /\ SameDrops /\ seen' = seen
        /\ pc[p] = "sync" /\ pc'[p] = "unblock" /\ p \in Deliverers /\ err[p] = "none"
        /\ fd' = fd /\ fd[p] \in Ino
    BY <1>8, <1>p, <1>e DEF Sync, Others, SameDrops, Early, Holds, Section
  <2>2. \/ text' = whole /\ err'[p] \in {"none", "io"}
        \/ text' = text /\ err'[p] = "io"
    BY <1>8, <1>p, <2>1 DEF Sync
  <2>3. CASE text' = text /\ err'[p] = "io"
    BY <1>q, <2>1, <2>3 DEF Quiet, SameFiles, Unwritten, Early, Section, Holds, Behind
  <2>4. CASE text' = whole /\ err'[p] \in {"none", "io"}
    BY <1>s, <2>1, <2>4 DEF Finished, Effect
  <2> QED
    BY <2>2, <2>3, <2>4
<1>d. ASSUME NEW p \in Proc, NEW s \in {"undot", "killed"}, Dead(p, s), err' = err,
             SameFiles, SameDrops, seen' = seen,
             s = "undot" => pc[p] = "close", s = "killed" => p # Fetcher /\ pc[p] # "sync"
      PROVE  Quiet(p)
  BY <1>d, <1>p DEF Dead, Quiet, Others, SameFiles, Unwritten, Early, Section, Holds, Behind
<1>9. ASSUME NEW p \in Proc, Unblock(p) PROVE Effect
  <2>1. SameFiles /\ SameDrops /\ seen' = seen /\ err' = err /\ pc[p] = "unblock" /\ p # Fetcher
    BY <1>9, <1>e DEF Unblock, SameFiles, SameDrops
  <2>2. CASE p \in pending
    BY <1>9, <1>d, <1>q, <2>1, <2>2 DEF Unblock, Purge
  <2>3. CASE p \notin pending
    <3>1. Quiet(p)
      BY <1>9, <1>p, <2>1, <2>3 DEF Unblock, Quiet, Others, Unwritten, Early, Section, Holds, Behind
    <3> QED
      BY <1>q, <3>1
  <2> QED
    BY <2>2, <2>3
<1>10. ASSUME NEW p \in Proc, Close(p) PROVE Effect
  BY <1>10, <1>d, <1>q DEF Close, SameFiles, SameDrops
<1>r. ASSUME NEW p \in Proc, Result(p), pc[p] \in {"undot", "unnote"}, fd' = fd,
             UNCHANGED <<fileVars, fetchVars>>
      PROVE  Effect
  <2>1. /\ Others(p) /\ pc'[p] \in {"ok", "failed", "dot"}
        /\ pc'[p] = "ok" => err[p] = "none" /\ err'[p] = "none"
        /\ pc'[p] = "dot" => err[p] \in {"again", "exists"} /\ err'[p] = "none"
        /\ err'[p] \in {"exists", "missing", "again"} => err[p] = err'[p]
        /\ err[p] = "io" => err'[p] = "io"
    BY <1>r, ResultIs DEF Others
  <2> QED
    BY <1>q, <1>r, <2>1 DEF Quiet, SameFiles, SameDrops, Unwritten, Early, Section, Holds, Behind
<1>11. ASSUME NEW p \in Proc, Remove(p) PROVE Effect
  <2>1. CASE Result(p)
    BY <1>11, <1>r, <2>1 DEF Remove
  <2>2. CASE ~Result(p)
    <3>1. /\ Others(p) /\ pc'[p] \in {"unnote", "fatal"} /\ pc[p] = "undot" /\ err' = err
          /\ SameFiles /\ SameDrops /\ seen' = seen
      BY <1>11, <1>p, <2>2 DEF Remove, Others, SameFiles, SameDrops
    <3> QED
      BY <1>q, <3>1 DEF Quiet, Unwritten, Early, Section, Holds, Behind
  <2> QED
    BY <2>1, <2>2
<1>12. ASSUME NEW p \in Proc, Deregister(p) PROVE Effect
  BY <1>12, <1>r DEF Deregister
<1>13. CASE Save
  <2>1. /\ pc[Fetcher] = "save" /\ fd[Fetcher] \in Ino /\ fd[Fetcher] # 0 /\ ~Saved
        /\ Others(Fetcher) /\ seen' = seen /\ late' = late /\ astray' = astray
        /\ err' = err /\ fd' = fd
    BY <1>13, <1>p, <1>e DEF Save, Saved, Others, Holds, Section
  <2>2. fd[Fetcher] = path /\ path \in Ino /\ dropped = {}
    BY <2>1 DEF FreshInv, Used
  <2>3. \/ dropped' = {} /\ SameFiles /\ pc'[Fetcher] = "close"
        \/ /\ Known # {} /\ dropped' = Known /\ text' = [text EXCEPT ![path] = {}]
           /\ path' = path /\ backup' = backup /\ pc'[Fetcher] = "close"
        \/ /\ dropped' # {} /\ backup' = path /\ path' = 0 /\ text' = text
           /\ pc'[Fetcher] = "link"
    BY <1>13, <1>p, <2>2 DEF Save, SameFiles
  <2>4. CASE dropped' = {} /\ SameFiles /\ pc'[Fetcher] = "close"
    BY <1>q, <2>1, <2>2, <2>4 DEF Quiet, SameDrops, Section
  <2>5. CASE /\ Known # {} /\ dropped' = Known /\ text' = [text EXCEPT ![path] = {}]
             /\ path' = path /\ backup' = backup /\ pc'[Fetcher] = "close"
    BY <1>s, <2>1, <2>2, <2>5 DEF Cleared, Effect
  <2>6. CASE /\ dropped' # {} /\ backup' = path /\ path' = 0 /\ text' = text
             /\ pc'[Fetcher] = "link"
    BY <1>s, <2>1, <2>2, <2>6 DEF Parted, Effect
  <2> QED
    BY <2>3, <2>4, <2>5, <2>6
<1>14. CASE Link
  <2>1. /\ pc[Fetcher] = "link" /\ pc'[Fetcher] = "close" /\ fd' = fd
        /\ Others(Fetcher) /\ SameDrops /\ seen' = seen
    BY <1>14, <1>p DEF Link, Others, SameDrops
  <2>2. CASE path = 0
    <3>1. path' \in Ino /\ path' # 0
      BY <1>14, <2>2, Fresh DEF Link
    <3> QED
      BY <1>14, <1>s, <2>1, <2>2, <3>1 DEF Link, Replaced, Effect
  <2>3. CASE path # 0
    <3>1. SameFiles /\ err'[Fetcher] = "io"
      BY <1>14, <1>p, <2>3 DEF Link, SameFiles
    <3> QED
      BY <1>q, <2>1, <3>1 DEF Quiet, Section
  <2> QED
    BY <2>2, <2>3
<1>15. ASSUME NEW p \in Proc, Term(p) PROVE Effect
  <2>1. SameFiles /\ SameDrops /\ seen' = seen /\ err' = err /\ p # Fetcher
    BY <1>15 DEF Term, SameFiles, SameDrops
  <2>2. CASE pc[p] \in Blocks
    BY <1>15, <1>q, <2>1, <2>2 DEF Term, Quiet, Others, Unwritten
  <2>3. CASE pc[p] \notin Blocks
    <3>1. Dead(p, "killed") /\ pc[p] # "sync"
      BY <1>15, <2>3 DEF Term, Purge, Blocks
    <3> QED
      BY <1>d, <1>q, <2>1, <3>1
  <2> QED
    BY <2>2, <2>3
<1>16. CASE Rest
  BY <1>0, <1>16 DEF Rest
<1> QED
  BY <1>0, <1>1, <1>2, <1>3, <1>4, <1>5, <1>6, <1>7, <1>8, <1>9, <1>10, <1>11, <1>12,
     <1>13, <1>14, <1>15, <1>16, <1>17 DEF Next, Step

-----------------------------------------------------------------------------
(* Every mail is written once.                                             *)

LEMMA OnceInit == Init => OnceInv
<1> SUFFICES ASSUME Init PROVE OnceInv
  OBVIOUS
<1>1. seen = {} /\ \A i \in Ino : \A x \in text[i] : x = <<Old, Whole>>
  BY DEF Init
<1>2. ASSUME NEW m \in Deliverers, NEW k \in {"part", Whole}
      PROVE  ~Found(<<m, k>>)
  BY <1>1, Procs DEF Found, Old
<1>3. ASSUME NEW m \in Deliverers
      PROVE  ~Twice(m, seen) /\ \A i \in Ino : ~Twice(m, text[i])
  BY <1>2 DEF Twice, Found
<1> QED
  BY <1>2, <1>3 DEF OnceInv

\* A step that brings no new piece.
LEMMA OnceKeep ==
  ASSUME OnceInv,
         \A m \in Deliverers : /\ Unwritten(m)' => Unwritten(m)
                               /\ pc'[m] = "sync" => pc[m] = "sync",
         seen' = seen \/ \E i \in Ino : seen' \subseteq text[i],
         \A i \in Ino : text'[i] \subseteq text[i] \/ text'[i] \subseteq seen
  PROVE  OnceInv'
<1>1. \A x : Found(x)' => Found(x)
  BY DEF Found
<1>2. \A m \in Deliverers : ~Twice(m, seen') /\ \A i \in Ino : ~Twice(m, text'[i])
  BY DEF OnceInv, Twice
<1> QED
  BY <1>1, <1>2 DEF OnceInv, Twice

LEMMA OnceStep ==
  ASSUME TypeOK, FlowInv, OnceInv, Effect
  PROVE  OnceInv'
<1> USE Procs
<1>t. text \in [Ino -> SUBSET Portion]
  BY DEF TypeOK
<1>o. ASSUME NEW m \in Deliverers, pc'[m] = pc[m], err'[m] = err[m]
      PROVE  /\ Unwritten(m)' => Unwritten(m)
             /\ pc'[m] = "sync" => pc[m] = "sync"
  BY <1>o DEF Unwritten
<1>f. ASSUME Others(Fetcher)
      PROVE  \A m \in Deliverers : /\ Unwritten(m)' => Unwritten(m)
                                   /\ pc'[m] = "sync" => pc[m] = "sync"
  BY <1>f, <1>o DEF Others
<1>1. ASSUME NEW p \in Proc, Quiet(p) PROVE OnceInv'
  <2>1. \A m \in Deliverers : /\ Unwritten(m)' => Unwritten(m)
                              /\ pc'[m] = "sync" => pc[m] = "sync"
    BY <1>1, <1>o DEF Quiet, Others
  <2> QED
    BY <1>1, <2>1, OnceKeep DEF Quiet, SameFiles
<1>2. ASSUME NEW p \in Proc, Created(p) \/ Taken(p) PROVE OnceInv'
  <2>1. /\ Others(p) /\ text' = text /\ seen' = seen
        /\ pc[p] \in {"open", "lock"} /\ pc'[p] \in {"lock", "save", "block"}
    BY <1>2 DEF Created, Taken, SameFiles
  <2>2. \A m \in Deliverers : /\ Unwritten(m)' => Unwritten(m)
                              /\ pc'[m] = "sync" => pc[m] = "sync"
    BY <2>1, <1>o DEF Others, Unwritten, Early
  <2> QED
    BY <2>1, <2>2, OnceKeep
<1>3. CASE Sized
  <2>1. Others(Fetcher) /\ text' = text /\ path \in Ino /\ seen' = text[path]
    BY <1>3 DEF Sized, SameFiles, TypeOK
  <2> QED
    BY <1>f, <2>1, OnceKeep
<1>4. CASE Cleared \/ Parted \/ Replaced
  <2>1. Others(Fetcher) /\ seen' = seen
    BY <1>4 DEF Cleared, Parted, Replaced
  <2>2. \A i \in Ino : text'[i] \subseteq text[i] \/ text'[i] \subseteq seen
    BY <1>4, <1>t DEF Cleared, Parted, Replaced
  <2> QED
    BY <1>f, <2>1, <2>2, OnceKeep
<1>5. ASSUME NEW p \in Deliverers, Begun(p) \/ Finished(p) PROVE OnceInv'
  <2>1. /\ Others(p) /\ seen' = seen /\ pc[p] \in {"write", "sync"}
        /\ pc'[p] \in {"sync", "unblock"} /\ err'[p] \in {"none", "io"} /\ fd[p] \in Ino
    BY <1>5 DEF Begun, Finished
  <2>2. ~Unwritten(p)' /\ ~Found(<<p, Whole>>)
    BY <2>1 DEF Unwritten, Early, OnceInv
  <2>3. ASSUME NEW m \in Deliverers, m # p, NEW k \in {"part", Whole}, NEW i \in Ino
        PROVE  <<m, k>> \in text'[i] <=> <<m, k>> \in text[i]
    BY <1>5, <1>t, <2>3 DEF Begun, Finished
  <2>4. ASSUME NEW m \in Deliverers, m # p, NEW k \in {"part", Whole}
        PROVE  Found(<<m, k>>)' <=> Found(<<m, k>>)
    BY <2>1, <2>3, <2>4 DEF Found
  <2>5. \A m \in Deliverers : ~Twice(m, seen')
    BY <2>1 DEF OnceInv
  <2>6. ASSUME NEW m \in Deliverers, m # p, NEW i \in Ino
        PROVE  ~Twice(m, text'[i])
    BY <2>3, <2>6 DEF OnceInv, Twice
  <2>7. ASSUME NEW m \in Deliverers, m # p
        PROVE  /\ Unwritten(m)' => ~Found(<<m, "part">>)'
               /\ Unwritten(m)' \/ pc'[m] = "sync" => ~Found(<<m, Whole>>)'
    <3>1. /\ Unwritten(m)' => Unwritten(m)
          /\ pc'[m] = "sync" => pc[m] = "sync"
      BY <1>o, <2>1, <2>7 DEF Others
    <3> QED
      BY <2>4, <2>7, <3>1 DEF OnceInv
  <2>8. CASE Begun(p)
    <3>1. \A i \in Ino : <<p, Whole>> \notin text'[i]
      BY <1>t, <2>2, <2>8 DEF Begun, Found, Whole
    <3>2. ~Found(<<p, Whole>>)' /\ \A i \in Ino : ~Twice(p, text'[i])
      BY <2>1, <2>2, <3>1 DEF Found, Twice
    <3> QED
      BY <2>2, <2>5, <2>6, <2>7, <3>2 DEF OnceInv
  <2>9. CASE Finished(p)
    <3>1. pc'[p] # "sync"
      BY <2>9 DEF Finished
    <3>2. ASSUME NEW i \in Ino PROVE ~Twice(p, text'[i])
      <4>1. CASE i = fd[p]
        <5>1. text'[i] = (text[i] \ {<<p, "part">>}) \cup {<<p, Whole>>}
          BY <1>t, <2>1, <2>9, <4>1 DEF Finished
        <5>2. <<p, "part">> # <<p, Whole>>
          BY DEF Whole
        <5> QED
          BY <5>1, <5>2 DEF Twice
      <4>2. CASE i # fd[p]
        BY <1>t, <2>9, <4>2 DEF Finished, OnceInv
      <4> QED
        BY <4>1, <4>2
    <3> QED
      BY <2>2, <2>5, <2>6, <2>7, <3>1, <3>2 DEF OnceInv
  <2> QED
    BY <1>5, <2>8, <2>9
<1> QED
  BY <1>1, <1>2, <1>3, <1>4, <1>5 DEF Effect

-----------------------------------------------------------------------------
(* Mails in part.                                                          *)

LEMMA PartInit == Init => PartInv
BY Procs DEF Init, PartInv, Whole

\* A step that writes no mail.
LEMMA PartKeep ==
  ASSUME PartInv, setup' = setup, late \subseteq late', seen' = seen,
         \A m \in Deliverers : err[m] = "io" => err'[m] = "io",
         \A m \in Deliverers : pc[m] = "sync" =>
           (pc'[m] = "sync" /\ fd'[m] = fd[m]) \/ err'[m] = "io",
         \A m \in Deliverers : \A i \in Ino : <<m, "part">> \in text'[i] =>
           <<m, "part">> \in text[i] \/ (<<m, "part">> \in seen /\ pc[Fetcher] = "link"),
         Guarded => \A m \in Deliverers : <<m, "part">> \in seen /\ Growing(m) =>
           Unfinished(m)' \/ Growing(m)'
  PROVE  PartInv'
<1> SUFFICES ASSUME Guarded', NEW m \in Deliverers
             PROVE  /\ \A i \in Ino : <<m, "part">> \in text'[i] =>
                                        (pc'[m] = "sync" /\ fd'[m] = i) \/ Unfinished(m)'
                    /\ <<m, "part">> \in seen' => Unfinished(m)' \/ Growing(m)'
  BY DEF PartInv
<1>1. Guarded
  BY DEF Guarded, Excludes, Uses
<1>2. Unfinished(m) => Unfinished(m)'
  BY DEF Unfinished
<1>3. <<m, "part">> \in seen /\ pc[Fetcher] = "link" => Unfinished(m)
  BY <1>1 DEF PartInv, Growing
<1>4. ASSUME NEW i \in Ino, <<m, "part">> \in text'[i]
      PROVE  (pc'[m] = "sync" /\ fd'[m] = i) \/ Unfinished(m)'
  BY <1>1, <1>2, <1>3, <1>4 DEF PartInv, Unfinished
<1>5. <<m, "part">> \in seen' => Unfinished(m)' \/ Growing(m)'
  BY <1>1, <1>2 DEF PartInv
<1> QED
  BY <1>4, <1>5

LEMMA PartStep ==
  ASSUME TypeOK, FlowInv, FreshInv, LockInv, OnceInv, PartInv, Effect
  PROVE  PartInv'
<1> USE Procs
<1>t. text \in [Ino -> SUBSET Portion] /\ fd \in [Proc -> Ino \cup {0}] /\ path \in Ino \cup {0}
  BY DEF TypeOK
<1>s. setup' = setup /\ (Guarded' <=> Guarded)
  BY DEF Effect, Guarded, Excludes, Uses
<1>1. ASSUME NEW p \in Proc, Quiet(p) PROVE PartInv'
  <2>1. \A m \in Deliverers : /\ err[m] = "io" => err'[m] = "io"
                              /\ pc[m] = "sync" => (pc'[m] = "sync" /\ fd'[m] = fd[m]) \/ err'[m] = "io"
    BY <1>1 DEF Quiet, Others
  <2>2. pc'[Fetcher] \in {"save", "link"} => pc'[Fetcher] = pc[Fetcher]
    BY <1>1 DEF Quiet, Others
  <2>3. ASSUME NEW m \in Deliverers, Growing(m) PROVE Unfinished(m)' \/ Growing(m)'
    BY <1>1, <2>1, <2>2, <2>3 DEF Growing, Unfinished, Quiet, SameFiles
  <2> QED
    BY <1>1, <1>s, <2>1, <2>3, PartKeep DEF Quiet, SameFiles, SameDrops
<1>2. ASSUME NEW p \in Proc, Created(p) PROVE PartInv'
  <2>1. \A m \in Deliverers : /\ err[m] = "io" => err'[m] = "io"
                              /\ pc[m] = "sync" => pc'[m] = "sync" /\ fd'[m] = fd[m]
    BY <1>2 DEF Created, Others
  <2>2. \A m \in Deliverers : ~Growing(m)
    BY <1>2 DEF Created, Growing
  <2> QED
    BY <1>2, <1>s, <2>1, <2>2, PartKeep DEF Created, SameDrops
<1>3. ASSUME NEW p \in Proc, Taken(p) PROVE PartInv'
  <2>1. \A m \in Deliverers : /\ err[m] = "io" => err'[m] = "io"
                              /\ pc[m] = "sync" => pc'[m] = "sync" /\ fd'[m] = fd[m]
    BY <1>3 DEF Taken, Others
  <2>2. late \subseteq late'
    BY <1>3 DEF Taken
  <2>3. ASSUME Guarded, NEW m \in Deliverers, <<m, "part">> \in seen, Growing(m)
        PROVE  Unfinished(m)' \/ Growing(m)'
    <3>1. CASE p # Fetcher
      <4>1. pc'[Fetcher] = pc[Fetcher]
        BY <1>3, <3>1 DEF Taken, Others
      <4> QED
        BY <1>3, <2>1, <2>3, <4>1 DEF Growing, Taken, SameFiles
    <3>2. CASE p = Fetcher
      <4>1. pc[Fetcher] = "lock" /\ setup.fetch /\ fd[Fetcher] \in Ino /\ ~Saved
        BY <1>3, <1>t, <3>2 DEF Taken, FlowInv, Holds, Saved
      <4>2. fd[Fetcher] = path
        BY <4>1 DEF FreshInv, Used
      <4>3. ~(pc[m] = "sync" /\ fd[m] = path)
        <5> SUFFICES ASSUME pc[m] = "sync", fd[m] = path PROVE FALSE
          OBVIOUS
        <5>1. pc[m] \in Section /\ pc[m] \in Passed /\ pc[Fetcher] \in Passed
          BY <4>1 DEF Section, Passed, Holds
        <5>2. Excludes
          BY <2>3, <4>1 DEF Guarded
        <5>3. CASE Uses("flock")
          <6>1. flocked[fd[m]] = m /\ flocked[fd[Fetcher]] = None
            BY <1>3, <3>2, <5>1, <5>3 DEF LockInv, Taken
          <6> QED
            BY <4>2, <6>1
        <5>4. CASE Uses("dotlock") /\ ~setup.term
          BY <5>1, <5>4 DEF LockInv
        <5> QED
          BY <5>2, <5>3, <5>4 DEF Excludes
      <4>4. <<m, Whole>> \in text[path] /\ <<m, Whole>> \notin seen
        BY <2>3, <4>3 DEF Growing, OnceInv, Twice
      <4>5. m \in late'
        BY <1>3, <3>2, <4>2, <4>4 DEF Taken, Wholes
      <4> QED
        BY <4>5 DEF Unfinished
    <3> QED
      BY <3>1, <3>2
  <2> QED
    BY <1>3, <1>s, <2>1, <2>2, <2>3, PartKeep DEF Taken, SameFiles
<1>4. CASE Cleared \/ Parted \/ Replaced
  <2>1. /\ Others(Fetcher) /\ seen' = seen /\ late' = late /\ pc[Fetcher] \in {"save", "link"}
    BY <1>4 DEF Cleared, Parted, Replaced, SameDrops
  <2>2. \A m \in Deliverers : /\ err[m] = "io" => err'[m] = "io"
                              /\ pc[m] = "sync" => pc'[m] = "sync" /\ fd'[m] = fd[m]
    BY <2>1 DEF Others
  <2>3. \A i \in Ino : \A x \in text'[i] : x \in text[i] \/ (x \in seen /\ pc[Fetcher] = "link")
    BY <1>4, <1>t DEF Cleared, Parted, Replaced
  <2>4. \A m \in Deliverers : ~Growing(m)
    BY <2>1 DEF Growing
  <2> QED
    BY <1>s, <2>1, <2>2, <2>3, <2>4, PartKeep
<1>5. CASE Sized
  <2> SUFFICES ASSUME Guarded, NEW m \in Deliverers
               PROVE  /\ \A i \in Ino : <<m, "part">> \in text'[i] =>
                                          (pc'[m] = "sync" /\ fd'[m] = i) \/ Unfinished(m)'
                      /\ <<m, "part">> \in seen' => Unfinished(m)' \/ Growing(m)'
    BY <1>s DEF PartInv
  <2>1. /\ text' = text /\ path' = path /\ path # 0 /\ path \in Ino /\ late' = late
        /\ seen' = text[path] /\ pc'[Fetcher] = "dot"
        /\ pc'[m] = pc[m] /\ fd'[m] = fd[m] /\ err'[m] = err[m]
    BY <1>5, <1>t DEF Sized, SameFiles, SameDrops, Others
  <2>2. ASSUME NEW i \in Ino, <<m, "part">> \in text[i]
        PROVE  (pc'[m] = "sync" /\ fd'[m] = i) \/ Unfinished(m)'
    BY <2>1, <2>2 DEF PartInv, Unfinished
  <2>3. <<m, "part">> \in seen' => Unfinished(m)' \/ Growing(m)'
    BY <2>1, <2>2 DEF Growing
  <2> QED
    BY <2>1, <2>2, <2>3
<1>6. ASSUME NEW p \in Deliverers, Begun(p) \/ Finished(p) PROVE PartInv'
  <2> SUFFICES ASSUME Guarded, NEW m \in Deliverers
               PROVE  /\ \A i \in Ino : <<m, "part">> \in text'[i] =>
                                          (pc'[m] = "sync" /\ fd'[m] = i) \/ Unfinished(m)'
                      /\ <<m, "part">> \in seen' => Unfinished(m)' \/ Growing(m)'
    BY <1>s DEF PartInv
  <2>1. /\ Others(p) /\ path' = path /\ seen' = seen /\ late' = late
        /\ pc[p] \in {"write", "sync"} /\ err[p] = "none" /\ fd' = fd /\ fd[p] \in Ino
        /\ pc'[Fetcher] = pc[Fetcher] /\ pc'[p] \in {"sync", "unblock"}
    BY <1>6 DEF Begun, Finished, SameDrops, Others
  <2>2. Unfinished(m) => Unfinished(m)'
    BY <2>1 DEF Unfinished, Others
  <2>3. \A i \in Ino : <<m, Whole>> \in text[i] => <<m, Whole>> \in text'[i]
    BY <1>6, <1>t DEF Begun, Finished, Whole
  <2>4. CASE m # p
    <3>1. \A i \in Ino : <<m, "part">> \in text'[i] => <<m, "part">> \in text[i]
      BY <1>6, <1>t, <2>4 DEF Begun, Finished
    <3>2. pc'[m] = pc[m] /\ fd'[m] = fd[m]
      BY <2>1, <2>4 DEF Others
    <3>3. Growing(m) => Growing(m)'
      BY <1>t, <2>1, <2>3, <3>2 DEF Growing
    <3> QED
      BY <2>1, <2>2, <3>1, <3>2, <3>3 DEF PartInv
  <2>5. CASE m = p /\ Begun(p)
    <3>1. ~Found(<<m, "part">>)
      BY <2>5 DEF Begun, OnceInv, Unwritten, Early
    <3>2. <<m, "part">> \notin seen' /\ pc'[m] = "sync"
      BY <2>1, <2>5, <3>1 DEF Found, Begun
    <3>3. \A i \in Ino : <<m, "part">> \in text'[i] => i = fd[p]
      BY <1>t, <2>5, <3>1 DEF Begun, Found
    <3> QED
      BY <2>1, <2>5, <3>2, <3>3
  <2>6. CASE m = p /\ Finished(p)
    <3>1. \A i \in Ino : <<m, "part">> \in text'[i] => <<m, "part">> \in text[i] /\ i # fd[p]
      <4> SUFFICES ASSUME NEW i \in Ino, <<m, "part">> \in text'[i]
                   PROVE  <<m, "part">> \in text[i] /\ i # fd[p]
        OBVIOUS
      <4>1. CASE i = fd[p]
        <5>1. text'[i] = (text[i] \ {<<p, "part">>}) \cup {<<p, Whole>>}
          BY <1>t, <2>1, <2>6, <4>1 DEF Finished
        <5>2. <<p, "part">> # <<p, Whole>>
          BY DEF Whole
        <5> QED
          BY <2>6, <5>1, <5>2
      <4>2. CASE i # fd[p]
        BY <1>t, <2>6, <4>2 DEF Finished
      <4> QED
        BY <4>1, <4>2
    <3>2. ASSUME NEW i \in Ino, <<m, "part">> \in text'[i] PROVE Unfinished(m)'
      BY <2>2, <2>6, <3>1, <3>2 DEF PartInv
    <3>3. <<m, Whole>> \in text'[fd[p]]
      BY <1>t, <2>1, <2>6 DEF Finished
    <3>4. Growing(m) => Growing(m)'
      BY <1>t, <2>1, <2>3, <2>6, <3>3 DEF Growing
    <3> QED
      BY <2>1, <2>2, <3>2, <3>4 DEF PartInv
  <2> QED
    BY <1>6, <2>4, <2>5, <2>6
<1> QED
  BY <1>1, <1>2, <1>3, <1>4, <1>5, <1>6 DEF Effect

-----------------------------------------------------------------------------
(* Mails that have been written.                                           *)

LEMMA KeptInit == Init => KeptInv
BY Procs DEF Init, KeptInv, Section, Behind

\* A step that leaves the mails where they are.
LEMMA KeptStays ==
  ASSUME NEW m, Kept(m), Present(m) => Present(m)', dropped \subseteq dropped',
         late \subseteq late', astray \subseteq astray'
  PROVE  Kept(m)'
BY DEF Kept

\* Nobody writes to the file that the fetcher rewrites.
LEMMA Apart ==
  ASSUME TypeOK, FlowInv, LockInv, Guarded, pc[Fetcher] \in {"save", "link"},
         NEW m \in Deliverers, pc[m] \in Section
  PROVE  fd[m] # fd[Fetcher]
<1>1. setup.fetch /\ pc[Fetcher] \in Section
  BY DEF FlowInv, Section
<1>2. Excludes
  BY <1>1 DEF Guarded
<1> QED
  BY <1>1, <1>2, Procs, Excluded

LEMMA KeptStep ==
  ASSUME TypeOK, FlowInv, FreshInv, LockInv, KeptInv, Effect
  PROVE  KeptInv'
<1> USE Procs
<1>t. /\ text \in [Ino -> SUBSET Portion] /\ fd \in [Proc -> Ino \cup {0}]
      /\ path \in Ino \cup {0} /\ backup \in Ino \cup {0}
  BY DEF TypeOK
<1>s. Guarded' <=> Guarded
  BY DEF Effect, Guarded, Excludes, Uses
<1>f. \A p \in Proc : pc[p] \in Section => fd[p] # 0 /\ fd[p] \in Ino
  BY <1>t DEF FlowInv, Holds, Ino
<1> DEFINE Tells    == pc[Fetcher] \in {"save", "link"} =>
                         Wholes(text[fd[Fetcher]]) \subseteq Wholes(seen) \cup late
           Placed(m) == pc[m] \in Section => fd[m] = path \/ m \in astray
           Stays(m) == pc[m] \in Behind /\ err[m] = "none" => Kept(m)
<1>k. Guarded => Tells /\ \A m \in Deliverers : Placed(m) /\ Stays(m)
  BY DEF KeptInv
<1>x. (Guarded => Tells' /\ \A m \in Deliverers : Placed(m)' /\ Stays(m)')
      /\ (astray' # {} => dropped' # {}) => KeptInv'
  BY <1>s DEF KeptInv
<1>1. ASSUME NEW p \in Proc, Quiet(p) PROVE KeptInv'
  <2>1. astray' # {} => dropped' # {}
    BY <1>1 DEF Quiet, SameDrops, KeptInv
  <2>2. pc'[Fetcher] \in {"save", "link"} =>
          pc[Fetcher] = pc'[Fetcher] /\ fd'[Fetcher] = fd[Fetcher]
    BY <1>1 DEF Quiet, Others, Section
  <2>3. Tells => Tells'
    BY <1>1, <2>2 DEF Quiet, SameFiles, SameDrops
  <2>4. ASSUME NEW m \in Deliverers, Placed(m) PROVE Placed(m)'
    BY <1>1, <2>4 DEF Quiet, SameFiles, SameDrops, Others
  <2>5. ASSUME NEW m \in Deliverers, Stays(m) PROVE Stays(m)'
    <3>1. Kept(m)' <=> Kept(m)
      BY <1>1 DEF Quiet, SameFiles, SameDrops, Kept, Present
    <3>2. pc'[m] \in Behind /\ err'[m] = "none" => pc[m] \in Behind /\ err[m] = "none"
      BY <1>1 DEF Quiet, Others
    <3> QED
      BY <2>5, <3>1, <3>2
  <2> QED
    BY <1>k, <1>x, <2>1, <2>3, <2>4, <2>5
<1>2. CASE Sized
  <2>1. /\ astray' = astray /\ dropped' = dropped /\ pc'[Fetcher] = "dot"
        /\ path' = path /\ text' = text /\ backup' = backup /\ late' = late
        /\ \A m \in Deliverers : pc'[m] = pc[m] /\ err'[m] = err[m] /\ fd'[m] = fd[m]
    BY <1>2 DEF Sized, SameFiles, SameDrops, Others
  <2>2. \A m \in Deliverers : Kept(m)' <=> Kept(m)
    BY <2>1 DEF Kept, Present
  <2>3. \A m \in Deliverers : (Placed(m) => Placed(m)') /\ (Stays(m) => Stays(m)')
    BY <2>1, <2>2
  <2> QED
    BY <1>k, <1>x, <2>1, <2>3 DEF KeptInv
<1>3. ASSUME NEW p \in Proc, Created(p) PROVE KeptInv'
  <2>1. /\ Others(p) /\ text' = text /\ backup' = backup /\ SameDrops /\ seen' = seen
        /\ path = 0 /\ pc[p] = "open" /\ pc'[p] = "lock"
    BY <1>3 DEF Created
  <2>2. Tells => Tells'
    BY <2>1 DEF Others, SameDrops
  <2>3. ASSUME NEW m \in Deliverers, Placed(m) PROVE Placed(m)'
    <3>1. pc'[m] \in Section => m # p /\ pc[m] \in Section
      BY <2>1 DEF Others, Section
    <3>2. pc[m] \in Section => fd[m] # path
      BY <1>f, <2>1
    <3> QED
      BY <2>1, <2>3, <3>1, <3>2 DEF SameDrops
  <2>4. ASSUME NEW m \in Deliverers, Stays(m) PROVE Stays(m)'
    <3>1. Kept(m) => Kept(m)'
      BY <2>1 DEF Kept, Present, SameDrops
    <3>2. pc'[m] \in Behind => m # p
      BY <2>1 DEF Behind
    <3> QED
      BY <2>1, <2>4, <3>1, <3>2 DEF Others
  <2>5. astray' # {} => dropped' # {}
    BY <2>1 DEF SameDrops, KeptInv
  <2> QED
    BY <1>k, <1>x, <2>2, <2>3, <2>4, <2>5
<1>4. ASSUME NEW p \in Proc, Taken(p) PROVE KeptInv'
  <2>1. /\ Others(p) /\ SameFiles /\ dropped' = dropped /\ seen' = seen /\ fd' = fd
        /\ late \subseteq late' /\ astray \subseteq astray' /\ pc[p] = "lock"
        /\ pc'[p] \in {"save", "block"} /\ astray' \subseteq astray \cup {p}
    BY <1>4 DEF Taken
  <2>2. astray' # {} => dropped' # {}
    <3>1. CASE fd[p] = path \/ p = Fetcher
      BY <1>4, <2>1, <3>1 DEF Taken, KeptInv
    <3>2. CASE fd[p] # path /\ p # Fetcher
      <4>1. fd[p] \in Ino /\ Used(fd[p])
        BY <1>t, <2>1 DEF FlowInv, Holds, Used
      <4>2. dropped # {}
        BY <3>2, <4>1 DEF FreshInv
      <4> QED
        BY <2>1, <4>2
    <3> QED
      BY <3>1, <3>2
  <2>3. Tells => Tells'
    <3>1. CASE p = Fetcher
      BY <1>4, <3>1 DEF Taken, SameFiles
    <3>2. CASE p # Fetcher
      BY <1>4, <2>1, <3>2 DEF Taken, SameFiles, Others
    <3> QED
      BY <3>1, <3>2
  <2>4. ASSUME NEW m \in Deliverers, Placed(m) PROVE Placed(m)'
    <3>1. CASE m = p
      BY <1>4, <3>1 DEF Taken, SameFiles
    <3>2. CASE m # p
      BY <2>1, <2>4, <3>2 DEF SameFiles, Others
    <3> QED
      BY <3>1, <3>2
  <2>5. ASSUME NEW m \in Deliverers, Stays(m) PROVE Stays(m)'
    <3>1. Kept(m) => Kept(m)'
      BY <2>1, KeptStays DEF Present, SameFiles
    <3>2. pc'[m] \in Behind => m # p
      BY <2>1 DEF Behind
    <3> QED
      BY <2>1, <2>5, <3>1, <3>2 DEF Others
  <2> QED
    BY <1>k, <1>x, <2>2, <2>3, <2>4, <2>5
<1>5. ASSUME NEW p \in Deliverers, Begun(p) \/ Finished(p) PROVE KeptInv'
  <2>1. /\ Others(p) /\ path' = path /\ backup' = backup /\ SameDrops /\ seen' = seen /\ fd' = fd
        /\ pc[p] \in Section /\ fd[p] \in Ino /\ fd[p] # 0
        /\ pc'[Fetcher] = pc[Fetcher]
    BY <1>5, <1>f DEF Begun, Finished, Others, Section
  <2>2. \A i \in Ino : i # fd[p] => text'[i] = text[i]
    BY <1>5, <1>t DEF Begun, Finished
  <2>3. \A i \in Ino : \A m \in Deliverers : <<m, Whole>> \in text[i] => <<m, Whole>> \in text'[i]
    BY <1>5, <1>t DEF Begun, Finished, Whole
  <2>4. astray' # {} => dropped' # {}
    BY <2>1 DEF SameDrops, KeptInv
  <2>5. Guarded /\ Tells => Tells'
    <3> SUFFICES ASSUME Guarded, Tells, pc[Fetcher] \in {"save", "link"}
                 PROVE  Wholes(text[fd[Fetcher]])' \subseteq Wholes(seen)' \cup late'
      BY <2>1
    <3>1. fd[Fetcher] # fd[p] /\ fd[Fetcher] \in Ino
      BY <1>f, <2>1, Apart DEF Section
    <3>2. text'[fd'[Fetcher]] = text[fd[Fetcher]]
      BY <2>1, <2>2, <3>1
    <3> QED
      BY <2>1, <3>2 DEF SameDrops, Wholes
  <2>6. ASSUME NEW m \in Deliverers, Kept(m) PROVE Kept(m)'
    <3>1. Present(m) => Present(m)'
      BY <1>t, <2>1, <2>3 DEF Present
    <3> QED
      BY <2>1, <2>6, <3>1, KeptStays DEF SameDrops
  <2>7. ASSUME NEW m \in Deliverers, Placed(m) PROVE Placed(m)'
    BY <2>1, <2>7 DEF Others, SameDrops
  <2>8. ASSUME Placed(p), Finished(p), err'[p] = "none" PROVE Kept(p)'
    <3>1. <<p, Whole>> \in text'[fd[p]]
      BY <1>t, <2>8 DEF Finished
    <3>2. CASE fd[p] = path
      BY <2>1, <3>1, <3>2 DEF Kept, Present
    <3>3. CASE p \in astray
      BY <2>1, <2>4, <3>3 DEF Kept, SameDrops
    <3> QED
      BY <2>1, <2>8, <3>2, <3>3
  <2>9. ASSUME NEW m \in Deliverers, Placed(m), Stays(m) PROVE Stays(m)'
    <3>1. CASE m # p
      BY <2>1, <2>6, <2>9, <3>1 DEF Others
    <3>2. CASE m = p /\ Begun(p)
      BY <3>2 DEF Begun, Behind
    <3>3. CASE m = p /\ Finished(p)
      BY <2>8, <2>9, <3>3
    <3> QED
      BY <1>5, <3>1, <3>2, <3>3
  <2> QED
    BY <1>k, <1>x, <2>4, <2>5, <2>7, <2>9
<1>c. ASSUME Cleared \/ Parted \/ Replaced
      PROVE  /\ \A m \in Deliverers : pc'[m] = pc[m] /\ err'[m] = err[m] /\ fd'[m] = fd[m]
             /\ late' = late /\ astray' = astray /\ seen' = seen
  BY <1>c DEF Cleared, Parted, Replaced, Others, SameDrops
<1>w. ASSUME Guarded, Cleared \/ Parted, NEW m \in Deliverers
      PROVE  pc'[m] \in Section => m \in astray'
  <2>1. /\ pc[Fetcher] = "save" /\ fd[Fetcher] = path
        /\ pc'[m] = pc[m] /\ fd'[m] = fd[m] /\ astray' = astray
    BY <1>c, <1>w DEF Cleared, Parted
  <2>2. pc[m] \in Section => fd[m] # path
    BY <1>w, <2>1, Apart
  <2> QED
    BY <1>k, <1>w, <2>1, <2>2
<1>6. CASE Cleared
  <2>1. /\ pc[Fetcher] = "save" /\ pc'[Fetcher] = "close" /\ fd[Fetcher] = path /\ path \in Ino
        /\ dropped' = Known /\ Known # {} /\ path' = path /\ backup' = backup
    BY <1>6 DEF Cleared
  <2>2. ~Saved
    BY <2>1 DEF Saved
  <2>3. dropped = {} /\ backup = 0
    BY <2>2 DEF FreshInv
  <2>4. ASSUME Tells, NEW m \in Deliverers, Kept(m) PROVE Kept(m)'
    <3>1. <<m, Whole>> \in text[path]
      BY <1>t, <2>3, <2>4 DEF Kept, Present
    <3>2. m \in Wholes(seen) \cup late
      BY <2>1, <2>4, <3>1, m \in Mail DEF Wholes
    <3>3. m \in Wholes(seen) => m \in Known
      BY DEF Wholes, Known
    <3> QED
      BY <1>6, <1>c, <2>1, <3>2, <3>3 DEF Kept
  <2>5. Guarded => \A m \in Deliverers : Placed(m)' /\ Stays(m)'
    BY <1>6, <1>c, <1>k, <1>w, <2>4
  <2> QED
    BY <1>x, <2>1, <2>5
<1>7. CASE Parted
  <2>1. /\ pc[Fetcher] = "save" /\ pc'[Fetcher] = "link" /\ fd[Fetcher] = path /\ path \in Ino
        /\ dropped' # {} /\ backup' = path /\ path' = 0 /\ text' = text /\ fd' = fd
    BY <1>7 DEF Parted
  <2>2. ~Saved
    BY <2>1 DEF Saved
  <2>3. dropped = {} /\ backup = 0
    BY <2>2 DEF FreshInv
  <2>4. ASSUME NEW m \in Deliverers, Kept(m) PROVE Kept(m)'
    BY <2>1, <2>3, <2>4 DEF Kept, Present, Ino
  <2>5. Guarded => \A m \in Deliverers : Placed(m)' /\ Stays(m)'
    BY <1>7, <1>c, <1>k, <1>w, <2>4
  <2>6. Tells => Tells'
    BY <1>7, <1>c, <2>1
  <2> QED
    BY <1>k, <1>x, <2>1, <2>5, <2>6
<1>8. CASE Replaced
  <2>1. /\ pc[Fetcher] = "link" /\ pc'[Fetcher] = "close" /\ path = 0 /\ path' \in Ino /\ path' # 0
        /\ dropped' = dropped
        /\ text' = [text EXCEPT ![path'] = {x \in seen : x[1] \notin dropped}]
    BY <1>8 DEF Replaced, SameDrops
  <2>2. dropped # {} /\ backup = fd[Fetcher]
    BY <2>1 DEF FreshInv
  <2>3. ASSUME Tells, NEW m \in Deliverers, Kept(m) PROVE Kept(m)'
    <3>1. CASE m \in dropped \cup late \cup astray
      BY <1>8, <1>c, <2>1, <2>2, <3>1 DEF Kept
    <3>2. CASE m \notin dropped \cup late \cup astray
      <4>1. <<m, Whole>> \in text[fd[Fetcher]]
        BY <2>1, <2>2, <2>3, <3>2 DEF Kept, Present
      <4>2. m \in Wholes(seen)
        BY <2>1, <2>3, <3>2, <4>1, m \in Mail DEF Wholes
      <4>3. <<m, Whole>> \in {x \in seen : x[1] \notin dropped}
        BY <3>2, <4>2 DEF Wholes
      <4>4. <<m, Whole>> \in text'[path']
        BY <1>t, <2>1, <4>3
      <4> QED
        BY <2>1, <4>4 DEF Kept, Present
    <3> QED
      BY <3>1, <3>2
  <2>4. ASSUME NEW m \in Deliverers, Placed(m) PROVE Placed(m)'
    BY <1>8, <1>c, <1>f, <2>1, <2>4
  <2>5. ASSUME Tells, NEW m \in Deliverers, Stays(m) PROVE Stays(m)'
    BY <1>8, <1>c, <2>3, <2>5
  <2> QED
    BY <1>k, <1>x, <2>1, <2>2, <2>4, <2>5
<1> QED
  BY <1>1, <1>2, <1>3, <1>4, <1>5, <1>6, <1>7, <1>8 DEF Effect

-----------------------------------------------------------------------------
(* A lock file that holds.                                                 *)

LEMMA AloneInit == Init => AloneInv
BY Procs DEF Init, AloneInv, Holds, Section

\* Who has the lock file is alone with the mbox.
LEMMA Only ==
  ASSUME LockInv, Alone, pc[Fetcher] \in Passed, NEW m \in Deliverers
  PROVE  pc[m] \notin Holds
BY Procs DEF Alone, LockInv, Passed

LEMMA AloneStep ==
  ASSUME TypeOK, FlowInv, LockInv, AloneInv, Effect
  PROVE  AloneInv'
<1> USE Procs
<1> SUFFICES ASSUME Alone', NEW m \in Proc
             PROVE  /\ m # Fetcher /\ pc'[m] \in Holds => fd'[m] = path'
                    /\ astray' = {}
  BY DEF AloneInv
<1>a. Alone
  BY DEF Effect, Alone, Uses
<1>h. astray = {} /\ \A d \in Deliverers : pc[d] \in Holds => fd[d] = path /\ fd[d] # 0
  BY <1>a DEF AloneInv, FlowInv
<1>1. ASSUME NEW p \in Proc, Quiet(p)
      PROVE  (m # Fetcher /\ pc'[m] \in Holds => fd'[m] = path') /\ astray' = {}
  BY <1>1, <1>h DEF Quiet, Others, SameFiles, SameDrops
<1>2. ASSUME NEW p \in Proc, Created(p)
      PROVE  (m # Fetcher /\ pc'[m] \in Holds => fd'[m] = path') /\ astray' = {}
  BY <1>2, <1>h DEF Created, Others, SameDrops
<1>3. ASSUME NEW p \in Proc, Taken(p)
      PROVE  (m # Fetcher /\ pc'[m] \in Holds => fd'[m] = path') /\ astray' = {}
  <2>1. pc[p] \in Holds /\ (p # Fetcher => fd[p] = path)
    BY <1>3, <1>h DEF Taken, Holds
  <2> QED
    BY <1>3, <1>h, <2>1 DEF Taken, Others, SameFiles
<1>4. ASSUME NEW p \in Deliverers, Begun(p) \/ Finished(p)
      PROVE  (m # Fetcher /\ pc'[m] \in Holds => fd'[m] = path') /\ astray' = {}
  <2>1. pc[p] \in Holds /\ path' = path /\ fd' = fd /\ Others(p) /\ astray' = {}
    BY <1>4, <1>h DEF Begun, Finished, SameDrops, Holds, Section
  <2> QED
    BY <1>h, <2>1 DEF Others
<1>5. CASE Sized \/ Cleared
  BY <1>5, <1>h DEF Sized, Cleared, Others, SameFiles, SameDrops
<1>6. CASE Parted \/ Replaced
  <2>1. pc[Fetcher] \in Passed
    BY <1>6 DEF Parted, Replaced, Passed, Holds, Section
  <2>2. m # Fetcher => pc[m] \notin Holds
    BY <1>a, <2>1, Only
  <2> QED
    BY <1>6, <1>h, <2>2 DEF Parted, Replaced, Others, SameDrops
<1> QED
  BY <1>1, <1>2, <1>3, <1>4, <1>5, <1>6 DEF Effect

-----------------------------------------------------------------------------
(* The theorems.                                                           *)

LEMMA Invariant == Spec => []IInv
<1>1. Init => IInv
  BY TypeInit, FlowInit, FreshInit, LockInit, OnceInit, PartInit, KeptInit, AloneInit DEF IInv
<1>2. IInv /\ [Next]_vars => IInv'
  <2> SUFFICES ASSUME IInv, [Next]_vars PROVE IInv'
    OBVIOUS
  <2>1. TypeOK /\ FlowInv /\ FreshInv /\ LockInv /\ OnceInv /\ PartInv /\ KeptInv /\ AloneInv
    BY DEF IInv
  <2>2. Effect
    BY <2>1, Effects
  <2>3. TypeOK' /\ FlowInv' /\ FreshInv' /\ LockInv'
    BY TypeStep, FlowStep, FreshStep, LockStep
  <2>4. OnceInv' /\ PartInv' /\ KeptInv' /\ AloneInv'
    BY <2>1, <2>2, OnceStep, PartStep, KeptStep, AloneStep
  <2> QED
    BY <2>3, <2>4 DEF IInv
<1> QED
  BY <1>1, <1>2, PTL DEF Spec

\* Every variable keeps its type, whatever the number of deliver children: an
\* inode is free whenever open or link makes a file.
THEOREM TypeCorrect == Spec => []TypeOK
<1>1. IInv => TypeOK
  BY DEF IInv
<1> QED
  BY <1>1, Invariant, PTL

\* Two processes are never in one mbox at a time between openlock and closelock
\* (file.c), if flock or fcntl is used, or dotlock and nobody is killed.
THEOREM LocksExclude == Spec => []Exclusive
<1>1. IInv => Exclusive
  BY Excluded DEF IInv, Exclusive
<1> QED
  BY <1>1, Invariant, PTL

\* A mail is in an mbox in part only while deliver_mbox_deliver writes it, where
\* that has failed, or where the size that the fetcher took (fetch-mbox.c:331)
\* ended inside it: the SIGTERM blocked at deliver-mbox.c:157 does not cut it
\* short, and the fetcher copies no half of another.
THEOREM WrittenWhole == Spec => []WholeMails
<1>1. IInv => WholeMails
  BY DEF IInv, PartInv, Unfinished, Guarded, WholeMails
<1> QED
  BY <1>1, Invariant, PTL

\* A mail reported as delivered to an mbox stays there, or in the backup, until
\* fetch_mbox_save drops it.  It goes with another that is dropped only where it
\* was not there in whole when the fetcher took the size, or, without a lock file
\* that holds, where its file had been replaced before it was locked.
THEOREM DeliveredIsKept == Spec => []DeliveredStays
<1>1. IInv => DeliveredStays
  <2> SUFFICES ASSUME IInv, Guarded, NEW m \in Deliverers, pc[m] = "ok"
               PROVE  Present(m) \/ m \in dropped \/ (dropped # {} /\ m \in Cut)
    BY DEF DeliveredStays, Guarded
  <2>1. err[m] = "none"
    BY Procs DEF IInv, FlowInv
  <2>2. Kept(m)
    BY <2>1 DEF IInv, KeptInv, Behind
  <2>3. Uses("dotlock") /\ ~setup.term => astray = {}
    BY DEF IInv, AloneInv, Alone
  <2> QED
    BY <2>2, <2>3 DEF Kept, Cut
<1> QED
  BY <1>1, Invariant, PTL
-----------------------------------------------------------------------------
(* The mbox handler: the invariant.                                        *)

\* The mails of an mbox that are in memory, in the fetch loop or on the list of
\* kept mails.
InFlight(b) == {m \in flight : m.box = b}
InMemory(b) == InFlight(b) \cup Range(kept[b])

\* Not saved yet: an mbox whose mails matter.
Unsaved(b) == st \notin MboxOver /\ (st = "save" => b >= index)

\* How far an mbox has been read.
ReadTo(b) ==
  IF st = "mail" /\ b = index THEN off - 1
  ELSE IF b < index \/ (b = index /\ st = "next") \/ st \in {"exit", "save"}
       THEN Len(file[b].text)
       ELSE 0

\* A file has pieces of its own mbox only.
NamedInv ==
  \A b \in Box : \A x \in Ids(file[b].text) \cup Ids(tmp[b].text) \cup Ids(saved[b].text) :
    x[1] = b

\* What belongs together at each state: an mbox that has been read is there; before
\* they are saved all mails have been dealt with; a file is replaced only then.
StateInv ==
  /\ st # "save" => dance = 0
  /\ st \in {"exit", "save"} => flight = {}
  /\ st = "exit" => index = Boxes
  /\ st \in {"mail", "next"} => file[index].there
  /\ st = "mail" => off <= Len(file[index].text) + 1
  /\ st \in {"open", "mail", "next", "exit"} => \A b \in Box : b < index => file[b].there
  /\ st = "exit" => \A b \in Box : file[b].there
  /\ st = "save" => \A b \in Box : b > index => file[b].there
  /\ st = "save" /\ dance < 3 => file[index].there

\* A mail in memory is of a file that is there, and has pieces of that file only.
MailInv ==
  /\ \A b \in Box : \A m \in Range(kept[b]) : m.box = b
  /\ \A b \in Box : Unsaved(b) /\ (b = index => dance < 2) =>
       \A m \in InMemory(b) : file[b].there /\ Ids(m.text) \subseteq Ids(file[b].text)
  /\ st \notin MboxOver => \A m \in flight :
       m.box < index \/ (m.box = index /\ st # "open" /\ (st = "mail" => m.off < off))

\* The reference counts.
CountInv ==
  /\ IsFiniteSet(flight)
  /\ ReferencesCounted

\* What has been read and not dropped is in memory.
ReadInv ==
  \A b \in Box : Unsaved(b) /\ (st = "save" /\ b = index => dance = 0) =>
    \A k \in 1 .. ReadTo(b) :
      \/ file[b].text[k].id \in discarded
      \/ \E m \in InMemory(b) : file[b].text[k].id \in Ids(m.text)

\* A temporary file, of this run or an earlier one, has nothing that is not in the
\* mbox and was not dropped.
TmpInv ==
  \A b \in Box : file[b].there =>
    Ids(tmp[b].text) \subseteq discarded \cup Ids(file[b].text)

\* What is where while a file is replaced.
DanceInv ==
  st = "save" =>
    /\ dance = 1 => \A x \in Ids(file[index].text) :
         \/ x \in discarded \cup Ids(tmp[index].text)
         \/ \E m \in Range(kept[index]) : x \in Ids(m.text)
    /\ dance \in 1 .. 4 => tmp[index].there
    /\ dance > 1 => kept[index] = <<>>
    /\ dance = 2 => saved[index] = file[index]
    /\ dance = 4 => file[index] = tmp[index]
    /\ dance \in 2 .. 4 =>
         Ids(saved[index].text) \subseteq discarded \cup Ids(tmp[index].text)
    /\ dance = 3 =>
         /\ file[index] = Missing
         /\ Ids(tmp[index].text) \subseteq discarded \cup Ids(saved[index].text)
    /\ dance = 5 =>
         /\ file[index].there
         /\ Ids(saved[index].text) \subseteq discarded \cup Ids(file[index].text)

MboxInv ==
  /\ MboxTypeOK /\ NamedInv /\ StateInv /\ MailInv /\ CountInv /\ ReadInv /\ TmpInv /\ DanceInv
-----------------------------------------------------------------------------
(* The mbox handler: files and the mails in them.                          *)

\* What the types say, for the steps below.
LEMMA BoxTypes ==
  ASSUME MboxTypeOK
  PROVE  /\ Boxes \in Nat \ {0} /\ Box = 1 .. Boxes /\ index \in Box
         /\ off \in Nat \ {0} /\ dance \in 0 .. 5 /\ flight \subseteq BoxMails
         /\ \A b \in Box :
              /\ b \in Nat /\ ref[b] \in Nat /\ total[b] \in Nat
              /\ kept[b] \in Seq(BoxMails) /\ Len(kept[b]) \in Nat
              /\ file[b].there \in BOOLEAN /\ tmp[b].there \in BOOLEAN
              /\ file[b].text \in Seq(Piece) /\ tmp[b].text \in Seq(Piece)
              /\ saved[b].text \in Seq(Piece) /\ Len(file[b].text) \in Nat
<1>1. Boxes \in Nat \ {0} /\ Box = 1 .. Boxes
  BY MboxAssumption DEF Box
<1>2. /\ file \in [Box -> [there : BOOLEAN, text : Seq(Piece)]]
      /\ tmp \in [Box -> [there : BOOLEAN, text : Seq(Piece)]]
      /\ saved \in [Box -> [there : BOOLEAN, text : Seq(Piece)]]
  BY DEF MboxTypeOK
<1>3. /\ index \in Box /\ off \in Nat \ {0} /\ dance \in 0 .. 5 /\ flight \subseteq BoxMails
      /\ ref \in [Box -> Nat] /\ total \in [Box -> Nat] /\ kept \in [Box -> Seq(BoxMails)]
  BY DEF MboxTypeOK
<1>4. ASSUME NEW b \in Box
      PROVE  /\ b \in Nat /\ ref[b] \in Nat /\ total[b] \in Nat
             /\ kept[b] \in Seq(BoxMails) /\ Len(kept[b]) \in Nat
             /\ file[b].there \in BOOLEAN /\ tmp[b].there \in BOOLEAN
             /\ file[b].text \in Seq(Piece) /\ tmp[b].text \in Seq(Piece)
             /\ saved[b].text \in Seq(Piece) /\ Len(file[b].text) \in Nat
  <2>1. /\ file[b] \in [there : BOOLEAN, text : Seq(Piece)]
        /\ tmp[b] \in [there : BOOLEAN, text : Seq(Piece)]
        /\ saved[b] \in [there : BOOLEAN, text : Seq(Piece)]
    BY <1>2
  <2>2. kept[b] \in Seq(BoxMails) /\ ref[b] \in Nat /\ total[b] \in Nat /\ b \in Nat
    BY <1>1, <1>3
  <2>3. file[b].text \in Seq(Piece)
    BY <2>1
  <2>4. Len(kept[b]) \in Nat /\ Len(file[b].text) \in Nat
    BY <2>2, <2>3, LenProperties
  <2> QED BY <2>1, <2>2, <2>4
<1> QED BY <1>1, <1>3, <1>4

\* The names in a file, of pieces one after the other, of some and of none.
LEMMA IdsOf ==
  /\ Ids(<<>>) = {} /\ Ids(Missing.text) = {} /\ Ids(File(<<>>).text) = {}
  /\ \A s \in Seq(Piece) : Ids(s) \subseteq Id
  /\ \A s, t \in Seq(Piece) : s \o t \in Seq(Piece) /\ Ids(s \o t) = Ids(s) \cup Ids(t)
<1>1. Ids(<<>>) = {} /\ Missing.text = <<>> /\ File(<<>>).text = <<>>
  BY DEF Ids, Missing, File
<1>2. ASSUME NEW s \in Seq(Piece) PROVE Ids(s) \subseteq Id
  <2>1. \A k \in DOMAIN s : s[k] \in Piece
    BY ElementOfSeq, LenProperties
  <2> QED BY <2>1 DEF Ids, Piece
<1>3. ASSUME NEW s \in Seq(Piece), NEW t \in Seq(Piece)
      PROVE  s \o t \in Seq(Piece) /\ Ids(s \o t) = Ids(s) \cup Ids(t)
  <2>1. /\ s \o t \in Seq(Piece) /\ Len(s \o t) = Len(s) + Len(t)
        /\ Len(s) \in Nat /\ Len(t) \in Nat
        /\ DOMAIN s = 1 .. Len(s) /\ DOMAIN t = 1 .. Len(t)
        /\ DOMAIN (s \o t) = 1 .. (Len(s) + Len(t))
        /\ \A k \in 1 .. (Len(s) + Len(t)) :
             (s \o t)[k] = IF k <= Len(s) THEN s[k] ELSE t[k - Len(s)]
    BY ConcatProperties, LenProperties
  <2>2. ASSUME NEW x \in Ids(s \o t) PROVE x \in Ids(s) \cup Ids(t)
    <3>1. PICK k \in 1 .. (Len(s) + Len(t)) : x = (s \o t)[k].id
      BY <2>1 DEF Ids
    <3>2. CASE k <= Len(s)
      <4>1. k \in DOMAIN s /\ x = s[k].id
        BY <2>1, <3>1, <3>2
      <4> QED BY <4>1 DEF Ids
    <3>3. CASE ~(k <= Len(s))
      <4>1. k - Len(s) \in DOMAIN t /\ x = t[k - Len(s)].id
        BY <2>1, <3>1, <3>3
      <4> QED BY <4>1 DEF Ids
    <3> QED BY <3>2, <3>3
  <2>3. ASSUME NEW x \in Ids(s) PROVE x \in Ids(s \o t)
    <3>1. PICK k \in 1 .. Len(s) : x = s[k].id
      BY <2>1 DEF Ids
    <3>2. k \in DOMAIN (s \o t) /\ x = (s \o t)[k].id
      BY <2>1, <3>1
    <3> QED BY <3>2 DEF Ids
  <2>4. ASSUME NEW x \in Ids(t) PROVE x \in Ids(s \o t)
    <3>1. PICK k \in 1 .. Len(t) : x = t[k].id
      BY <2>1 DEF Ids
    <3>2. k + Len(s) \in DOMAIN (s \o t) /\ x = (s \o t)[k + Len(s)].id
      <4>1. k + Len(s) \in 1 .. (Len(s) + Len(t)) /\ ~(k + Len(s) <= Len(s))
            /\ (k + Len(s)) - Len(s) = k
        BY <2>1
      <4> QED BY <2>1, <3>1, <4>1
    <3> QED BY <3>2 DEF Ids
  <2> QED BY <2>1, <2>2, <2>3, <2>4
<1> QED BY <1>1, <1>2, <1>3

\* A set of numbers that is not empty has a least one.
LEMMA LeastOf ==
  ASSUME NEW S \in SUBSET Nat, S # {}
  PROVE  \E n \in S : \A m \in S : n <= m
<1>1. PICK n \in S : \A m \in S : <<m, n>> \notin OpToRel(<, Nat)
  BY NatLessThanWellFounded, WFMin
<1>2. ASSUME NEW m \in S PROVE n <= m
  <2>1. m \in Nat /\ n \in Nat
    OBVIOUS
  <2>2. m < n => <<m, n>> \in OpToRel(<, Nat)
    BY <2>1, Zenon DEF OpToRel
  <2>3. ~(m < n)
    BY <1>1, <2>2, Zenon
  <2> QED
    BY <2>1, <2>3
<1> QED
  BY <1>2

\* A mail ends in the file it begins in, and is made of the pieces up to there.
LEMMA TextOf ==
  ASSUME NEW f \in Seq(Piece), NEW i \in 1 .. Len(f)
  PROVE  /\ TextEnd(f, i) \in i .. Len(f)
         /\ Text(f, i) \in Seq(Piece)
         /\ Ids(Text(f, i)) \subseteq Ids(f)
         /\ \A k \in i .. TextEnd(f, i) : f[k].id \in Ids(Text(f, i))
<1>0. Len(f) \in Nat /\ i \in Nat /\ DOMAIN f = 1 .. Len(f)
  BY LenProperties
<1>1. TextEnd(f, i) \in i .. Len(f)
  <2> DEFINE S == {j \in i .. Len(f) : j = Len(f) \/ f[j + 1].from}
  <2>1. S \in SUBSET Nat /\ Len(f) \in S
    BY <1>0
  <2>2. PICK j \in S : \A m \in S : j <= m
    <3> HIDE DEF S
    <3> QED BY <2>1, LeastOf
  <2>3. ASSUME NEW k \in (i + 1) .. j PROVE ~f[k].from
    <3>1. k - 1 \in i .. Len(f) /\ ~(j <= k - 1) /\ (k - 1) + 1 = k
      <4>1. j \in i .. Len(f)
        BY <2>2
      <4> HIDE DEF S
      <4>2. j \in Int /\ j <= Len(f)
        BY <1>0, <4>1
      <4>3. k \in Int /\ i + 1 <= k /\ k <= j
        BY <1>0, <4>2
      <4> QED BY <1>0, <4>2, <4>3
    <3>2. k - 1 \notin S
      <4> HIDE DEF S
      <4> QED BY <2>2, <3>1
    <3> QED BY <3>1, <3>2
  <2>4. \E n \in i .. Len(f) : /\ \A k \in (i + 1) .. n : ~f[k].from
                               /\ n = Len(f) \/ f[n + 1].from
    BY <2>2, <2>3
  <2> QED BY <2>4 DEF TextEnd
<1> DEFINE n == TextEnd(f, i) - i + 1
<1>2. n \in Nat /\ \A k \in 1 .. n : i + k - 1 \in 1 .. Len(f)
  BY <1>0, <1>1
<1>3. Text(f, i) = [k \in 1 .. n |-> [id |-> f[i + k - 1].id, from |-> i = 1 /\ k = 1]]
  BY DEF Text
<1> HIDE DEF n
<1>4. Text(f, i) \in Seq(Piece)
  <2>1. ASSUME NEW k \in 1 .. n
        PROVE  [id |-> f[i + k - 1].id, from |-> i = 1 /\ k = 1] \in Piece
    <3>1. f[i + k - 1] \in Piece
      BY <1>0, <1>2, ElementOfSeq
    <3>2. f[i + k - 1].id \in Id /\ (i = 1 /\ k = 1) \in BOOLEAN
      BY <3>1 DEF Piece
    <3> QED BY <3>2 DEF Piece
  <2>2. Text(f, i) \in [1 .. n -> Piece]
    BY <1>3, <2>1
  <2> QED BY <2>2, <1>2, SeqDef
<1>5. DOMAIN Text(f, i) = 1 .. n /\ \A k \in 1 .. n : Text(f, i)[k].id = f[i + k - 1].id
  BY <1>3
<1>6. Ids(Text(f, i)) \subseteq Ids(f)
  BY <1>0, <1>2, <1>5 DEF Ids
<1>7. ASSUME NEW k \in i .. TextEnd(f, i) PROVE f[k].id \in Ids(Text(f, i))
  <2>1. k - i + 1 \in 1 .. n /\ i + (k - i + 1) - 1 = k
    BY <1>0, <1>1 DEF n
  <2>2. Text(f, i)[k - i + 1].id = f[k].id
    BY <1>5, <2>1
  <2> QED BY <1>5, <2>1, <2>2 DEF Ids
<1> QED BY <1>1, <1>4, <1>6, <1>7

\* The files, if they stay as they are and none is being saved.
LEMMA DiskStays ==
  ASSUME MboxInv, UNCHANGED <<diskVars, discarded>>, st' # "save"
  PROVE  NamedInv' /\ TmpInv' /\ DanceInv'
BY DEF MboxInv, NamedInv, TmpInv, DanceInv, diskVars

\* What is in memory goes, and the file that was made perhaps.
LEMMA AllFreed ==
  ASSUME MboxInv, Freed, st' \in {"open", "aborted"},
         UNCHANGED <<file, saved, discarded>>,
         \/ UNCHANGED tmp
         \/ tmp' = [tmp EXCEPT ![index] = Missing],
         runs' \in Nat
  PROVE  MboxInv'
<1>1. MboxTypeOK /\ Boxes \in Nat \ {0} /\ Box = 1 .. Boxes
  BY BoxTypes DEF MboxInv
<1>2. /\ flight' = {} /\ index' = 1 /\ off' = 1 /\ dance' = 0 /\ freed' = {}
      /\ \A b \in Box : kept'[b] = <<>> /\ ref'[b] = 0 /\ total'[b] = 0
      /\ kept' = NoneKept /\ ref' \in [Box -> Nat] /\ total' \in [Box -> Nat]
  BY DEF Freed, NoneKept
<1>3. kept' \in [Box -> Seq(BoxMails)]
  BY <1>2 DEF NoneKept
<1>4. /\ tmp' \in [Box -> [there : BOOLEAN, text : Seq(Piece)]]
      /\ \A b \in Box : tmp'[b] = tmp[b] \/ tmp'[b] = Missing
  <2>1. Missing \in [there : BOOLEAN, text : Seq(Piece)]
    BY DEF Missing
  <2>2. tmp \in [Box -> [there : BOOLEAN, text : Seq(Piece)]]
    BY <1>1 DEF MboxTypeOK
  <2> QED BY <2>1, <2>2
<1>5. MboxTypeOK'
  <2>1. file' = file /\ saved' = saved /\ discarded' = discarded
    OBVIOUS
  <2>2. {file', tmp', saved'} \subseteq [Box -> [there : BOOLEAN, text : Seq(Piece)]]
    BY <1>1, <1>4, <2>1 DEF MboxTypeOK
  <2>3. 1 \in Box /\ 1 \in Nat \ {0} /\ 0 \in 0 .. 5
    BY <1>1
  <2> QED BY <1>1, <1>2, <1>3, <2>1, <2>2, <2>3 DEF MboxTypeOK, MboxOver
<1>6. NamedInv'
  BY <1>4, IdsOf DEF MboxInv, NamedInv
<1>7. StateInv'
  BY <1>1, <1>2 DEF StateInv
<1>8. \A b \in Box : InMemory(b)' = {} /\ InFlight(b)' = {} /\ Len(kept'[b]) = 0
  BY <1>2 DEF InMemory, InFlight, Range
<1>9. MailInv'
  <2>1. \A b \in Box : Range(kept'[b]) = {}
    BY <1>2 DEF Range
  <2> QED BY <1>2, <1>8, <2>1 DEF MailInv
<1>10. CountInv'
  <2>1. \A b \in Box : Cardinality({m \in flight' : m.box = b}) = 0
    <3>1. \A b \in Box : {m \in flight' : m.box = b} = {}
      BY <1>2
    <3> QED BY <3>1, FS_EmptySet
  <2>2. IsFiniteSet(flight')
    BY <1>2, FS_EmptySet
  <2>3. \A b \in Box : ~(b < 1)
    BY <1>1
  <2> QED BY <1>2, <1>8, <2>1, <2>2, <2>3 DEF CountInv, ReferencesCounted
<1>11. ReadInv'
  <2>1. \A b \in Box : Unsaved(b)' => ReadTo(b)' = 0
    BY <1>1, <1>2 DEF Unsaved, ReadTo, MboxOver
  <2> QED BY <2>1 DEF ReadInv
<1>12. TmpInv'
  BY <1>4, IdsOf DEF MboxInv, TmpInv
<1>13. DanceInv'
  BY DEF DanceInv
<1> QED BY <1>5, <1>6, <1>7, <1>9, <1>10, <1>11, <1>12, <1>13 DEF MboxInv
-----------------------------------------------------------------------------
(* The mbox handler: reading.                                              *)

LEMMA OpenBoxKeeps ==
  ASSUME MboxInv, OpenBox
  PROVE  MboxInv'
<1>1. MboxTypeOK /\ st = "open" /\ UNCHANGED <<diskVars, discarded, runs>>
  BY DEF MboxInv, OpenBox, Handler
<1>2. /\ index \in Box /\ off \in Nat \ {0} /\ Box = 1 .. Boxes /\ Boxes \in Nat
      /\ \A b \in Box : b \in Nat /\ Len(file[b].text) \in Nat
  BY <1>1, BoxTypes
<1>3. UNCHANGED <<file, tmp, saved>>
  BY <1>1 DEF diskVars
<1>4. CASE st' = "aborted" /\ Freed
  <2>1. runs' \in Nat
    BY <1>1 DEF MboxTypeOK
  <2> QED BY <1>1, <1>3, <1>4, <2>1, AllFreed
<1>5. ASSUME UNCHANGED <<index, ref, total, flight, kept, freed, dance>>,
             file[index].there,
             \/ st' = "next" /\ Len(file[index].text) = 0 /\ off' = off
             \/ st' = "mail" /\ off' = 1
      PROVE  MboxInv'
  <2>1. MboxTypeOK'
    BY <1>1, <1>3, <1>5 DEF MboxTypeOK
  <2>2. NamedInv' /\ TmpInv' /\ DanceInv'
    BY <1>1, <1>5, DiskStays
  <2>3. StateInv'
    BY <1>1, <1>2, <1>3, <1>5 DEF MboxInv, StateInv
  <2>4. st' \notin MboxOver /\ st \notin MboxOver /\ st' # "save" /\ st' # "exit"
    BY <1>1, <1>5 DEF MboxOver
  <2>5. MailInv'
    <3>1. \A m \in flight : m.box < index
      BY <1>1, <2>4 DEF MboxInv, MailInv
    <3>2. \A b \in Box : \A m \in InMemory(b) :
            file[b].there /\ Ids(m.text) \subseteq Ids(file[b].text)
      BY <1>1, <1>2, <2>4 DEF MboxInv, MailInv, Unsaved, StateInv
    <3> QED BY <1>3, <1>5, <3>1, <3>2
            DEF MboxInv, MailInv, InMemory, InFlight
  <2>6. CountInv'
    BY <1>1, <1>5, <2>4 DEF MboxInv, CountInv, ReferencesCounted
  <2>7. ReadInv'
    <3>1. ASSUME NEW b \in Box, NEW k \in 1 .. ReadTo(b)'
          PROVE  \/ file[b].text[k].id \in discarded
                 \/ \E m \in InMemory(b) : file[b].text[k].id \in Ids(m.text)
      <4>1. b # index
        BY <1>2, <1>3, <1>5, <3>1 DEF ReadTo
      <4>2. ReadTo(b)' = ReadTo(b)
        BY <4>1, <1>1, <1>3, <1>5 DEF ReadTo
      <4>3. Unsaved(b)
        BY <1>1, <2>4 DEF Unsaved
      <4> QED BY <4>2, <4>3, <1>1, <3>1 DEF MboxInv, ReadInv
    <3> QED BY <3>1, <1>1, <1>3, <1>5 DEF ReadInv, InMemory, InFlight
  <2> QED BY <2>1, <2>2, <2>3, <2>5, <2>6, <2>7 DEF MboxInv
<1>6. CASE st' = "next" /\ file[index] = File(<<>>)
  <2>1. UNCHANGED memVars
    BY <1>6 DEF OpenBox, Freed
  <2>2. file[index].there /\ Len(file[index].text) = 0
    BY <1>6 DEF File
  <2> QED BY <1>5, <1>6, <2>1, <2>2 DEF memVars
<1>7. CASE st' = "mail" /\ file[index].there
  <2>1. off' = 1 /\ UNCHANGED <<index, ref, total, flight, kept, freed, dance>>
    BY <1>7 DEF OpenBox
  <2> QED BY <1>5, <1>7, <2>1
<1> QED BY <1>4, <1>6, <1>7 DEF OpenBox

LEMMA NextBoxKeeps ==
  ASSUME MboxInv, NextBox
  PROVE  MboxInv'
<1>1. /\ MboxTypeOK /\ st = "next"
      /\ UNCHANGED <<off, ref, total, flight, kept, freed, dance, diskVars, discarded, runs>>
  BY DEF MboxInv, NextBox, Handler
<1>2. /\ index \in Box /\ off \in Nat \ {0} /\ Box = 1 .. Boxes /\ Boxes \in Nat
      /\ \A b \in Box : b \in Nat /\ Len(file[b].text) \in Nat
  BY <1>1, BoxTypes
<1>3. UNCHANGED <<file, tmp, saved>>
  BY <1>1 DEF diskVars
<1>4. \/ index < Boxes /\ st' = "open" /\ index' = index + 1
      \/ index = Boxes /\ flight = {} /\ st' = "exit" /\ index' = index
  BY <1>2 DEF NextBox
<1>5. index' \in Box /\ index <= index' /\ st' \notin MboxOver /\ st \notin MboxOver
      /\ st' # "save"
  BY <1>1, <1>2, <1>4 DEF MboxOver
<1>6. MboxTypeOK'
  BY <1>1, <1>3, <1>4, <1>5 DEF MboxTypeOK
<1>7. NamedInv' /\ TmpInv' /\ DanceInv'
  BY <1>1, <1>5, DiskStays
<1>8. file[index].there /\ dance = 0 /\ \A b \in Box : b < index => file[b].there
  BY <1>1 DEF MboxInv, StateInv
<1>9. StateInv'
  <2>1. ASSUME NEW b \in Box, b < index' \/ st' = "exit" PROVE file[b].there
    <3>1. b < index \/ b = index
      BY <1>2, <1>4, <2>1
    <3> QED BY <1>8, <3>1
  <2> QED BY <1>1, <1>3, <1>4, <1>5, <1>8, <2>1 DEF StateInv
<1>10. MailInv'
  <2>1. \A b \in Box : \A m \in InMemory(b) :
          file[b].there /\ Ids(m.text) \subseteq Ids(file[b].text)
    BY <1>1, <1>5, <1>8 DEF MboxInv, MailInv, Unsaved
  <2>2. ASSUME NEW m \in flight
        PROVE  m.box < index' \/ (m.box = index' /\ st' = "exit")
    <3>1. m \in BoxMails
      BY <1>1 DEF MboxTypeOK
    <3>2. m.box \in Box
      BY <3>1 DEF BoxMails
    <3>3. m.box < index \/ m.box = index
      BY <1>1, <1>5 DEF MboxInv, MailInv
    <3> QED BY <1>2, <1>4, <3>2, <3>3
  <2> QED BY <1>1, <1>3, <2>1, <2>2 DEF MboxInv, MailInv, InMemory, InFlight
<1>11. CountInv'
  BY <1>1, <1>5 DEF MboxInv, CountInv, ReferencesCounted
<1>12. ReadInv'
  <2>1. ASSUME NEW b \in Box, NEW k \in 1 .. ReadTo(b)'
        PROVE  \/ file[b].text[k].id \in discarded
               \/ \E m \in InMemory(b) : file[b].text[k].id \in Ids(m.text)
    <3>1. k \in 1 .. ReadTo(b)
      <4>1. b < index' \/ st' = "exit" => b < index \/ b = index
        BY <1>2, <1>4
      <4> QED BY <4>1, <1>1, <1>3, <1>4, <2>1 DEF ReadTo
    <3>2. Unsaved(b)
      BY <1>1, <1>5 DEF Unsaved
    <3> QED BY <3>1, <3>2, <1>1 DEF MboxInv, ReadInv
  <2> QED BY <2>1, <1>1, <1>3 DEF ReadInv, InMemory, InFlight
<1> QED BY <1>6, <1>7, <1>9, <1>10, <1>11, <1>12 DEF MboxInv

LEMMA ExitKeeps ==
  ASSUME MboxInv, Exit
  PROVE  MboxInv'
<1>1. /\ MboxTypeOK /\ st = "exit" /\ st' = "save" /\ index' = 1
      /\ UNCHANGED <<off, ref, total, flight, kept, freed, dance, diskVars, discarded, runs>>
  BY DEF MboxInv, Exit, Handler
<1>2. /\ Box = 1 .. Boxes /\ Boxes \in Nat \ {0} /\ \A b \in Box : b \in Nat
  BY <1>1, BoxTypes
<1>3. UNCHANGED <<file, tmp, saved>>
  BY <1>1 DEF diskVars
<1>4. 1 \in Box /\ \A b \in Box : ~(b < 1) /\ b >= 1
  BY <1>2
<1>5. /\ flight = {} /\ dance = 0 /\ \A b \in Box : file[b].there
  BY <1>1 DEF MboxInv, StateInv
<1>6. MboxTypeOK'
  BY <1>1, <1>3, <1>4 DEF MboxTypeOK
<1>7. NamedInv' /\ TmpInv'
  BY <1>1, <1>3 DEF MboxInv, NamedInv, TmpInv
<1>8. DanceInv'
  BY <1>1, <1>5 DEF DanceInv
<1>9. StateInv'
  BY <1>1, <1>3, <1>4, <1>5 DEF StateInv
<1>10. \A b \in Box : Unsaved(b)
  BY <1>1 DEF Unsaved, MboxOver
<1>11. MailInv'
  <2>1. \A b \in Box : \A m \in InMemory(b) :
          file[b].there /\ Ids(m.text) \subseteq Ids(file[b].text)
    BY <1>1, <1>5, <1>10 DEF MboxInv, MailInv
  <2> QED BY <1>1, <1>3, <1>5, <2>1 DEF MboxInv, MailInv, InMemory, InFlight
<1>12. CountInv'
  BY <1>1, <1>4 DEF MboxInv, CountInv, ReferencesCounted, MboxOver
<1>13. ReadInv'
  <2>1. \A b \in Box : ReadTo(b)' = ReadTo(b)
    BY <1>1, <1>3 DEF ReadTo
  <2> QED BY <2>1, <1>1, <1>3, <1>10 DEF MboxInv, ReadInv, InMemory, InFlight
<1> QED BY <1>6, <1>7, <1>8, <1>9, <1>11, <1>12, <1>13 DEF MboxInv


\* A mail that is read was not in the loop before: those of this mbox began earlier.
\* It has the pieces between the old offset and the new one.
LEMMA ReadMailKeeps ==
  ASSUME MboxInv, ReadMail
  PROVE  MboxInv'
<1>1. /\ MboxTypeOK /\ st = "mail"
      /\ UNCHANGED <<index, kept, freed, dance, diskVars, discarded, runs>>
  BY DEF MboxInv, ReadMail, Handler
<1>2. /\ index \in Box /\ off \in Nat \ {0} /\ Box = 1 .. Boxes /\ Boxes \in Nat
      /\ \A b \in Box : /\ b \in Nat /\ Len(file[b].text) \in Nat /\ ref[b] \in Nat
                        /\ total[b] \in Nat /\ file[b].text \in Seq(Piece)
                        /\ Len(kept[b]) \in Nat
  BY <1>1, BoxTypes
<1>3. UNCHANGED <<file, tmp, saved>>
  BY <1>1 DEF diskVars
<1>4. file[index].there /\ dance = 0 /\ off <= Len(file[index].text) + 1
  BY <1>1 DEF MboxInv, StateInv
<1>5. st \notin MboxOver /\ \A b \in Box : Unsaved(b)
  BY <1>1 DEF MboxOver, Unsaved
<1> DEFINE f == file[index].text
<1>6. CASE off > Len(f)
  <2>1. st' = "next" /\ UNCHANGED <<off, ref, total, flight>>
    BY <1>6 DEF ReadMail
  <2>2. off - 1 = Len(f)
    BY <1>2, <1>4, <1>6
  <2>3. MboxTypeOK'
    BY <1>1, <1>3, <2>1 DEF MboxTypeOK
  <2>4. NamedInv' /\ TmpInv' /\ DanceInv'
    BY <1>1, <2>1, DiskStays
  <2>5. StateInv'
    BY <1>1, <1>3, <1>4, <2>1 DEF MboxInv, StateInv
  <2>6. MailInv'
    <3>1. \A b \in Box : \A m \in InMemory(b) :
            file[b].there /\ Ids(m.text) \subseteq Ids(file[b].text)
      BY <1>4, <1>5 DEF MboxInv, MailInv
    <3> QED BY <1>1, <1>3, <1>5, <2>1, <3>1 DEF MboxInv, MailInv, InMemory, InFlight
  <2>7. CountInv'
    BY <1>1, <1>5, <2>1 DEF MboxInv, CountInv, ReferencesCounted
  <2>8. ReadInv'
    <3>1. \A b \in Box : ReadTo(b)' = ReadTo(b)
      BY <1>1, <1>2, <1>3, <2>1, <2>2 DEF ReadTo
    <3> QED BY <3>1, <1>1, <1>3, <1>5, <2>1 DEF MboxInv, ReadInv, InMemory, InFlight
  <2> QED BY <2>3, <2>4, <2>5, <2>6, <2>7, <2>8 DEF MboxInv
<1>7. CASE ~(off > Len(f))
  <2> DEFINE new == [box |-> index, off |-> off, text |-> Text(f, off)]
  <2>1. /\ flight' = flight \cup {new} /\ st' = st
        /\ ref' = [ref EXCEPT ![index] = @ + 1]
        /\ total' = [total EXCEPT ![index] = @ + 1]
        /\ off' = TextEnd(f, off) + 1
    BY <1>7 DEF ReadMail
  <2>2. off \in 1 .. Len(f) /\ f \in Seq(Piece) /\ Len(f) \in Nat
    BY <1>2, <1>7
  <2>3. /\ TextEnd(f, off) \in off .. Len(f) /\ Text(f, off) \in Seq(Piece)
        /\ Ids(Text(f, off)) \subseteq Ids(f)
        /\ \A k \in off .. TextEnd(f, off) : f[k].id \in Ids(Text(f, off))
    BY <2>2, TextOf
  <2>4. new \in BoxMails
    BY <1>2, <2>3 DEF BoxMails
  <2>5. new.box = index /\ new.off = off /\ new.text = Text(f, off)
    OBVIOUS
  <2> HIDE DEF new
  <2>6. new \notin flight
    <3>1. ~(index < index) /\ ~(off < off)
      BY <1>2
    <3> QED BY <1>1, <1>5, <2>5, <3>1 DEF MboxInv, MailInv
  <2>7. off' \in Nat \ {0} /\ off < off' /\ off' <= Len(f) + 1
        /\ off' - 1 = TextEnd(f, off)
    BY <2>1, <2>2, <2>3
  <2>8. /\ ref'[index] = ref[index] + 1 /\ total'[index] = total[index] + 1
        /\ \A b \in Box : b # index => ref'[b] = ref[b] /\ total'[b] = total[b]
        /\ ref' \in [Box -> Nat] /\ total' \in [Box -> Nat]
    BY <1>1, <1>2, <2>1 DEF MboxTypeOK
  <2>9. MboxTypeOK'
    BY <1>1, <1>3, <2>1, <2>4, <2>7, <2>8 DEF MboxTypeOK
  <2>10. NamedInv' /\ TmpInv' /\ DanceInv'
    BY <1>1, <2>1, DiskStays
  <2>11. StateInv'
    BY <1>1, <1>3, <1>4, <2>1, <2>7 DEF MboxInv, StateInv
  <2>12. \A b \in Box : InMemory(b)' =
            IF b = index THEN InMemory(b) \cup {new} ELSE InMemory(b)
    BY <1>1, <2>1, <2>5 DEF InMemory, InFlight
  <2>13. MailInv'
    <3>1. \A b \in Box : \A m \in InMemory(b)' :
            file[b].there /\ Ids(m.text) \subseteq Ids(file[b].text)
      <4>1. \A b \in Box : \A m \in InMemory(b) :
              file[b].there /\ Ids(m.text) \subseteq Ids(file[b].text)
        BY <1>4, <1>5 DEF MboxInv, MailInv
      <4> QED BY <4>1, <1>4, <2>3, <2>5, <2>12
    <3>2. ASSUME NEW m \in flight'
          PROVE  m.box < index \/ (m.box = index /\ m.off < off')
      <4>1. CASE m = new
        BY <4>1, <2>5, <2>7
      <4>2. CASE m \in flight
        <5>1. m \in BoxMails
          BY <1>1, <4>2 DEF MboxTypeOK
        <5>2. m.off \in Nat
          BY <5>1 DEF BoxMails
        <5>3. m.box < index \/ (m.box = index /\ m.off < off)
          BY <1>1, <1>5, <4>2 DEF MboxInv, MailInv
        <5> QED BY <5>2, <5>3, <1>2, <2>7
      <4> QED BY <4>1, <4>2, <2>1
    <3>3. \A b \in Box : \A m \in Range(kept'[b]) : m.box = b
      BY <1>1 DEF MboxInv, MailInv
    <3> QED BY <1>1, <1>3, <2>1, <3>1, <3>2, <3>3 DEF MailInv
  <2>14. CountInv'
    <3>1. IsFiniteSet(flight)
      BY DEF MboxInv, CountInv
    <3>2. IsFiniteSet(flight')
      BY <2>1, <3>1, FS_AddElement
    <3>3. ASSUME NEW b \in Box
          PROVE  /\ ref'[b] = Cardinality({m \in flight' : m.box = b}) + Len(kept[b])
                 /\ ref'[b] <= total'[b]
      <4>1. /\ ref[b] = Cardinality({m \in flight : m.box = b}) + Len(kept[b])
            /\ ref[b] <= total[b]
        BY <1>1, <1>5 DEF MboxInv, CountInv, ReferencesCounted
      <4>2. CASE b = index
        <5>1. {m \in flight' : m.box = b} = {m \in flight : m.box = b} \cup {new}
          BY <2>1, <2>5, <4>2
        <5>2. new \notin {m \in flight : m.box = b} /\ IsFiniteSet({m \in flight : m.box = b})
          BY <2>6, <3>1, FS_Subset
        <5>3. /\ Cardinality({m \in flight' : m.box = b})
                   = Cardinality({m \in flight : m.box = b}) + 1
              /\ Cardinality({m \in flight : m.box = b}) \in Nat
          BY <5>1, <5>2, FS_AddElement, FS_CardinalityType
        <5>4. PICK c \in Nat : c = Cardinality({m \in flight : m.box = b})
          BY <5>3
        <5>5. /\ ref[b] = c + Len(kept[b]) /\ Cardinality({m \in flight' : m.box = b}) = c + 1
              /\ ref'[b] = ref[b] + 1 /\ total'[b] = total[b] + 1
          BY <4>1, <4>2, <5>3, <5>4, <2>8
        <5>6. /\ ref[b] \in Nat /\ total[b] \in Nat /\ Len(kept[b]) \in Nat
              /\ ref[b] <= total[b]
          BY <4>1, <1>2
        <5>7. ref'[b] = (c + 1) + Len(kept[b]) /\ ref'[b] <= total'[b]
          BY <5>4, <5>5, <5>6
        <5> QED BY <5>5, <5>7
      <4>3. CASE b # index
        <5>1. {m \in flight' : m.box = b} = {m \in flight : m.box = b}
          BY <2>1, <2>5, <4>3
        <5> QED BY <4>1, <4>3, <5>1, <2>8
      <4> QED BY <4>2, <4>3
    <3> QED BY <3>2, <3>3, <1>1, <2>1 DEF CountInv, ReferencesCounted
  <2>15. ReadInv'
    <3>1. ASSUME NEW b \in Box, NEW k \in 1 .. ReadTo(b)'
          PROVE  \/ file[b].text[k].id \in discarded
                 \/ \E m \in InMemory(b)' : file[b].text[k].id \in Ids(m.text)
      <4>1. CASE k \in 1 .. ReadTo(b)
        <5>1. \/ file[b].text[k].id \in discarded
              \/ \E m \in InMemory(b) : file[b].text[k].id \in Ids(m.text)
          BY <1>1, <1>5, <4>1 DEF MboxInv, ReadInv
        <5> QED BY <5>1, <2>12
      <4>2. CASE k \notin 1 .. ReadTo(b)
        <5>1. b = index
          BY <1>1, <1>3, <2>1, <3>1, <4>2 DEF ReadTo
        <5>2. ReadTo(b) = off - 1 /\ ReadTo(b)' = off' - 1
          BY <1>1, <2>1, <5>1 DEF ReadTo
        <5>3. k \in off .. TextEnd(f, off)
          <6>1. ReadTo(b)' = TextEnd(f, off) /\ TextEnd(f, off) \in Nat
            BY <1>2, <2>2, <2>3, <2>7, <5>2
          <6>2. k \in Nat /\ k <= TextEnd(f, off) /\ k >= 1
            BY <3>1, <6>1
          <6>3. ~(k <= off - 1)
            BY <1>2, <4>2, <5>2, <6>2
          <6> QED BY <1>2, <6>1, <6>2, <6>3
        <5>4. f[k].id \in Ids(new.text)
          BY <2>3, <2>5, <5>3
        <5> QED BY <5>1, <5>4, <2>12
      <4> QED BY <4>1, <4>2
    <3> QED BY <3>1, <1>1, <1>3 DEF ReadInv
  <2> QED BY <2>9, <2>10, <2>11, <2>13, <2>14, <2>15 DEF MboxInv
<1> QED BY <1>6, <1>7

\* A mail is committed: dropped, or put on the list.
LEMMA BoxCommitKeeps ==
  ASSUME MboxInv, NEW m \in flight, Commit(m)
  PROVE  MboxInv'
<1>1. /\ MboxTypeOK /\ st \notin MboxOver /\ flight' = flight \ {m}
      /\ UNCHANGED <<st, index, off, total, freed, dance, diskVars, runs>>
  BY DEF MboxInv, Commit
<1>2. UNCHANGED <<file, tmp, saved>>
  BY <1>1 DEF diskVars
<1>3. st \notin {"exit", "save"} /\ dance = 0
  BY DEF MboxInv, StateInv
<1>4. \A b \in Box : Unsaved(b)
  BY <1>1, <1>3 DEF Unsaved
<1>5. /\ m \in BoxMails /\ m.box \in Box /\ m.text \in Seq(Piece)
      /\ m \in InMemory(m.box)
  BY <1>1 DEF MboxTypeOK, BoxMails, InMemory, InFlight
<1>6. /\ file[m.box].there /\ Ids(m.text) \subseteq Ids(file[m.box].text)
      /\ \A x \in Ids(m.text) : x[1] = m.box
  BY <1>3, <1>4, <1>5 DEF MboxInv, MailInv, NamedInv
<1>7. \A b \in Box : /\ kept[b] \in Seq(BoxMails) /\ Len(kept[b]) \in Nat /\ ref[b] \in Nat
                     /\ total[b] \in Nat
  BY <1>1, BoxTypes
<1>8. \A b \in Box : Cardinality({x \in flight : x.box = b}) \in Nat
  <2>1. IsFiniteSet(flight)
    BY DEF MboxInv, CountInv
  <2> QED BY <2>1, FS_Subset, FS_CardinalityType
<1>9. /\ Cardinality({x \in flight' : x.box = m.box})
           = Cardinality({x \in flight : x.box = m.box}) - 1
      /\ \A b \in Box : b # m.box =>
           {x \in flight' : x.box = b} = {x \in flight : x.box = b}
      /\ IsFiniteSet(flight')
      /\ Cardinality({x \in flight : x.box = m.box}) >= 1
  <2>1. IsFiniteSet(flight)
    BY DEF MboxInv, CountInv
  <2>2. {x \in flight' : x.box = m.box} = {x \in flight : x.box = m.box} \ {m}
    BY <1>1
  <2>3. IsFiniteSet({x \in flight : x.box = m.box}) /\ m \in {x \in flight : x.box = m.box}
    BY <2>1, FS_Subset
  <2>4. Cardinality({x \in flight' : x.box = m.box})
           = Cardinality({x \in flight : x.box = m.box}) - 1
    BY <2>2, <2>3, FS_RemoveElement
  <2>5. IsFiniteSet(flight')
    BY <1>1, <2>1, FS_RemoveElement
  <2>6. IsFiniteSet({x \in flight' : x.box = m.box})
    BY <2>5, FS_Subset
  <2>7. Cardinality({x \in flight' : x.box = m.box}) \in Nat
    BY <2>6, FS_CardinalityType
  <2>8. Cardinality({x \in flight : x.box = m.box}) >= 1
    BY <1>5, <1>8, <2>4, <2>7
  <2>9. \A b \in Box : b # m.box =>
           {x \in flight' : x.box = b} = {x \in flight : x.box = b}
    BY <1>1
  <2> QED BY <2>4, <2>5, <2>8, <2>9
<1>10. /\ NamedInv' /\ DanceInv' /\ StateInv'
  <2>1. NamedInv' /\ DanceInv'
    BY <1>1, <1>2, <1>3 DEF MboxInv, NamedInv, DanceInv
  <2> QED BY <2>1, <1>1, <1>2, <1>3 DEF MboxInv, StateInv
<1>11. \A b \in Box : ref[b] = Cardinality({x \in flight : x.box = b}) + Len(kept[b])
                      /\ ref[b] <= total[b]
  BY <1>1, <1>3 DEF MboxInv, CountInv, ReferencesCounted
<1>12. CASE /\ discarded' = discarded \cup Ids(m.text)
            /\ ref' = [ref EXCEPT ![m.box] = @ - 1] /\ UNCHANGED kept
  <2>1. /\ ref'[m.box] = ref[m.box] - 1 /\ \A b \in Box : b # m.box => ref'[b] = ref[b]
    BY <1>1, <1>5, <1>12 DEF MboxTypeOK
  <2>2. \A b \in Box : ref'[b] = Cardinality({x \in flight' : x.box = b}) + Len(kept[b])
                       /\ ref'[b] <= total[b] /\ ref'[b] \in Nat
    <3>1. SUFFICES ASSUME NEW b \in Box
                   PROVE  /\ ref'[b] = Cardinality({x \in flight' : x.box = b}) + Len(kept[b])
                          /\ ref'[b] <= total[b] /\ ref'[b] \in Nat
      OBVIOUS
    <3>2. PICK c \in Nat : c = Cardinality({x \in flight : x.box = b})
      BY <1>8
    <3>3. /\ ref[b] = c + Len(kept[b]) /\ ref[b] <= total[b]
          /\ ref[b] \in Nat /\ total[b] \in Nat /\ Len(kept[b]) \in Nat
      BY <1>7, <1>11, <3>2
    <3>4. CASE b = m.box
      <4>1. /\ ref'[b] = ref[b] - 1 /\ Cardinality({x \in flight' : x.box = b}) = c - 1
            /\ c >= 1
        BY <3>2, <3>4, <1>9, <2>1
      <4>2. /\ ref'[b] = (c - 1) + Len(kept[b]) /\ ref'[b] <= total[b] /\ ref'[b] \in Nat
        BY <3>3, <4>1
      <4> QED BY <4>1, <4>2
    <3>5. CASE b # m.box
      BY <3>2, <3>3, <3>5, <1>9, <2>1
    <3> QED BY <3>4, <3>5
  <2>3. ref' \in [Box -> Nat]
    BY <1>1, <1>12, <2>2 DEF MboxTypeOK
  <2>4. discarded' \subseteq Id
    BY <1>1, <1>5, <1>12, IdsOf DEF MboxTypeOK
  <2>5. MboxTypeOK'
    BY <1>1, <1>2, <1>12, <2>3, <2>4 DEF MboxTypeOK
  <2>6. MailInv'
    BY <1>1, <1>2, <1>3, <1>4, <1>12 DEF MboxInv, MailInv, InMemory, InFlight, Unsaved
  <2>7. CountInv'
    BY <1>1, <1>3, <1>9, <1>12, <2>2 DEF CountInv, ReferencesCounted
  <2>8. ReadInv'
    <3>1. ASSUME NEW b \in Box, NEW k \in 1 .. ReadTo(b)
          PROVE  \/ file[b].text[k].id \in discarded'
                 \/ \E x \in InMemory(b)' : file[b].text[k].id \in Ids(x.text)
      <4>1. \/ file[b].text[k].id \in discarded
            \/ \E x \in InMemory(b) : file[b].text[k].id \in Ids(x.text)
        BY <1>3, <1>4 DEF MboxInv, ReadInv
      <4>2. \A x \in InMemory(b) : x = m \/ x \in InMemory(b)'
        BY <1>1, <1>12 DEF InMemory, InFlight
      <4> QED BY <4>1, <4>2, <1>12
    <3> QED BY <3>1, <1>1, <1>2 DEF ReadInv, ReadTo
  <2>9. TmpInv'
    BY <1>2, <1>12 DEF MboxInv, TmpInv
  <2> QED BY <1>10, <2>5, <2>6, <2>7, <2>8, <2>9 DEF MboxInv
<1>13. CASE /\ discarded' = discarded \ Ids(m.text)
            /\ kept' = [kept EXCEPT ![m.box] = Append(@, m)] /\ UNCHANGED ref
  <2>1. /\ kept'[m.box] = Append(kept[m.box], m)
        /\ \A b \in Box : b # m.box => kept'[b] = kept[b]
    BY <1>1, <1>5, <1>13 DEF MboxTypeOK
  <2>2. /\ kept'[m.box] \in Seq(BoxMails) /\ Len(kept'[m.box]) = Len(kept[m.box]) + 1
        /\ Range(kept'[m.box]) = Range(kept[m.box]) \cup {m}
    <3>1. kept[m.box] \in Seq(BoxMails)
      BY <1>5, <1>7
    <3>2. /\ kept'[m.box] \in Seq(BoxMails) /\ Len(kept'[m.box]) = Len(kept[m.box]) + 1
          /\ \A i \in 1 .. Len(kept[m.box]) : kept'[m.box][i] = kept[m.box][i]
          /\ kept'[m.box][Len(kept[m.box]) + 1] = m
      BY <2>1, <3>1, <1>5, AppendProperties
    <3>3. DOMAIN kept'[m.box] = 1 .. (Len(kept[m.box]) + 1)
          /\ DOMAIN kept[m.box] = 1 .. Len(kept[m.box]) /\ Len(kept[m.box]) \in Nat
      BY <3>1, <3>2, LenProperties
    <3>4. Range(kept'[m.box]) \subseteq Range(kept[m.box]) \cup {m}
      <4>1. ASSUME NEW i \in 1 .. (Len(kept[m.box]) + 1)
            PROVE  kept'[m.box][i] \in Range(kept[m.box]) \cup {m}
        <5>1. i \in 1 .. Len(kept[m.box]) \/ i = Len(kept[m.box]) + 1
          BY <3>3
        <5> QED BY <5>1, <3>2, <3>3 DEF Range
      <4> QED BY <4>1, <3>3 DEF Range
    <3>5. Range(kept[m.box]) \cup {m} \subseteq Range(kept'[m.box])
      <4>1. /\ Len(kept[m.box]) + 1 \in 1 .. (Len(kept[m.box]) + 1)
            /\ 1 .. Len(kept[m.box]) \subseteq 1 .. (Len(kept[m.box]) + 1)
        BY <3>3
      <4>2. \A i \in 1 .. Len(kept[m.box]) : kept[m.box][i] \in Range(kept'[m.box])
        BY <4>1, <3>2, <3>3 DEF Range
      <4>3. m \in Range(kept'[m.box])
        BY <4>1, <3>2, <3>3 DEF Range
      <4> QED BY <4>2, <4>3, <3>3 DEF Range
    <3> QED BY <3>2, <3>4, <3>5
  <2>3. kept' \in [Box -> Seq(BoxMails)]
    BY <1>1, <1>5, <1>13, <2>2, <2>1 DEF MboxTypeOK
  <2>4. MboxTypeOK'
    BY <1>1, <1>2, <1>13, <2>3 DEF MboxTypeOK
  <2>5. \A b \in Box : InMemory(b)' = InMemory(b)
    BY <1>1, <1>5, <2>1, <2>2 DEF InMemory, InFlight
  <2>6. MailInv'
    <3>1. \A b \in Box : \A x \in Range(kept'[b]) : x.box = b
      BY <2>1, <2>2 DEF MboxInv, MailInv
    <3>2. \A b \in Box : \A x \in InMemory(b) :
            file[b].there /\ Ids(x.text) \subseteq Ids(file[b].text)
      BY <1>3, <1>4 DEF MboxInv, MailInv
    <3> QED BY <1>1, <1>2, <2>5, <3>1, <3>2 DEF MboxInv, MailInv
  <2>7. CountInv'
    <3>1. ASSUME NEW b \in Box
          PROVE  /\ ref[b] = Cardinality({x \in flight' : x.box = b}) + Len(kept'[b])
                 /\ ref[b] <= total[b]
      <4>1. CASE b = m.box
        <5>1. PICK c \in Nat : c = Cardinality({x \in flight : x.box = b})
          BY <1>8
        <5>2. /\ ref[b] = c + Len(kept[b]) /\ Len(kept[b]) \in Nat
              /\ Len(kept'[b]) = Len(kept[b]) + 1
              /\ Cardinality({x \in flight' : x.box = b}) = c - 1
          BY <4>1, <5>1, <1>7, <1>9, <1>11, <2>2
        <5>3. ref[b] = (c - 1) + Len(kept'[b])
          BY <5>2
        <5> QED BY <5>2, <5>3, <1>11
      <4>2. CASE b # m.box
        BY <4>2, <1>9, <1>11, <2>1
      <4> QED BY <4>1, <4>2
    <3> QED BY <3>1, <1>1, <1>3, <1>9, <1>13 DEF CountInv, ReferencesCounted
  <2>8. ReadInv'
    <3>1. ASSUME NEW b \in Box, NEW k \in 1 .. ReadTo(b)
          PROVE  \/ file[b].text[k].id \in discarded'
                 \/ \E x \in InMemory(b)' : file[b].text[k].id \in Ids(x.text)
      <4>1. \/ file[b].text[k].id \in discarded
            \/ \E x \in InMemory(b) : file[b].text[k].id \in Ids(x.text)
        BY <1>3, <1>4 DEF MboxInv, ReadInv
      <4>2. ASSUME file[b].text[k].id \in Ids(m.text) PROVE b = m.box
        <5>1. k \in DOMAIN file[b].text
          <6>1. ReadTo(b) \in Nat /\ ReadTo(b) <= Len(file[b].text)
                /\ file[b].text \in Seq(Piece)
            <7>1. /\ off \in Nat \ {0} /\ Len(file[b].text) \in Nat
                  /\ file[b].text \in Seq(Piece)
              BY <1>1, BoxTypes
            <7>2. st = "mail" => off <= Len(file[index].text) + 1
              BY DEF MboxInv, StateInv
            <7> QED BY <7>1, <7>2 DEF ReadTo
          <6>2. DOMAIN file[b].text = 1 .. Len(file[b].text) /\ Len(file[b].text) \in Nat
            BY <6>1, LenProperties
          <6> QED BY <3>1, <6>1, <6>2
        <5>2. file[b].text[k].id \in Ids(file[b].text)
          BY <5>1 DEF Ids
        <5>3. file[b].text[k].id[1] = b
          BY <5>2 DEF MboxInv, NamedInv
        <5> QED BY <5>3, <4>2, <1>6
      <4>3. CASE file[b].text[k].id \in Ids(m.text)
        BY <4>2, <4>3, <1>5, <2>5
      <4>4. CASE file[b].text[k].id \notin Ids(m.text)
        BY <4>1, <4>4, <1>13, <2>5
      <4> QED BY <4>3, <4>4
    <3> QED BY <3>1, <1>1, <1>2 DEF ReadInv, ReadTo
  <2>9. TmpInv'
    <3>1. SUFFICES ASSUME NEW b \in Box, file[b].there, NEW x \in Ids(tmp[b].text)
                   PROVE  x \in discarded' \cup Ids(file[b].text)
      BY <1>2 DEF TmpInv
    <3>2. x \in discarded \cup Ids(file[b].text) /\ x[1] = b
      BY <3>1 DEF MboxInv, TmpInv, NamedInv
    <3>3. x \in Ids(m.text) => x \in Ids(file[b].text)
      BY <3>2, <1>6
    <3> QED BY <3>2, <3>3, <1>13
  <2> QED BY <1>10, <2>4, <2>6, <2>7, <2>8, <2>9 DEF MboxInv
<1> QED BY <1>12, <1>13 DEF Commit
-----------------------------------------------------------------------------
(* The mbox handler: saving.                                               *)

\* The text of a file that is written to or gone, with those of the others.
FileType == [there : BOOLEAN, text : Seq(Piece)]

\* While mboxes are saved, the fetch loop has nothing, those behind this one are
\* there, and each has its mails on the list.
LEMMA WhileSaving ==
  ASSUME MboxInv, st = "save"
  PROVE  /\ MboxTypeOK /\ flight = {} /\ index \in Box /\ Box = 1 .. Boxes
         /\ Boxes \in Nat \ {0} /\ \A b \in Box : b \in Nat
         /\ file \in [Box -> FileType] /\ tmp \in [Box -> FileType]
         /\ saved \in [Box -> FileType]
         /\ \A b \in Box : b > index => file[b].there
         /\ \A b \in Box : b < index => ref[b] = 0
         /\ \A b \in Box : b >= index => ref[b] = Len(kept[b]) /\ ref[b] <= total[b]
         /\ \A b \in Box : InMemory(b) = Range(kept[b])
         /\ \A b \in Box : b > index =>
              \A m \in Range(kept[b]) : Ids(m.text) \subseteq Ids(file[b].text)
<1>1. /\ MboxTypeOK /\ index \in Box /\ Box = 1 .. Boxes /\ Boxes \in Nat \ {0}
      /\ \A b \in Box : b \in Nat /\ Len(kept[b]) \in Nat
  BY BoxTypes DEF MboxInv
<1>2. /\ flight = {} /\ \A b \in Box : b > index => file[b].there
  BY DEF MboxInv, StateInv
<1>3. /\ file \in [Box -> FileType] /\ tmp \in [Box -> FileType]
      /\ saved \in [Box -> FileType]
  BY <1>1 DEF MboxTypeOK, FileType
<1>4. \A b \in Box : {m \in flight : m.box = b} = {} /\ InMemory(b) = Range(kept[b])
  BY <1>2 DEF InMemory, InFlight
<1>5. \A b \in Box : b < index => ref[b] = 0
  BY DEF MboxInv, CountInv, ReferencesCounted, MboxOver
<1>6. ASSUME NEW b \in Box, b >= index
      PROVE  ref[b] = Len(kept[b]) /\ ref[b] <= total[b]
  <2>1. ~(b < index)
    BY <1>1, <1>6
  <2>2. /\ ref[b] = Cardinality({m \in flight : m.box = b}) + Len(kept[b])
        /\ ref[b] <= total[b]
    BY <2>1 DEF MboxInv, CountInv, ReferencesCounted, MboxOver
  <2>3. Cardinality({m \in flight : m.box = b}) = 0
    BY <1>4, FS_EmptySet
  <2> QED BY <2>2, <2>3, <1>1
<1>7. ASSUME NEW b \in Box, b > index
      PROVE  \A m \in Range(kept[b]) : Ids(m.text) \subseteq Ids(file[b].text)
  <2>1. Unsaved(b) /\ b # index
    BY <1>1, <1>7 DEF Unsaved, MboxOver
  <2> QED BY <2>1, <1>4 DEF MboxInv, MailInv
<1> QED BY <1>1, <1>2, <1>3, <1>4, <1>5, <1>6, <1>7

\* The next mbox, when this one is saved; what has been done with its file does
\* not matter, but for what it leaves.
LEMMA SavedBoxKeeps ==
  ASSUME MboxInv, st = "save", SavedBox, UNCHANGED <<kept, discarded, runs>>,
         file' \in [Box -> FileType], tmp' \in [Box -> FileType], saved' \in [Box -> FileType],
         \A b \in Box : b # index => file'[b] = file[b],
         freed' \subseteq BoxMails, NamedInv', TmpInv',
         ref' = [ref EXCEPT ![index] = 0]
  PROVE  MboxInv'
<1>1. /\ MboxTypeOK /\ flight = {} /\ index \in Box /\ Box = 1 .. Boxes
      /\ Boxes \in Nat \ {0} /\ \A b \in Box : b \in Nat
      /\ \A b \in Box : b > index => file[b].there
      /\ \A b \in Box : b < index => ref[b] = 0
      /\ \A b \in Box : b >= index => ref[b] = Len(kept[b]) /\ ref[b] <= total[b]
      /\ \A b \in Box : InMemory(b) = Range(kept[b])
      /\ \A b \in Box : b > index =>
           \A m \in Range(kept[b]) : Ids(m.text) \subseteq Ids(file[b].text)
  BY WhileSaving
<1>2. /\ flight' = {} /\ dance' = 0
      /\ \/ index < Boxes /\ index' = index + 1 /\ st' = "save" /\ off' = off /\ total' = total
         \/ /\ index' = 1 /\ st' = "done" /\ off' = 1
            /\ total' = [b \in Box |-> 0]
  BY <1>1 DEF SavedBox
<1>3. /\ ref' \in [Box -> Nat] /\ ref'[index] = 0
      /\ \A b \in Box : b # index => ref'[b] = ref[b]
  BY <1>1 DEF MboxTypeOK
<1>4. MboxTypeOK'
  <2>1. index' \in Box /\ off' \in Nat \ {0} /\ total' \in [Box -> Nat] /\ dance' \in 0 .. 5
    <3>1. off \in Nat \ {0} /\ total \in [Box -> Nat] /\ dance' \in 0 .. 5
      <4>1. off \in Nat \ {0} /\ total \in [Box -> Nat]
        BY <1>1 DEF MboxTypeOK
      <4>2. dance' \in 0 .. 5
        <5>1. dance' = 0
          BY <1>2
        <5> QED BY <5>1
      <4> QED BY <4>1, <4>2
    <3>2. CASE index' = 1 /\ off' = 1 /\ total' = [b \in Box |-> 0]
      <4>1. 1 \in Box /\ 1 \in Nat \ {0}
        BY <1>1
      <4>2. total' \in [Box -> Nat]
        BY <3>2
      <4> QED BY <3>1, <3>2, <4>1, <4>2
    <3>3. CASE index < Boxes /\ index' = index + 1 /\ off' = off /\ total' = total
      <4>1. index' \in Box
        BY <1>1, <3>3
      <4> QED BY <3>1, <3>3, <4>1
    <3> QED BY <1>2, <3>2, <3>3
  <2>2. {file', tmp', saved'} \subseteq [Box -> [there : BOOLEAN, text : Seq(Piece)]]
    BY DEF FileType
  <2>3. st' \in {"save", "done"}
    BY <1>2
  <2> QED BY <1>1, <1>2, <1>3, <2>1, <2>2, <2>3 DEF MboxTypeOK, MboxOver
<1>5. CASE st' = "done"
  <2>1. StateInv'
    BY <1>2, <1>5 DEF StateInv
  <2>2. MailInv' /\ ReadInv' /\ DanceInv'
    <3>1. \A b \in Box : \A m \in Range(kept'[b]) : m.box = b
      BY DEF MboxInv, MailInv
    <3>2. \A b \in Box : ~(Unsaved(b)')
      BY <1>5 DEF Unsaved, MboxOver
    <3> QED BY <1>2, <1>5, <3>1, <3>2 DEF MailInv, ReadInv, DanceInv
  <2>3. CountInv'
    BY <1>2, <1>5, FS_EmptySet DEF CountInv, ReferencesCounted, MboxOver
  <2> QED BY <1>4, <2>1, <2>2, <2>3 DEF MboxInv
<1>6. CASE st' = "save"
  <2>1. /\ index' = index + 1 /\ index' \in Box /\ off' = off /\ total' = total
        /\ \A b \in Box : b >= index' => b > index /\ b # index /\ b >= index
        /\ \A b \in Box : b > index' => b > index
        /\ \A b \in Box : b < index' => b < index \/ b = index
        /\ index' > index
    BY <1>1, <1>2, <1>6
  <2>2. StateInv'
    BY <1>1, <1>2, <1>6, <2>1 DEF StateInv
  <2>3. \A b \in Box : Unsaved(b)' => b > index /\ b # index
    BY <1>6, <2>1 DEF Unsaved
  <2>4. \A b \in Box : InMemory(b)' = Range(kept[b])
    BY <1>2 DEF InMemory, InFlight
  <2>5. MailInv'
    <3>1. \A b \in Box : \A m \in Range(kept'[b]) : m.box = b
      BY DEF MboxInv, MailInv
    <3>2. \A b \in Box : Unsaved(b)' =>
            \A m \in Range(kept[b]) :
              file'[b].there /\ Ids(m.text) \subseteq Ids(file'[b].text)
      BY <1>1, <2>3
    <3> QED BY <1>2, <2>4, <3>1, <3>2 DEF MailInv
  <2>6. CountInv'
    <3>1. ASSUME NEW b \in Box
          PROVE  IF b < index' THEN ref'[b] = 0
                 ELSE ref'[b] = 0 + Len(kept[b]) /\ ref'[b] <= total[b]
      <4>1. CASE b < index'
        BY <4>1, <1>1, <1>3, <2>1
      <4>2. CASE ~(b < index')
        <5>1. b >= index' /\ Len(kept[b]) \in Nat
          BY <4>2, <1>1, <2>1, BoxTypes
        <5> QED BY <4>2, <5>1, <1>1, <1>3, <2>1
      <4> QED BY <4>1, <4>2
    <3>2. \A b \in Box : Cardinality({m \in flight' : m.box = b}) = 0
      <4>1. \A b \in Box : {m \in flight' : m.box = b} = {}
        BY <1>2
      <4> QED BY <4>1, FS_EmptySet
    <3>3. IsFiniteSet(flight')
      BY <1>2, FS_EmptySet
    <3> QED BY <1>6, <2>1, <3>1, <3>2, <3>3 DEF CountInv, ReferencesCounted
  <2>7. ReadInv'
    <3>1. SUFFICES ASSUME NEW b \in Box, Unsaved(b)', NEW k \in 1 .. ReadTo(b)'
                   PROVE  \/ file'[b].text[k].id \in discarded
                          \/ \E m \in InMemory(b)' : file'[b].text[k].id \in Ids(m.text)
      BY DEF ReadInv
    <3>2. b > index /\ b # index /\ b >= index
      BY <3>1, <2>3, <1>1
    <3>3. Unsaved(b) /\ ReadTo(b) = Len(file[b].text) /\ ReadTo(b)' = Len(file[b].text)
      BY <3>2, <1>6 DEF Unsaved, ReadTo, MboxOver
    <3>4. \/ file[b].text[k].id \in discarded
          \/ \E m \in InMemory(b) : file[b].text[k].id \in Ids(m.text)
      BY <3>1, <3>2, <3>3 DEF MboxInv, ReadInv
    <3> QED BY <3>2, <3>4, <2>4, <1>1
  <2>8. DanceInv'
    BY <1>2 DEF DanceInv
  <2> QED BY <1>4, <2>2, <2>5, <2>6, <2>7, <2>8 DEF MboxInv
<1> QED BY <1>2, <1>5, <1>6

\* What has been read of the file about to be saved is on the list, or dropped.
LEMMA AllRead ==
  ASSUME MboxInv, st = "save", dance = 0
  PROVE  \A x \in Ids(file[index].text) :
           x \in discarded \/ \E m \in Range(kept[index]) : x \in Ids(m.text)
<1>1. /\ index \in Box /\ InMemory(index) = Range(kept[index]) /\ MboxTypeOK
      /\ index \in Nat
  BY WhileSaving
<1>2. /\ DOMAIN file[index].text = 1 .. Len(file[index].text)
  BY <1>1, BoxTypes, LenProperties
<1>3. Unsaved(index) /\ ReadTo(index) = Len(file[index].text)
  BY <1>1 DEF Unsaved, ReadTo, MboxOver
<1>4. \A k \in 1 .. Len(file[index].text) :
        \/ file[index].text[k].id \in discarded
        \/ \E m \in InMemory(index) : file[index].text[k].id \in Ids(m.text)
  BY <1>1, <1>3 DEF MboxInv, ReadInv
<1> QED BY <1>1, <1>2, <1>4 DEF Ids

\* A file that is truncated has had all its mails dropped.
LEMMA TruncatedIsDropped ==
  ASSUME MboxInv, SaveWhole, ref[index] = 0
  PROVE  Ids(file[index].text) \subseteq discarded
<1>1. st = "save" /\ dance = 0
  BY DEF SaveWhole
<1>2. /\ index \in Box /\ ref[index] = Len(kept[index]) /\ MboxTypeOK
      /\ kept[index] \in Seq(BoxMails)
  <2>1. index \in Box /\ index >= index /\ MboxTypeOK
    BY <1>1, WhileSaving
  <2> QED BY <1>1, <2>1, WhileSaving, BoxTypes
<1>3. kept[index] = <<>>
  BY <1>2, EmptySeq
<1>4. Range(kept[index]) = {}
  BY <1>3 DEF Range
<1> QED BY <1>1, <1>4, AllRead

LEMMA SaveWholeKeeps ==
  ASSUME MboxInv, SaveWhole
  PROVE  MboxInv'
<1>1. /\ st = "save" /\ dance = 0 /\ SavedBox
      /\ UNCHANGED <<kept, tmp, saved, runs, discarded>>
      /\ ref' = [ref EXCEPT ![index] = @ - Len(kept[index])]
      /\ freed' = freed \cup Range(kept[index])
      /\ file' = IF ref[index] = 0 /\ total[index] # 0
                 THEN [file EXCEPT ![index] = File(<<>>)] ELSE file
  BY DEF SaveWhole
<1>2. /\ MboxTypeOK /\ index \in Box /\ file \in [Box -> FileType]
      /\ tmp \in [Box -> FileType] /\ saved \in [Box -> FileType]
      /\ file[index].there
  BY <1>1, WhileSaving DEF MboxInv, StateInv
<1>3. /\ kept[index] \in Seq(BoxMails) /\ Len(kept[index]) \in Nat
      /\ ref[index] = Len(kept[index]) /\ ref \in [Box -> Nat]
  <2>1. index >= index
    BY <1>2, BoxTypes
  <2> QED BY <1>1, <1>2, <2>1, WhileSaving, BoxTypes DEF MboxTypeOK
<1>4. ref' = [ref EXCEPT ![index] = 0]
  BY <1>1, <1>2, <1>3
<1>5. freed' \subseteq BoxMails
  <2>1. Range(kept[index]) \subseteq BoxMails
    BY <1>3, ElementOfSeq, LenProperties DEF Range
  <2> QED BY <1>1, <1>2, <2>1 DEF MboxTypeOK
<1>6. /\ file' \in [Box -> FileType]
      /\ \A b \in Box : b # index => file'[b] = file[b]
      /\ file'[index] = file[index]
           \/ (file'[index] = File(<<>>) /\ Ids(file[index].text) \subseteq discarded)
  <2>1. File(<<>>) \in FileType
    BY DEF File, FileType
  <2> QED BY <1>1, <1>2, <2>1, TruncatedIsDropped
<1>7. \A b \in Box : Ids(file'[b].text) \subseteq Ids(file[b].text)
                     /\ Ids(file[b].text) \subseteq discarded \cup Ids(file'[b].text)
                     /\ (file'[b].there => file[b].there)
  BY <1>2, <1>6, IdsOf
<1>8. NamedInv'
  BY <1>1, <1>7 DEF MboxInv, NamedInv
<1>9. TmpInv'
  <2>1. SUFFICES ASSUME NEW b \in Box, file'[b].there, NEW x \in Ids(tmp[b].text)
                 PROVE  x \in discarded \cup Ids(file'[b].text)
    BY <1>1 DEF TmpInv
  <2>2. x \in discarded \cup Ids(file[b].text)
    BY <1>7, <2>1 DEF MboxInv, TmpInv
  <2> QED BY <1>7, <2>2
<1> QED BY <1>1, <1>2, <1>4, <1>5, <1>6, <1>8, <1>9, SavedBoxKeeps


\* A step in the replacement of a file: what is left of the mails, and of no mbox
\* but this one is the file touched.
LEMMA DanceStepKeeps ==
  ASSUME MboxInv, st = "save",
         UNCHANGED <<st, index, off, total, flight, freed, runs, discarded>>,
         dance' \in 1 .. 5, dance' < 2 => dance < 2 /\ file'[index] = file[index],
         dance' < 3 => file'[index].there,
         file' \in [Box -> FileType], tmp' \in [Box -> FileType], saved' \in [Box -> FileType],
         \A b \in Box : b # index =>
           file'[b] = file[b] /\ kept'[b] = kept[b] /\ ref'[b] = ref[b],
         kept' \in [Box -> Seq(BoxMails)], Range(kept'[index]) \subseteq Range(kept[index]),
         ref' \in [Box -> Nat], ref'[index] = Len(kept'[index]), ref'[index] <= ref[index],
         NamedInv', TmpInv', DanceInv'
  PROVE  MboxInv'
<1>1. /\ MboxTypeOK /\ flight = {} /\ index \in Box /\ Box = 1 .. Boxes
      /\ Boxes \in Nat \ {0} /\ \A b \in Box : b \in Nat
      /\ \A b \in Box : b > index => file[b].there
      /\ \A b \in Box : b < index => ref[b] = 0
      /\ \A b \in Box : b >= index => ref[b] = Len(kept[b]) /\ ref[b] <= total[b]
      /\ \A b \in Box : InMemory(b) = Range(kept[b])
      /\ \A b \in Box : b > index =>
           \A m \in Range(kept[b]) : Ids(m.text) \subseteq Ids(file[b].text)
  BY WhileSaving
<1>2. MboxTypeOK'
  <2>1. {file', tmp', saved'} \subseteq [Box -> [there : BOOLEAN, text : Seq(Piece)]]
    BY DEF FileType
  <2>2. dance' \in 0 .. 5
    OBVIOUS
  <2> QED BY <1>1, <2>1, <2>2 DEF MboxTypeOK, MboxOver
<1>3. StateInv'
  <2>1. \A b \in Box : b > index => b # index
    BY <1>1
  <2> QED BY <1>1, <2>1 DEF StateInv
<1>4. \A b \in Box : InMemory(b)' = Range(kept'[b])
  BY <1>1 DEF InMemory, InFlight
<1>5. MailInv'
  <2>1. \A b \in Box : \A m \in Range(kept'[b]) : m.box = b
    BY <1>1 DEF MboxInv, MailInv
  <2>2. ASSUME NEW b \in Box, Unsaved(b)', b = index => dance' < 2,
               NEW m \in Range(kept'[b])
        PROVE  file'[b].there /\ Ids(m.text) \subseteq Ids(file'[b].text)
    <3>1. CASE b = index
      <4>1. dance < 2 /\ file'[b] = file[b] /\ m \in InMemory(b)
        BY <1>1, <2>2, <3>1
      <4>2. Unsaved(b)
        BY <2>2 DEF Unsaved
      <4> QED BY <4>1, <4>2, <3>1 DEF MboxInv, MailInv
    <3>2. CASE b # index
      <4>1. b > index
        BY <1>1, <2>2, <3>2 DEF Unsaved
      <4> QED BY <4>1, <3>2, <1>1, <2>2
    <3> QED BY <3>1, <3>2
  <2>3. flight' = {}
    BY <1>1
  <2>4. \A b \in Box : Unsaved(b)' /\ (b = index' => dance' < 2) =>
          \A m \in InMemory(b)' : file'[b].there /\ Ids(m.text) \subseteq Ids(file'[b].text)
    BY <1>4, <2>2
  <2> QED BY <2>1, <2>3, <2>4 DEF MailInv
<1>6. CountInv'
  <2>1. ASSUME NEW b \in Box
        PROVE  IF b < index THEN ref'[b] = 0
               ELSE ref'[b] = 0 + Len(kept'[b]) /\ ref'[b] <= total[b]
    <3>1. CASE b = index
      <4>1. /\ ref[b] \in Nat /\ total[b] \in Nat /\ ref'[b] \in Nat /\ b \in Nat
            /\ ref[b] <= total[b] /\ ref'[b] <= ref[b] /\ ref'[b] = Len(kept'[b])
        <5>1. index >= index
          BY <1>1
        <5> QED BY <5>1, <3>1, <1>1, BoxTypes
      <4> QED BY <4>1, <3>1
    <3>2. CASE b # index
      <4>1. b < index \/ b >= index
        BY <1>1
      <4>2. Len(kept[b]) \in Nat
        BY <1>1, BoxTypes
      <4>3. CASE b < index
        BY <4>3, <3>2, <1>1
      <4>4. CASE b >= index
        <5>1. ~(b < index) /\ ref[b] = Len(kept[b]) /\ ref[b] <= total[b]
          BY <4>4, <1>1
        <5> QED BY <5>1, <4>2, <3>2
      <4> QED BY <4>1, <4>3, <4>4
    <3> QED BY <3>1, <3>2
  <2>2. \A b \in Box : Cardinality({m \in flight' : m.box = b}) = 0
    <3>1. \A b \in Box : {m \in flight' : m.box = b} = {}
      BY <1>1
    <3> QED BY <3>1, FS_EmptySet
  <2>3. IsFiniteSet(flight')
    BY <1>1, FS_EmptySet
  <2> QED BY <2>1, <2>2, <2>3 DEF CountInv, ReferencesCounted
<1>7. ReadInv'
  <2>1. SUFFICES ASSUME NEW b \in Box, Unsaved(b)', b # index, NEW k \in 1 .. ReadTo(b)'
                 PROVE  \/ file'[b].text[k].id \in discarded
                        \/ \E m \in InMemory(b)' : file'[b].text[k].id \in Ids(m.text)
    <3>1. dance' # 0
      OBVIOUS
    <3> QED BY <3>1 DEF ReadInv
  <2>2. Unsaved(b) /\ ReadTo(b) = Len(file[b].text) /\ ReadTo(b)' = Len(file[b].text)
    BY <2>1 DEF Unsaved, ReadTo, MboxOver
  <2>3. \/ file[b].text[k].id \in discarded
        \/ \E m \in InMemory(b) : file[b].text[k].id \in Ids(m.text)
    BY <2>1, <2>2 DEF MboxInv, ReadInv
  <2>4. file'[b] = file[b] /\ InMemory(b)' = InMemory(b)
    BY <2>1, <1>1, <1>4
  <2> QED BY <2>3, <2>4
<1> QED BY <1>2, <1>3, <1>5, <1>6, <1>7 DEF MboxInv

\* What a step in the replacement of a file begins with.
LEMMA Dancing ==
  ASSUME MboxInv, st = "save"
  PROVE  /\ MboxTypeOK /\ index \in Box /\ dance \in 0 .. 5
         /\ file \in [Box -> FileType] /\ tmp \in [Box -> FileType]
         /\ saved \in [Box -> FileType] /\ File(<<>>) \in FileType /\ Missing \in FileType
         /\ kept \in [Box -> Seq(BoxMails)] /\ ref \in [Box -> Nat]
         /\ ref[index] = Len(kept[index]) /\ ref[index] \in Nat
         /\ Range(kept[index]) \subseteq BoxMails
         /\ \A b \in Box : file[b].text \in Seq(Piece) /\ tmp[b].text \in Seq(Piece)
         /\ \A b \in Box : file[b].there \in BOOLEAN /\ tmp[b].there \in BOOLEAN
<1>1. /\ MboxTypeOK /\ index \in Box /\ file \in [Box -> FileType]
      /\ tmp \in [Box -> FileType] /\ saved \in [Box -> FileType] /\ index \in Nat
  BY WhileSaving
<1>2. ref[index] = Len(kept[index])
  <2>1. index >= index
    BY <1>1
  <2> QED BY <1>1, <2>1, WhileSaving
<1>3. kept \in [Box -> Seq(BoxMails)] /\ ref \in [Box -> Nat] /\ dance \in 0 .. 5
  BY <1>1 DEF MboxTypeOK
<1>4. Range(kept[index]) \subseteq BoxMails
  BY <1>1, <1>3, ElementOfSeq, LenProperties DEF Range
<1>5. File(<<>>) \in FileType /\ Missing \in FileType
  BY DEF File, Missing, FileType
<1>6. \A b \in Box : /\ file[b].text \in Seq(Piece) /\ tmp[b].text \in Seq(Piece)
                     /\ file[b].there \in BOOLEAN /\ tmp[b].there \in BOOLEAN
  BY <1>1, BoxTypes
<1> QED BY <1>1, <1>2, <1>3, <1>4, <1>5, <1>6

LEMMA SavePartKeeps ==
  ASSUME MboxInv, SavePart
  PROVE  MboxInv'
<1>1. /\ st = "save" /\ dance = 0 /\ dance' = 1
      /\ tmp' = [tmp EXCEPT ![index] = File(<<>>)]
      /\ UNCHANGED <<st, index, off, ref, total, flight, kept, freed, file, saved, runs,
                     discarded>>
  BY DEF SavePart
<1>2. /\ MboxTypeOK /\ index \in Box /\ file \in [Box -> FileType]
      /\ tmp \in [Box -> FileType] /\ saved \in [Box -> FileType]
      /\ File(<<>>) \in FileType /\ kept \in [Box -> Seq(BoxMails)]
      /\ ref \in [Box -> Nat] /\ ref[index] = Len(kept[index]) /\ ref[index] \in Nat
  BY <1>1, Dancing
<1>3. /\ tmp' \in [Box -> FileType] /\ tmp'[index] = File(<<>>)
      /\ \A b \in Box : b # index => tmp'[b] = tmp[b]
  BY <1>1, <1>2
<1>4. NamedInv' /\ TmpInv'
  BY <1>1, <1>3, IdsOf DEF MboxInv, NamedInv, TmpInv
<1>5. DanceInv'
  <2>1. \A x \in Ids(file[index].text) :
           x \in discarded \/ \E m \in Range(kept[index]) : x \in Ids(m.text)
    BY <1>1, AllRead
  <2>2. tmp'[index].there
    BY <1>3 DEF File
  <2> QED BY <1>1, <2>1, <2>2 DEF DanceInv
<1>6. file[index].there /\ 1 \in 1 .. 5 /\ ref[index] <= ref[index]
  BY <1>1, <1>2 DEF MboxInv, StateInv
<1> QED BY <1>1, <1>2, <1>3, <1>4, <1>5, <1>6, DanceStepKeeps


\* The first of the mails on a list, and those after it.
LEMMA FirstAndRest ==
  ASSUME NEW s \in Seq(BoxMails), s # <<>>
  PROVE  /\ Head(s) \in Range(s) /\ Head(s) \in BoxMails /\ Head(s).text \in Seq(Piece)
         /\ Tail(s) \in Seq(BoxMails) /\ Len(Tail(s)) = Len(s) - 1 /\ Len(s) \in Nat \ {0}
         /\ Range(Tail(s)) \subseteq Range(s)
         /\ \A m \in Range(s) : m = Head(s) \/ m \in Range(Tail(s))
<1>1. /\ Head(s) \in BoxMails /\ Tail(s) \in Seq(BoxMails) /\ Len(Tail(s)) = Len(s) - 1
      /\ \A i \in 1 .. Len(Tail(s)) : Tail(s)[i] = s[i + 1]
  BY HeadTailProperties
<1>2. /\ Len(s) \in Nat \ {0} /\ DOMAIN s = 1 .. Len(s)
      /\ DOMAIN Tail(s) = 1 .. (Len(s) - 1) /\ Head(s) = s[1]
  <2>1. Len(s) \in Nat /\ DOMAIN s = 1 .. Len(s) /\ Len(s) # 0
    BY LenProperties, EmptySeq
  <2>2. DOMAIN Tail(s) = 1 .. (Len(s) - 1)
    BY <1>1, LenProperties
  <2> QED BY <2>1, <2>2
<1>3. Head(s) \in Range(s)
  <2>1. 1 \in DOMAIN s
    BY <1>2
  <2> QED BY <1>2, <2>1 DEF Range
<1>4. Range(Tail(s)) \subseteq Range(s)
  <2>1. ASSUME NEW i \in 1 .. (Len(s) - 1) PROVE Tail(s)[i] \in Range(s)
    <3>1. i + 1 \in DOMAIN s /\ Tail(s)[i] = s[i + 1]
      BY <1>1, <1>2
    <3> QED BY <3>1 DEF Range
  <2> QED BY <1>2, <2>1 DEF Range
<1>5. ASSUME NEW m \in Range(s), m # Head(s) PROVE m \in Range(Tail(s))
  <2>1. PICK i \in 1 .. Len(s) : m = s[i]
    BY <1>2 DEF Range
  <2>2. i # 1
    BY <1>2, <1>5, <2>1
  <2>3. i - 1 \in 1 .. (Len(s) - 1) /\ (i - 1) + 1 = i
    BY <1>2, <2>2
  <2>4. Tail(s)[i - 1] = m /\ i - 1 \in DOMAIN Tail(s)
    BY <1>1, <1>2, <2>1, <2>3
  <2> QED BY <2>4 DEF Range
<1>6. Head(s).text \in Seq(Piece)
  BY <1>1 DEF BoxMails
<1> QED BY <1>1, <1>2, <1>3, <1>4, <1>5, <1>6

\* What a kept mail adds to the temporary file is in the mbox still.
LEMMA WriteKeptKeeps ==
  ASSUME MboxInv, WriteKept
  PROVE  MboxInv'
<1> DEFINE m == Head(kept[index])
<1>1. /\ st = "save" /\ dance = 1 /\ kept[index] # <<>>
      /\ tmp' = [tmp EXCEPT ![index] = File(@.text \o m.text)]
      /\ kept' = [kept EXCEPT ![index] = Tail(@)]
      /\ ref' = [ref EXCEPT ![index] = @ - 1]
      /\ UNCHANGED <<st, index, off, total, flight, freed, dance, file, saved, runs, discarded>>
  BY DEF WriteKept, Dances
<1>2. /\ MboxTypeOK /\ index \in Box /\ file \in [Box -> FileType]
      /\ tmp \in [Box -> FileType] /\ saved \in [Box -> FileType]
      /\ kept \in [Box -> Seq(BoxMails)] /\ ref \in [Box -> Nat]
      /\ ref[index] = Len(kept[index]) /\ tmp[index].text \in Seq(Piece)
  BY <1>1, Dancing
<1>3. /\ m \in Range(kept[index]) /\ m \in BoxMails /\ m.text \in Seq(Piece)
      /\ Tail(kept[index]) \in Seq(BoxMails) /\ Len(Tail(kept[index])) = Len(kept[index]) - 1
      /\ Len(kept[index]) \in Nat \ {0} /\ Range(Tail(kept[index])) \subseteq Range(kept[index])
      /\ \A x \in Range(kept[index]) : x = m \/ x \in Range(Tail(kept[index]))
  <2>1. kept[index] \in Seq(BoxMails)
    BY <1>2
  <2> QED BY <1>1, <2>1, FirstAndRest
<1> HIDE DEF m
<1>4. file[index].there /\ Ids(m.text) \subseteq Ids(file[index].text)
  <2>1. Unsaved(index)
    <3>1. index >= index
      BY <1>2, BoxTypes
    <3> QED BY <1>1, <3>1 DEF Unsaved, MboxOver
  <2>2. m \in InMemory(index) /\ dance < 2
    BY <1>1, <1>3 DEF InMemory
  <2> QED BY <1>2, <2>1, <2>2 DEF MboxInv, MailInv
<1>5. /\ tmp[index].text \o m.text \in Seq(Piece)
      /\ Ids(tmp[index].text \o m.text) = Ids(tmp[index].text) \cup Ids(m.text)
  BY <1>2, <1>3, IdsOf
<1>6. /\ tmp' \in [Box -> FileType] /\ \A b \in Box : b # index => tmp'[b] = tmp[b]
      /\ tmp'[index].there
      /\ Ids(tmp'[index].text) = Ids(tmp[index].text) \cup Ids(m.text)
  <2>1. File(tmp[index].text \o m.text) \in FileType
    BY <1>5 DEF File, FileType
  <2>2. /\ tmp' \in [Box -> FileType] /\ tmp'[index] = File(tmp[index].text \o m.text)
        /\ \A b \in Box : b # index => tmp'[b] = tmp[b]
    BY <1>1, <1>2, <2>1
  <2>3. tmp'[index].there /\ tmp'[index].text = tmp[index].text \o m.text
    <3>1. \A t : File(t).there /\ File(t).text = t
      BY DEF File
    <3> QED BY <2>2, <3>1
  <2> QED BY <1>5, <2>2, <2>3
<1>7. /\ kept' \in [Box -> Seq(BoxMails)] /\ kept'[index] = Tail(kept[index])
      /\ \A b \in Box : b # index => kept'[b] = kept[b]
  BY <1>1, <1>2, <1>3
<1>8. /\ ref' \in [Box -> Nat] /\ ref'[index] = Len(kept'[index]) /\ ref'[index] <= ref[index]
      /\ \A b \in Box : b # index => ref'[b] = ref[b]
  <2>1. ref[index] - 1 \in Nat /\ ref[index] - 1 <= ref[index]
    BY <1>2, <1>3
  <2> QED BY <1>1, <1>2, <1>3, <1>7, <2>1
<1>9. NamedInv'
  <2>1. \A b \in Box : Ids(tmp'[b].text) \subseteq Ids(tmp[b].text) \cup Ids(file[b].text)
    BY <1>4, <1>6
  <2> QED BY <1>1, <2>1 DEF MboxInv, NamedInv
<1>10. TmpInv'
  <2>1. \A b \in Box : Ids(tmp'[b].text) \subseteq Ids(tmp[b].text) \cup Ids(file[b].text)
    BY <1>4, <1>6
  <2> QED BY <1>1, <2>1 DEF MboxInv, TmpInv
<1>11. DanceInv'
  <2>1. tmp'[index].there
    BY <1>6
  <2>2. ASSUME NEW x \in Ids(file[index].text), x \notin discarded \cup Ids(tmp'[index].text)
        PROVE  \E y \in Range(kept'[index]) : x \in Ids(y.text)
    <3>1. x \notin discarded \cup Ids(tmp[index].text) /\ x \notin Ids(m.text)
      BY <2>2, <1>6
    <3>2. PICK y \in Range(kept[index]) : x \in Ids(y.text)
      BY <1>1, <3>1 DEF MboxInv, DanceInv
    <3>3. y \in Range(kept'[index])
      BY <3>1, <3>2, <1>3, <1>7
    <3> QED BY <3>2, <3>3
  <2> QED BY <1>1, <2>1, <2>2 DEF DanceInv
<1>12. Range(kept'[index]) \subseteq Range(kept[index]) /\ dance' \in 1 .. 5
  BY <1>1, <1>3, <1>7
<1> QED BY <1>1, <1>2, <1>4, <1>6, <1>7, <1>8, <1>9, <1>10, <1>11, <1>12, DanceStepKeeps

LEMMA LinkSavedKeeps ==
  ASSUME MboxInv, LinkSaved
  PROVE  MboxInv'
<1>1. /\ st = "save" /\ dance = 1 /\ kept[index] = <<>> /\ UNCHANGED <<file, runs, discarded>>
  BY DEF LinkSaved, Dances
<1>2. /\ MboxTypeOK /\ index \in Box /\ file \in [Box -> FileType]
      /\ tmp \in [Box -> FileType] /\ saved \in [Box -> FileType]
      /\ kept \in [Box -> Seq(BoxMails)] /\ ref \in [Box -> Nat]
      /\ ref[index] = Len(kept[index]) /\ ref[index] \in Nat
  BY <1>1, Dancing
<1>3. /\ saved' = [saved EXCEPT ![index] = file[index]] /\ dance' = 2
      /\ UNCHANGED <<st, index, off, ref, total, flight, kept, freed, tmp>>
  BY DEF LinkSaved
<1>4. /\ saved' \in [Box -> FileType] /\ saved'[index] = file[index]
      /\ \A b \in Box : b # index => saved'[b] = saved[b]
  BY <1>2, <1>3
<1>5. NamedInv' /\ TmpInv'
  BY <1>1, <1>3, <1>4 DEF MboxInv, NamedInv, TmpInv
<1>6. Range(kept[index]) = {}
  BY <1>1 DEF Range
<1>7. Ids(file[index].text) \subseteq discarded \cup Ids(tmp[index].text) /\ tmp[index].there
  BY <1>1, <1>6 DEF MboxInv, DanceInv
<1>8. DanceInv'
  BY <1>1, <1>3, <1>4, <1>7 DEF DanceInv
<1>9. file[index].there /\ ref[index] <= ref[index] /\ 2 \in 1 .. 5
  BY <1>1, <1>2 DEF MboxInv, StateInv
<1> QED BY <1>1, <1>2, <1>3, <1>4, <1>5, <1>8, <1>9, DanceStepKeeps

LEMMA UnlinkMboxKeeps ==
  ASSUME MboxInv, UnlinkMbox
  PROVE  MboxInv'
<1>1. /\ st = "save" /\ dance = 2 /\ dance' = 3
      /\ file' = [file EXCEPT ![index] = Missing]
      /\ UNCHANGED <<st, index, off, ref, total, flight, kept, freed, tmp, saved, runs,
                     discarded>>
  BY DEF UnlinkMbox, Dances
<1>2. /\ MboxTypeOK /\ index \in Box /\ file \in [Box -> FileType]
      /\ tmp \in [Box -> FileType] /\ saved \in [Box -> FileType] /\ Missing \in FileType
      /\ kept \in [Box -> Seq(BoxMails)] /\ ref \in [Box -> Nat]
      /\ ref[index] = Len(kept[index]) /\ ref[index] \in Nat
  BY <1>1, Dancing
<1>3. /\ file' \in [Box -> FileType] /\ file'[index] = Missing
      /\ \A b \in Box : b # index => file'[b] = file[b]
  BY <1>1, <1>2
<1>4. NamedInv'
  BY <1>1, <1>3, IdsOf DEF MboxInv, NamedInv
<1>5. TmpInv'
  <2>1. ~Missing.there
    BY DEF Missing
  <2> QED BY <1>1, <1>3, <2>1 DEF MboxInv, TmpInv
<1>6. DanceInv'
  <2>1. /\ tmp[index].there /\ kept[index] = <<>>
        /\ Ids(saved[index].text) \subseteq discarded \cup Ids(tmp[index].text)
        /\ saved[index] = file[index] /\ file[index].there
    BY <1>1 DEF MboxInv, DanceInv, StateInv
  <2>2. Ids(tmp[index].text) \subseteq discarded \cup Ids(saved[index].text)
    BY <1>2, <2>1 DEF MboxInv, TmpInv
  <2> QED BY <1>1, <1>3, <2>1, <2>2 DEF DanceInv
<1>7. 3 \in 1 .. 5 /\ ref[index] <= ref[index]
  BY <1>2
<1> QED BY <1>1, <1>2, <1>3, <1>4, <1>5, <1>6, <1>7, DanceStepKeeps

LEMMA LinkMboxKeeps ==
  ASSUME MboxInv, LinkMbox
  PROVE  MboxInv'
<1>1. /\ st = "save" /\ dance = 3 /\ dance' = 4
      /\ file' = [file EXCEPT ![index] = tmp[index]]
      /\ UNCHANGED <<st, index, off, ref, total, flight, kept, freed, tmp, saved, runs,
                     discarded>>
  BY DEF LinkMbox, Dances
<1>2. /\ MboxTypeOK /\ index \in Box /\ file \in [Box -> FileType]
      /\ tmp \in [Box -> FileType] /\ saved \in [Box -> FileType]
      /\ kept \in [Box -> Seq(BoxMails)] /\ ref \in [Box -> Nat]
      /\ ref[index] = Len(kept[index]) /\ ref[index] \in Nat
  BY <1>1, Dancing
<1>3. /\ file' \in [Box -> FileType] /\ file'[index] = tmp[index]
      /\ \A b \in Box : b # index => file'[b] = file[b]
  BY <1>1, <1>2
<1>4. NamedInv' /\ TmpInv'
  BY <1>1, <1>3 DEF MboxInv, NamedInv, TmpInv
<1>5. DanceInv'
  <2>1. /\ tmp[index].there /\ kept[index] = <<>>
        /\ Ids(saved[index].text) \subseteq discarded \cup Ids(tmp[index].text)
    BY <1>1 DEF MboxInv, DanceInv
  <2> QED BY <1>1, <1>3, <2>1 DEF DanceInv
<1>6. 4 \in 1 .. 5 /\ ref[index] <= ref[index]
  BY <1>2
<1> QED BY <1>1, <1>2, <1>3, <1>4, <1>5, <1>6, DanceStepKeeps

LEMMA UnlinkTmpKeeps ==
  ASSUME MboxInv, UnlinkTmp
  PROVE  MboxInv'
<1>1. /\ st = "save" /\ dance = 4 /\ dance' = 5
      /\ tmp' = [tmp EXCEPT ![index] = Missing]
      /\ UNCHANGED <<st, index, off, ref, total, flight, kept, freed, file, saved, runs,
                     discarded>>
  BY DEF UnlinkTmp, Dances
<1>2. /\ MboxTypeOK /\ index \in Box /\ file \in [Box -> FileType]
      /\ tmp \in [Box -> FileType] /\ saved \in [Box -> FileType] /\ Missing \in FileType
      /\ kept \in [Box -> Seq(BoxMails)] /\ ref \in [Box -> Nat]
      /\ ref[index] = Len(kept[index]) /\ ref[index] \in Nat
  BY <1>1, Dancing
<1>3. /\ tmp' \in [Box -> FileType] /\ tmp'[index] = Missing
      /\ \A b \in Box : b # index => tmp'[b] = tmp[b]
  BY <1>1, <1>2
<1>4. NamedInv' /\ TmpInv'
  BY <1>1, <1>3, IdsOf DEF MboxInv, NamedInv, TmpInv
<1>5. DanceInv'
  <2>1. /\ tmp[index].there /\ file[index] = tmp[index] /\ kept[index] = <<>>
        /\ Ids(saved[index].text) \subseteq discarded \cup Ids(tmp[index].text)
    BY <1>1 DEF MboxInv, DanceInv
  <2>2. file[index].there
    BY <2>1
  <2> QED BY <1>1, <2>1, <2>2 DEF DanceInv
<1>6. 5 \in 1 .. 5 /\ ref[index] <= ref[index]
  BY <1>2
<1> QED BY <1>1, <1>2, <1>3, <1>4, <1>5, <1>6, DanceStepKeeps

LEMMA UnlinkSavedKeeps ==
  ASSUME MboxInv, UnlinkSaved
  PROVE  MboxInv'
<1>1. /\ st = "save" /\ dance = 5 /\ SavedBox
      /\ saved' = [saved EXCEPT ![index] = Missing]
      /\ UNCHANGED <<ref, kept, freed, file, tmp, runs, discarded>>
  BY DEF UnlinkSaved, Dances
<1>2. /\ MboxTypeOK /\ index \in Box /\ file \in [Box -> FileType]
      /\ tmp \in [Box -> FileType] /\ saved \in [Box -> FileType] /\ Missing \in FileType
      /\ ref \in [Box -> Nat] /\ ref[index] = Len(kept[index])
  BY <1>1, Dancing
<1>3. /\ saved' \in [Box -> FileType] /\ saved'[index] = Missing
      /\ \A b \in Box : b # index => saved'[b] = saved[b]
  BY <1>1, <1>2
<1>4. NamedInv' /\ TmpInv'
  BY <1>1, <1>3, IdsOf DEF MboxInv, NamedInv, TmpInv
<1>5. ref' = [ref EXCEPT ![index] = 0]
  <2>1. kept[index] = <<>>
    BY <1>1 DEF MboxInv, DanceInv
  <2>2. Len(kept[index]) = 0
    BY <2>1
  <2>3. ref[index] = 0
    BY <1>2, <2>2
  <2> QED BY <1>1, <1>2, <2>3
<1>6. freed' \subseteq BoxMails
  BY <1>1, <1>2 DEF MboxTypeOK
<1> QED BY <1>1, <1>2, <1>3, <1>4, <1>5, <1>6, SavedBoxKeeps

LEMMA SaveFailsKeeps ==
  ASSUME MboxInv, SaveFails
  PROVE  MboxInv'
<1>1. /\ tmp' = [tmp EXCEPT ![index] = Missing] /\ st' = "aborted" /\ Freed
      /\ UNCHANGED <<file, saved, runs, discarded>>
  BY DEF SaveFails
<1>2. runs' \in Nat
  BY <1>1 DEF MboxInv, MboxTypeOK
<1> QED BY <1>1, <1>2, AllFreed
-----------------------------------------------------------------------------
(* The mbox handler: every step.                                           *)

LEMMA MboxStart ==
  ASSUME MboxInit
  PROVE  MboxInv
<1>1. Boxes \in Nat \ {0} /\ Box = 1 .. Boxes /\ MaxMails \in Nat
  BY MboxAssumption DEF Box
<1>2. PICK n \in [Box -> 0 .. MaxMails] :
        file = [b \in Box |-> File([k \in 1 .. n[b] |-> [id |-> <<b, k>>, from |-> TRUE]])]
  BY DEF MboxInit
<1>3. /\ st = "open" /\ index = 1 /\ off = 1 /\ flight = {} /\ kept = NoneKept /\ freed = {}
      /\ dance = 0 /\ ref = [b \in Box |-> 0] /\ total = [b \in Box |-> 0]
      /\ tmp = [b \in Box |-> Missing] /\ saved = [b \in Box |-> Missing]
      /\ runs = 1 /\ discarded = {}
  BY DEF MboxInit
<1>4. ASSUME NEW b \in Box
      PROVE  /\ file[b] \in FileType /\ file[b].there
             /\ \A x \in Ids(file[b].text) : x[1] = b
  <2> DEFINE t == [k \in 1 .. n[b] |-> [id |-> <<b, k>>, from |-> TRUE]]
  <2>1. n[b] \in Nat /\ n[b] <= MaxMails
    BY <1>1, <1>2
  <2>2. \A k \in 1 .. n[b] : k \in 1 .. MaxMails
    BY <1>1, <2>1
  <2>3. t \in Seq(Piece)
    <3>1. \A k \in 1 .. n[b] : [id |-> <<b, k>>, from |-> TRUE] \in Piece
      BY <2>2 DEF Piece, Id
    <3>2. t \in [1 .. n[b] -> Piece]
      BY <3>1
    <3> QED BY <2>1, <3>2, SeqDef
  <2>4. \A x \in Ids(t) : x[1] = b
    <3>1. DOMAIN t = 1 .. n[b] /\ \A k \in 1 .. n[b] : t[k].id = <<b, k>>
      OBVIOUS
    <3> HIDE DEF t
    <3>2. \A k : <<b, k>>[1] = b
      OBVIOUS
    <3> QED BY <3>1, <3>2 DEF Ids
  <2>5. file[b] = File(t)
    BY <1>2
  <2> HIDE DEF t
  <2>6. file[b].there /\ file[b].text = t /\ file[b] \in FileType
    BY <2>3, <2>5 DEF File, FileType
  <2> QED BY <2>4, <2>6
<1>5. \A b \in Box : /\ tmp[b] = Missing /\ saved[b] = Missing /\ kept[b] = <<>>
                     /\ ref[b] = 0 /\ total[b] = 0
  BY <1>3 DEF NoneKept
<1>6. MboxTypeOK
  <2>1. /\ tmp \in [Box -> FileType] /\ saved \in [Box -> FileType]
    BY <1>3 DEF Missing, FileType
  <2>2. file \in [Box -> FileType]
    BY <1>2, <1>4
  <2>3. kept \in [Box -> Seq(BoxMails)]
    BY <1>3 DEF NoneKept
  <2>4. 1 \in Box /\ 1 \in Nat \ {0} /\ 0 \in 0 .. 5
    BY <1>1
  <2>5. {file, tmp, saved} \subseteq [Box -> [there : BOOLEAN, text : Seq(Piece)]]
    BY <2>1, <2>2 DEF FileType
  <2>6. ref \in [Box -> Nat] /\ total \in [Box -> Nat]
    BY <1>3
  <2> QED BY <1>3, <2>3, <2>4, <2>5, <2>6 DEF MboxTypeOK
<1>7. NamedInv
  BY <1>4, <1>5, IdsOf DEF NamedInv
<1>8. StateInv
  BY <1>1, <1>3, <1>4 DEF StateInv
<1>9. \A b \in Box : ~(b < 1)
  BY <1>1
<1>10. \A b \in Box : Range(kept[b]) = {} /\ InMemory(b) = {} /\ Len(kept[b]) = 0
  BY <1>3, <1>5 DEF InMemory, InFlight, Range
<1>11. MailInv
  BY <1>3, <1>10 DEF MailInv
<1>12. CountInv
  <2>1. \A b \in Box : Cardinality({m \in flight : m.box = b}) = 0
    <3>1. \A b \in Box : {m \in flight : m.box = b} = {}
      BY <1>3
    <3> QED BY <3>1, FS_EmptySet
  <2>2. IsFiniteSet(flight)
    BY <1>3, FS_EmptySet
  <2> QED BY <1>3, <1>5, <1>10, <2>1, <2>2 DEF CountInv, ReferencesCounted
<1>13. ReadInv
  <2>1. \A b \in Box : ReadTo(b) = 0
    BY <1>3, <1>9 DEF ReadTo
  <2> QED BY <2>1 DEF ReadInv
<1>14. TmpInv
  BY <1>5, IdsOf DEF TmpInv
<1>15. DanceInv
  BY <1>3 DEF DanceInv
<1> QED BY <1>6, <1>7, <1>8, <1>11, <1>12, <1>13, <1>14, <1>15 DEF MboxInv

LEMMA MboxStep ==
  ASSUME MboxInv, [MboxNext]_mboxVars
  PROVE  MboxInv'
<1>1. CASE Reading
  BY <1>1, OpenBoxKeeps, NextBoxKeeps, ReadMailKeeps, ExitKeeps DEF Reading
<1>2. CASE Saving
  BY <1>2, SaveWholeKeeps, SavePartKeeps, WriteKeptKeeps, LinkSavedKeeps, UnlinkMboxKeeps,
     LinkMboxKeeps, UnlinkTmpKeeps, UnlinkSavedKeeps, SaveFailsKeeps DEF Saving
<1>3. CASE Commits
  BY <1>3, BoxCommitKeeps DEF Commits
<1>4. runs \in Nat
  BY DEF MboxInv, MboxTypeOK
<1>5. CASE Stops
  <2>1. st' = "aborted" /\ Freed /\ UNCHANGED <<file, tmp, saved, runs, discarded>>
    BY <1>5 DEF Stops, diskVars
  <2> QED BY <1>4, <2>1, AllFreed
<1>6. CASE Restart
  <2>1. st' = "open" /\ Freed /\ UNCHANGED <<file, tmp, saved, discarded>> /\ runs' = runs + 1
    BY <1>6 DEF Restart, diskVars
  <2> QED BY <1>4, <2>1, AllFreed
<1>7. CASE UNCHANGED mboxVars
  <2>1. UNCHANGED <<st, index, off, ref, total, flight, kept, freed, dance, file, tmp, saved,
                    runs, discarded>>
    BY <1>7 DEF mboxVars, memVars, diskVars
  <2>2. MboxTypeOK'
    BY <2>1 DEF MboxInv, MboxTypeOK
  <2>3. NamedInv' /\ TmpInv'
    BY <2>1 DEF MboxInv, NamedInv, TmpInv
  <2>4. StateInv'
    BY <2>1 DEF MboxInv, StateInv
  <2>5. CountInv'
    BY <2>1 DEF MboxInv, CountInv, ReferencesCounted
  <2>6. DanceInv'
    BY <2>1 DEF MboxInv, DanceInv
  <2>7. MailInv'
    BY <2>1 DEF MboxInv, MailInv, Unsaved, InMemory, InFlight
  <2>8. ReadInv'
    BY <2>1 DEF MboxInv, ReadInv, ReadTo, Unsaved, InMemory, InFlight
  <2> QED BY <2>2, <2>3, <2>4, <2>5, <2>6, <2>7, <2>8 DEF MboxInv
<1> QED BY <1>1, <1>2, <1>3, <1>5, <1>6, <1>7 DEF MboxNext, MboxRest

\* Every run of the handler, over any number of mboxes and mails, keeps the
\* types of its variables.
THEOREM MboxTypeCorrect == MboxSpec => []MboxTypeOK
<1>1. MboxInit => MboxInv
  BY MboxStart
<1>2. MboxInv /\ [MboxNext]_mboxVars => MboxInv'
  BY MboxStep
<1>3. MboxInv => MboxTypeOK
  BY DEF MboxInv
<1> QED BY <1>1, <1>2, <1>3, PTL DEF MboxSpec

\* The count by which fetch_mbox_save decides between truncating a file, leaving it
\* alone and rewriting it is the number of the mails in memory, and none is left
\* dangling after an mbox has been saved (fetch-mbox.c:221).
THEOREM ReferencesAreCounted == MboxSpec => []ReferencesCounted
<1>1. MboxInit => MboxInv
  BY MboxStart
<1>2. MboxInv /\ [MboxNext]_mboxVars => MboxInv'
  BY MboxStep
<1>3. MboxInv => ReferencesCounted
  BY DEF MboxInv, CountInv
<1> QED BY <1>1, <1>2, <1>3, PTL DEF MboxSpec
-----------------------------------------------------------------------------
(* The mbox handler: nothing is lost.                                      *)

\* A backup that is not there has nothing.
BackupInv == \A b \in Box : ~saved[b].there => Ids(saved[b].text) = {}

LEMMA BackupStep ==
  ASSUME MboxInv, BackupInv, [MboxNext]_mboxVars
  PROVE  BackupInv'
<1>1. CASE LinkSaved
  <2>1. st = "save" /\ dance = 1
    BY <1>1 DEF LinkSaved, Dances
  <2>2. /\ index \in Box /\ saved \in [Box -> FileType] /\ file[index].there
    BY <2>1, Dancing DEF MboxInv, StateInv
  <2>3. saved' = [saved EXCEPT ![index] = file[index]]
    BY <1>1 DEF LinkSaved
  <2> QED BY <2>2, <2>3 DEF BackupInv
<1>2. CASE UnlinkSaved
  <2>1. st = "save" /\ saved' = [saved EXCEPT ![index] = Missing]
    BY <1>2 DEF UnlinkSaved, Dances
  <2>2. index \in Box /\ saved \in [Box -> FileType]
    BY <2>1, Dancing
  <2> QED BY <2>1, <2>2, IdsOf DEF BackupInv
<1>3. CASE UNCHANGED saved
  BY <1>3 DEF BackupInv
<1>4. ~LinkSaved /\ ~UnlinkSaved => UNCHANGED saved
  BY DEF MboxNext, Reading, Saving, Commits, OpenBox, NextBox, ReadMail, Exit, SaveWhole,
         SavePart, WriteKept, UnlinkMbox, LinkMbox, UnlinkTmp, SaveFails, Commit, Stops,
         Restart, MboxRest, mboxVars, diskVars
<1> QED BY <1>1, <1>2, <1>3, <1>4

\* The names in the mbox and in the files of its replacement.
IdsIn(b) == Ids(file[b].text) \cup Ids(tmp[b].text) \cup Ids(saved[b].text)

LEMMA InFilesOf ==
  ASSUME MboxTypeOK
  PROVE  \A x : x \in InFiles <=> \E b \in Box : x \in IdsIn(b)
<1>1. ASSUME NEW b \in Box
      PROVE  Ids(file[b].text \o tmp[b].text \o saved[b].text) = IdsIn(b)
  <2>1. /\ file[b].text \in Seq(Piece) /\ tmp[b].text \in Seq(Piece)
        /\ saved[b].text \in Seq(Piece)
    BY BoxTypes
  <2>2. /\ file[b].text \o tmp[b].text \in Seq(Piece)
        /\ Ids(file[b].text \o tmp[b].text) = Ids(file[b].text) \cup Ids(tmp[b].text)
    BY <2>1, IdsOf
  <2>3. Ids((file[b].text \o tmp[b].text) \o saved[b].text)
          = Ids(file[b].text \o tmp[b].text) \cup Ids(saved[b].text)
    BY <2>1, <2>2, IdsOf
  <2> QED BY <2>2, <2>3 DEF IdsIn
<1> QED BY <1>1 DEF InFiles

\* A step leaves in the files all that has not been dropped.
LEMMA FilesLeft ==
  ASSUME MboxInv, BackupInv, [MboxNext]_mboxVars, NEW b \in Box
  PROVE  IdsIn(b) \subseteq discarded \cup IdsIn(b)'
<1>1. CASE UNCHANGED diskVars
  BY <1>1 DEF IdsIn, diskVars
<1>2. CASE SaveWhole
  <2>1. /\ st = "save" /\ dance = 0 /\ UNCHANGED <<tmp, saved>>
        /\ file' = file \/ (ref[index] = 0 /\ file' = [file EXCEPT ![index] = File(<<>>)])
    BY <1>2 DEF SaveWhole
  <2>2. index \in Box /\ file \in [Box -> FileType]
    BY <2>1, Dancing
  <2>3. file'[b] = file[b] \/ Ids(file[b].text) \subseteq discarded
    BY <1>2, <2>1, <2>2, TruncatedIsDropped
  <2> QED BY <2>1, <2>3 DEF IdsIn
<1>3. ASSUME st = "save", UNCHANGED <<file, saved>>, file[index].there,
             \E f \in FileType : tmp' = [tmp EXCEPT ![index] = f]
      PROVE  IdsIn(b) \subseteq discarded \cup IdsIn(b)'
  <2>1. index \in Box /\ tmp \in [Box -> FileType]
    BY <1>3, Dancing
  <2>2. tmp'[b] = tmp[b] \/ b = index
    BY <1>3, <2>1
  <2>3. Ids(tmp[index].text) \subseteq discarded \cup Ids(file[index].text)
    BY <1>3, <2>1 DEF MboxInv, TmpInv
  <2> QED BY <1>3, <2>2, <2>3 DEF IdsIn
<1>4. CASE SavePart
  <2>1. /\ st = "save" /\ dance = 0 /\ UNCHANGED <<file, saved>>
        /\ tmp' = [tmp EXCEPT ![index] = File(<<>>)]
    BY <1>4 DEF SavePart
  <2>2. file[index].there /\ File(<<>>) \in FileType
    BY <2>1, Dancing DEF MboxInv, StateInv
  <2> QED BY <1>3, <2>1, <2>2
<1>5. CASE WriteKept
  <2>1. /\ st = "save" /\ dance = 1 /\ kept[index] # <<>> /\ UNCHANGED <<file, saved>>
        /\ tmp' = [tmp EXCEPT ![index] = File(@.text \o Head(kept[index]).text)]
    BY <1>5 DEF WriteKept, Dances
  <2>2. /\ file[index].there /\ index \in Box /\ tmp[index].text \in Seq(Piece)
        /\ kept[index] \in Seq(BoxMails)
    BY <2>1, Dancing DEF MboxInv, StateInv
  <2>3. Head(kept[index]).text \in Seq(Piece)
    BY <2>1, <2>2, FirstAndRest
  <2>4. tmp[index].text \o Head(kept[index]).text \in Seq(Piece)
    BY <2>2, <2>3, IdsOf
  <2>5. File(tmp[index].text \o Head(kept[index]).text) \in FileType
    BY <2>4 DEF File, FileType
  <2> QED BY <1>3, <2>1, <2>2, <2>5
<1>6. CASE LinkSaved
  <2>1. st = "save" /\ dance = 1 /\ UNCHANGED file
    BY <1>6 DEF LinkSaved, Dances
  <2>2. /\ file[index].there /\ index \in Box /\ saved \in [Box -> FileType]
    BY <2>1, Dancing DEF MboxInv, StateInv
  <2>3. /\ ~saved[index].there /\ UNCHANGED tmp
        /\ saved' = [saved EXCEPT ![index] = file[index]]
    BY <1>6 DEF LinkSaved
  <2>4. saved'[b] = saved[b] \/ (b = index /\ Ids(saved[b].text) = {})
    BY <2>2, <2>3 DEF BackupInv
  <2> QED BY <2>1, <2>3, <2>4 DEF IdsIn
<1>7. CASE UnlinkMbox
  <2>1. /\ st = "save" /\ dance = 2 /\ UNCHANGED <<tmp, saved>>
        /\ file' = [file EXCEPT ![index] = Missing]
    BY <1>7 DEF UnlinkMbox, Dances
  <2>2. /\ index \in Box /\ file \in [Box -> FileType] /\ saved[index] = file[index]
    BY <2>1, Dancing DEF MboxInv, DanceInv
  <2>3. file'[b] = file[b] \/ saved[b] = file[b]
    BY <2>1, <2>2
  <2> QED BY <2>1, <2>3 DEF IdsIn
<1>8. CASE LinkMbox
  <2>1. /\ st = "save" /\ dance = 3 /\ UNCHANGED <<tmp, saved>>
        /\ file' = [file EXCEPT ![index] = tmp[index]]
    BY <1>8 DEF LinkMbox, Dances
  <2>2. /\ index \in Box /\ file \in [Box -> FileType] /\ file[index] = Missing
    BY <2>1, Dancing DEF MboxInv, DanceInv
  <2>3. file'[b] = file[b] \/ Ids(file[b].text) = {}
    BY <2>1, <2>2, IdsOf
  <2> QED BY <2>1, <2>3 DEF IdsIn
<1>9. CASE UnlinkTmp
  <2>1. /\ st = "save" /\ dance = 4 /\ UNCHANGED <<file, saved>>
        /\ tmp' = [tmp EXCEPT ![index] = Missing]
    BY <1>9 DEF UnlinkTmp, Dances
  <2>2. /\ index \in Box /\ tmp \in [Box -> FileType] /\ file[index] = tmp[index]
    BY <2>1, Dancing DEF MboxInv, DanceInv
  <2>3. tmp'[b] = tmp[b] \/ file[b] = tmp[b]
    BY <2>1, <2>2
  <2> QED BY <2>1, <2>3 DEF IdsIn
<1>10. CASE UnlinkSaved
  <2>1. /\ st = "save" /\ dance = 5 /\ UNCHANGED <<file, tmp>>
        /\ saved' = [saved EXCEPT ![index] = Missing]
    BY <1>10 DEF UnlinkSaved, Dances
  <2>2. /\ index \in Box /\ saved \in [Box -> FileType]
        /\ Ids(saved[index].text) \subseteq discarded \cup Ids(file[index].text)
    BY <2>1, Dancing DEF MboxInv, DanceInv
  <2>3. saved'[b] = saved[b] \/ b = index
    BY <2>1, <2>2
  <2> QED BY <2>1, <2>2, <2>3 DEF IdsIn
<1>11. CASE SaveFails
  <2>1. /\ st = "save" /\ dance > 0 /\ UNCHANGED <<file, saved>>
        /\ tmp' = [tmp EXCEPT ![index] = Missing]
    BY <1>11 DEF SaveFails
  <2>2. index \in Box /\ tmp \in [Box -> FileType] /\ dance \in 0 .. 5
    BY <2>1, Dancing
  <2>3. dance = 1 \/ dance = 2 \/ dance = 3 \/ dance = 4 \/ dance = 5
    BY <2>1, <2>2
  <2>4. dance # 3 => file[index].there
    <3>1. dance < 3 => file[index].there
      BY <2>1 DEF MboxInv, StateInv
    <3>2. dance = 4 \/ dance = 5 => file[index].there
      BY <2>1 DEF MboxInv, DanceInv
    <3> QED BY <2>3, <3>1, <3>2
  <2>5. dance # 3 => Ids(tmp[index].text) \subseteq discarded \cup Ids(file[index].text)
    BY <2>2, <2>4 DEF MboxInv, TmpInv
  <2>6. dance = 3 => Ids(tmp[index].text) \subseteq discarded \cup Ids(saved[index].text)
    BY <2>1 DEF MboxInv, DanceInv
  <2>7. tmp'[b] = tmp[b] \/ b = index
    BY <2>1, <2>2
  <2> QED BY <2>1, <2>5, <2>6, <2>7 DEF IdsIn
<1>12. ~Saving => UNCHANGED diskVars
  BY DEF MboxNext, Reading, Commits, OpenBox, NextBox, ReadMail, Exit, Commit, Stops, Restart,
         MboxRest, mboxVars
<1> QED BY <1>1, <1>2, <1>4, <1>5, <1>6, <1>7, <1>8, <1>9, <1>10, <1>11, <1>12
         DEF Saving

\* Whatever the step at which fetch_mbox_save is cut short, and however often fdm is
\* run again on what is then there, a mail that has not been dropped is in the mbox,
\* its temporary or its backup.
THEOREM NothingIsLost == MboxSpec => NothingLost
<1>1. MboxInit => MboxInv /\ BackupInv
  <2>1. ASSUME MboxInit PROVE BackupInv
    BY <2>1, IdsOf DEF MboxInit, BackupInv
  <2> QED BY <2>1, MboxStart
<1>2. MboxInv /\ BackupInv /\ [MboxNext]_mboxVars => (MboxInv /\ BackupInv)'
  BY MboxStep, BackupStep
<1>3. MboxTypeOK => \A x : x \in InFiles <=> \E b \in Box : x \in IdsIn(b)
  BY InFilesOf
<1>4. (MboxTypeOK => \A x : x \in InFiles <=> \E b \in Box : x \in IdsIn(b))'
  BY <1>3, PTL
<1>5. MboxInv /\ BackupInv /\ [MboxNext]_mboxVars
        => [InFiles \ InFiles' \subseteq discarded]_mboxVars
  <2>1. SUFFICES ASSUME MboxInv, BackupInv, [MboxNext]_mboxVars, NEW x \in InFiles,
                        x \notin InFiles'
                 PROVE  x \in discarded
    OBVIOUS
  <2>2. MboxTypeOK /\ MboxTypeOK'
    BY <2>1, MboxStep DEF MboxInv
  <2>3. PICK b \in Box : x \in IdsIn(b)
    BY <1>3, <2>1, <2>2
  <2>4. x \notin IdsIn(b)'
    BY <1>4, <2>1, <2>2
  <2> QED BY <2>1, <2>3, <2>4, FilesLeft
<1> QED BY <1>1, <1>2, <1>5, PTL DEF MboxSpec, NothingLost
=============================================================================

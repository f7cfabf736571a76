---------------------------- MODULE MaildirProofs ----------------------------
(***************************************************************************)
(* Proofs about a maildir, for any number of deliver children, mails and   *)
(* runs: what is found is whole, a run fetches no mail twice, and what a   *)
(* complete fetch has dropped is gone.                                     *)
(*                                                                         *)
(* All three rest on the life of a name: it is in new or cur only after    *)
(* its delivery has linked it, it is never in both, and once it has left   *)
(* new it does not come back.                                              *)
(***************************************************************************)
EXTENDS Maildir, TLAPS

\* The delivery of a mail has put it into the maildir, if it ever will.
Linked(m) ==
  m \in Deliverers =>
    \/ pc[m] \in {"ok", "killed"}
    \/ pc[m] \in {"unlink", "unnote"} /\ moved[m] = "ok"

\* A mail that is never in new again, and one that is in the maildir no more.
PastNew(m) == m \notin new /\ Linked(m)
Gone(m)    == m \notin new \cup cur /\ Linked(m)

\* What is in the maildir has been linked there, and what is about to be
\* linked has been written.
NamesInv ==
  /\ new \cap cur = {}
  /\ \A m \in new \cup cur : Linked(m)
  /\ \A d \in Deliverers : pc[d] = "link" => text[d] = "whole"
  /\ FoundWhole

\* What this run has fetched it cannot fetch again: readdir has returned it, or
\* it has been taken from cur, and new is still to be read.
TakenInv ==
  \A m \in Mail : taken[m] # 0 =>
    /\ taken[m] = 1
    /\ \/ st # "open" /\ m \in listed /\ (index = 1 => PastNew(m))
       \/ index # 1 /\ PastNew(m)

\* What this run has dropped is gone, or will be unlinked before it is done.
DroppedInv ==
  /\ st = "leaving" => unlinklist = {}
  /\ st = "done" => unlinklist = {}
  /\ st # "aborted" =>
       \A m \in dropped : Gone(m) \/ \E x \in unlinklist : x.mail = m

-----------------------------------------------------------------------------
(* Types.                                                                  *)

LEMMA PathFacts == /\ Len(Paths) = 2 /\ DOMAIN Paths = 1 .. 2
                   /\ Paths[1] = "cur" /\ Paths[2] = "new"
                   /\ In(Paths[1]) = cur /\ In(Paths[2]) = new
BY DEF Paths, In

LEMMA TypeInit == Init => TypeOK
BY MaildirAssumption, PathFacts DEF Init, TypeOK, Mail, Ended, Over, Leaving

LEMMA TypeStep == TypeOK /\ [Next]_vars => TypeOK'
<1> SUFFICES ASSUME TypeOK, [Next]_vars PROVE TypeOK'
  OBVIOUS
<1> USE MaildirAssumption, PathFacts
<1>1. ASSUME NEW d \in Deliverers, Delivery(d) PROVE TypeOK'
  <2> USE DEF TypeOK, Mail, Ended, Over, Leaving, fetchVars, scanVars, dirVars, At, Goto,
              Moved, Clash
  <2>1. CASE Create(d)
    BY <2>1 DEF Create
  <2>2. CASE Register(d)
    BY <2>2 DEF Register
  <2>3. CASE Write(d)
    BY <2>3 DEF Write
  <2>4. CASE Sync(d)
    BY <2>4 DEF Sync
  <2>5. CASE Link(d)
    BY <2>5 DEF Link
  <2>6. CASE Unlink(d)
    BY <2>6 DEF Unlink
  <2>7. CASE Deregister(d)
    BY <2>7 DEF Deregister
  <2> QED
    BY <1>1, <2>1, <2>2, <2>3, <2>4, <2>5, <2>6, <2>7 DEF Delivery
<1>2. ASSUME NEW d \in Deliverers, Term(d) PROVE TypeOK'
  BY <1>2 DEF TypeOK, Mail, Term, Goto, Ended, fetchVars, scanVars
<1>3. CASE Fetching
  <2> USE DEF TypeOK, Mail, Over, Leaving, deliverVars, dirVars, scanVars, Handler, Aborted
  <2>1. CASE Open
    BY <2>1 DEF Open, In
  <2>2. CASE ReadAll
    BY <2>2 DEF ReadAll
  <2>3. ASSUME NEW m \in Mail, Fetch(m) PROVE TypeOK'
    <3>1. index \in 1 .. 2 /\ Paths[index] \in {"cur", "new"}
      BY <2>3 DEF Fetch
    <3> QED
      BY <2>3, <3>1 DEF Fetch
  <2>4. ASSUME NEW x \in unlinklist, UnlinkMail(x) PROVE TypeOK'
    BY <2>4 DEF UnlinkMail
  <2>5. CASE NextPath
    BY <2>5 DEF NextPath
  <2> QED
    BY <1>3, <2>1, <2>2, <2>3, <2>4, <2>5 DEF Fetching
<1>4. ASSUME NEW x \in flight, Commit(x) PROVE TypeOK'
  BY <1>4 DEF TypeOK, Mail, Commit, deliverVars, dirVars, scanVars
<1>5. CASE Fails
  BY <1>5 DEF TypeOK, Mail, Fails, Aborted, Over, deliverVars, dirVars, scanVars
<1>6. CASE Restart
  BY <1>6 DEF TypeOK, Mail, Restart, Over, deliverVars, dirVars, scanVars
<1>7. ASSUME NEW m \in Mail, See(m) \/ Erase(m) PROVE TypeOK'
  BY <1>7 DEF TypeOK, Mail, See, Erase, deliverVars, fetchVars, scanVars
<1>8. CASE UNCHANGED vars
  BY <1>8 DEF TypeOK, vars, dirVars, deliverVars, fetchVars, scanVars
<1> QED
  BY <1>1, <1>2, <1>3, <1>4, <1>5, <1>6, <1>7, <1>8 DEF Next, Commits, Rest

-----------------------------------------------------------------------------
(* The life of a name.                                                     *)

LEMMA NamesInit == Init => NamesInv
BY MaildirAssumption DEF Init, NamesInv, FoundWhole, Linked, Mail

\* A delivery changes pc and moved of itself alone.
LEMMA OthersLinked ==
  ASSUME TypeOK, NEW d \in Deliverers, Delivery(d) \/ Term(d), NEW m \in Mail, m # d
  PROVE  Linked(m)' <=> Linked(m)
BY DEF TypeOK, Delivery, Term, Create, Register, Write, Sync, Link, Unlink, Deregister,
       Goto, Moved, Linked, Mail

\* Once linked, for ever linked.
LEMMA StaysLinked ==
  ASSUME TypeOK, [Next]_vars, NEW m \in Mail, Linked(m)
  PROVE  Linked(m)'
<1>1. ASSUME NEW d \in Deliverers, Delivery(d) \/ Term(d) PROVE Linked(m)'
  <2>1. CASE m # d
    BY <1>1, <2>1, OthersLinked
  <2>2. CASE m = d
    BY <1>1, <2>2 DEF TypeOK, Delivery, Term, Create, Register, Write, Sync, Link, Unlink,
                      Deregister, At, Goto, Moved, Linked, Ended
  <2> QED
    BY <2>1, <2>2
<1>2. CASE UNCHANGED <<pc, moved>>
  BY <1>2 DEF Linked
<1> QED
  BY <1>1, <1>2 DEF Next, Fetching, Commits, Rest, Open, ReadAll, Fetch, UnlinkMail,
     NextPath, Commit, Fails, Restart, See, Erase, vars, dirVars, deliverVars

\* A step puts into new only what it links, and into cur what was in new.
LEMMA NamesOf ==
  ASSUME TypeOK, [Next]_vars, NEW m \in Mail
  PROVE  /\ m \in new' \ new => Link(m) /\ m \in Deliverers /\ cur' = cur
         /\ m \in cur' \ cur => m \in new \ new'
<1>1. ASSUME NEW d \in Deliverers, Delivery(d) \/ Term(d) 
      PROVE  /\ m \in new' \ new => Link(m) /\ m \in Deliverers
             /\ cur' = cur
  <2>1. CASE Link(d)
    BY <2>1 DEF Link
  <2>2. CASE ~Link(d)
    BY <1>1, <2>2 DEF Delivery, Term, Create, Register, Write, Sync, Unlink, Deregister,
                      dirVars
  <2> QED
    BY <2>1, <2>2
<1>2. ASSUME NEW x \in unlinklist, UnlinkMail(x) PROVE new' \subseteq new /\ cur' \subseteq cur
  BY <1>2 DEF UnlinkMail
<1>3. ASSUME NEW n \in Mail, See(n) \/ Erase(n) 
      PROVE  new' \subseteq new /\ \A k \in cur' \ cur : k \in new \ new'
  BY <1>3 DEF See, Erase
<1>4. CASE UNCHANGED <<new, cur>>
  BY <1>4
<1> QED
  BY <1>1, <1>2, <1>3, <1>4 DEF Next, Fetching, Commits, Rest, Open, ReadAll, Fetch,
     NextPath, Commit, Fails, Restart, vars, dirVars

\* A mail on its way is not in the maildir.
LEMMA LinkNew ==
  ASSUME TypeOK, NEW d \in Deliverers, At(d, "link") \/ At(d, "write") \/ At(d, "sync") 
                                        \/ At(d, "create")
  PROVE  ~Linked(d)
BY DEF Linked, At

LEMMA NamesStep == TypeOK /\ NamesInv /\ [Next]_vars => NamesInv'
<1> SUFFICES ASSUME TypeOK, NamesInv, [Next]_vars PROVE NamesInv'
  OBVIOUS
<1>0. new \cup cur \subseteq Mail /\ new' \cup cur' \subseteq Mail
  BY TypeStep DEF TypeOK
<1>1. (new \cap cur = {})'
  <2> SUFFICES ASSUME NEW m \in new' \cap cur' PROVE FALSE
    OBVIOUS
  <2>1. CASE m \in new
    BY <1>0, <2>1, NamesOf DEF NamesInv
  <2>2. CASE m \notin new
    BY <1>0, <2>2, NamesOf, LinkNew DEF NamesInv, Link
  <2> QED
    BY <2>1, <2>2
<1>2. ASSUME NEW m \in new' \cup cur' PROVE Linked(m)'
  <2>1. CASE m \in new \cup cur
    BY <1>0, <2>1, StaysLinked DEF NamesInv
  <2>2. CASE m \notin new \cup cur
    <3>1. Link(m) /\ m \in Deliverers /\ m \in new' \ new
      BY <1>0, <1>2, <2>2, NamesOf
    <3> QED
      BY <3>1, <2>2 DEF Link, Linked, Goto, Moved, TypeOK
  <2> QED
    BY <2>1, <2>2
<1>3. (\A d \in Deliverers : pc[d] = "link" => text[d] = "whole")'
  <2>1. ASSUME NEW d \in Deliverers, Delivery(d) \/ Term(d),
               NEW e \in Deliverers, (pc[e] = "link")'
        PROVE  (text[e] = "whole")'
    <3>1. CASE e # d
      BY <2>1, <3>1 DEF NamesInv, TypeOK, Delivery, Term, Create, Register, Write, Sync,
         Link, Unlink, Deregister, Goto, dirVars, Mail
    <3>2. CASE e = d
      BY <2>1, <3>2 DEF TypeOK, Delivery, Term, Create, Register, Write, Sync,
         Link, Unlink, Deregister, Goto, At, Mail, Clash
    <3> QED
      BY <3>1, <3>2
  <2>2. CASE UNCHANGED <<pc, text>>
    BY <2>2 DEF NamesInv
  <2> QED
    BY <2>1, <2>2 DEF Next, Fetching, Commits, Rest, Open, ReadAll, Fetch, UnlinkMail,
       NextPath, Commit, Fails, Restart, See, Erase, vars, dirVars, deliverVars
<1>4. ASSUME NEW m \in new' \cup cur' PROVE (text[m] = "whole")'
  <2>1. CASE m \in new \cup cur
    <3>1. Linked(m) /\ text[m] = "whole" /\ m \in Mail
      BY <1>0, <2>1 DEF NamesInv, FoundWhole
    <3>2. ASSUME NEW d \in Deliverers, Create(d) \/ Write(d) \/ Sync(d) PROVE m # d
      BY <3>1, <3>2, LinkNew DEF Create, Write, Sync
    <3>3. ASSUME NEW d \in Deliverers, Create(d) \/ Write(d) \/ Sync(d) PROVE text'[m] = text[m]
      BY <3>1, <3>2, <3>3 DEF Create, Write, Sync, TypeOK
    <3>4. text' = text \/ \E d \in Deliverers : Create(d) \/ Write(d) \/ Sync(d)
      BY DEF Next, Delivery, Term, Register, Link, Unlink, Deregister, Fetching, Commits, Rest,
         Open, ReadAll, Fetch, UnlinkMail, NextPath, Commit, Fails, Restart, See, Erase, vars,
         dirVars
    <3> QED
      BY <3>1, <3>3, <3>4
  <2>2. CASE m \notin new \cup cur
    <3>1. Link(m) /\ m \in Deliverers
      BY <1>0, <1>4, <2>2, NamesOf
    <3> QED
      BY <3>1 DEF Link, At, NamesInv
  <2> QED
    BY <2>1, <2>2
<1> QED
  BY <1>1, <1>2, <1>3, <1>4 DEF NamesInv, FoundWhole

\* Nothing that has gone from new, or from the maildir, comes back.
LEMMA StaysPast ==
  ASSUME TypeOK, NamesInv, [Next]_vars, NEW m \in Mail
  PROVE  /\ PastNew(m) => PastNew(m)'
         /\ Gone(m) => Gone(m)'
BY StaysLinked, NamesOf, LinkNew DEF PastNew, Gone, Link

-----------------------------------------------------------------------------
(* What a run fetches and drops.                                           *)

LEMMA TakenInit == Init => TakenInv
BY DEF Init, TakenInv

\* What a deliver child or the mail reader does leaves the fetch as it is.
LEMMA TakenOthers ==
  ASSUME TypeOK, NamesInv, TakenInv, [Next]_vars, UNCHANGED <<st, index, listed, taken>>
  PROVE  TakenInv'
BY StaysPast DEF TakenInv

LEMMA TakenStep == TypeOK /\ NamesInv /\ TakenInv /\ [Next]_vars => TakenInv'
<1> SUFFICES ASSUME TypeOK, NamesInv, TakenInv, [Next]_vars PROVE TakenInv'
  OBVIOUS
<1>1. CASE Open
  <2>1. st = "open" /\ taken' = taken /\ index' = index
    BY <1>1 DEF Open, Handler
  <2> QED
    BY <2>1, StaysPast DEF TakenInv
<1>2. CASE ReadAll
  BY <1>2, StaysPast DEF ReadAll, TakenInv, scanVars
<1>3. ASSUME NEW m \in Mail, Fetch(m) PROVE TakenInv'
  <2>1. /\ st = "mail" /\ index' = index /\ index \in 1 .. 2 /\ m \notin listed
        /\ listed' = listed \cup {m} /\ new' = new /\ cur' = cur /\ st' \in {"mail", "aborted"}
    BY <1>3, PathFacts DEF Fetch, Handler, Aborted, TypeOK, dirVars
  <2>2. CASE taken' = taken
    BY <2>1, <2>2, StaysPast DEF TakenInv
  <2>3. CASE taken' # taken
    <3>1. m \in In(Paths[index]) /\ taken' = [taken EXCEPT ![m] = @ + 1]
      BY <1>3, <2>3 DEF Fetch
    <3>2. index = 1 => PastNew(m)
      BY <2>1, <3>1, PathFacts DEF NamesInv, PastNew
    <3>3. index = 2 => ~PastNew(m)
      BY <2>1, <3>1, PathFacts DEF PastNew
    <3>4. taken[m] = 0
      BY <2>1, <3>2, <3>3 DEF TakenInv
    <3>5. taken'[m] = 1 /\ \A n \in Mail : n # m => taken'[n] = taken[n]
      BY <3>1, <3>4 DEF TypeOK
    <3> QED
      BY <2>1, <3>2, <3>5, StaysPast DEF TakenInv
  <2> QED
    BY <2>2, <2>3
<1>4. ASSUME NEW x \in unlinklist, UnlinkMail(x) PROVE TakenInv'
  <2>1. st # "open" /\ st' # "open" /\ index' = index /\ listed' = listed /\ taken' = taken
    BY <1>4 DEF UnlinkMail, Handler, Aborted, scanVars
  <2> QED
    BY <2>1, StaysPast DEF TakenInv
<1>5. CASE NextPath
  <2>1. /\ taken' = taken /\ listed' = listed /\ st # "open"
        /\ index = 1 => index' = 2
        /\ index \in 2 .. 3 => index' = 3 /\ st' # "open"
    BY <1>5, PathFacts DEF NextPath, Handler, TypeOK
  <2>2. index \in 1 .. 3
    BY PathFacts DEF TypeOK
  <2> QED
    BY <2>1, <2>2, StaysPast DEF TakenInv
<1>6. ASSUME NEW x \in flight, Commit(x) PROVE TakenInv'
  BY <1>6, TakenOthers DEF Commit, scanVars
<1>7. CASE Fails
  BY <1>7, StaysPast DEF Fails, Aborted, scanVars, TakenInv
<1>8. CASE Restart
  BY <1>8 DEF Restart, TakenInv
<1>9. CASE UNCHANGED <<st, index, listed, taken>>
  BY <1>9, TakenOthers
<1> QED
  BY <1>1, <1>2, <1>3, <1>4, <1>5, <1>6, <1>7, <1>8, <1>9 DEF Next, Delivery, Term, Create,
     Register, Write, Sync, Link, Unlink, Deregister, Fetching, Commits, See, Erase, Rest,
     vars, fetchVars, scanVars

LEMMA DroppedInit == Init => DroppedInv
BY DEF Init, DroppedInv

LEMMA DroppedStep == TypeOK /\ NamesInv /\ DroppedInv /\ [Next]_vars => DroppedInv'
<1> SUFFICES ASSUME TypeOK, NamesInv, DroppedInv, [Next]_vars PROVE DroppedInv'
  OBVIOUS
<1>0. dropped \subseteq Mail
  BY DEF TypeOK
<1>1. CASE Open \/ ReadAll \/ \E m \in Mail : Fetch(m)
  <2>1. /\ dropped' = dropped /\ st' \notin {"leaving", "done"} /\ st # "aborted"
        /\ st' # "aborted" => unlinklist' = unlinklist
    BY <1>1 DEF Open, ReadAll, Fetch, Handler, Aborted
  <2> QED
    BY <1>0, <2>1, StaysPast DEF DroppedInv
<1>2. ASSUME NEW x \in unlinklist, UnlinkMail(x) PROVE DroppedInv'
  <2>1. CASE x.mail \in In(x.dir)
    <3>1. /\ dropped' = dropped /\ unlinklist' = unlinklist \ {x} /\ st # "aborted"
          /\ st' = (IF unlinklist' = {} THEN "leaving" ELSE "unlinking")
          /\ cur' = (IF x.dir = "cur" THEN cur \ {x.mail} ELSE cur)
          /\ new' = (IF x.dir = "new" THEN new \ {x.mail} ELSE new)
      BY <1>2, <2>1 DEF UnlinkMail, Handler
    <3>2. x.mail \in Mail /\ x.dir \in {"cur", "new"}
      BY DEF TypeOK
    <3>3. x.mail \in new \cup cur /\ x.mail \notin new' \cup cur'
      BY <2>1, <3>1, <3>2 DEF In, NamesInv
    <3>4. Gone(x.mail)'
      BY <3>2, <3>3, StaysLinked DEF Gone, NamesInv
    <3>5. ASSUME NEW m \in dropped PROVE Gone(m)' \/ \E y \in unlinklist' : y.mail = m
      <4>1. CASE Gone(m)
        BY <1>0, <4>1, StaysPast
      <4>2. ASSUME NEW y \in unlinklist, y.mail = m PROVE Gone(m)' \/ \E z \in unlinklist' : z.mail = m
        BY <4>2, <3>1, <3>4
      <4> QED
        BY <3>1, <4>1, <4>2 DEF DroppedInv
    <3> QED
      BY <3>1, <3>5 DEF DroppedInv
  <2>2. CASE x.mail \notin In(x.dir)
    BY <1>2, <2>2 DEF UnlinkMail, Aborted, DroppedInv
  <2> QED
    BY <2>1, <2>2
<1>3. CASE NextPath
  <2>1. /\ st # "aborted" /\ unlinklist = {} /\ dropped' = dropped /\ unlinklist' = unlinklist
        /\ st' # "leaving"
    BY <1>3 DEF NextPath, Handler, DroppedInv
  <2> QED
    BY <1>0, <2>1, StaysPast DEF DroppedInv
<1>4. ASSUME NEW x \in flight, Commit(x) PROVE DroppedInv'
  <2>1. /\ st \notin {"leaving", "done", "aborted"} /\ st' = st
        /\ \/ unlinklist' = unlinklist \cup {x} /\ dropped' = dropped \cup {x.mail}
           \/ unlinklist' = unlinklist /\ dropped' = dropped
    BY <1>4 DEF Commit, Leaving, Over
  <2> QED
    BY <1>0, <2>1, StaysPast DEF DroppedInv
<1>5. CASE Fails
  BY <1>5 DEF Fails, Aborted, DroppedInv
<1>6. CASE Restart
  BY <1>6 DEF Restart, DroppedInv
<1>7. CASE UNCHANGED <<st, dropped, unlinklist>>
  BY <1>0, <1>7, StaysPast DEF DroppedInv
<1> QED
  BY <1>1, <1>2, <1>3, <1>4, <1>5, <1>6, <1>7 DEF Next, Delivery, Term, Create,
     Register, Write, Sync, Link, Unlink, Deregister, Fetching, Commits, See, Erase, Rest,
     vars, fetchVars

-----------------------------------------------------------------------------
(* The theorems.                                                           *)

MaildirInv == TypeOK /\ NamesInv /\ TakenInv /\ DroppedInv

LEMMA MaildirInvHolds == Spec => []MaildirInv
<1>1. Init => MaildirInv
  BY TypeInit, NamesInit, TakenInit, DroppedInit DEF MaildirInv
<1>2. MaildirInv /\ [Next]_vars => MaildirInv'
  BY TypeStep, NamesStep, TakenStep, DroppedStep DEF MaildirInv
<1> QED
  BY <1>1, <1>2, PTL DEF Spec

\* Whoever finds a mail in the maildir finds the whole of it, though a delivery
\* may be killed between any two system calls and begins again when a name is
\* taken (deliver_maildir_deliver, safemove).
THEOREM MailsAreWhole == Spec => []FoundWhole
<1>1. MaildirInv => FoundWhole
  BY DEF MaildirInv, NamesInv
<1> QED
  BY <1>1, MaildirInvHolds, PTL

\* A run of the fetch hands a mail to the loop at most once, whatever the mail
\* reader moves meanwhile: fetch_maildir_makepaths puts cur before new.
THEOREM MailsFetchedOnce == Spec => []FetchedOnce
<1>1. MaildirInv => FetchedOnce
  <2> SUFFICES ASSUME MaildirInv, NEW m \in Mail PROVE taken[m] <= 1
    BY DEF FetchedOnce
  <2> QED
    BY DEF MaildirInv, TypeOK, TakenInv
<1> QED
  BY <1>1, MaildirInvHolds, PTL

\* When fetch_maildir_state_next has ended the fetch, the mails whose commit has
\* put them on the unlink list are in the maildir no more, wherever they were.
THEOREM DroppedMailsAreGone == Spec => []DroppedAreGone
<1>1. MaildirInv => DroppedAreGone
  BY DEF MaildirInv, DroppedInv, DroppedAreGone, Gone
<1> QED
  BY <1>1, MaildirInvHolds, PTL
=============================================================================
